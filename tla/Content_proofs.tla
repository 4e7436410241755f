---------------------------- MODULE Content_proofs ----------------------------
(***************************************************************************)
(* Exchange: what a file says, leaf by leaf, is what the map that is       *)
(* loaded from it says, and what is written says the same; the published   *)
(* schema and the validator agree on shape.                                *)
(*                                                                         *)
(* A value spells an object if its pairs are the object's strings, its     *)
(* comments and nothing else.  A file without findings spells its map, and *)
(* so does the file that is written from a good map; what spells the same  *)
(* map has the same leaves.                                                *)
(***************************************************************************)
EXTENDS Exchange_proofs

(***************************************************************************)
(* The values of a file, of which no mapping has a key twice.              *)
(***************************************************************************)
OnceEntries == Once(Once({}))
OnceSections == Once(OnceEntries)
OnceBindings == Once(OnceSections)
OnceBlocks == Once(OnceBindings)

(* No key is a merge key.                                                  *)
NoMerge(pairs) == \A p \in Range(pairs) : p.key.type # "merge"

LEMMA OnceParts ==
  ASSUME NEW S, NEW v \in Once(S)
  PROVE  /\ v \in Values(S)
         /\ v.type = "mapping" =>
              /\ v.pairs \in Seq(PairsOf(S)) /\ UniqueKeys(v.pairs) /\ NoMerge(v.pairs)
              /\ \A n \in DOMAIN v.pairs : v.pairs[n] \in PairsOf(S) /\ v.pairs[n] \in Range(v.pairs)
              /\ \A p \in Range(v.pairs) : p \in PairsOf(S) /\ p.value \in S
              /\ Parts(v) = Range(v.pairs)
         /\ v.type = "list" =>
              /\ v.items \in Seq(ItemsOf(S))
              /\ \A n \in DOMAIN v.items : v.items[n] \in ItemsOf(S) /\ v.items[n] \in Range(v.items)
              /\ \A i \in Range(v.items) : i \in ItemsOf(S) /\ i.value \in S
              /\ Parts(v) = Range(v.items)
         /\ \A k : v.type = "mapping" /\ Has(v, k) =>
              /\ At(v, k) \in S /\ PairAt(v, k) \in Range(v.pairs)
              /\ PairAt(v, k).key = String(k) /\ At(v, k) = PairAt(v, k).value
  <1>1. v \in Values(S) /\ (v.type = "mapping" => UniqueKeys(v.pairs) /\ NoMerge(v.pairs))
    BY DEF Once, NoMerge
  <1>2. ASSUME v.type = "mapping"
        PROVE  /\ v.pairs \in Seq(PairsOf(S)) /\ UniqueKeys(v.pairs) /\ NoMerge(v.pairs)
               /\ \A n \in DOMAIN v.pairs : v.pairs[n] \in PairsOf(S) /\ v.pairs[n] \in Range(v.pairs)
               /\ \A p \in Range(v.pairs) : p \in PairsOf(S) /\ p.value \in S
               /\ Parts(v) = Range(v.pairs)
    <2>1. v.pairs \in Seq(PairsOf(S))
      BY <1>1, <1>2, ValueParts
    <2>2. \A p \in Range(v.pairs) : p \in PairsOf(S)
      BY <2>1, ListProperties
    <2>3. \A p \in PairsOf(S) : p.value \in S
      BY DEF PairsOf
    <2>4. Parts(v) = Range(v.pairs)
      BY <1>2 DEF Parts
    <2>5. \A n \in DOMAIN v.pairs : v.pairs[n] \in PairsOf(S) /\ v.pairs[n] \in Range(v.pairs)
      BY <2>1, ListProperties DEF Range
    <2> QED
      BY <1>1, <1>2, <2>1, <2>2, <2>3, <2>4, <2>5
  <1>3. ASSUME v.type = "list"
        PROVE  /\ v.items \in Seq(ItemsOf(S))
               /\ \A n \in DOMAIN v.items : v.items[n] \in ItemsOf(S) /\ v.items[n] \in Range(v.items)
               /\ \A i \in Range(v.items) : i \in ItemsOf(S) /\ i.value \in S
               /\ Parts(v) = Range(v.items)
    <2>1. v.items \in Seq(ItemsOf(S))
      BY <1>1, <1>3, ValueParts
    <2>2. \A i \in Range(v.items) : i \in ItemsOf(S)
      BY <2>1, ListProperties
    <2>3. \A i \in ItemsOf(S) : i.value \in S
      BY DEF ItemsOf
    <2>4. Parts(v) = Range(v.items)
      BY <1>3 DEF Parts
    <2>5. \A n \in DOMAIN v.items : v.items[n] \in ItemsOf(S) /\ v.items[n] \in Range(v.items)
      BY <2>1, ListProperties DEF Range
    <2> QED
      BY <2>1, <2>2, <2>3, <2>4, <2>5
  <1>4. ASSUME NEW k, v.type = "mapping", Has(v, k)
        PROVE  /\ At(v, k) \in S /\ PairAt(v, k) \in Range(v.pairs)
               /\ PairAt(v, k).key = String(k) /\ At(v, k) = PairAt(v, k).value
    BY <1>2, <1>4, AtValue
  <1> QED
    BY <1>1, <1>2, <1>3, <1>4

LEMMA OnceDepths ==
  /\ \A S : Scalars \subseteq Once(S)
  /\ OnceEntries \subseteq EntryValues /\ OnceSections \subseteq SectionValues
  /\ OnceBindings \subseteq DocumentValues /\ OnceBlocks \subseteq Values(DocumentValues)
  /\ ParsedFiles = {f \in FileType : f.root \in Once(OnceBlocks)}
  <1>1. \A S : Once(S) \subseteq Values(S)
    BY DEF Once
  <1>2. \A S : Scalars \subseteq Once(S)
    <2> TAKE S
    <2>1. \A v \in Scalars : v \in Values(S) /\ v.type \notin {"list", "mapping"}
      BY DEF Scalars, ScalarTypes, Values
    <2> QED
      BY <2>1 DEF Once
  <1>3. Once({}) \subseteq Values({})
    BY <1>1
  <1>4. Values(Once({})) \subseteq Values(Values({}))
    BY <1>3, ValuesMonotonic
  <1>5. OnceEntries \subseteq EntryValues
    BY <1>1, <1>4, Layers DEF OnceEntries
  <1>6. Values(OnceEntries) \subseteq Values(EntryValues)
    BY <1>5, ValuesMonotonic
  <1>7. OnceSections \subseteq SectionValues
    BY <1>1, <1>6, Layers DEF OnceSections
  <1>8. Values(OnceSections) \subseteq Values(SectionValues)
    BY <1>7, ValuesMonotonic
  <1>9. OnceBindings \subseteq DocumentValues
    BY <1>1, <1>8, Layers DEF OnceBindings
  <1>10. Values(OnceBindings) \subseteq Values(DocumentValues)
    BY <1>9, ValuesMonotonic
  <1>11. OnceBlocks \subseteq Values(DocumentValues)
    BY <1>1, <1>10 DEF OnceBlocks
  <1>12. ParsedFiles = {f \in FileType : f.root \in Once(OnceBlocks)}
    BY DEF ParsedFiles, OnceBlocks, OnceBindings, OnceSections, OnceEntries
  <1> QED
    BY <1>2, <1>5, <1>7, <1>9, <1>11, <1>12

(***************************************************************************)
(* What a file without findings spells.                                    *)
(***************************************************************************)
LEMMA FlatClean ==
  ASSUME NEW v, NEW node \in Nodes, FlatFindings(v, node) = {}
  PROVE  /\ v.type = "mapping" /\ KeysOf(v) \subseteq {String(k) : k \in DOMAIN Shape[node].keys}
         /\ \A k \in Shape[node].required : Has(v, k)
         /\ \A k \in DOMAIN Shape[node].keys : Has(v, k) =>
              HasA(v, k, "string") /\ Allowed(v, k, Shape[node].keys[k])
  <1> DEFINE keys == Shape[node].keys
             present == {k \in DOMAIN keys : Has(v, k)}
             unknown == KeysOf(v) \ {String(k) : k \in DOMAIN keys}
             missing == {k \in Shape[node].required : ~Has(v, k)}
             untexts == {k \in present : At(v, k).type # "string"}
             unroles == {k \in present : At(v, k).type = "string" /\ ~Allowed(v, k, keys[k])}
  <1>1. v.type = "mapping"
    BY DEF FlatFindings
  <1>2. FlatFindings(v, node) =
          ClosedKeys(v, node) \cup Code("INV-CLOSED-KEYS", untexts)
            \cup Code("INV-ROLE-VALUES", unroles)
    BY <1>1 DEF FlatFindings
  <1>3. Code("INV-CLOSED-KEYS", unknown \cup missing) \subseteq ClosedKeys(v, node)
    BY DEF ClosedKeys
  <1> HIDE DEF unknown, missing, untexts, unroles
  <1>4. unknown = {} /\ missing = {} /\ untexts = {} /\ unroles = {}
    BY <1>2, <1>3 DEF Code
  <1>5. KeysOf(v) \subseteq {String(k) : k \in DOMAIN keys}
    BY <1>4 DEF unknown
  <1>6. \A k \in Shape[node].required : Has(v, k)
    BY <1>4 DEF missing
  <1>7. \A k \in present : At(v, k).type = "string" /\ Allowed(v, k, keys[k])
    BY <1>4 DEF untexts, unroles
  <1> QED
    BY <1>1, <1>5, <1>6, <1>7 DEF HasA

LEMMA FlatSpelled ==
  ASSUME NEW S, NEW v \in Once(Once(S)), Unnoted(v),
         NEW node \in Nodes, FlatFindings(v, node) = {}, NEW C, NEW c \in C
  PROVE  /\ Flat(v, node, c) \in EntryType(node, C) /\ Flat(v, node, c).comment = c
         /\ Spells(v, Flat(v, node, c))
  <1> DEFINE keys == Shape[node].keys
             x == Flat(v, node, c)
             D == {k \in DOMAIN keys : Allowed(v, k, keys[k])}
  <1>1. /\ v.type = "mapping" /\ KeysOf(v) \subseteq {String(k) : k \in DOMAIN keys}
        /\ \A k \in Shape[node].required : Has(v, k)
        /\ \A k \in DOMAIN keys : Has(v, k) => HasA(v, k, "string") /\ Allowed(v, k, keys[k])
    BY FlatClean
  <1>2. v \in Values(Values(S))
    <2>1. Once(S) \subseteq Values(S)
      BY DEF Once
    <2> QED
      BY <2>1, OnceParts, ValuesMonotonic
  <1>3. x \in EntryType(node, C)
    BY <1>2, FlatAccepted
  <1>4. Shape[node].required \subseteq D
    BY <1>1, ShapeFacts DEF Nodes
  <1>5. x = [strings |-> [k \in D |-> At(v, k).text], comment |-> c]
    <2>1. Strings(v, node) = [k \in D |-> At(v, k).text]
      BY DEF Strings
    <2> HIDE DEF D
    <2>2. Shape[node].required \subseteq DOMAIN Strings(v, node)
      BY <1>4, <2>1
    <2> QED
      BY <1>1, <2>1, <2>2 DEF Flat
  <1>6. /\ UniqueKeys(v.pairs) /\ Parts(v) = Range(v.pairs)
        /\ \A p \in Range(v.pairs) : p \in PairsOf(Once(S)) /\ p.value \in Once(S)
    BY <1>1, OnceParts
  <1>7. ASSUME NEW p \in Range(v.pairs)
        PROVE  \E k \in D : p = Pair(String(k), String(At(v, k).text), None)
    <2>1. PICK k \in DOMAIN keys : p.key = String(k)
      BY <1>1 DEF KeysOf
    <2>2. Has(v, k) /\ At(v, k) = p.value
      BY <1>6, <2>1, OnePairAt
    <2>3. k \in D /\ p.value.type = "string"
      BY <1>1, <2>2 DEF HasA
    <2>4. p.value = String(p.value.text)
      <3>1. p.value \in Scalars
        BY <1>6, <2>3, OnceParts, ValueParts DEF ScalarTypes
      <3> QED
        BY <2>3, <3>1 DEF Scalars, String, Scalar
    <2>5. p.note = None
      BY <1>6 DEF Unnoted
    <2>6. p = [key |-> p.key, value |-> p.value, note |-> p.note]
      BY <1>6 DEF PairsOf
    <2> HIDE DEF D
    <2> QED
      BY <2>1, <2>2, <2>3, <2>4, <2>5, <2>6 DEF Pair
  <1>8. ASSUME NEW k \in D
        PROVE  Pair(String(k), String(At(v, k).text), None) \in Range(v.pairs)
    <2>1. Has(v, k)
      BY DEF Allowed, HasA
    <2>2. PairAt(v, k) \in Range(v.pairs) /\ PairAt(v, k).key = String(k)
      BY <1>1, <2>1, OnceParts
    <2>3. PICK l \in D : PairAt(v, k) = Pair(String(l), String(At(v, l).text), None)
      BY <1>7, <2>2
    <2>4. l = k
      BY <2>2, <2>3, PairIs, StringsDiffer
    <2> QED
      BY <2>2, <2>3, <2>4
  <1> HIDE DEF D
  <1>9. x.strings = [k \in D |-> At(v, k).text] /\ x.comment = c
    BY <1>5
  <1> HIDE DEF x
  <1>10. DOMAIN x.strings = D /\ \A k \in D : x.strings[k] = At(v, k).text
    BY <1>9
  <1>11. Range(v.pairs) = {Pair(String(k), String(x.strings[k]), None) : k \in DOMAIN x.strings}
    <2>1. \A p \in Range(v.pairs) : \E k \in DOMAIN x.strings : p = Pair(String(k), String(x.strings[k]), None)
      BY <1>7, <1>10
    <2>2. \A k \in DOMAIN x.strings : Pair(String(k), String(x.strings[k]), None) \in Range(v.pairs)
      BY <1>8, <1>10
    <2> QED
      BY <2>1, <2>2
  <1>12. Spells(v, x)
    BY <1>1, <1>11 DEF Spells
  <1> QED
    BY <1>3, <1>9, <1>12 DEF x

SpellsEntries(w, s) ==
    /\ w.type = "list" /\ DOMAIN w.items = DOMAIN s
    /\ \A n \in DOMAIN s : Spells(w.items[n].value, s[n]) /\ w.items[n].note = s[n].comment

LEMMA EntriesSpelled ==
  ASSUME NEW w \in OnceSections, w.type = "list", NEW node \in Nodes,
         \A i \in Range(w.items) : FlatFindings(i.value, node) = {} /\ Unnoted(i.value)
  PROVE  SpellsEntries(w, Entries(w.items, node)) /\ Entries(w.items, node) \in Seq(EntryType(node, Note))
  <1> DEFINE E == EntryType(node, Note)
             s == [n \in DOMAIN w.items |-> Flat(w.items[n].value, node, w.items[n].note)]
  <1>1. /\ w.items \in Seq(ItemsOf(OnceEntries))
        /\ \A n \in DOMAIN w.items : w.items[n] \in ItemsOf(OnceEntries) /\ w.items[n] \in Range(w.items)
    BY OnceParts DEF OnceSections
  <1>2. ASSUME NEW n \in DOMAIN w.items
        PROVE  /\ s[n] \in E /\ s[n].comment = w.items[n].note
               /\ Spells(w.items[n].value, s[n])
    <2>1. w.items[n].value \in OnceEntries /\ w.items[n].note \in Note
      BY <1>1 DEF ItemsOf
    <2>2. FlatFindings(w.items[n].value, node) = {} /\ Unnoted(w.items[n].value)
      BY <1>1
    <2> QED
      BY <2>1, <2>2, FlatSpelled DEF OnceEntries
  <1>3. s \in Seq(E)
    <2>1. \A n \in DOMAIN w.items : s[n] \in E
      BY <1>2
    <2> HIDE DEF E
    <2> QED
      BY <1>1, <2>1, MappedList
  <1>4. Entries(w.items, node) = Represented(s)
    BY DEF Entries
  <1>5. None \notin E
    BY EntryKinds, NotesAreTexts
  <1>6. Seq(E) \subseteq Seq(E \cup {None})
    <2> HIDE DEF E
    <2> QED
      BY SeqMonotonic
  <1>7. Represented(s) = s
    <2> HIDE DEF E, s
    <2> QED
      BY <1>3, <1>5, <1>6, RepresentedList
  <1>8. DOMAIN s = DOMAIN w.items
    OBVIOUS
  <1>9. \A n \in DOMAIN s : Spells(w.items[n].value, s[n]) /\ w.items[n].note = s[n].comment
    BY <1>2
  <1> HIDE DEF s
  <1> QED
    BY <1>3, <1>4, <1>7, <1>8, <1>9 DEF SpellsEntries

SpellsFields(w, d) ==
    /\ w.type = "mapping" /\ DOMAIN w.pairs = DOMAIN d
    /\ \A n \in DOMAIN d : /\ w.pairs[n].key.text = d[n].key /\ Spells(w.pairs[n].value, d[n].value)
                           /\ w.pairs[n].note = d[n].value.comment

(* No two keys are one as Python strings.                                  *)
Apart(pairs) == \A m, n \in DOMAIN pairs : pairs[m].key.text = pairs[n].key.text => m = n

LEMMA FieldsSpelled ==
  ASSUME NEW w \in OnceSections, w.type = "mapping", Apart(w.pairs),
         \A p \in Range(w.pairs) : FlatFindings(p.value, "field_locator") = {} /\ Unnoted(p.value)
  PROVE  /\ SpellsFields(w, Fields(w.pairs))
         /\ Fields(w.pairs) \in DictsOf(Texts, EntryType("field_locator", Note))
  <1> DEFINE E == [key : Texts, value : EntryType("field_locator", Note)]
             s == [n \in DOMAIN w.pairs |-> FieldEntry(w.pairs[n])]
  <1>1. /\ w.pairs \in Seq(PairsOf(OnceEntries))
        /\ \A n \in DOMAIN w.pairs : w.pairs[n] \in PairsOf(OnceEntries) /\ w.pairs[n] \in Range(w.pairs)
    BY OnceParts DEF OnceSections
  <1>2. ASSUME NEW n \in DOMAIN w.pairs
        PROVE  /\ s[n] \in E /\ s[n].key = w.pairs[n].key.text
               /\ s[n].value.comment = w.pairs[n].note
               /\ Spells(w.pairs[n].value, s[n].value)
    <2> DEFINE p == w.pairs[n]
               x == Flat(p.value, "field_locator", p.note)
    <2>1. p.value \in OnceEntries /\ p.note \in Note /\ p.key.text \in Texts
      BY <1>1 DEF PairsOf, Scalars
    <2>2. FlatFindings(p.value, "field_locator") = {} /\ Unnoted(p.value)
      BY <1>1
    <2>3. x \in EntryType("field_locator", Note) /\ x.comment = p.note /\ Spells(p.value, x)
      BY <2>1, <2>2, FlatSpelled DEF Nodes, OnceEntries
    <2>4. x # None
      BY <2>3, EntryKinds, NotesAreTexts DEF Nodes
    <2>5. s[n] = Keyed(p.key.text, x)
      BY <2>4 DEF FieldEntry
    <2> HIDE DEF x, p, s
    <2> QED
      BY <2>1, <2>3, <2>5 DEF Keyed, p
  <1>3. s \in Seq(E)
    <2>1. \A n \in DOMAIN w.pairs : s[n] \in E
      BY <1>2
    <2> HIDE DEF E
    <2> QED
      BY <1>1, <2>1, MappedList
  <1>4. Fields(w.pairs) = Dict(s)
    BY DEF Fields
  <1>5. None \notin E
    BY EntryKinds, NotesAreTexts DEF Nodes
  <1>6. DOMAIN s = DOMAIN w.pairs
    OBVIOUS
  <1>7. UniqueKeys(s)
    <2>1. \A n \in DOMAIN s : s[n].key = w.pairs[n].key.text
      BY <1>2
    <2> HIDE DEF s
    <2> QED
      BY <1>6, <2>1 DEF UniqueKeys, Apart
  <1>8. Dict(s) = s
    <2> HIDE DEF E, s
    <2> QED
      BY <1>3, <1>5, <1>7, DictOfUnique
  <1>9. \A n \in DOMAIN s : /\ w.pairs[n].key.text = s[n].key
                            /\ Spells(w.pairs[n].value, s[n].value)
                            /\ w.pairs[n].note = s[n].value.comment
    BY <1>2
  <1>10. Fields(w.pairs) = s
    BY <1>4, <1>8
  <1>11. SpellsFields(w, s)
    <2> HIDE DEF s
    <2> QED
      BY <1>6, <1>9 DEF SpellsFields
  <1>12. s \in DictsOf(Texts, EntryType("field_locator", Note))
    <2> HIDE DEF s
    <2> QED
      BY <1>3, <1>7 DEF DictsOf
  <1> QED
    BY <1>10, <1>11, <1>12

(* The sections of a binding that its object has, without comments.        *)
SpellsBinding(v, b) ==
    /\ v.type = "mapping" /\ UniqueKeys(v.pairs) /\ Unnoted(v)
    /\ KeysOf(v) \subseteq {String(k) : k \in SectionKeys}
    /\ Has(v, "locators") /\ SpellsEntries(At(v, "locators"), b.locators)
    /\ Has(v, "compare_via") <=> b.compare_via # None
    /\ b.compare_via # None => At(v, "compare_via") = String(b.compare_via)
    /\ Has(v, "fields") <=> b.fields # None
    /\ b.fields # None => SpellsFields(At(v, "fields"), b.fields)
    /\ Has(v, "wire") <=> b.wire # None
    /\ b.wire # None => Spells(At(v, "wire"), b.wire)
    /\ Has(v, "asserted_by") <=> b.asserted_by # None
    /\ b.asserted_by # None => SpellsEntries(At(v, "asserted_by"), b.asserted_by)

(* Comments of a binding are at its entries.                               *)
NotedAtEntries(v) ==
    /\ Unnoted(v) /\ (Has(v, "wire") => Unnoted(At(v, "wire")))
    /\ \A k \in {"locators", "fields", "asserted_by"} :
         Has(v, k) => \A x \in Parts(At(v, k)) : Unnoted(x.value)

LEMMA BindingClean ==
  ASSUME NEW v, BindingFindings(v) = {}
  PROVE  /\ v.type = "mapping" /\ KeysOf(v) \subseteq {String(k) : k \in SectionKeys}
         /\ Has(v, "locators") /\ At(v, "locators").type = "list"
         /\ \A i \in Range(At(v, "locators").items) : FlatFindings(i.value, "locator") = {}
         /\ Has(v, "compare_via") => At(v, "compare_via").type = "string"
         /\ Has(v, "fields") =>
              /\ At(v, "fields").type = "mapping"
              /\ \A p \in Range(At(v, "fields").pairs) : FlatFindings(p.value, "field_locator") = {}
         /\ Has(v, "wire") => FlatFindings(At(v, "wire"), "wire") = {}
         /\ Has(v, "asserted_by") =>
              /\ At(v, "asserted_by").type = "list"
              /\ \A i \in Range(At(v, "asserted_by").items) : FlatFindings(i.value, "assertion") = {}
  <1> DEFINE unknown == KeysOf(v) \ {String(k) : k \in DOMAIN Shape["binding"].keys}
             missing == {k \in Shape["binding"].required : ~Has(v, k)}
  <1>1. v.type = "mapping"
    BY DEF BindingFindings
  <1>2. ClosedKeys(v, "binding") = {} /\ ItemFindings(v, "locators", "locator") = {}
    BY <1>1 DEF BindingFindings
  <1>3. unknown = {} /\ missing = {}
    <2>1. Code("INV-CLOSED-KEYS", unknown \cup missing) \subseteq ClosedKeys(v, "binding")
      BY DEF ClosedKeys
    <2> HIDE DEF unknown, missing
    <2> QED
      BY <1>2, <2>1 DEF Code
  <1>4. KeysOf(v) \subseteq {String(k) : k \in SectionKeys} /\ Has(v, "locators")
    BY <1>3, BindingKeys
  <1>5. Mistyped(v, "locators", "list") = {}
    BY <1>2 DEF ItemFindings
  <1>6. At(v, "locators").type = "list" /\ HasA(v, "locators", "list")
    BY <1>4, <1>5 DEF Mistyped, CodeIf, HasA
  <1>7. \A i \in Range(At(v, "locators").items) : FlatFindings(i.value, "locator") = {}
    BY <1>2, <1>6 DEF ItemFindings
  <1>8. /\ Mistyped(v, "compare_via", "string") = {} /\ PairFindings(v, "fields", "field_locator") = {}
        /\ Has(v, "wire") => FlatFindings(At(v, "wire"), "wire") = {}
        /\ ItemFindings(v, "asserted_by", "assertion") = {}
    BY <1>1, <1>6 DEF BindingFindings
  <1>9. Has(v, "compare_via") => At(v, "compare_via").type = "string"
    BY <1>8 DEF Mistyped, CodeIf
  <1>10. ASSUME Has(v, "fields")
         PROVE  /\ At(v, "fields").type = "mapping"
                /\ \A p \in Range(At(v, "fields").pairs) : FlatFindings(p.value, "field_locator") = {}
    <2>1. Mistyped(v, "fields", "mapping") = {}
      BY <1>8 DEF PairFindings
    <2>2. At(v, "fields").type = "mapping" /\ HasA(v, "fields", "mapping")
      BY <1>10, <2>1 DEF Mistyped, CodeIf, HasA
    <2> QED
      BY <1>8, <2>2 DEF PairFindings
  <1>11. ASSUME Has(v, "asserted_by")
         PROVE  /\ At(v, "asserted_by").type = "list"
                /\ \A i \in Range(At(v, "asserted_by").items) : FlatFindings(i.value, "assertion") = {}
    <2>1. Mistyped(v, "asserted_by", "list") = {}
      BY <1>8 DEF ItemFindings
    <2>2. At(v, "asserted_by").type = "list" /\ HasA(v, "asserted_by", "list")
      BY <1>11, <2>1 DEF Mistyped, CodeIf, HasA
    <2> QED
      BY <1>8, <2>2 DEF ItemFindings
  <1> QED
    BY <1>1, <1>4, <1>6, <1>7, <1>8, <1>9, <1>10, <1>11

LEMMA BindingSpelled ==
  ASSUME NEW v \in OnceBindings, BindingFindings(v) = {}, NotedAtEntries(v), NEW c \in Note,
         Has(v, "fields") => Apart(At(v, "fields").pairs)
  PROVE  /\ Binding(v, c) \in BindingType(Note) /\ Binding(v, c).comment = c
         /\ SpellsBinding(v, Binding(v, c))
  <1> DEFINE b == Binding(v, c)
             e1 == Entries(At(v, "locators").items, "locator")
             e3 == Fields(At(v, "fields").pairs)
             e4 == Flat(At(v, "wire"), "wire", None)
             e5 == Entries(At(v, "asserted_by").items, "assertion")
  <1>1. /\ v.type = "mapping" /\ KeysOf(v) \subseteq {String(k) : k \in SectionKeys}
        /\ Has(v, "locators") /\ At(v, "locators").type = "list"
        /\ \A i \in Range(At(v, "locators").items) : FlatFindings(i.value, "locator") = {}
        /\ Has(v, "compare_via") => At(v, "compare_via").type = "string"
        /\ Has(v, "fields") =>
             /\ At(v, "fields").type = "mapping"
             /\ \A p \in Range(At(v, "fields").pairs) : FlatFindings(p.value, "field_locator") = {}
        /\ Has(v, "wire") => FlatFindings(At(v, "wire"), "wire") = {}
        /\ Has(v, "asserted_by") =>
             /\ At(v, "asserted_by").type = "list"
             /\ \A i \in Range(At(v, "asserted_by").items) : FlatFindings(i.value, "assertion") = {}
    BY BindingClean
  <1>2. /\ UniqueKeys(v.pairs) /\ \A k : Has(v, k) => At(v, k) \in OnceSections
    BY <1>1, OnceParts DEF OnceBindings
  <1>3. v \in DocumentValues /\ Note \subseteq TextOrNone
    BY OnceDepths, NotesAreTexts
  <1>4. b \in BindingType(Note)
    <2>1. HasA(v, "locators", "list")
      BY <1>1 DEF HasA
    <2>2. b \in BindingType(Note) \cup {None} /\ b # None
      BY <1>1, <1>3, <2>1, BindingTyped
    <2> QED
      BY <2>2
  <1>5. b = [locators |-> e1, compare_via |-> TextAt(v, "compare_via"),
             fields |-> IF HasA(v, "fields", "mapping") THEN e3 ELSE None,
             wire |-> IF Has(v, "wire") THEN e4 ELSE None,
             asserted_by |-> IF HasA(v, "asserted_by", "list") THEN e5 ELSE None, comment |-> c]
    <2> HIDE DEF e1, e3, e4, e5
    <2> QED
      BY <1>1 DEF Binding, HasA, e1, e3, e4, e5
  <1> HIDE DEF b, e1, e3, e4, e5
  <1>6. /\ b.locators = e1 /\ b.compare_via = TextAt(v, "compare_via") /\ b.comment = c
        /\ b.fields = IF HasA(v, "fields", "mapping") THEN e3 ELSE None
        /\ b.wire = IF Has(v, "wire") THEN e4 ELSE None
        /\ b.asserted_by = IF HasA(v, "asserted_by", "list") THEN e5 ELSE None
    BY <1>5
  <1>7. SpellsEntries(At(v, "locators"), e1)
    <2>1. \A i \in Range(At(v, "locators").items) : Unnoted(i.value)
      BY <1>1 DEF NotedAtEntries, Parts
    <2>2. At(v, "locators") \in OnceSections
      BY <1>1, <1>2
    <2> QED
      BY <1>1, <2>1, <2>2, EntriesSpelled DEF e1, Nodes
  <1>8. /\ Has(v, "compare_via") <=> b.compare_via # None
        /\ b.compare_via # None => At(v, "compare_via") = String(b.compare_via)
    <2>1. CASE ~Has(v, "compare_via")
      BY <1>6, <2>1 DEF TextAt, HasA
    <2>2. CASE Has(v, "compare_via")
      <3>1. At(v, "compare_via") \in OnceSections /\ At(v, "compare_via").type = "string"
        BY <1>1, <1>2, <2>2
      <3>2. At(v, "compare_via") \in Scalars /\ At(v, "compare_via").text \in Texts
        BY <3>1, OnceParts, ValueParts DEF OnceSections, ScalarTypes
      <3>3. At(v, "compare_via") = String(At(v, "compare_via").text)
        BY <3>1, <3>2 DEF Scalars, String, Scalar
      <3>4. b.compare_via = At(v, "compare_via").text
        BY <1>6, <2>2, <3>1 DEF TextAt, HasA
      <3> QED
        BY <2>2, <3>2, <3>3, <3>4, NotesAreTexts
    <2> QED
      BY <2>1, <2>2
  <1>9. /\ Has(v, "fields") <=> b.fields # None
        /\ b.fields # None => SpellsFields(At(v, "fields"), b.fields)
    <2>1. CASE ~Has(v, "fields")
      BY <1>6, <2>1 DEF HasA
    <2>2. CASE Has(v, "fields")
      <3>1. At(v, "fields") \in OnceSections /\ At(v, "fields").type = "mapping"
        BY <1>1, <1>2, <2>2
      <3>2. \A p \in Range(At(v, "fields").pairs) :
              FlatFindings(p.value, "field_locator") = {} /\ Unnoted(p.value)
        BY <1>1, <2>2, <3>1 DEF NotedAtEntries, Parts
      <3>3. SpellsFields(At(v, "fields"), e3) /\ e3 \in DictsOf(Texts, EntryType("field_locator", Note))
        BY <2>2, <3>1, <3>2, FieldsSpelled DEF e3
      <3>4. e3 # None
        BY <3>3, EntryKinds, NotesAreTexts DEF Nodes
      <3> QED
        BY <1>6, <2>2, <3>1, <3>3, <3>4 DEF HasA
    <2> QED
      BY <2>1, <2>2
  <1>10. /\ Has(v, "wire") <=> b.wire # None
         /\ b.wire # None => Spells(At(v, "wire"), b.wire)
    <2>1. CASE ~Has(v, "wire")
      BY <1>6, <2>1
    <2>2. CASE Has(v, "wire")
      <3>1. At(v, "wire") \in OnceSections /\ Unnoted(At(v, "wire")) /\ FlatFindings(At(v, "wire"), "wire") = {}
        BY <1>1, <1>2, <2>2 DEF NotedAtEntries
      <3>2. Spells(At(v, "wire"), e4) /\ e4 \in EntryType("wire", {None})
        BY <3>1, FlatSpelled DEF e4, Nodes, OnceSections, OnceEntries
      <3>3. {None} \in SUBSET TextOrNone
        BY DEF TextOrNone
      <3>4. e4 # None
        BY <3>2, <3>3, EntryKinds DEF Nodes
      <3> QED
        BY <1>6, <2>2, <3>2, <3>4
    <2> QED
      BY <2>1, <2>2
  <1>11. /\ Has(v, "asserted_by") <=> b.asserted_by # None
         /\ b.asserted_by # None => SpellsEntries(At(v, "asserted_by"), b.asserted_by)
    <2>1. CASE ~Has(v, "asserted_by")
      BY <1>6, <2>1 DEF HasA
    <2>2. CASE Has(v, "asserted_by")
      <3>1. At(v, "asserted_by") \in OnceSections /\ At(v, "asserted_by").type = "list"
        BY <1>1, <1>2, <2>2
      <3>2. \A i \in Range(At(v, "asserted_by").items) :
              FlatFindings(i.value, "assertion") = {} /\ Unnoted(i.value)
        BY <1>1, <2>2, <3>1 DEF NotedAtEntries, Parts
      <3>3. SpellsEntries(At(v, "asserted_by"), e5) /\ e5 \in Seq(EntryType("assertion", Note))
        BY <3>1, <3>2, EntriesSpelled DEF e5, Nodes
      <3>4. e5 # None
        BY <3>3, EntryKinds, NotesAreTexts DEF Nodes
      <3> QED
        BY <1>6, <2>2, <3>1, <3>3, <3>4 DEF HasA
    <2> QED
      BY <2>1, <2>2
  <1>12. Unnoted(v)
    BY DEF NotedAtEntries
  <1> QED
    BY <1>1, <1>2, <1>4, <1>6, <1>7, <1>8, <1>9, <1>10, <1>11, <1>12 DEF SpellsBinding, b

(* Every key that is given is in a dict.                                   *)
LEMMA DictKeys ==
  ASSUME NEW E, None \notin E, NEW entries \in Seq(E \cup {None}),
         NEW n \in DOMAIN entries, entries[n] # None
  PROVE  /\ \E e \in Range(Dict(entries)) : e.key = entries[n].key
         /\ Dict(entries) # <<>>
  <1> DEFINE places == Same(entries, n)
             first == Firsts(entries)
             last == [m \in first |-> entries[Latest(entries, m)]]
  <1>1. n \in places /\ places \in SUBSET DOMAIN entries
    BY DEF Same, GivenPlaces
  <1>2. places \in SUBSET Nat /\ IsFiniteSet(places)
    BY <1>1, PlacesFinite
  <1>3. PICK f \in places : \A m \in places : f <= m
    BY <1>1, <1>2, Extremes
  <1>4. f \in GivenPlaces(entries) /\ entries[f].key = entries[n].key
    BY <1>3 DEF Same
  <1>5. f \in first
    <2>1. Same(entries, f) = places
      BY <1>4 DEF Same
    <2> QED
      BY <1>3, <1>4, <2>1 DEF Firsts
  <1>6. first \in SUBSET Nat /\ IsFiniteSet(first) /\ first \in SUBSET GivenPlaces(entries)
    <2>1. first \in SUBSET DOMAIN entries /\ first \in SUBSET GivenPlaces(entries)
      BY DEF Firsts, GivenPlaces
    <2> HIDE DEF first
    <2> QED
      BY <2>1, PlacesFinite
  <1>7. \A m \in first : /\ Latest(entries, m) \in GivenPlaces(entries)
                         /\ entries[Latest(entries, m)].key = entries[m].key
    BY <1>6, LastOf
  <1>8. \A m \in first : last[m] \in E \cup {None} /\ last[m].key = entries[m].key
    <2>1. \A m \in DOMAIN entries : entries[m] \in E \cup {None}
      BY ListProperties
    <2> HIDE DEF first
    <2> QED
      BY <1>7, <2>1 DEF GivenPlaces
  <1>9. Dict(entries) = Chosen(last, first)
    BY DictIs
  <1> HIDE DEF first, last
  <1>10. /\ Chosen(last, first) \in Seq(E \cup {None})
         /\ Range(Chosen(last, first)) = {last[m] : m \in first}
    BY <1>6, <1>8, ChosenProperties
  <1>11. last[f] \in Range(Dict(entries)) /\ last[f].key = entries[n].key
    BY <1>4, <1>5, <1>8, <1>9, <1>10
  <1> QED
    BY <1>11, EmptyList

(* What is an ID or a kind as a text is a string.                          *)
LEMMA NamesAreStrings ==
  ASSUME NEW s \in Scalars, Is(s.text, "id") \/ Is(s.text, "kind")
  PROVE  s = String(s.text) /\ IsString(s)
  BY DEF Scalars, String, Scalar, IsString

SpellsListed(w, s) ==
    /\ w.type = "list" /\ DOMAIN w.items = DOMAIN s
    /\ \A n \in DOMAIN s : w.items[n].value = String(s[n]) /\ w.items[n].note = None

SpellsCurated(w, d) ==
    /\ w.type = "mapping" /\ DOMAIN w.pairs = DOMAIN d
    /\ \A n \in DOMAIN d : /\ w.pairs[n].key.text = d[n].key
                           /\ w.pairs[n].value = String(d[n].value.reason)
                           /\ w.pairs[n].note = d[n].value.comment

SpellsCoverage(v, c) ==
    /\ v.type = "mapping" /\ UniqueKeys(v.pairs) /\ Unnoted(v)
    /\ KeysOf(v) \subseteq {String(k) : k \in {"fully_bound", "curated"}}
    /\ Has(v, "fully_bound") <=> c.fully_bound # None
    /\ c.fully_bound # None => SpellsListed(At(v, "fully_bound"), c.fully_bound)
    /\ Has(v, "curated") <=> c.curated # None
    /\ c.curated # None => SpellsCurated(At(v, "curated"), c.curated)

LEMMA ListedSpelled ==
  ASSUME NEW w \in OnceBindings, w.type = "list", Unnoted(w), \A i \in Range(w.items) : IsString(i.value)
  PROVE  LET s == Represented([n \in DOMAIN w.items |-> AsText(w.items[n].value)])
         IN  SpellsListed(w, s) /\ s \in Seq(Texts)
  <1> DEFINE s == [n \in DOMAIN w.items |-> AsText(w.items[n].value)]
  <1>1. /\ w.items \in Seq(ItemsOf(OnceSections)) /\ Parts(w) = Range(w.items)
        /\ \A n \in DOMAIN w.items : w.items[n] \in ItemsOf(OnceSections) /\ w.items[n] \in Range(w.items)
    BY OnceParts DEF OnceBindings
  <1>2. ASSUME NEW n \in DOMAIN w.items
        PROVE  s[n] \in Texts /\ w.items[n].value = String(s[n]) /\ w.items[n].note = None
    <2>1. w.items[n].value \in OnceSections /\ IsString(w.items[n].value)
      BY <1>1 DEF ItemsOf
    <2>2. w.items[n].value \in Scalars /\ w.items[n].value.text \in Texts
      BY <2>1, OnceParts, ValueParts DEF OnceSections, ScalarTypes, IsString
    <2>3. w.items[n].note = None
      BY <1>1 DEF Unnoted
    <2> QED
      BY <2>1, <2>2, <2>3 DEF Scalars, IsString, AsText, String, Scalar
  <1>3. s \in Seq(Texts)
    <2>1. \A n \in DOMAIN w.items : s[n] \in Texts
      BY <1>2
    <2> QED
      BY <1>1, <2>1, MappedList
  <1>4. Seq(Texts) \subseteq Seq(Texts \cup {None})
    BY SeqMonotonic
  <1>5. Represented(s) = s
    <2> HIDE DEF s
    <2> QED
      BY <1>3, <1>4, NoneAssumption, RepresentedList
  <1>6. SpellsListed(w, s)
    <2>1. DOMAIN s = DOMAIN w.items /\ \A n \in DOMAIN s : w.items[n].value = String(s[n]) /\ w.items[n].note = None
      BY <1>2
    <2> HIDE DEF s
    <2> QED
      BY <2>1 DEF SpellsListed
  <1> HIDE DEF s
  <1> QED
    BY <1>3, <1>5, <1>6 DEF s

LEMMA CuratedSpelled ==
  ASSUME NEW w \in OnceBindings, w.type = "mapping", \A p \in Range(w.pairs) : IsString(p.value),
         NEW d, d = Dict([n \in DOMAIN w.pairs |-> CuratedEntry(w.pairs[n])]),
         \A e \in Range(d) : Is(e.key, "kind")
  PROVE  /\ SpellsCurated(w, d) /\ d \in DictsOf(Texts, [reason : Texts, comment : Note])
         /\ \A p \in Range(w.pairs) : IsString(p.key) /\ Is(p.key.text, "kind")
  <1> DEFINE R == [reason : Texts, comment : Note]
             E == [key : Texts, value : R]
             s == [n \in DOMAIN w.pairs |-> CuratedEntry(w.pairs[n])]
  <1>1. /\ w.pairs \in Seq(PairsOf(OnceSections)) /\ UniqueKeys(w.pairs)
        /\ \A n \in DOMAIN w.pairs : w.pairs[n] \in PairsOf(OnceSections) /\ w.pairs[n] \in Range(w.pairs)
    BY OnceParts DEF OnceBindings
  <1>2. ASSUME NEW n \in DOMAIN w.pairs
        PROVE  /\ s[n] \in E /\ s[n].key = w.pairs[n].key.text
               /\ w.pairs[n].value = String(s[n].value.reason) /\ s[n].value.comment = w.pairs[n].note
    <2> DEFINE p == w.pairs[n]
    <2>1. p.value \in OnceSections /\ IsString(p.value) /\ p.note \in Note /\ p.key.text \in Texts
      BY <1>1 DEF PairsOf, Scalars
    <2>2. p.value \in Scalars /\ p.value.text \in Texts
      BY <2>1, OnceParts, ValueParts DEF OnceSections, ScalarTypes, IsString
    <2>3. s[n] = Keyed(p.key.text, [reason |-> p.value.text, comment |-> p.note])
      BY <2>1 DEF CuratedEntry
    <2>4. p.value = String(p.value.text)
      BY <2>1, <2>2 DEF Scalars, IsString, String, Scalar
    <2> HIDE DEF p, s
    <2> QED
      BY <2>1, <2>2, <2>3, <2>4 DEF Keyed, p
  <1>3. s \in Seq(E)
    <2>1. \A n \in DOMAIN w.pairs : s[n] \in E
      BY <1>2
    <2> HIDE DEF E
    <2> QED
      BY <1>1, <2>1, MappedList
  <1>4. None \notin E
    BY NoneAssumption
  <1>5. DOMAIN s = DOMAIN w.pairs /\ d = Dict(s)
    OBVIOUS
  <1>6. ASSUME NEW n \in DOMAIN w.pairs
        PROVE  Is(w.pairs[n].key.text, "kind")
    <2>1. s \in Seq(E \cup {None})
      <3> HIDE DEF E, s
      <3> QED
        BY <1>3, SeqMonotonic
    <2>2. s[n] # None
      BY <1>2, <1>4
    <2>3. \E e \in Range(d) : e.key = s[n].key
      <3> HIDE DEF E, s
      <3> QED
        BY <1>4, <1>5, <2>1, <2>2, DictKeys
    <2> QED
      BY <1>2, <2>3
  <1>7. \A n \in DOMAIN w.pairs : w.pairs[n].key = String(w.pairs[n].key.text)
    BY <1>1, <1>6, NamesAreStrings DEF PairsOf
  <1>8. UniqueKeys(s)
    <2>1. \A n \in DOMAIN s : s[n].key = w.pairs[n].key.text
      BY <1>2
    <2> HIDE DEF s
    <2> QED
      BY <1>1, <1>5, <1>7, <2>1 DEF UniqueKeys
  <1>9. d = s
    <2> HIDE DEF E, s
    <2> QED
      BY <1>3, <1>4, <1>5, <1>8, DictOfUnique
  <1>10. SpellsCurated(w, s)
    <2>1. \A n \in DOMAIN s : /\ w.pairs[n].key.text = s[n].key
                              /\ w.pairs[n].value = String(s[n].value.reason)
                              /\ w.pairs[n].note = s[n].value.comment
      BY <1>2
    <2> HIDE DEF s
    <2> QED
      BY <1>5, <2>1 DEF SpellsCurated
  <1>11. s \in DictsOf(Texts, R)
    <2> HIDE DEF s
    <2> QED
      BY <1>3, <1>8 DEF DictsOf
  <1>12. \A p \in Range(w.pairs) : IsString(p.key) /\ Is(p.key.text, "kind")
    <2>1. \A t : IsString(String(t))
      BY DEF IsString, String, Scalar
    <2> QED
      BY <1>6, <1>7, <2>1 DEF Range
  <1> QED
    BY <1>9, <1>10, <1>11, <1>12

LEMMA CuratedDict ==
  ASSUME NEW w \in OnceBindings, w.type = "mapping", \A p \in Range(w.pairs) : IsString(p.value)
  PROVE  /\ Dict([n \in DOMAIN w.pairs |-> CuratedEntry(w.pairs[n])])
              \in DictsOf(Texts, [reason : Texts, comment : Note])
         /\ Dict([n \in DOMAIN w.pairs |-> CuratedEntry(w.pairs[n])]) # None
  <1> DEFINE R == [reason : Texts, comment : Note]
             E == [key : Texts, value : R]
             s == [n \in DOMAIN w.pairs |-> CuratedEntry(w.pairs[n])]
  <1>1. /\ w.pairs \in Seq(PairsOf(OnceSections))
        /\ \A n \in DOMAIN w.pairs : w.pairs[n] \in PairsOf(OnceSections) /\ w.pairs[n] \in Range(w.pairs)
    BY OnceParts DEF OnceBindings
  <1>2. ASSUME NEW n \in DOMAIN w.pairs
        PROVE  s[n] \in E
    <2> DEFINE p == w.pairs[n]
    <2>1. p.value \in OnceSections /\ IsString(p.value) /\ p.note \in Note /\ p.key.text \in Texts
      BY <1>1 DEF PairsOf, Scalars
    <2>2. p.value.text \in Texts
      BY <2>1, OnceParts, ValueParts DEF OnceSections, ScalarTypes, IsString
    <2>3. s[n] = Keyed(p.key.text, [reason |-> p.value.text, comment |-> p.note])
      BY <2>1 DEF CuratedEntry
    <2> HIDE DEF p, s
    <2> QED
      BY <2>1, <2>2, <2>3 DEF Keyed
  <1>3. s \in Seq(E)
    <2> HIDE DEF E
    <2> QED
      BY <1>1, <1>2, MappedList
  <1>4. None \notin E /\ None \notin DictsOf(Texts, R)
    BY NoneAssumption
  <1>5. s \in Seq(E \cup {None})
    <2> HIDE DEF E, s
    <2> QED
      BY <1>3, SeqMonotonic
  <1>6. Dict(s) \in Seq(E) /\ UniqueKeys(Dict(s))
    <2> HIDE DEF E, s
    <2> QED
      BY <1>4, <1>5, DictProperties
  <1>7. Dict(s) \in DictsOf(Texts, R)
    BY <1>6 DEF DictsOf
  <1> HIDE DEF s, R
  <1> QED
    BY <1>4, <1>7 DEF s, R

LEMMA ClosedClean ==
  ASSUME NEW v, NEW node, ClosedKeys(v, node) = {}
  PROVE  /\ KeysOf(v) \subseteq {String(k) : k \in DOMAIN Shape[node].keys}
         /\ \A k \in Shape[node].required : Has(v, k)
  <1> DEFINE unknown == KeysOf(v) \ {String(k) : k \in DOMAIN Shape[node].keys}
             missing == {k \in Shape[node].required : ~Has(v, k)}
  <1>1. Code("INV-CLOSED-KEYS", unknown \cup missing) \subseteq ClosedKeys(v, node)
    BY DEF ClosedKeys
  <1>2. unknown = {} /\ missing = {}
    <2> HIDE DEF unknown, missing
    <2> QED
      BY <1>1 DEF Code
  <1> QED
    BY <1>2

LEMMA CoverageClean ==
  ASSUME NEW v, CoverageFindings(v) = {}
  PROVE  /\ v.type = "mapping" /\ KeysOf(v) \subseteq {String(k) : k \in {"fully_bound", "curated"}}
         /\ Has(v, "fully_bound") =>
              /\ At(v, "fully_bound").type = "list"
              /\ \A i \in Range(At(v, "fully_bound").items) : IsString(i.value)
         /\ Has(v, "curated") =>
              /\ At(v, "curated").type = "mapping"
              /\ \A p \in Range(At(v, "curated").pairs) : IsString(p.value)
  <1> DEFINE items == IF HasA(v, "fully_bound", "list") THEN Range(At(v, "fully_bound").items) ELSE {}
             pairs == IF HasA(v, "curated", "mapping") THEN Range(At(v, "curated").pairs) ELSE {}
             inside == {i.value : i \in items} \cup {p.value : p \in pairs}
  <1>1. v.type = "mapping"
    BY DEF CoverageFindings
  <1>2. CoverageFindings(v) =
          ClosedKeys(v, "coverage") \cup Mistyped(v, "fully_bound", "list")
            \cup Mistyped(v, "curated", "mapping") \cup Code("INV-CLOSED-KEYS", {x \in inside : ~IsString(x)})
    BY <1>1 DEF CoverageFindings
  <1> HIDE DEF inside
  <1>3. /\ ClosedKeys(v, "coverage") = {} /\ Mistyped(v, "fully_bound", "list") = {}
        /\ Mistyped(v, "curated", "mapping") = {}
        /\ Code("INV-CLOSED-KEYS", {x \in inside : ~IsString(x)}) = {}
    BY <1>2
  <1>4. KeysOf(v) \subseteq {String(k) : k \in {"fully_bound", "curated"}}
    BY <1>3, ClosedClean, BindingKeys
  <1>5. \A x \in inside : IsString(x)
    BY <1>3 DEF Code
  <1>6. ASSUME Has(v, "fully_bound")
        PROVE  /\ At(v, "fully_bound").type = "list"
               /\ \A i \in Range(At(v, "fully_bound").items) : IsString(i.value)
    <2>1. At(v, "fully_bound").type = "list" /\ HasA(v, "fully_bound", "list")
      BY <1>3, <1>6 DEF Mistyped, CodeIf, HasA
    <2>2. items = Range(At(v, "fully_bound").items)
      BY <2>1
    <2> HIDE DEF items
    <2>3. \A i \in items : i.value \in inside
      BY DEF inside
    <2> QED
      BY <1>5, <2>1, <2>2, <2>3
  <1>7. ASSUME Has(v, "curated")
        PROVE  /\ At(v, "curated").type = "mapping"
               /\ \A p \in Range(At(v, "curated").pairs) : IsString(p.value)
    <2>1. At(v, "curated").type = "mapping" /\ HasA(v, "curated", "mapping")
      BY <1>3, <1>7 DEF Mistyped, CodeIf, HasA
    <2>2. pairs = Range(At(v, "curated").pairs)
      BY <2>1
    <2> HIDE DEF pairs
    <2>3. \A p \in pairs : p.value \in inside
      BY DEF inside
    <2> QED
      BY <1>5, <2>1, <2>2, <2>3
  <1> QED
    BY <1>1, <1>4, <1>6, <1>7

KindsNamed(c) == c.curated # None => \A e \in Range(c.curated) : Is(e.key, "kind")

LEMMA CoverageSpelled ==
  ASSUME NEW v \in OnceBlocks, CoverageFindings(v) = {}, Unnoted(v), NEW c \in Note,
         Has(v, "fully_bound") => Unnoted(At(v, "fully_bound")), KindsNamed(Coverage(v, c))
  PROVE  Coverage(v, c).comment = c /\ SpellsCoverage(v, Coverage(v, c))
  <1> DEFINE b == Coverage(v, c)
             listed == At(v, "fully_bound").items
             curated == At(v, "curated").pairs
             s == Represented([n \in DOMAIN listed |-> AsText(listed[n].value)])
             d == Dict([n \in DOMAIN curated |-> CuratedEntry(curated[n])])
  <1>1. /\ v.type = "mapping" /\ KeysOf(v) \subseteq {String(k) : k \in {"fully_bound", "curated"}}
        /\ Has(v, "fully_bound") =>
             /\ At(v, "fully_bound").type = "list"
             /\ \A i \in Range(At(v, "fully_bound").items) : IsString(i.value)
        /\ Has(v, "curated") =>
             /\ At(v, "curated").type = "mapping"
             /\ \A p \in Range(At(v, "curated").pairs) : IsString(p.value)
    BY CoverageClean
  <1>2. UniqueKeys(v.pairs) /\ \A k : Has(v, k) => At(v, k) \in OnceBindings
    BY <1>1, OnceParts DEF OnceBlocks
  <1>3. b = [fully_bound |-> IF HasA(v, "fully_bound", "list") THEN s ELSE None,
             curated |-> IF HasA(v, "curated", "mapping") THEN d ELSE None, comment |-> c]
    BY <1>1 DEF Coverage
  <1> HIDE DEF b, s, d
  <1>4. /\ b.fully_bound = (IF HasA(v, "fully_bound", "list") THEN s ELSE None)
        /\ b.curated = (IF HasA(v, "curated", "mapping") THEN d ELSE None)
        /\ b.comment = c
    BY <1>3
  <1>5. /\ Has(v, "fully_bound") <=> b.fully_bound # None
        /\ b.fully_bound # None => SpellsListed(At(v, "fully_bound"), b.fully_bound)
    <2>1. CASE ~Has(v, "fully_bound")
      BY <1>4, <2>1 DEF HasA
    <2>2. CASE Has(v, "fully_bound")
      <3>1. SpellsListed(At(v, "fully_bound"), s) /\ s \in Seq(Texts)
        BY <1>1, <1>2, <2>2, ListedSpelled DEF s
      <3>2. s # None
        BY <3>1, NoneAssumption
      <3> QED
        BY <1>1, <1>4, <2>2, <3>1, <3>2 DEF HasA
    <2> QED
      BY <2>1, <2>2
  <1>6. /\ Has(v, "curated") <=> b.curated # None
        /\ b.curated # None => SpellsCurated(At(v, "curated"), b.curated)
    <2>1. CASE ~Has(v, "curated")
      BY <1>4, <2>1 DEF HasA
    <2>2. CASE Has(v, "curated")
      <3>1. HasA(v, "curated", "mapping") /\ b.curated = d
        BY <1>1, <1>4, <2>2 DEF HasA
      <3>2. At(v, "curated") \in OnceBindings
        BY <1>2, <2>2
      <3>3. d # None
        BY <1>1, <2>2, <3>2, CuratedDict DEF d
      <3>4. \A e \in Range(d) : Is(e.key, "kind")
        BY <3>1, <3>3 DEF KindsNamed, b
      <3>5. SpellsCurated(At(v, "curated"), d)
        BY <1>1, <2>2, <3>2, <3>4, CuratedSpelled DEF d
      <3> QED
        BY <2>2, <3>1, <3>3, <3>5
    <2> QED
      BY <2>1, <2>2
  <1> QED
    BY <1>1, <1>2, <1>4, <1>5, <1>6 DEF SpellsCoverage, b

SpellsBindings(w, d) ==
    /\ w.type = "mapping" /\ DOMAIN w.pairs = DOMAIN d
    /\ \A n \in DOMAIN d : /\ w.pairs[n].key.text = d[n].key
                           /\ SpellsBinding(w.pairs[n].value, d[n].value)
                           /\ w.pairs[n].note = d[n].value.comment

LEMMA BindingsSpelled ==
  ASSUME NEW w \in OnceBlocks, w.type = "mapping",
         \A p \in Range(w.pairs) :
           /\ Is(p.key.text, "id") /\ BindingFindings(p.value) = {} /\ NotedAtEntries(p.value)
           /\ Has(p.value, "fields") => Apart(At(p.value, "fields").pairs)
           /\ ~Relocates(p.value, Binding(p.value, p.note)),
         NEW d, d = Dict([n \in DOMAIN w.pairs |-> BindingEntry(w.pairs[n])])
  PROVE  SpellsBindings(w, d) /\ d \in DictsOf(IdTexts, BindingType(Note))
  <1> DEFINE E == [key : IdTexts, value : BindingType(Note)]
             s == [n \in DOMAIN w.pairs |-> BindingEntry(w.pairs[n])]
  <1>1. /\ w.pairs \in Seq(PairsOf(OnceBindings)) /\ UniqueKeys(w.pairs)
        /\ \A n \in DOMAIN w.pairs : w.pairs[n] \in PairsOf(OnceBindings) /\ w.pairs[n] \in Range(w.pairs)
    BY OnceParts DEF OnceBlocks
  <1>2. ASSUME NEW n \in DOMAIN w.pairs
        PROVE  /\ s[n] \in E /\ s[n].key = w.pairs[n].key.text
               /\ SpellsBinding(w.pairs[n].value, s[n].value) /\ s[n].value.comment = w.pairs[n].note
    <2> DEFINE p == w.pairs[n]
               b == Binding(p.value, p.note)
    <2>1. p.value \in OnceBindings /\ p.note \in Note /\ p.key.text \in Texts
      BY <1>1 DEF PairsOf, Scalars
    <2>2. /\ Is(p.key.text, "id") /\ BindingFindings(p.value) = {} /\ NotedAtEntries(p.value)
          /\ Has(p.value, "fields") => Apart(At(p.value, "fields").pairs)
      BY <1>1
    <2>3. b \in BindingType(Note) /\ b.comment = p.note /\ SpellsBinding(p.value, b)
      BY <2>1, <2>2, BindingSpelled
    <2>4. b # None
      BY <2>3, BindingKinds, NotesAreTexts
    <2>6. Relocated(p.value, b) = b
      BY <1>1, <2>3, RelocatedTyped
    <2>5. s[n] = Keyed(p.key.text, b)
      BY <2>2, <2>4, <2>6 DEF BindingEntry
    <2> HIDE DEF p, b, s
    <2> QED
      BY <2>1, <2>2, <2>3, <2>5 DEF Keyed, IdTexts, p
  <1>3. s \in Seq(E)
    <2>1. \A n \in DOMAIN w.pairs : s[n] \in E
      BY <1>2
    <2> HIDE DEF E
    <2> QED
      BY <1>1, <2>1, MappedList
  <1>4. None \notin E
    <2>1. E \subseteq [key : Texts, value : BindingType(Note)]
      BY DEF IdTexts
    <2> QED
      BY <2>1, BindingKinds, NotesAreTexts
  <1>5. DOMAIN s = DOMAIN w.pairs /\ d = Dict(s)
    OBVIOUS
  <1>6. \A n \in DOMAIN w.pairs : w.pairs[n].key = String(w.pairs[n].key.text)
    BY <1>1, NamesAreStrings DEF PairsOf
  <1>7. UniqueKeys(s)
    <2>1. \A n \in DOMAIN s : s[n].key = w.pairs[n].key.text
      BY <1>2
    <2> HIDE DEF s
    <2> QED
      BY <1>1, <1>5, <1>6, <2>1 DEF UniqueKeys
  <1>8. d = s
    <2> HIDE DEF E, s
    <2> QED
      BY <1>3, <1>4, <1>5, <1>7, DictOfUnique
  <1>9. SpellsBindings(w, s)
    <2>1. \A n \in DOMAIN s : /\ w.pairs[n].key.text = s[n].key
                              /\ SpellsBinding(w.pairs[n].value, s[n].value)
                              /\ w.pairs[n].note = s[n].value.comment
      BY <1>2
    <2> HIDE DEF s
    <2> QED
      BY <1>5, <2>1 DEF SpellsBindings
  <1>10. s \in DictsOf(IdTexts, BindingType(Note))
    <2> HIDE DEF s
    <2> QED
      BY <1>3, <1>7 DEF DictsOf
  <1> QED
    BY <1>8, <1>9, <1>10

RootKeys == {"schema_version", "bindings", "coverage"}

(* All but the number of the version.                                      *)
SpellsRest(f, m) ==
    /\ f.header = m.header
    /\ f.root.type = "mapping" /\ UniqueKeys(f.root.pairs)
    /\ KeysOf(f.root) \subseteq {String(k) : k \in RootKeys}
    /\ \A p \in Range(f.root.pairs) : p.key # String("coverage") => p.note = None
    /\ Has(f.root, "schema_version")
    /\ Has(f.root, "bindings") /\ SpellsBindings(At(f.root, "bindings"), m.bindings)
    /\ Has(f.root, "coverage") <=> m.coverage # None
    /\ m.coverage # None => /\ SpellsCoverage(At(f.root, "coverage"), m.coverage)
                            /\ PairAt(f.root, "coverage").note = m.coverage.comment

SpellsMap(f, m) ==
    SpellsRest(f, m) /\ At(f.root, "schema_version") = Scalar("integer", m.schema_version)

(* Where there is no object there is no comment.                           *)
LEMMA SilentParts ==
  ASSUME NEW v \in Silent
  PROVE  /\ Unnoted(v)
         /\ \A x \in Parts(v) : Unnoted(x.value) /\ \A y \in Parts(x.value) : Unnoted(y.value)
         /\ v.type = "mapping" => NotedAtEntries(v)
  <1> DEFINE Q1 == Quiet({})
             Q2 == Quiet(Q1)
             Q3 == Quiet(Q2)
             Q4 == Quiet(Q3)
  <1>1. ASSUME NEW S, NEW w \in Quiet(S)
        PROVE  Unnoted(w) /\ \A x \in Parts(w) : x.value \in S
    <2>1. w \in Values(S) /\ Unnoted(w)
      BY DEF Quiet
    <2>2. CASE w.type = "list"
      <3>1. w.items \in Seq(ItemsOf(S)) /\ Parts(w) = Range(w.items)
        BY <2>1, <2>2, ValueParts DEF Parts
      <3>2. \A x \in Range(w.items) : x \in ItemsOf(S)
        BY <3>1, ListProperties
      <3> QED
        BY <2>1, <3>1, <3>2 DEF ItemsOf
    <2>3. CASE w.type = "mapping"
      <3>1. w.pairs \in Seq(PairsOf(S)) /\ Parts(w) = Range(w.pairs)
        BY <2>1, <2>3, ValueParts DEF Parts
      <3>2. \A x \in Range(w.pairs) : x \in PairsOf(S)
        BY <3>1, ListProperties
      <3> QED
        BY <2>1, <3>1, <3>2 DEF PairsOf
    <2>4. CASE w.type \notin {"list", "mapping"}
      BY <2>1, <2>4 DEF Parts
    <2> QED
      BY <2>2, <2>3, <2>4
  <1>2. v \in Quiet(Q4)
    BY DEF Silent
  <1> HIDE DEF Q4
  <1>3. Unnoted(v) /\ \A x \in Parts(v) : x.value \in Q4
    BY <1>1, <1>2
  <1>4. \A w \in Q4 : Unnoted(w) /\ \A x \in Parts(w) : x.value \in Q3
    <2> HIDE DEF Q3
    <2> QED
      BY <1>1 DEF Q4
  <1> HIDE DEF Q3
  <1>5. \A w \in Q3 : Unnoted(w)
    BY <1>1 DEF Q3
  <1>6. ASSUME v.type = "mapping"
        PROVE  NotedAtEntries(v)
    <2>1. Parts(v) = Range(v.pairs) /\ v \in Values(Q4)
      BY <1>2, <1>6 DEF Parts, Quiet
    <2>2. v.pairs \in Seq(PairsOf(Q4))
      BY <1>6, <2>1, ValueParts
    <2>3. ASSUME NEW k, Has(v, k)
          PROVE  At(v, k) \in Q4
      BY <2>2, <2>3, AtValue
    <2> QED
      BY <1>3, <1>4, <1>5, <2>3 DEF NotedAtEntries
  <1> QED
    BY <1>3, <1>4, <1>5, <1>6

LEMMA ParsedRoot ==
  ASSUME NEW f \in ParsedFiles
  PROVE  f.root \in Once(OnceBlocks) /\ f.root.type = "mapping" /\ f.header \in Note
  <1>1. f \in FileType /\ f.root \in Once(OnceBlocks)
    BY OnceDepths
  <1> QED
    BY <1>1 DEF FileType, MappingsOf

LEMMA AttachedEntries ==
  ASSUME NEW p, BindingAttached(p), p.value \in OnceBindings, p.value.type = "mapping"
  PROVE  NotedAtEntries(p.value)
  <1> DEFINE v == p.value
  <1>1. CASE BindingEntry(p) = None
    BY <1>1, SilentParts DEF BindingAttached
  <1>2. CASE BindingEntry(p) # None
    <2>1. Unnoted(v) /\ \A q \in Range(v.pairs) : SectionAttached(q)
      BY <1>2 DEF BindingAttached
    <2>2. ASSUME NEW k, Has(v, k)
          PROVE  \E q \in Range(v.pairs) : q.key = String(k) /\ q.value = At(v, k) /\ SectionAttached(q)
      BY <2>1, <2>2, OnceParts DEF OnceBindings
    <2>3. Has(v, "wire") => Unnoted(At(v, "wire"))
      <3> SUFFICES ASSUME Has(v, "wire")
                   PROVE  Unnoted(At(v, "wire"))
        OBVIOUS
      <3>1. PICK q \in Range(v.pairs) : q.key = String("wire") /\ q.value = At(v, "wire") /\ SectionAttached(q)
        BY <2>2
      <3>2. \A k \in {"locators", "asserted_by", "fields"} : q.key # String(k)
        BY <3>1, StringsDiffer
      <3>3. q.value \in Silent
        BY <3>1, <3>2 DEF SectionAttached
      <3> QED
        BY <3>1, <3>3, SilentParts
    <2>4. ASSUME NEW k \in {"locators", "fields", "asserted_by"}, Has(v, k), NEW x \in Parts(At(v, k))
          PROVE  Unnoted(x.value)
      <3>1. PICK q \in Range(v.pairs) : q.key = String(k) /\ q.value = At(v, k) /\ SectionAttached(q)
        BY <2>2, <2>4
      <3>2. \A j \in {"locators", "fields", "asserted_by"} : q.key = String(j) => j = k
        BY <3>1, StringsDiffer
      <3>3. CASE q.value.type = "list" /\ k \in {"locators", "asserted_by"}
        <4>1. \E node : ItemsAttached(q.value.items, node)
          BY <3>1, <3>2, <3>3 DEF SectionAttached
        <4>2. x \in Range(q.value.items)
          BY <2>4, <3>1, <3>3 DEF Parts
        <4> QED
          BY <4>1, <4>2, SilentParts DEF ItemsAttached
      <3>4. CASE q.value.type = "mapping" /\ k = "fields"
        <4>1. PairsAttached(q.value.pairs, "field_locator")
          BY <3>1, <3>2, <3>4 DEF SectionAttached
        <4>2. x \in Range(q.value.pairs)
          BY <2>4, <3>1, <3>4 DEF Parts
        <4> QED
          BY <4>1, <4>2, SilentParts DEF PairsAttached, EntryOf, Range
      <3>5. CASE q.value \in Silent
        BY <2>4, <3>1, <3>5, SilentParts
      <3> QED
        BY <3>1, <3>2, <3>3, <3>4, <3>5 DEF SectionAttached
    <2> QED
      BY <2>1, <2>3, <2>4 DEF NotedAtEntries
  <1> QED
    BY <1>1, <1>2

(* The comments of a file that loads are where its objects have them.      *)
LEMMA AttachedParts ==
  ASSUME NEW f \in ParsedFiles, Attached(f)
  PROVE  LET v == f.root
         IN  /\ \A p \in Range(v.pairs) : p.key # String("coverage") => p.note = None
             /\ HasA(v, "bindings", "mapping") => \A x \in Range(At(v, "bindings").pairs) :
                  x.value.type = "mapping" => NotedAtEntries(x.value)
             /\ HasA(v, "coverage", "mapping") =>
                  LET c == At(v, "coverage")
                  IN  Unnoted(c) /\ (Has(c, "fully_bound") => Unnoted(At(c, "fully_bound")))
  <1> DEFINE v == f.root
  <1>1. v \in Once(OnceBlocks) /\ v.type = "mapping"
    BY ParsedRoot
  <1>2. \A p \in Range(v.pairs) : p.key # String("coverage") => p.note = None
    BY DEF Attached
  <1>3. ASSUME NEW k, HasA(v, k, "mapping")
        PROVE  \E p \in Range(v.pairs) : /\ p.key = String(k) /\ p.value = At(v, k)
                                         /\ p.value.type = "mapping" /\ p.value \in OnceBlocks
    BY <1>1, <1>3, OnceParts DEF HasA
  <1>4. ASSUME HasA(v, "bindings", "mapping"), NEW x \in Range(At(v, "bindings").pairs),
               x.value.type = "mapping"
        PROVE  NotedAtEntries(x.value)
    <2>1. PICK p \in Range(v.pairs) : /\ p.key = String("bindings") /\ p.value = At(v, "bindings")
                                      /\ p.value.type = "mapping" /\ p.value \in OnceBlocks
      BY <1>3, <1>4
    <2>2. BindingAttached(x)
      <3>1. x \in Range(p.value.pairs)
        BY <1>4, <2>1
      <3>2. \A q \in Range(p.value.pairs) : BindingAttached(q)
        BY <2>1, StringsDiffer DEF Attached
      <3> QED
        BY <3>1, <3>2
    <2>3. x.value \in OnceBindings
      BY <1>4, <2>1, OnceParts DEF OnceBlocks
    <2> QED
      BY <1>4, <2>2, <2>3, AttachedEntries
  <1>5. ASSUME HasA(v, "coverage", "mapping")
        PROVE  LET c == At(v, "coverage")
               IN  Unnoted(c) /\ (Has(c, "fully_bound") => Unnoted(At(c, "fully_bound")))
    <2>1. PICK p \in Range(v.pairs) : /\ p.key = String("coverage") /\ p.value = At(v, "coverage")
                                      /\ p.value.type = "mapping" /\ p.value \in OnceBlocks
      BY <1>3, <1>5
    <2> DEFINE c == p.value
    <2>2. CoverageAttached(c)
      BY <2>1, StringsDiffer DEF Attached
    <2>3. ASSUME Has(c, "fully_bound")
          PROVE  Unnoted(At(c, "fully_bound"))
      <3>1. PICK q \in Range(c.pairs) : q.key = String("fully_bound") /\ q.value = At(c, "fully_bound")
        BY <2>1, <2>3, OnceParts DEF OnceBlocks
      <3>2. q.key # String("curated")
        BY <3>1, StringsDiffer
      <3>3. q.value \in Silent
        BY <2>2, <3>2 DEF CoverageAttached
      <3> QED
        BY <3>1, <3>3, SilentParts
    <2> QED
      BY <2>1, <2>2, <2>3 DEF CoverageAttached
  <1> QED
    BY <1>2, <1>4, <1>5

(* The findings of shape, but for that on the type of the version.         *)
RestFindings(f) ==
    LET v == f.root
        pairs == IF HasA(v, "bindings", "mapping") THEN Range(At(v, "bindings").pairs) ELSE {}
        named == {p \in pairs : Is(p.key.text, "id")}
    IN  ClosedKeys(v, "document") \cup Mistyped(v, "bindings", "mapping")
          \cup Code("INV-ID-GRAMMAR", pairs \ named)
          \cup (UNION {BindingFindings(p.value) : p \in named})
          \cup (IF Has(v, "coverage") THEN CoverageFindings(At(v, "coverage")) ELSE {})

LEMMA RestAndVersion ==
  \A f : ShapeFindings(f) = RestFindings(f) \cup Mistyped(f.root, "schema_version", "integer")
  <1> TAKE f
  <1> DEFINE v == f.root
             pairs == IF HasA(v, "bindings", "mapping") THEN Range(At(v, "bindings").pairs) ELSE {}
             named == {p \in pairs : Is(p.key.text, "id")}
             within == UNION {BindingFindings(p.value) : p \in named}
             covering == IF Has(v, "coverage") THEN CoverageFindings(At(v, "coverage")) ELSE {}
             grammar == Code("INV-ID-GRAMMAR", pairs \ named)
             version == Mistyped(v, "schema_version", "integer")
  <1>1. ShapeFindings(f) = ClosedKeys(v, "document") \cup version \cup Mistyped(v, "bindings", "mapping")
                             \cup grammar \cup within \cup covering
    BY DEF ShapeFindings
  <1>2. RestFindings(f) = ClosedKeys(v, "document") \cup Mistyped(v, "bindings", "mapping")
                            \cup grammar \cup within \cup covering
    BY DEF RestFindings
  <1> HIDE DEF pairs, named, within, covering, grammar, version
  <1>3. ShapeFindings(f) = RestFindings(f) \cup version
    BY <1>1, <1>2
  <1> QED
    BY <1>3 DEF version

LEMMA FileClean ==
  ASSUME NEW f, RestFindings(f) = {}
  PROVE  LET v == f.root
         IN  /\ KeysOf(v) \subseteq {String(k) : k \in RootKeys}
             /\ Has(v, "schema_version") /\ HasA(v, "bindings", "mapping")
             /\ \A p \in Range(At(v, "bindings").pairs) :
                  Is(p.key.text, "id") /\ BindingFindings(p.value) = {}
             /\ Has(v, "coverage") => CoverageFindings(At(v, "coverage")) = {}
  <1> DEFINE v == f.root
             there == IF HasA(v, "bindings", "mapping") THEN Range(At(v, "bindings").pairs) ELSE {}
             named == {p \in there : Is(p.key.text, "id")}
             within == UNION {BindingFindings(p.value) : p \in named}
             covering == IF Has(v, "coverage") THEN CoverageFindings(At(v, "coverage")) ELSE {}
  <1>1. RestFindings(f) =
          ClosedKeys(v, "document") \cup Mistyped(v, "bindings", "mapping")
            \cup Code("INV-ID-GRAMMAR", there \ named) \cup within \cup covering
    BY DEF RestFindings
  <1> HIDE DEF there, named, within, covering
  <1>2. /\ ClosedKeys(v, "document") = {}
        /\ Mistyped(v, "bindings", "mapping") = {} /\ Code("INV-ID-GRAMMAR", there \ named) = {}
        /\ within = {} /\ covering = {}
    BY <1>1
  <1>3. /\ KeysOf(v) \subseteq {String(k) : k \in RootKeys}
        /\ Has(v, "schema_version") /\ Has(v, "bindings")
    BY <1>2, ClosedClean, BindingKeys DEF RootKeys
  <1>4. HasA(v, "bindings", "mapping")
    BY <1>2, <1>3 DEF Mistyped, CodeIf, HasA
  <1>5. there = named
    BY <1>2 DEF Code, named
  <1>6. \A p \in named : Is(p.key.text, "id") /\ BindingFindings(p.value) = {}
    <2>1. \A p \in named : BindingFindings(p.value) \subseteq within
      BY DEF within
    <2> QED
      BY <1>2, <2>1 DEF named
  <1>7. there = Range(At(v, "bindings").pairs)
    BY <1>4 DEF there
  <1>8. Has(v, "coverage") => CoverageFindings(At(v, "coverage")) = {}
    BY <1>2 DEF covering
  <1> QED
    BY <1>3, <1>4, <1>5, <1>6, <1>7, <1>8

(* No field name of a binding is taken for another, and none for the       *)
(* binding.                                                                *)
NamesTold(p) ==
    /\ HasA(p.value, "fields", "mapping") /\ p.value.type = "mapping" =>
         Apart(At(p.value, "fields").pairs)
    /\ LET b == Binding(p.value, p.note) IN b # None => ~Relocates(p.value, b)

LEMMA ShapeSpelled ==
  ASSUME NEW f \in ParsedFiles, Attached(f), RestFindings(f) = {},
         Map(f).coverage # None => KindsNamed(Map(f).coverage),
         \A p \in Range(At(f.root, "bindings").pairs) : NamesTold(p)
  PROVE  /\ SpellsRest(f, Map(f)) /\ Map(f) \in MapType
         /\ At(f.root, "schema_version").type = "integer" => SpellsMap(f, Map(f))
  <1> DEFINE v == f.root
             m == Map(f)
             pairs == At(v, "bindings").pairs
             d == Dict([n \in DOMAIN pairs |-> BindingEntry(pairs[n])])
             c == Coverage(At(v, "coverage"), PairAt(v, "coverage").note)
             version == IF HasA(v, "schema_version", "integer")
                          THEN At(v, "schema_version").text ELSE None
  <1>1. /\ f \in FileType /\ v \in Once(OnceBlocks) /\ v.type = "mapping" /\ f.header \in Note
        /\ \A p \in Range(v.pairs) : p.key # String("coverage") => p.note = None
        /\ HasA(v, "bindings", "mapping") => \A x \in Range(At(v, "bindings").pairs) :
             x.value.type = "mapping" => NotedAtEntries(x.value)
        /\ HasA(v, "coverage", "mapping") =>
             /\ Unnoted(At(v, "coverage"))
             /\ Has(At(v, "coverage"), "fully_bound") => Unnoted(At(At(v, "coverage"), "fully_bound"))
    BY AttachedParts, ParsedRoot, OnceDepths
  <1>2. m.coverage # None => KindsNamed(m.coverage)
    OBVIOUS
  <1>3. /\ KeysOf(v) \subseteq {String(k) : k \in RootKeys}
        /\ Has(v, "schema_version") /\ HasA(v, "bindings", "mapping")
        /\ Has(v, "bindings") /\ At(v, "bindings").type = "mapping"
        /\ \A p \in Range(At(v, "bindings").pairs) :
             Is(p.key.text, "id") /\ BindingFindings(p.value) = {}
        /\ Has(v, "coverage") => CoverageFindings(At(v, "coverage")) = {}
    BY FileClean DEF HasA
  <1>4. m \in MapType
    BY <1>1, MapTyped
  <1>5. m = [schema_version |-> version, bindings |-> d,
             coverage |-> IF Has(v, "coverage") THEN c ELSE None, header |-> f.header]
    BY <1>3 DEF Map
  <1> HIDE DEF m, d, c, version
  <1>6. /\ m.schema_version = version /\ m.bindings = d
        /\ m.coverage = (IF Has(v, "coverage") THEN c ELSE None) /\ m.header = f.header
    BY <1>5
  <1>7. /\ UniqueKeys(v.pairs)
        /\ \A k : Has(v, k) => /\ At(v, k) \in OnceBlocks /\ PairAt(v, k).note \in Note
    <2>1. \A p \in PairsOf(OnceBlocks) : p.note \in Note
      BY DEF PairsOf
    <2> QED
      BY <1>1, <2>1, OnceParts
  <1>8. ASSUME At(v, "schema_version").type = "integer"
        PROVE  At(v, "schema_version") = Scalar("integer", m.schema_version)
    <2>1. At(v, "schema_version") \in Scalars
      BY <1>3, <1>7, <1>8, OnceParts, ValueParts DEF OnceBlocks, ScalarTypes
    <2>2. m.schema_version = At(v, "schema_version").text
      BY <1>3, <1>6, <1>8 DEF version, HasA
    <2> QED
      BY <1>8, <2>1, <2>2 DEF Scalars, Scalar
  <1>9. SpellsBindings(At(v, "bindings"), m.bindings)
    <2>1. At(v, "bindings") \in OnceBlocks
      BY <1>3, <1>7
    <2>3. \A p \in Range(pairs) :
            /\ Is(p.key.text, "id") /\ BindingFindings(p.value) = {} /\ NotedAtEntries(p.value)
            /\ Has(p.value, "fields") => Apart(At(p.value, "fields").pairs)
            /\ ~Relocates(p.value, Binding(p.value, p.note))
      <3> TAKE p \in Range(pairs)
      <3>1. /\ p.value.type = "mapping" /\ (Has(p.value, "fields") => HasA(p.value, "fields", "mapping"))
            /\ HasA(p.value, "locators", "list")
        BY <1>3, BindingClean DEF HasA
      <3>2. NotedAtEntries(p.value)
        BY <1>1, <1>3, <3>1
      <3>3. Binding(p.value, p.note) # None
        <4>1. p.value \in OnceBindings /\ p.note \in Note
          <5>1. p \in PairsOf(OnceBindings)
            BY <1>3, <2>1, OnceParts DEF OnceBlocks
          <5> QED
            BY <5>1 DEF PairsOf
        <4>2. p.value \in DocumentValues /\ Note \subseteq TextOrNone
          BY <4>1, OnceDepths, NotesAreTexts
        <4> QED
          BY <3>1, <4>1, <4>2, BindingTyped
      <3>4. NamesTold(p)
        OBVIOUS
      <3> QED
        BY <1>3, <3>1, <3>2, <3>3, <3>4 DEF NamesTold
    <2> QED
      BY <1>3, <1>6, <2>1, <2>3, BindingsSpelled DEF d
  <1>10. /\ Has(v, "coverage") <=> m.coverage # None
         /\ m.coverage # None => /\ SpellsCoverage(At(v, "coverage"), m.coverage)
                                 /\ PairAt(v, "coverage").note = m.coverage.comment
    <2>1. CASE ~Has(v, "coverage")
      BY <1>6, <2>1
    <2>2. CASE Has(v, "coverage")
      <3>1. At(v, "coverage").type = "mapping" /\ HasA(v, "coverage", "mapping")
        BY <1>3, <2>2, CoverageClean DEF HasA
      <3>2. c \in CoverageType \cup {None} /\ c # None
        <4>1. At(v, "coverage") \in Values(DocumentValues) /\ PairAt(v, "coverage").note \in Note
          BY <1>7, <2>2, OnceDepths
        <4>2. c \in CoverageType
          BY <3>1, <4>1, CoverageTyped DEF c
        <4> QED
          BY <4>2, NoneAssumption
      <3>3. KindsNamed(c)
        BY <1>2, <1>6, <2>2, <3>2
      <3>4. c.comment = PairAt(v, "coverage").note /\ SpellsCoverage(At(v, "coverage"), c)
        BY <1>1, <1>3, <1>7, <2>2, <3>1, <3>3, CoverageSpelled DEF c
      <3> QED
        BY <1>6, <2>2, <3>2, <3>4
    <2> QED
      BY <2>1, <2>2
  <1>11. SpellsRest(f, m)
    BY <1>1, <1>3, <1>6, <1>7, <1>9, <1>10 DEF SpellsRest
  <1> QED
    BY <1>4, <1>8, <1>11 DEF m, SpellsMap

LEMMA MapSpelled ==
  ASSUME NEW f \in ParsedFiles, Attached(f), FileFindings(f) = {},
         \A p \in Range(At(f.root, "bindings").pairs) : NamesTold(p)
  PROVE  SpellsMap(f, Map(f)) /\ Good(Map(f))
  <1>1. /\ RestFindings(f) = {} /\ Mistyped(f.root, "schema_version", "integer") = {}
        /\ MapCodes(Map(f)) = {}
    BY RestAndVersion DEF FileFindings
  <1>2. f \in FileType
    BY DEF ParsedFiles
  <1>3. Map(f) \in MapType /\ MapRules(Map(f))
    BY <1>1, <1>2, MapTyped, MapFine
  <1>4. Map(f).coverage # None => KindsNamed(Map(f).coverage)
    BY <1>3 DEF MapRules, CoverageRules, KindsNamed
  <1>5. Has(f.root, "schema_version") /\ At(f.root, "schema_version").type = "integer"
    BY <1>1, FileClean DEF Mistyped, CodeIf
  <1>6. SpellsMap(f, Map(f))
    BY <1>1, <1>4, <1>5, ShapeSpelled
  <1> QED
    BY <1>3, <1>6 DEF Good

(***************************************************************************)
(* What is written from a good map spells it.                              *)
(***************************************************************************)
LEMMA OnceContainers ==
  /\ \A S : \A s \in Seq(PairsOf(S)) : UniqueKeys(s) /\ NoMerge(s) => Mapping(s) \in Once(S)
  /\ \A S : \A s \in Seq(ItemsOf(S)) : List(s) \in Once(S)
  <1>1. ASSUME NEW S, NEW s \in Seq(PairsOf(S)), UniqueKeys(s), NoMerge(s)
        PROVE  Mapping(s) \in Once(S)
    <2>1. Mapping(s) \in Values(S) /\ Mapping(s).pairs = s
      BY Containers
    <2> QED
      BY <1>1, <2>1 DEF Once, NoMerge
  <1>2. ASSUME NEW S, NEW s \in Seq(ItemsOf(S))
        PROVE  List(s) \in Once(S)
    <2>1. List(s) \in Values(S) /\ List(s).type = "list"
      BY Containers
    <2> QED
      BY <2>1 DEF Once
  <1> QED
    BY <1>1, <1>2

LEMMA StringsUnmerged ==
  \A pairs : (\A p \in Range(pairs) : \E k : p.key = String(k)) => NoMerge(pairs)
  <1>1. \A k : String(k).type # "merge"
    BY DEF String, Scalar
  <1> QED
    BY <1>1 DEF NoMerge

LEMMA OnceMonotonic ==
  /\ \A T : \A S \in SUBSET T : Once(S) \subseteq Once(T)
  /\ OnceEntries \subseteq OnceSections /\ OnceSections \subseteq OnceBindings
  /\ OnceBindings \subseteq OnceBlocks
  <1>1. ASSUME NEW T, NEW S \in SUBSET T
        PROVE  Once(S) \subseteq Once(T)
    <2>1. Values(S) \subseteq Values(T)
      BY ValuesMonotonic
    <2> QED
      BY <2>1 DEF Once
  <1>2. Once({}) \subseteq Once(Once({}))
    BY <1>1
  <1>3. OnceEntries \subseteq OnceSections
    BY <1>1, <1>2 DEF OnceEntries, OnceSections
  <1>4. OnceSections \subseteq OnceBindings
    BY <1>1, <1>3 DEF OnceBindings, OnceSections
  <1>5. OnceBindings \subseteq OnceBlocks
    BY <1>1, <1>4 DEF OnceBindings, OnceBlocks
  <1> QED
    BY <1>1, <1>3, <1>4, <1>5

LEMMA ChosenInjective ==
  ASSUME NEW S, NEW s \in Seq(S), IsInjective(s), NEW P \in SUBSET DOMAIN s
  PROVE  IsInjective(Chosen(s, P))
  <1>1. P \in SUBSET Nat /\ IsFiniteSet(P) /\ \A n \in P : s[n] \in S
    BY PlacesFinite, ListProperties
  <1>a. Picks(Chosen(s, P), s, P)
    BY <1>1, ChosenPicks
  <1>0. PICK c \in Nat : \E at \in [1..c -> P] :
          /\ \A i, j \in 1..c : i < j => at[i] < at[j]
          /\ \A n \in P : \E i \in 1..c : at[i] = n
          /\ Chosen(s, P) = [i \in 1..c |-> s[at[i]]]
    BY <1>a DEF Picks
  <1>2. PICK at \in [1..c -> P] :
          /\ \A i, j \in 1..c : i < j => at[i] < at[j]
          /\ Chosen(s, P) = [i \in 1..c |-> s[at[i]]]
    BY <1>0
  <1>3. ASSUME NEW i \in 1..c, NEW j \in 1..c, s[at[i]] = s[at[j]]
        PROVE  i = j
    <2>1. at[i] \in DOMAIN s /\ at[j] \in DOMAIN s /\ at[i] \in Nat /\ at[j] \in Nat
      BY <1>1
    <2>2. at[i] = at[j]
      BY <1>3, <2>1 DEF IsInjective
    <2> QED
      BY <1>2, <2>1, <2>2
  <1> QED
    BY <1>2, <1>3 DEF IsInjective

LEMMA FlatSpells ==
  ASSUME TextsReadBack, NEW node \in Nodes, NEW C \in SUBSET TextOrNone, NEW x \in EntryType(node, C),
         StringRules(x)
  PROVE  /\ WrittenFlat(x, node) \in OnceEntries /\ Spells(WrittenFlat(x, node), x)
         /\ Unnoted(WrittenFlat(x, node))
  <1> DEFINE order == KeyOrder[node]
             P == {n \in DOMAIN order : order[n] \in DOMAIN x.strings}
             keys == Chosen(order, P)
             f == [n \in DOMAIN keys |-> Pair(String(keys[n]), Written(x.strings[keys[n]]), None)]
  <1>1. /\ DOMAIN x.strings \subseteq DOMAIN Shape[node].keys
        /\ x.strings \in [DOMAIN x.strings -> Texts]
    BY DEF EntryType, StringsOf
  <1>2. WrittenFlat(x, node) = Mapping(f)
    BY DEF WrittenFlat
  <1>3. keys \in Seq(Texts) /\ Range(keys) = DOMAIN x.strings
    BY <1>1, StringsInOrder
  <1>4. IsInjective(keys)
    <2>1. P \in SUBSET DOMAIN order
      OBVIOUS
    <2> HIDE DEF P
    <2> QED
      BY <2>1, KeyOrders, ChosenInjective
  <1> HIDE DEF keys
  <1>5. ASSUME NEW n \in DOMAIN keys
        PROVE  f[n] \in PairsOf(Once({})) /\ f[n].key = String(keys[n]) /\ f[n].note = None
    <2>1. keys[n] \in Texts /\ keys[n] \in DOMAIN x.strings
      BY <1>3, ListProperties DEF Range
    <2>2. x.strings[keys[n]] \in Texts
      BY <1>1, <2>1
    <2>3. String(keys[n]) \in Scalars /\ Written(x.strings[keys[n]]) \in Once({})
      BY <2>1, <2>2, TextsWritten, OnceDepths
    <2> QED
      BY <2>3, Pairs, NotesAreTexts
  <1>6. f \in Seq(PairsOf(Once({})))
    BY <1>3, <1>5, MappedList
  <1>7. UniqueKeys(f)
    BY <1>4, <1>5, StringsDiffer DEF UniqueKeys, IsInjective
  <1>8. NoMerge(f) /\ \A p \in Range(f) : p.note = None
    BY <1>5, StringsUnmerged DEF Range
  <1> HIDE DEF f
  <1>9. Mapping(f) \in OnceEntries /\ Mapping(f).type = "mapping" /\ Mapping(f).pairs = f
    BY <1>6, <1>7, <1>8, OnceContainers, Containers DEF OnceEntries
  <1>10. Unnoted(Mapping(f))
    BY <1>8, <1>9 DEF Unnoted, Parts
  <1>11. \A k \in DOMAIN x.strings : Written(x.strings[k]) = String(x.strings[k])
    BY StringsKept
  <1>12. {Pair(String(k), Written(x.strings[k]), None) : k \in DOMAIN x.strings} =
           {Pair(String(k), String(x.strings[k]), None) : k \in DOMAIN x.strings}
    BY <1>11
  <1>13. Spells(WrittenFlat(x, node), x)
    BY <1>12, FlatWritten DEF Spells
  <1> QED
    BY <1>2, <1>9, <1>10, <1>13

LEMMA ListSpells ==
  ASSUME TextsReadBack, NEW node \in Nodes, NEW s \in Seq(EntryType(node, Note)),
         \A x \in Range(s) : StringRules(x)
  PROVE  /\ WrittenList(s, node) \in OnceSections /\ SpellsEntries(WrittenList(s, node), s)
         /\ \A x \in Parts(WrittenList(s, node)) : Unnoted(x.value)
  <1> DEFINE f == [n \in DOMAIN s |-> Item(WrittenFlat(s[n], node), s[n].comment)]
  <1>1. ASSUME NEW n \in DOMAIN s
        PROVE  /\ f[n] \in ItemsOf(OnceEntries) /\ Spells(f[n].value, s[n])
               /\ f[n].note = s[n].comment /\ Unnoted(f[n].value)
    <2>1. s[n] \in EntryType(node, Note) /\ s[n] \in Range(s)
      BY ListProperties DEF Range
    <2>2. /\ s[n].comment \in Note /\ WrittenFlat(s[n], node) \in OnceEntries
          /\ Spells(WrittenFlat(s[n], node), s[n]) /\ Unnoted(WrittenFlat(s[n], node))
      BY <2>1, FlatSpells, NotesAreTexts DEF EntryType
    <2> QED
      BY <2>2 DEF Item, ItemsOf
  <1>2. f \in Seq(ItemsOf(OnceEntries))
    BY <1>1, MappedList
  <1>3. WrittenList(s, node) = List(f) /\ DOMAIN f = DOMAIN s
    BY DEF WrittenList
  <1>4. \A x \in Range(f) : Unnoted(x.value)
    BY <1>1 DEF Range
  <1>5. \A n \in DOMAIN s : Spells(f[n].value, s[n]) /\ f[n].note = s[n].comment
    BY <1>1
  <1> HIDE DEF f
  <1>6. List(f) \in OnceSections /\ List(f).type = "list" /\ List(f).items = f
    BY <1>2, OnceContainers, Containers DEF OnceSections
  <1> QED
    BY <1>3, <1>4, <1>5, <1>6 DEF SpellsEntries, Parts

LEMMA FieldsSpell ==
  ASSUME TextsReadBack, NEW d \in DictsOf(Texts, EntryType("field_locator", Note)), FieldsRules(d, FALSE)
  PROVE  /\ WrittenFields(d) \in OnceSections /\ SpellsFields(WrittenFields(d), d)
         /\ \A x \in Parts(WrittenFields(d)) : Unnoted(x.value)
  <1> DEFINE f == [n \in DOMAIN d |->
                     Pair(Written(d[n].key), WrittenFlat(d[n].value, "field_locator"),
                          d[n].value.comment)]
             E == [key : Texts, value : EntryType("field_locator", Note)]
  <1>1. d \in Seq(E) /\ UniqueKeys(d)
    BY DEF DictsOf
  <1>2. ASSUME NEW n \in DOMAIN d
        PROVE  /\ f[n] \in PairsOf(OnceEntries) /\ f[n].key = String(d[n].key)
               /\ Spells(f[n].value, d[n].value) /\ Unnoted(f[n].value)
               /\ f[n].note = d[n].value.comment
    <2>1. d[n] \in E /\ d[n] \in Range(d)
      BY <1>1, ListProperties DEF Range
    <2>2. d[n].key \in Texts /\ d[n].value \in EntryType("field_locator", Note)
      BY <2>1
    <2>3. StringRules(d[n].value) /\ ~Is(d[n].key, "control")
      BY <2>1 DEF FieldsRules, FieldNameRules
    <2>4. Written(d[n].key) = String(d[n].key) /\ String(d[n].key) \in Scalars
      BY <2>2, <2>3, TextsWritten DEF TextsReadBack
    <2>5. /\ d[n].value.comment \in Note /\ WrittenFlat(d[n].value, "field_locator") \in OnceEntries
          /\ Spells(WrittenFlat(d[n].value, "field_locator"), d[n].value)
          /\ Unnoted(WrittenFlat(d[n].value, "field_locator"))
      BY <2>2, <2>3, FlatSpells, NotesAreTexts DEF EntryType, Nodes
    <2>6. f[n] = Pair(String(d[n].key), WrittenFlat(d[n].value, "field_locator"), d[n].value.comment)
      BY <2>4
    <2> HIDE DEF f
    <2>7. f[n] \in PairsOf(OnceEntries)
      BY <2>4, <2>5, <2>6, Pairs
    <2> QED
      BY <2>5, <2>6, <2>7, PairIs
  <1>3. f \in Seq(PairsOf(OnceEntries))
    <2>1. \A n \in DOMAIN d : f[n] \in PairsOf(OnceEntries)
      BY <1>2
    <2> HIDE DEF E
    <2> QED
      BY <1>1, <2>1, MappedList
  <1>4. WrittenFields(d) = Mapping(f) /\ DOMAIN f = DOMAIN d
    <2>1. \A n \in DOMAIN d : f[n] = WrittenField(d[n], Written(d[n].key))
      BY DEF WrittenField
    <2>2. f = [n \in DOMAIN d |-> WrittenField(d[n], Written(d[n].key))]
      BY <2>1
    <2>3. \A p \in Range(f) : ~Merges(p)
      <3>1. DOMAIN f = DOMAIN d
        OBVIOUS
      <3> HIDE DEF f
      <3>2. \A p \in Range(f) : \E k : p.key = String(k)
        BY <1>2, <3>1 DEF Range
      <3>3. NoMerge(f)
        BY <3>2, StringsUnmerged
      <3> QED
        BY <3>3 DEF NoMerge, Merges
    <2> HIDE DEF f
    <2> QED
      BY <2>2, <2>3 DEF WrittenFields, Merged
  <1>5. UniqueKeys(f)
    BY <1>1, <1>2, StringsDiffer DEF UniqueKeys
  <1>6. NoMerge(f) /\ \A x \in Range(f) : Unnoted(x.value)
    BY <1>2, StringsUnmerged DEF Range
  <1>7. \A n \in DOMAIN d : /\ f[n].key.text = d[n].key /\ Spells(f[n].value, d[n].value)
                            /\ f[n].note = d[n].value.comment
    <2>1. \A t : String(t).text = t
      BY DEF String, Scalar
    <2> QED
      BY <1>2, <2>1
  <1> HIDE DEF f
  <1>8. Mapping(f) \in OnceSections /\ Mapping(f).type = "mapping" /\ Mapping(f).pairs = f
    BY <1>3, <1>5, <1>6, OnceContainers, Containers DEF OnceSections
  <1> QED
    BY <1>4, <1>6, <1>7, <1>8 DEF SpellsFields, Parts

LEMMA AppendUnique ==
  ASSUME NEW S, NEW s \in Seq(S), UniqueKeys(s), NEW p \in S, \A q \in Range(s) : q.key # p.key
  PROVE  Append(s, p) \in Seq(S) /\ UniqueKeys(Append(s, p)) /\ Range(Append(s, p)) = Range(s) \cup {p}
  <1> DEFINE t == Append(s, p)
  <1>1. /\ t \in Seq(S) /\ Len(s) \in Nat /\ DOMAIN s = 1..Len(s)
        /\ DOMAIN t = 1..(Len(s) + 1) /\ \A n \in 1..Len(s) : t[n] = s[n]
        /\ t[Len(s) + 1] = p /\ Range(t) = Range(s) \cup {p}
    BY AppendList, ListProperties
  <1>2. \A n \in DOMAIN s : s[n].key # p.key
    BY DEF Range
  <1> HIDE DEF t
  <1>3. ASSUME NEW m \in DOMAIN t, NEW n \in DOMAIN t, t[m].key = t[n].key
        PROVE  m = n
    <2>1. CASE m \in DOMAIN s /\ n \in DOMAIN s
      BY <1>1, <1>3, <2>1 DEF UniqueKeys
    <2>2. CASE m \in DOMAIN s /\ n = Len(s) + 1
      BY <1>1, <1>2, <1>3, <2>2
    <2>3. CASE n \in DOMAIN s /\ m = Len(s) + 1
      BY <1>1, <1>2, <1>3, <2>3
    <2> QED
      BY <1>1, <2>1, <2>2, <2>3
  <1>4. UniqueKeys(t)
    BY <1>3 DEF UniqueKeys
  <1> QED
    BY <1>1, <1>4 DEF t

(* A section more, at a key that is not there.                             *)
LEMMA SectionApart ==
  ASSUME NEW S, NEW s \in Seq(PairsOf(S)), UniqueKeys(s), NEW keys,
         \A p \in Range(s) : p.key \in {String(k) : k \in keys},
         NEW present, NEW k \in Texts, k \notin keys, NEW v, present => v \in S,
         NEW t, t = s \o Section(present, k, v)
  PROVE  /\ t \in Seq(PairsOf(S)) /\ UniqueKeys(t)
         /\ \A p \in Range(t) : p.key \in {String(j) : j \in keys \cup {k}}
  <1>1. CASE ~present
    <2>1. t = s \o <<>>
      BY <1>1 DEF Section
    <2>2. t = s
      BY <2>1, ConcatEmptySeq
    <2> QED
      BY <2>2
  <1>2. CASE present
    <2> DEFINE p == Pair(String(k), v, None)
    <2>1. t = s \o <<p>>
      BY <1>2 DEF Section
    <2>2. p \in PairsOf(S) /\ p.key = String(k)
      BY <1>2, Pairs, StringScalar, NotesAreTexts
    <2> HIDE DEF p
    <2>3. t = Append(s, p)
      BY <2>1, <2>2, AppendIsConcat
    <2>4. String(k) \notin {String(j) : j \in keys}
      BY StringsDiffer
    <2>5. \A q \in Range(s) : q.key # p.key
      BY <2>2, <2>4
    <2>6. t \in Seq(PairsOf(S)) /\ UniqueKeys(t) /\ Range(t) = Range(s) \cup {p}
      BY <2>2, <2>3, <2>5, AppendUnique
    <2> QED
      BY <2>2, <2>6
  <1> QED
    BY <1>1, <1>2

LEMMA BindingSpells ==
  ASSUME TextsReadBack, NEW b \in BindingType(Note), BindingRules(b, FALSE)
  PROVE  /\ WrittenBinding(b) \in OnceBindings /\ SpellsBinding(WrittenBinding(b), b)
         /\ NotedAtEntries(WrittenBinding(b))
  <1> DEFINE v == WrittenBinding(b)
             v1 == WrittenList(b.locators, "locator")
             v2 == Written(b.compare_via)
             v3 == OrNull(WrittenFields(b.fields), b.fields = <<>>)
             v4 == OrNull(WrittenFlat(b.wire, "wire"), DOMAIN b.wire.strings = {})
             v5 == OrNull(WrittenList(b.asserted_by, "assertion"), b.asserted_by = <<>>)
             s1 == <<Pair(String("locators"), v1, None)>>
             s2 == s1 \o Section(b.compare_via # None, "compare_via", v2)
             s3 == s2 \o Section(b.fields # None, "fields", v3)
             s4 == s3 \o Section(b.wire # None, "wire", v4)
             s5 == s4 \o Section(b.asserted_by # None, "asserted_by", v5)
             P == PairsOf(OnceSections)
  <1>1. /\ b.locators \in Seq(EntryType("locator", Note)) /\ b.compare_via \in Texts \cup {None}
        /\ b.fields \in DictsOf(Texts, EntryType("field_locator", Note)) \cup {None}
        /\ b.wire \in EntryType("wire", {None}) \cup {None}
        /\ b.asserted_by \in Seq(EntryType("assertion", Note)) \cup {None}
    BY DEF BindingType, TextOrNone
  <1>2. /\ ScalarRules(b.compare_via) /\ LocatorsRules(b.locators, FALSE)
        /\ b.fields # None => b.fields # <<>> /\ FieldsRules(b.fields, FALSE)
        /\ b.wire # None => WireRules(b.wire)
        /\ b.asserted_by # None => b.asserted_by # <<>> /\ AssertedRules(b.asserted_by, FALSE)
    BY DEF BindingRules
  <1>3. /\ v1 \in OnceSections /\ SpellsEntries(v1, b.locators)
        /\ \A x \in Parts(v1) : Unnoted(x.value)
    BY <1>1, <1>2, ListSpells DEF LocatorsRules, Nodes
  <1>4. b.compare_via # None => v2 = String(b.compare_via) /\ v2 \in OnceSections
    BY <1>1, <1>2, TextsWritten, OnceDepths DEF ScalarRules, OnceSections, TextsReadBack
  <1>5. b.fields # None => /\ v3 = WrittenFields(b.fields) /\ v3 \in OnceSections
                           /\ SpellsFields(v3, b.fields) /\ \A x \in Parts(v3) : Unnoted(x.value)
    BY <1>1, <1>2, FieldsSpell DEF OrNull
  <1>6. b.wire # None => /\ v4 = WrittenFlat(b.wire, "wire") /\ v4 \in OnceSections
                         /\ Spells(v4, b.wire) /\ Unnoted(v4)
    <2>1. {None} \in SUBSET TextOrNone
      BY DEF TextOrNone
    <2> QED
      BY <1>1, <1>2, <2>1, FlatSpells, OnceMonotonic DEF OrNull, WireRules, Nodes
  <1>7. b.asserted_by # None =>
          /\ v5 = WrittenList(b.asserted_by, "assertion") /\ v5 \in OnceSections
          /\ SpellsEntries(v5, b.asserted_by) /\ \A x \in Parts(v5) : Unnoted(x.value)
    BY <1>1, <1>2, ListSpells DEF OrNull, AssertedRules, Nodes
  <1>8. v = Mapping(s5)
    BY DEF WrittenBinding
  <1> HIDE DEF v, v1, v2, v3, v4, v5
  <1>9. s1 \in Seq(P) /\ UniqueKeys(s1) /\ \A p \in Range(s1) : p.key \in {String(k) : k \in {"locators"}}
    <2>1. "locators" \in Texts
      BY KeyTexts
    <2>2. s1 \in Seq(P) /\ Range(s1) = {Pair(String("locators"), v1, None)}
      BY <1>3, <2>1, OnePair
    <2>3. DOMAIN s1 = {1}
      OBVIOUS
    <2>4. UniqueKeys(s1)
      BY <2>3 DEF UniqueKeys
    <2> HIDE DEF s1
    <2> QED
      BY <2>2, <2>4, PairIs
  <1>10. /\ s2 \in Seq(P) /\ UniqueKeys(s2)
         /\ \A p \in Range(s2) : p.key \in {String(k) : k \in {"locators"} \cup {"compare_via"}}
    <2>1. "compare_via" \in Texts \ {"locators"}
      BY KeyTexts
    <2> HIDE DEF s1
    <2> QED
      BY <1>4, <1>9, <2>1, SectionApart
  <1>11. /\ s3 \in Seq(P) /\ UniqueKeys(s3)
         /\ \A p \in Range(s3) : p.key \in {String(k) : k \in ({"locators"} \cup {"compare_via"}) \cup {"fields"}}
    <2>1. "fields" \in Texts \ ({"locators"} \cup {"compare_via"})
      BY KeyTexts
    <2> HIDE DEF s2
    <2> QED
      BY <1>5, <1>10, <2>1, SectionApart
  <1>12. /\ s4 \in Seq(P) /\ UniqueKeys(s4)
         /\ \A p \in Range(s4) : p.key \in {String(k) : k \in (({"locators"} \cup {"compare_via"})
                                                                  \cup {"fields"}) \cup {"wire"}}
    <2> DEFINE J == ({"locators"} \cup {"compare_via"}) \cup {"fields"}
               k == "wire"
    <2>1. k \in Texts /\ k \notin J
      BY KeyTexts
    <2>2. \A p \in Range(s3) : p.key \in {String(x) : x \in J}
      BY <1>11
    <2>3. s4 = s3 \o Section(b.wire # None, k, v4) /\ (b.wire # None => v4 \in OnceSections)
      BY <1>6
    <2> HIDE DEF s3, s4, J, k
    <2>4. s4 \in Seq(P) /\ UniqueKeys(s4) /\ \A p \in Range(s4) : p.key \in {String(x) : x \in J \cup {k}}
      BY <1>11, <2>1, <2>2, <2>3, SectionApart
    <2> QED
      BY <2>4 DEF J, k
  <1>13. s5 \in Seq(P) /\ UniqueKeys(s5) /\ NoMerge(s5)
    <2> DEFINE K == (({"locators"} \cup {"compare_via"}) \cup {"fields"}) \cup {"wire"}
    <2>1. "asserted_by" \in Texts /\ "asserted_by" \notin K
      BY KeyTexts
    <2>2. \A p \in Range(s4) : p.key \in {String(k) : k \in K}
      BY <1>12
    <2>3. s5 = s4 \o Section(b.asserted_by # None, "asserted_by", v5)
      OBVIOUS
    <2>4. b.asserted_by # None => v5 \in OnceSections
      BY <1>7
    <2> HIDE DEF s4, s5, K
    <2>5. /\ s5 \in Seq(P) /\ UniqueKeys(s5)
          /\ \A p \in Range(s5) : p.key \in {String(j) : j \in K \cup {"asserted_by"}}
      BY <1>12, <2>1, <2>2, <2>3, <2>4, SectionApart
    <2> QED
      BY <2>5, StringsUnmerged
  <1> HIDE DEF s5
  <1>14. v \in OnceBindings /\ v.type = "mapping" /\ v.pairs = s5
    BY <1>8, <1>13, OnceContainers, Containers DEF OnceBindings
  <1>15. Unnoted(v)
    <2>1. Range(v.pairs) =
            {Pair(String("locators"), WrittenList(b.locators, "locator"), None)}
              \cup PairIf(b.compare_via # None, "compare_via", Written(b.compare_via))
              \cup PairIf(b.fields # None, "fields",
                          OrNull(WrittenFields(b.fields), b.fields = <<>>))
              \cup PairIf(b.wire # None, "wire",
                          OrNull(WrittenFlat(b.wire, "wire"), DOMAIN b.wire.strings = {}))
              \cup PairIf(b.asserted_by # None, "asserted_by",
                          OrNull(WrittenList(b.asserted_by, "assertion"), b.asserted_by = <<>>))
      BY BindingWritten DEF v
    <2>2. \A present, k, w : \A p \in PairIf(present, k, w) : p.note = None
      BY PairIs DEF PairIf
    <2>3. \A p \in Range(v.pairs) : p.note = None
      BY <2>1, <2>2, PairIs
    <2> QED
      BY <1>14, <2>3 DEF Unnoted, Parts
  <1>16. /\ KeysOf(v) \subseteq {String(k) : k \in SectionKeys}
         /\ Has(v, "locators") /\ At(v, "locators") = v1
         /\ Has(v, "compare_via") <=> b.compare_via # None
         /\ b.compare_via # None => At(v, "compare_via") = v2
         /\ Has(v, "fields") <=> b.fields # None
         /\ b.fields # None => At(v, "fields") = WrittenFields(b.fields)
         /\ Has(v, "wire") <=> b.wire # None
         /\ b.wire # None => At(v, "wire") = WrittenFlat(b.wire, "wire")
         /\ Has(v, "asserted_by") <=> b.asserted_by # None
         /\ b.asserted_by # None => At(v, "asserted_by") = WrittenList(b.asserted_by, "assertion")
    <2>1. b.fields # <<>> /\ b.asserted_by # <<>> /\ (b.wire # None => DOMAIN b.wire.strings # {})
      BY <1>2, EmptyList, NoneAssumption DEF WireRules
    <2> QED
      BY <2>1, SectionsAt DEF v, v1, v2
  <1>17. SpellsBinding(v, b)
    BY <1>3, <1>4, <1>5, <1>6, <1>7, <1>13, <1>14, <1>15, <1>16 DEF SpellsBinding
  <1>18. NotedAtEntries(v)
    <2>1. ASSUME NEW k \in {"locators", "fields", "asserted_by"}, Has(v, k), NEW x \in Parts(At(v, k))
          PROVE  Unnoted(x.value)
      BY <1>3, <1>5, <1>7, <1>16, <2>1
    <2> QED
      BY <1>6, <1>15, <1>16, <2>1 DEF NotedAtEntries
  <1> QED
    BY <1>14, <1>17, <1>18 DEF v

LEMMA ListedSpells ==
  ASSUME TextsReadBack, NEW s \in Seq(Texts), \A k \in Range(s) : Is(k, "kind")
  PROVE  /\ ListedOut(s) \in OnceBindings /\ SpellsListed(ListedOut(s), s) /\ Unnoted(ListedOut(s))
  <1> DEFINE f == [n \in DOMAIN s |-> Item(Bare(s[n]), None)]
  <1>1. ASSUME NEW n \in DOMAIN s
        PROVE  f[n] \in ItemsOf(OnceSections) /\ f[n].value = String(s[n]) /\ f[n].note = None
    <2>1. s[n] \in Texts /\ Is(s[n], "kind")
      BY ListProperties DEF Range
    <2>2. Bare(s[n]) = String(s[n]) /\ String(s[n]) \in OnceSections
      BY <2>1, StringScalar, OnceDepths DEF TextsReadBack, OnceSections
    <2> QED
      BY <2>2, NotesAreTexts DEF Item, ItemsOf
  <1>2. f \in Seq(ItemsOf(OnceSections))
    BY <1>1, MappedList
  <1>3. ListedOut(s) = List(f) /\ DOMAIN f = DOMAIN s
    BY DEF ListedOut
  <1>4. \A x \in Range(f) : x.note = None
    BY <1>1 DEF Range
  <1>5. \A n \in DOMAIN s : f[n].value = String(s[n]) /\ f[n].note = None
    BY <1>1
  <1> HIDE DEF f
  <1>6. List(f) \in OnceBindings /\ List(f).type = "list" /\ List(f).items = f
    BY <1>2, OnceContainers, Containers DEF OnceBindings
  <1> QED
    BY <1>3, <1>4, <1>5, <1>6 DEF SpellsListed, Unnoted, Parts

LEMMA CuratedSpells ==
  ASSUME TextsReadBack, NEW d \in DictsOf(Texts, [reason : Texts, comment : Note]),
         \A e \in Range(d) : Is(e.key, "kind") /\ ~Is(e.value.reason, "control")
  PROVE  CuratedOut(d) \in OnceBindings /\ SpellsCurated(CuratedOut(d), d)
  <1> DEFINE f == [n \in DOMAIN d |->
                     Pair(Bare(d[n].key), Written(d[n].value.reason), d[n].value.comment)]
             R == [reason : Texts, comment : Note]
             E == [key : Texts, value : R]
  <1>1. d \in Seq(E) /\ UniqueKeys(d)
    BY DEF DictsOf
  <1>2. ASSUME NEW n \in DOMAIN d
        PROVE  /\ f[n] \in PairsOf(OnceSections) /\ f[n].key = String(d[n].key)
               /\ f[n].value = String(d[n].value.reason) /\ f[n].note = d[n].value.comment
    <2>1. d[n] \in E /\ d[n] \in Range(d)
      BY <1>1, ListProperties DEF Range
    <2>2. d[n].key \in Texts /\ d[n].value.reason \in Texts /\ d[n].value.comment \in Note
      BY <2>1
    <2>3. Bare(d[n].key) = String(d[n].key) /\ Written(d[n].value.reason) = String(d[n].value.reason)
      BY <2>1, <2>2, TextsWritten DEF TextsReadBack
    <2>4. String(d[n].key) \in Scalars /\ String(d[n].value.reason) \in OnceSections
      BY <2>2, StringScalar, OnceDepths DEF OnceSections
    <2>5. f[n] = Pair(String(d[n].key), String(d[n].value.reason), d[n].value.comment)
      BY <2>3
    <2> HIDE DEF f
    <2>6. f[n] \in PairsOf(OnceSections)
      BY <2>2, <2>4, <2>5, Pairs
    <2> QED
      BY <2>5, <2>6, PairIs
  <1>3. f \in Seq(PairsOf(OnceSections))
    <2>1. \A n \in DOMAIN d : f[n] \in PairsOf(OnceSections)
      BY <1>2
    <2> HIDE DEF E
    <2> QED
      BY <1>1, <2>1, MappedList
  <1>4. CuratedOut(d) = Mapping(f) /\ DOMAIN f = DOMAIN d
    BY DEF CuratedOut
  <1>5. UniqueKeys(f) /\ NoMerge(f)
    <2>1. UniqueKeys(f)
      BY <1>1, <1>2, StringsDiffer DEF UniqueKeys
    <2>2. NoMerge(f)
      BY <1>2, StringsUnmerged DEF Range
    <2> QED
      BY <2>1, <2>2
  <1>6. \A n \in DOMAIN d : /\ f[n].key.text = d[n].key /\ f[n].value = String(d[n].value.reason)
                            /\ f[n].note = d[n].value.comment
    <2>1. \A t : String(t).text = t
      BY DEF String, Scalar
    <2> QED
      BY <1>2, <2>1
  <1> HIDE DEF f
  <1>7. Mapping(f) \in OnceBindings /\ Mapping(f).type = "mapping" /\ Mapping(f).pairs = f
    BY <1>3, <1>5, OnceContainers, Containers DEF OnceBindings
  <1> QED
    BY <1>4, <1>6, <1>7 DEF SpellsCurated

LEMMA CoverageSpells ==
  ASSUME TextsReadBack, NEW c \in CoverageType, CoverageRules(c)
  PROVE  LET v == WrittenCoverage(c)
         IN  /\ v \in OnceBlocks /\ SpellsCoverage(v, c)
             /\ Has(v, "fully_bound") => Unnoted(At(v, "fully_bound"))
  <1> DEFINE v == WrittenCoverage(c)
             listed == OrEmpty(c.fully_bound)
             curated == OrEmpty(c.curated)
             v1 == List([n \in DOMAIN listed |-> Item(Bare(listed[n]), None)])
             v2 == OrNull(Mapping([n \in DOMAIN curated |->
                            Pair(Bare(curated[n].key), Written(curated[n].value.reason),
                                 curated[n].value.comment)]), c.curated = <<>>)
             s1 == <<>> \o Section(c.fully_bound # None, "fully_bound", v1)
             s2 == s1 \o Section(c.curated # None, "curated", v2)
             P == PairsOf(OnceBindings)
  <1>1. /\ c.fully_bound \in Seq(Texts) \cup {None}
        /\ c.curated \in DictsOf(Texts, [reason : Texts, comment : Note]) \cup {None}
    BY DEF CoverageType
  <1>2. c.curated # <<>>
    BY EmptyList, NoneAssumption DEF CoverageRules
  <1>3. c.fully_bound # None => /\ v1 = ListedOut(c.fully_bound) /\ v1 \in OnceBindings
                                /\ SpellsListed(v1, c.fully_bound) /\ Unnoted(v1)
    BY <1>1, ListedSpells DEF ListedOut, OrEmpty, CoverageRules
  <1>4. c.curated # None => /\ v2 = CuratedOut(c.curated) /\ v2 \in OnceBindings
                            /\ SpellsCurated(v2, c.curated)
    <2>1. c.curated # None => v2 = CuratedOut(c.curated)
      BY <1>2 DEF CuratedOut, OrEmpty, OrNull
    <2> HIDE DEF v2
    <2> QED
      BY <1>1, <2>1, CuratedSpells DEF CoverageRules
  <1>5. v = Mapping(s2)
    <2>1. Section(c.fully_bound # None, "fully_bound", v1) \in Seq({Pair(String("fully_bound"), v1, None)})
      <3> HIDE DEF v1
      <3> QED
        BY Single, EmptyList DEF Section
    <2>2. s1 = Section(c.fully_bound # None, "fully_bound", v1)
      BY <2>1, ConcatEmptySeq
    <2> HIDE DEF s1
    <2> QED
      BY <2>2 DEF WrittenCoverage
  <1> HIDE DEF v, v1, v2
  <1>6. /\ s1 \in Seq(P) /\ UniqueKeys(s1)
        /\ \A p \in Range(s1) : p.key \in {String(k) : k \in {} \cup {"fully_bound"}}
    <2>1. "fully_bound" \in Texts \ {}
      BY KeyTexts
    <2>2. <<>> \in Seq(P) /\ UniqueKeys(<<>>) /\ \A p \in Range(<<>>) : p.key \in {String(k) : k \in {}}
      BY EmptyList
    <2> QED
      BY <1>3, <2>1, <2>2, SectionApart
  <1>7. s2 \in Seq(P) /\ UniqueKeys(s2) /\ NoMerge(s2)
    <2>1. "curated" \in Texts \ ({} \cup {"fully_bound"})
      BY KeyTexts
    <2> DEFINE J == {} \cup {"fully_bound"}
               k == "curated"
    <2>2. k \in Texts /\ k \notin J /\ \A p \in Range(s1) : p.key \in {String(x) : x \in J}
      BY <1>6, <2>1
    <2>3. s2 = s1 \o Section(c.curated # None, k, v2) /\ (c.curated # None => v2 \in OnceBindings)
      BY <1>4
    <2> HIDE DEF s1, s2, J, k
    <2>4. s2 \in Seq(P) /\ UniqueKeys(s2) /\ \A p \in Range(s2) : p.key \in {String(x) : x \in J \cup {k}}
      BY <1>6, <2>2, <2>3, SectionApart
    <2> QED
      BY <2>4, StringsUnmerged
  <1> HIDE DEF s2
  <1>8. v \in OnceBlocks /\ v.type = "mapping" /\ v.pairs = s2
    BY <1>5, <1>7, OnceContainers, Containers DEF OnceBlocks
  <1>9. /\ KeysOf(v) \subseteq {String(k) : k \in {"fully_bound", "curated"}}
        /\ Has(v, "fully_bound") <=> c.fully_bound # None
        /\ c.fully_bound # None => At(v, "fully_bound") = ListedOut(c.fully_bound)
        /\ Has(v, "curated") <=> c.curated # None
        /\ c.curated # None => At(v, "curated") = CuratedOut(c.curated)
    BY <1>2, CoverageAt DEF v
  <1>10. Unnoted(v)
    <2>1. Range(v.pairs) = PairIf(c.fully_bound # None, "fully_bound", v1)
                             \cup PairIf(c.curated # None, "curated", v2)
      <3>1. v2 = OrNull(Mapping([n \in DOMAIN curated |->
                          Pair(Bare(curated[n].key), Written(curated[n].value.reason),
                               curated[n].value.comment)]), c.curated = <<>>)
        BY DEF v2
      <3> QED
        BY <3>1, CoverageWritten DEF v, v1
    <2>2. \A present, k, w : \A p \in PairIf(present, k, w) : p.note = None
      BY PairIs DEF PairIf
    <2>3. \A p \in Range(v.pairs) : p.note = None
      BY <2>1, <2>2
    <2> QED
      BY <1>8, <2>3 DEF Unnoted, Parts
  <1> QED
    BY <1>3, <1>4, <1>7, <1>8, <1>9, <1>10 DEF SpellsCoverage, v

LEMMA BindingsSpell ==
  ASSUME TextsReadBack, NEW d \in DictsOf(IdTexts, BindingType(Note)),
         \A e \in Range(d) : BindingRules(e.value, FALSE)
  PROVE  /\ BindingsOut(d) \in OnceBlocks /\ SpellsBindings(BindingsOut(d), d)
         /\ \A x \in Parts(BindingsOut(d)) : NotedAtEntries(x.value)
  <1> DEFINE f == [n \in DOMAIN d |->
                     Pair(Bare(d[n].key), WrittenBinding(d[n].value), d[n].value.comment)]
             E == [key : IdTexts, value : BindingType(Note)]
  <1>1. d \in Seq(E) /\ UniqueKeys(d)
    BY DEF DictsOf
  <1>2. ASSUME NEW n \in DOMAIN d
        PROVE  /\ f[n] \in PairsOf(OnceBindings) /\ f[n].key = String(d[n].key)
               /\ SpellsBinding(f[n].value, d[n].value) /\ NotedAtEntries(f[n].value)
               /\ f[n].note = d[n].value.comment
    <2>1. d[n] \in E /\ d[n] \in Range(d)
      BY <1>1, ListProperties DEF Range
    <2>2. /\ d[n].key \in Texts /\ Is(d[n].key, "id") /\ d[n].value \in BindingType(Note)
          /\ BindingRules(d[n].value, FALSE)
      BY <2>1 DEF IdTexts
    <2>3. Bare(d[n].key) = String(d[n].key) /\ String(d[n].key) \in Scalars
      BY <2>2, StringScalar DEF TextsReadBack
    <2>4. /\ d[n].value.comment \in Note /\ WrittenBinding(d[n].value) \in OnceBindings
          /\ SpellsBinding(WrittenBinding(d[n].value), d[n].value)
          /\ NotedAtEntries(WrittenBinding(d[n].value))
      BY <2>2, BindingSpells DEF BindingType
    <2>5. f[n] = Pair(String(d[n].key), WrittenBinding(d[n].value), d[n].value.comment)
      BY <2>3
    <2> HIDE DEF f
    <2>6. f[n] \in PairsOf(OnceBindings)
      BY <2>3, <2>4, <2>5, Pairs
    <2> QED
      BY <2>4, <2>5, <2>6, PairIs
  <1>3. f \in Seq(PairsOf(OnceBindings))
    <2>1. \A n \in DOMAIN d : f[n] \in PairsOf(OnceBindings)
      BY <1>2
    <2> HIDE DEF E
    <2> QED
      BY <1>1, <2>1, MappedList
  <1>4. BindingsOut(d) = Mapping(f) /\ DOMAIN f = DOMAIN d
    BY DEF BindingsOut
  <1>5. UniqueKeys(f) /\ NoMerge(f)
    <2>1. UniqueKeys(f)
      BY <1>1, <1>2, StringsDiffer DEF UniqueKeys
    <2>2. NoMerge(f)
      BY <1>2, StringsUnmerged DEF Range
    <2> QED
      BY <2>1, <2>2
  <1>6. \A n \in DOMAIN d : /\ f[n].key.text = d[n].key /\ SpellsBinding(f[n].value, d[n].value)
                            /\ f[n].note = d[n].value.comment
    <2>1. \A t : String(t).text = t
      BY DEF String, Scalar
    <2> QED
      BY <1>2, <2>1
  <1>7. \A x \in Range(f) : NotedAtEntries(x.value)
    BY <1>2 DEF Range
  <1> HIDE DEF f
  <1>8. Mapping(f) \in OnceBlocks /\ Mapping(f).type = "mapping" /\ Mapping(f).pairs = f
    BY <1>3, <1>5, OnceContainers, Containers DEF OnceBlocks
  <1> QED
    BY <1>4, <1>6, <1>7, <1>8 DEF SpellsBindings, Parts

LEMMA TwoItems ==
  ASSUME NEW a, NEW b
  PROVE  <<a>> \o <<b>> = <<a, b>>
  <1>1. <<a>> \in Seq({a, b}) /\ <<b>> \in Seq({a, b}) /\ <<a, b>> \in Seq({a, b})
    OBVIOUS
  <1>2. Len(<<a>> \o <<b>>) = 2 /\ Len(<<a, b>>) = 2
    OBVIOUS
  <1>3. (<<a>> \o <<b>>)[1] = a /\ (<<a>> \o <<b>>)[2] = b
    OBVIOUS
  <1>4. <<a>> \o <<b>> \in Seq({a, b})
    BY <1>1
  <1> DEFINE s == <<a>> \o <<b>>
             t == <<a, b>>
  <1>5. t[1] = a /\ t[2] = b
    OBVIOUS
  <1>6. /\ s \in Seq({a, b}) /\ t \in Seq({a, b}) /\ Len(s) = Len(t)
        /\ \A i \in 1..Len(s) : s[i] = t[i]
    BY <1>1, <1>2, <1>3, <1>4, <1>5
  <1> HIDE DEF s, t
  <1>7. s = t
    BY <1>6, SeqEqual
  <1> QED
    BY <1>7 DEF s, t

LEMMA MapSpells ==
  ASSUME TextsReadBack, NEW m, Good(m)
  PROVE  Emit(m) \in ParsedFiles /\ SpellsMap(Emit(m), m)
  <1> DEFINE f == Emit(m)
             v == f.root
             s1 == <<Pair(String("schema_version"), Scalar("integer", m.schema_version), None)>>
             s2 == s1 \o Section(TRUE, "bindings", BindingsOut(m.bindings))
             p3 == Pair(String("coverage"), WrittenCoverage(m.coverage), m.coverage.comment)
             s == IF m.coverage = None THEN <<>> ELSE <<p3>>
             P == PairsOf(OnceBlocks)
  <1>1. /\ m \in MapType /\ m.schema_version = "1" /\ m.header \in Note
        /\ m.bindings \in DictsOf(IdTexts, BindingType(Note))
        /\ \A e \in Range(m.bindings) : BindingRules(e.value, FALSE)
        /\ m.coverage \in CoverageType \cup {None}
        /\ m.coverage # None => CoverageRules(m.coverage)
    BY DEF Good, MapType, MapRules, IdTexts
  <1>2. /\ BindingsOut(m.bindings) \in OnceBlocks /\ SpellsBindings(BindingsOut(m.bindings), m.bindings)
        /\ \A x \in Parts(BindingsOut(m.bindings)) : NotedAtEntries(x.value)
    BY <1>1, BindingsSpell
  <1>3. m.coverage # None =>
          /\ WrittenCoverage(m.coverage) \in OnceBlocks /\ m.coverage.comment \in Note
          /\ SpellsCoverage(WrittenCoverage(m.coverage), m.coverage)
          /\ Has(WrittenCoverage(m.coverage), "fully_bound") =>
               Unnoted(At(WrittenCoverage(m.coverage), "fully_bound"))
    BY <1>1, CoverageSpells DEF CoverageType
  <1>4. f.header = m.header /\ v = Mapping(s2 \o s)
    <2>1. s2 = <<Pair(String("schema_version"), Scalar("integer", m.schema_version), None),
                 Pair(String("bindings"), BindingsOut(m.bindings), None)>>
      <3> DEFINE a == Pair(String("schema_version"), Scalar("integer", m.schema_version), None)
                 b == Pair(String("bindings"), BindingsOut(m.bindings), None)
      <3>1. s2 = <<a>> \o <<b>>
        BY DEF Section
      <3> HIDE DEF a, b, s2
      <3>2. <<a>> \o <<b>> = <<a, b>>
        BY TwoItems
      <3> QED
        BY <3>1, <3>2 DEF a, b
    <2> HIDE DEF s2
    <2> QED
      BY <2>1 DEF Emit, BindingsOut
  <1>5. /\ KeysOf(v) \subseteq {String(k) : k \in RootKeys}
        /\ Has(v, "schema_version") /\ At(v, "schema_version") = Scalar("integer", m.schema_version)
        /\ Has(v, "bindings") /\ At(v, "bindings") = BindingsOut(m.bindings)
        /\ Has(v, "coverage") <=> m.coverage # None
        /\ m.coverage # None => /\ At(v, "coverage") = WrittenCoverage(m.coverage)
                                /\ PairAt(v, "coverage").note = m.coverage.comment
    BY <1>1, RootAt DEF RootKeys
  <1>6. f \in FileType
    BY <1>1, EmitTyped
  <1>7. \A p \in Range(v.pairs) : p.key # String("coverage") => p.note = None
    <2> DEFINE q1 == Pair(String("schema_version"), Scalar("integer", m.schema_version), None)
               q2 == Pair(String("bindings"), BindingsOut(m.bindings), None)
    <2>1. Range(v.pairs) = {q1, q2} \cup {p \in {p3} : m.coverage # None}
      BY <1>1, EmitTyped DEF BindingsOut
    <2>2. q1.note = None /\ q2.note = None /\ p3.key = String("coverage")
      BY PairIs
    <2> HIDE DEF v, q1, q2, p3
    <2> QED
      BY <2>1, <2>2
  <1> HIDE DEF f
  <1>8. /\ s1 \in Seq(P) /\ UniqueKeys(s1)
        /\ \A p \in Range(s1) : p.key \in {String(k) : k \in {"schema_version"}}
    <2>1. "schema_version" \in Texts
      BY KeyTexts
    <2>2. Scalar("integer", m.schema_version) \in OnceBlocks
      <3>1. Scalar("integer", m.schema_version) \in Scalars
        BY <1>1, TraitAssumption DEF Scalar, Scalars, ScalarTypes, Is
      <3> QED
        BY <3>1, OnceDepths DEF OnceBlocks
    <2>3. s1 \in Seq(P) /\ Range(s1) = {Pair(String("schema_version"), Scalar("integer", m.schema_version), None)}
      BY <2>1, <2>2, OnePair
    <2>4. DOMAIN s1 = {1}
      OBVIOUS
    <2>5. UniqueKeys(s1)
      BY <2>4 DEF UniqueKeys
    <2> HIDE DEF s1
    <2> QED
      BY <2>3, <2>5, PairIs
  <1>9. /\ s2 \in Seq(P) /\ UniqueKeys(s2)
        /\ \A p \in Range(s2) : p.key \in {String(k) : k \in {"schema_version"} \cup {"bindings"}}
    <2>1. "bindings" \in Texts \ {"schema_version"}
      BY KeyTexts
    <2> HIDE DEF s1
    <2> QED
      BY <1>2, <1>8, <2>1, SectionApart
  <1>10. s2 \o s \in Seq(P) /\ UniqueKeys(s2 \o s) /\ NoMerge(s2 \o s)
    <2> HIDE DEF s2
    <2>1. CASE m.coverage = None
      <3>1. s2 \o s = s2
        BY <1>9, <2>1, ConcatEmptySeq
      <3> QED
        BY <1>9, <3>1, StringsUnmerged
    <2>2. CASE m.coverage # None
      <3>1. p3 \in P /\ p3.key = String("coverage")
        BY <1>3, <2>2, KeyTexts, StringScalar, Pairs
      <3>2. s = <<p3>>
        BY <2>2
      <3> HIDE DEF s, p3
      <3>3. s2 \o s = Append(s2, p3)
        BY <1>9, <3>1, <3>2, AppendIsConcat
      <3>4. \A q \in Range(s2) : q.key # p3.key
        BY <1>9, <3>1, StringsDiffer
      <3> QED
        <4>1. /\ Append(s2, p3) \in Seq(P) /\ UniqueKeys(Append(s2, p3))
              /\ Range(Append(s2, p3)) = Range(s2) \cup {p3}
          BY <1>9, <3>1, <3>3, <3>4, AppendUnique
        <4>2. NoMerge(Append(s2, p3))
          BY <1>9, <3>1, <4>1, StringsUnmerged
        <4> QED
          BY <3>3, <4>1, <4>2
    <2> QED
      BY <2>1, <2>2
  <1> HIDE DEF s2, s
  <1>11. v \in Once(OnceBlocks) /\ v.type = "mapping" /\ v.pairs = s2 \o s
    <2> DEFINE t == s2 \o s
    <2>1. t \in Seq(P) /\ UniqueKeys(t) /\ NoMerge(t) /\ v = Mapping(t)
      BY <1>4, <1>10
    <2> HIDE DEF t, v
    <2>2. Mapping(t) \in Once(OnceBlocks)
      BY <2>1, OnceContainers
    <2>3. Mapping(t).type = "mapping" /\ Mapping(t).pairs = t
      BY <2>1, Containers
    <2> QED
      BY <2>1, <2>2, <2>3 DEF t
  <1>12. SpellsMap(f, m)
    BY <1>2, <1>3, <1>4, <1>5, <1>7, <1>10, <1>11 DEF SpellsMap, SpellsRest
  <1> QED
    BY <1>6, <1>11, <1>12, OnceDepths DEF f

(***************************************************************************)
(* The file is always one that the loader does not refuse.                 *)
(***************************************************************************)
Parsed == file \in ParsedFiles

LEMMA FileParsed == TextsReadBack => (Spec => []Parsed)
  <1>1. Init => Parsed
    BY FilesAssumption DEF Init, Parsed
  <1>2. ASSUME TextsReadBack, TypeOK, Parsed, [Next]_vars
        PROVE  Parsed'
    <2>1. CASE UNCHANGED vars
      BY <1>2, <2>1 DEF vars, Parsed
    <2>2. CASE Refused \/ Answered
      BY <1>2, <2>2 DEF Refused, Answered, Parsed
    <2>3. CASE Replaced
      <3>1. PICK m : Good(m) /\ file' = Emit(m)
        BY <2>3 DEF Replaced
      <3> QED
        BY <1>2, <3>1, MapSpells DEF Parsed
    <2> QED
      BY <1>2, <2>1, <2>2, <2>3, EveryOutcome DEF Outcome
  <1>3. TextsReadBack /\ TypeOK /\ Parsed /\ [Next]_vars => Parsed'
    BY <1>2
  <1> SUFFICES ASSUME TextsReadBack
               PROVE  Spec => []Parsed
    OBVIOUS
  <1>4. TypeOK /\ Parsed /\ [Next]_vars => Parsed'
    BY <1>3
  <1> QED
    BY <1>1, <1>4, AnswersTyped, PTL DEF Spec

(***************************************************************************)
(* Field names of one binding, as keys of YAML and as strings of Python.   *)
(***************************************************************************)
LEMMA FieldsAt ==
  ASSUME NEW p \in BindingPairs, p.value.type = "mapping", HasA(p.value, "fields", "mapping")
  PROVE  At(p.value, "fields").pairs \in FieldPairs
  <1> DEFINE bindings == {q.value : q \in BindingPairs}
  <1>1. p.value \in bindings
    OBVIOUS
  <1> HIDE DEF bindings
  <1>2. At(p.value, "fields") \in MappingsAt(bindings, "fields")
    BY <1>1 DEF MappingsAt
  <1> QED
    BY <1>2 DEF FieldPairs, bindings

LEMMA BindingsAt ==
  ASSUME file.root.type = "mapping", HasA(file.root, "bindings", "mapping")
  PROVE  BindingPairs = Range(At(file.root, "bindings").pairs)
  <1> DEFINE w == At(file.root, "bindings")
             V == MappingsAt({file.root}, "bindings")
  <1>1. V = {w}
    BY DEF MappingsAt
  <1>2. BindingPairs = UNION {Range(m.pairs) : m \in V}
    BY DEF BindingPairs
  <1> HIDE DEF w, V
  <1>3. BindingPairs = Range(w.pairs)
    BY <1>1, <1>2
  <1> QED
    BY <1>3 DEF w

LEMMA NamesApart ==
  ASSUME ~NamesConfused, file.root.type = "mapping", HasA(file.root, "bindings", "mapping")
  PROVE  \A p \in Range(At(file.root, "bindings").pairs) : NamesTold(p)
  BY BindingsAt, FieldsAt DEF NamesConfused, KeysCollide, CommentMoves, Apart, NamesTold

LEMMA LoadedSpelled ==
  ASSUME file \in ParsedFiles, Clean, ~NamesConfused
  PROVE  SpellsMap(file, Loaded) /\ Good(Loaded)
  <1>1. Attached(file) /\ RestFindings(file) = {} /\ FileFindings(file) = {}
    BY RestAndVersion DEF Clean, FileFindings
  <1>2. file.root.type = "mapping" /\ HasA(file.root, "bindings", "mapping")
    BY <1>1, ParsedRoot, FileClean
  <1> QED
    BY <1>1, <1>2, NamesApart, MapSpelled DEF Loaded

(* The pairs of the fields of a binding.                                   *)
LEMMA FieldKeys ==
  ASSUME file \in ParsedFiles, NEW p \in BindingPairs, p.value.type = "mapping",
         HasA(p.value, "fields", "mapping")
  PROVE  LET s == At(p.value, "fields").pairs
         IN  /\ s \in Seq(PairsOf(OnceEntries)) /\ UniqueKeys(s)
             /\ p.value \in OnceBindings /\ p.note \in Note
  <1>1. file.root \in Once(OnceBlocks) /\ file.root.type = "mapping"
    BY ParsedRoot
  <1>2. HasA(file.root, "bindings", "mapping")
    BY DEF BindingPairs, MappingsAt
  <1>3. p \in Range(At(file.root, "bindings").pairs)
    BY <1>1, <1>2, BindingsAt
  <1>4. At(file.root, "bindings") \in OnceBlocks /\ At(file.root, "bindings").type = "mapping"
    BY <1>1, <1>2, OnceParts DEF HasA
  <1>5. p \in PairsOf(OnceBindings)
    BY <1>3, <1>4, OnceParts DEF OnceBlocks
  <1>6. p.value \in OnceBindings /\ p.note \in Note
    BY <1>5 DEF PairsOf
  <1>7. At(p.value, "fields") \in OnceSections /\ At(p.value, "fields").type = "mapping"
    BY <1>6, OnceParts DEF OnceBindings, HasA
  <1> QED
    BY <1>6, <1>7, OnceParts DEF OnceSections

LEMMA TextsDistinct ==
  ASSUME file \in ParsedFiles, StringKeys
  PROVE  ~KeysCollide
  <1> SUFFICES ASSUME NEW s \in FieldPairs, NEW m \in DOMAIN s, NEW n \in DOMAIN s,
                      s[m].key.text = s[n].key.text
               PROVE  m = n
    BY DEF KeysCollide
  <1>1. PICK p \in BindingPairs : /\ p.value.type = "mapping" /\ HasA(p.value, "fields", "mapping")
                                  /\ s = At(p.value, "fields").pairs
    BY DEF FieldPairs, MappingsAt
  <1>2. UniqueKeys(s) /\ s \in Seq(PairsOf(OnceEntries))
    BY <1>1, FieldKeys
  <1>3. s[m] \in Range(s) /\ s[n] \in Range(s)
    BY <1>2, ListProperties
  <1>4. s[m].key \in Scalars /\ s[n].key \in Scalars
    <2>1. s[m] \in PairsOf(OnceEntries) /\ s[n] \in PairsOf(OnceEntries)
      BY <1>2, ListProperties
    <2> QED
      BY <2>1 DEF PairsOf
  <1>5. IsString(s[m].key) /\ IsString(s[n].key)
    BY <1>3 DEF StringKeys
  <1>6. s[m].key = s[n].key
    BY <1>4, <1>5 DEF Scalars, IsString
  <1> QED
    BY <1>2, <1>6 DEF UniqueKeys

(* A field is the object of a pair that has its name.                      *)
LEMMA FieldNamed ==
  ASSUME NEW w \in OnceSections, w.type = "mapping", NEW e \in Range(Fields(w.pairs))
  PROVE  \E q \in Range(w.pairs) : q.key.text = e.key
  <1> DEFINE E == [key : Texts, value : EntryType("field_locator", Note)]
             s == [n \in DOMAIN w.pairs |-> FieldEntry(w.pairs[n])]
  <1>1. w.pairs \in Seq(PairsOf(OnceEntries))
    BY OnceParts DEF OnceSections
  <1>2. None \notin E
    BY EntryKinds, NotesAreTexts DEF Nodes
  <1>3. ASSUME NEW n \in DOMAIN w.pairs
        PROVE  /\ s[n] \in E \cup {None} /\ (s[n] # None => s[n].key = w.pairs[n].key.text)
               /\ w.pairs[n] \in Range(w.pairs)
    <2> DEFINE p == w.pairs[n]
               x == Flat(p.value, "field_locator", p.note)
    <2>1. p \in PairsOf(OnceEntries) /\ p \in Range(w.pairs)
      BY <1>1, ListProperties
    <2>2. p.value \in OnceEntries /\ p.note \in Note /\ p.key.text \in Texts
      BY <2>1 DEF PairsOf, Scalars
    <2>3. p.value \in Values(Values({}))
      BY <2>2, OnceDepths, Layers
    <2>4. x \in EntryType("field_locator", Note) \cup {None}
      BY <2>2, <2>3, FlatTyped DEF Nodes
    <2>5. s[n] = IF x = None THEN None ELSE [key |-> p.key.text, value |-> x]
      BY DEF FieldEntry, Keyed
    <2> HIDE DEF x, s, p
    <2>6. s[n] \in E \cup {None} /\ (s[n] # None => s[n].key = p.key.text)
      BY <2>2, <2>4, <2>5
    <2> QED
      BY <2>1, <2>6 DEF p
  <1>4. s \in Seq(E \cup {None})
    <2>1. \A n \in DOMAIN w.pairs : s[n] \in E \cup {None}
      BY <1>3
    <2> HIDE DEF E
    <2> QED
      BY <1>1, <2>1, MappedList
  <1>5. Fields(w.pairs) = Dict(s) /\ DOMAIN s = DOMAIN w.pairs
    BY DEF Fields
  <1> HIDE DEF s, E
  <1>6. Range(Dict(s)) \subseteq Range(s) \ {None}
    BY <1>2, <1>4, DictProperties
  <1>7. PICK n \in DOMAIN s : e = s[n] /\ e # None
    BY <1>5, <1>6 DEF Range
  <1> QED
    BY <1>3, <1>5, <1>7

LEMMA StringsApart ==
  ASSUME file \in ParsedFiles, StringKeys
  PROVE  ~NamesConfused
  <1>1. ~KeysCollide
    BY TextsDistinct
  <1>2. ASSUME NEW p \in BindingPairs, NEW b, b = Binding(p.value, p.note), b # None, Relocates(p.value, b)
        PROVE  FALSE
    <2> DEFINE w == At(p.value, "fields")
    <2>1. PICK n \in DOMAIN OrEmpty(b.fields) : ~Has(w, b.fields[n].key)
      BY <1>2 DEF Relocates, Strays
    <2>2. p.value.type = "mapping"
      BY <1>2 DEF Binding
    <2>3. b.fields # None /\ b.fields[n] \in Range(b.fields)
      BY <2>1, EmptyList DEF OrEmpty, Range
    <2>4. b.fields = IF HasA(p.value, "fields", "mapping") THEN Fields(w.pairs) ELSE None
      BY <1>2, <2>2 DEF Binding
    <2>5. HasA(p.value, "fields", "mapping") /\ b.fields = Fields(w.pairs)
      BY <2>3, <2>4
    <2>6. /\ w \in OnceSections /\ w.type = "mapping" /\ w.pairs \in Seq(PairsOf(OnceEntries))
      <3>1. p.value \in OnceBindings
        BY <2>2, <2>5, FieldKeys
      <3> QED
        BY <2>2, <2>5, <3>1, OnceParts DEF OnceBindings, OnceSections, HasA
    <2> HIDE DEF w
    <2>7. PICK q \in Range(w.pairs) : q.key.text = b.fields[n].key
      BY <2>3, <2>5, <2>6, FieldNamed
    <2>8. w.pairs \in FieldPairs
      BY <2>2, <2>5, FieldsAt DEF w
    <2>9. IsString(q.key) /\ q \in PairsOf(OnceEntries)
      BY <2>6, <2>8, ListProperties DEF StringKeys
    <2>10. q.key = String(b.fields[n].key)
      BY <2>7, <2>9 DEF PairsOf, Scalars, IsString, String, Scalar
    <2> QED
      BY <2>1, <2>10 DEF Has, KeysOf
  <1> QED
    BY <1>1, <1>2 DEF NamesConfused, CommentMoves

(***************************************************************************)
(* What the published schema asks of the texts of a file, asked of the     *)
(* objects that the file spells.                                           *)
(***************************************************************************)
PlainText(t) == ~Is(t, "empty") /\ ~Is(t, "control")

EntryTexts(x, node) ==
    /\ \A k \in DOMAIN x.strings \ {"role"} : PlainText(x.strings[k])
    /\ node = "wire" => DOMAIN x.strings # {}

LEMMA PlainString ==
  \A t : AcceptsText(String(t)) <=> PlainText(t)
  BY DEF AcceptsText, PlainText, String, Scalar

LEMMA SpecTypes ==
  \A node \in Nodes : \A k \in DOMAIN Shape[node].keys :
    Shape[node].keys[k].type = IF k = "role" THEN "enum" ELSE "str"
  BY SMTT(30) DEF Nodes, Shape, Typed, Text

LEMMA NothingInIt ==
  ASSUME NEW S, NEW s \in Seq(S)
  PROVE  s = <<>> <=> Range(s) = {}
  <1>1. Len(s) \in Nat /\ DOMAIN s = 1..Len(s) /\ (s = <<>> <=> Len(s) = 0)
    BY ListProperties
  <1>2. Len(s) # 0 => 1 \in DOMAIN s
    BY <1>1
  <1>3. Len(s) # 0 => s[1] \in Range(s)
    BY <1>2 DEF Range
  <1> QED
    BY <1>1, <1>3, EmptyList

LEMMA EntryAccepts ==
  ASSUME NEW node \in Nodes, NEW C \in SUBSET TextOrNone, NEW x \in EntryType(node, C),
         NEW S, NEW v \in Once(S), Spells(v, x)
  PROVE  AcceptsFlat(v, node) <=> EntryTexts(x, node)
  <1> DEFINE keys == Shape[node].keys
  <1>1. /\ DOMAIN x.strings \subseteq DOMAIN keys /\ Shape[node].required \subseteq DOMAIN x.strings
        /\ "role" \in DOMAIN x.strings => x.strings["role"] \in Roles
    BY EntryParts
  <1>2. /\ \A k \in DOMAIN x.strings : Has(v, k) /\ At(v, k) = String(x.strings[k])
        /\ \A k : k \notin DOMAIN x.strings => ~Has(v, k)
        /\ KeysOf(v) = {String(k) : k \in DOMAIN x.strings} /\ v.type = "mapping"
    BY SpelledAt DEF Spells
  <1>3. AcceptsKeys(v, node)
    BY <1>1, <1>2 DEF AcceptsKeys
  <1>4. v.pairs # <<>> <=> DOMAIN x.strings # {}
    <2>1. v.pairs \in Seq(PairsOf(S))
      BY <1>2, OnceParts
    <2>2. v.pairs = <<>> <=> Range(v.pairs) = {}
      BY <2>1, NothingInIt
    <2>3. Range(v.pairs) = {} <=> DOMAIN x.strings = {}
      BY DEF Spells
    <2> QED
      BY <2>2, <2>3
  <1>5. ASSUME NEW k \in DOMAIN x.strings
        PROVE  AcceptsScalar(At(v, k), keys[k]) <=> k = "role" \/ PlainText(x.strings[k])
    <2>1. At(v, k) = String(x.strings[k]) /\ keys[k].type = IF k = "role" THEN "enum" ELSE "str"
      BY <1>1, <1>2, SpecTypes
    <2>2. CASE k = "role"
      BY <1>1, <2>1, <2>2 DEF AcceptsScalar, String, Scalar
    <2>3. CASE k # "role"
      BY <2>1, <2>3, PlainString DEF AcceptsScalar
    <2> QED
      BY <2>2, <2>3
  <1>6. (\A k \in DOMAIN keys : Has(v, k) => AcceptsScalar(At(v, k), keys[k]))
          <=> \A k \in DOMAIN x.strings : AcceptsScalar(At(v, k), keys[k])
    BY <1>1, <1>2
  <1> QED
    BY <1>3, <1>4, <1>5, <1>6 DEF AcceptsFlat, EntryTexts

LEMMA EntryTextsFine ==
  ASSUME NEW node \in Nodes, NEW C \in SUBSET TextOrNone, NEW x \in EntryType(node, C)
  PROVE  /\ StringRules(x) /\ (node = "wire" => DOMAIN x.strings # {}) => EntryTexts(x, node)
         /\ EntryTexts(x, node) => EntryCodes(x, FALSE) \cap ShapeCodes = {}
  <1>1. \A t : PathCodes(t) = {} => PlainText(t)
    BY DEF PathCodes, CodeIf, PlainText
  <1>2. ASSUME StringRules(x), node = "wire" => DOMAIN x.strings # {}
        PROVE  EntryTexts(x, node)
    <2>1. \A k \in DOMAIN x.strings : x.strings[k] # None
      BY EntryParts, NotesAreTexts
    <2> QED
      BY <1>1, <1>2, <2>1 DEF EntryTexts, StringRules, ScalarRules, PlainText
  <1>3. ASSUME EntryTexts(x, node)
        PROVE  EntryCodes(x, FALSE) \cap ShapeCodes = {}
    <2> DEFINE paths == IF StringAt(x, "path") = None THEN {} ELSE PathCodes(StringAt(x, "path"))
               symbols == CodeIf("INV-NO-LINE-NUMBERS", "symbol" \in DOMAIN x.strings
                                                          /\ Is(StringAt(x, "symbol"), "suffix"))
               others == UNION {ScalarCodes(StringAt(x, k)) : k \in DOMAIN x.strings \ {"path", "role"}}
    <2>1. EntryCodes(x, FALSE) = CommentCodes(x.comment, FALSE) \cup paths \cup symbols \cup others
      BY DEF EntryCodes
    <2>2. \A k \in DOMAIN x.strings \ {"role"} : PlainText(StringAt(x, k))
      BY <1>3 DEF EntryTexts, StringAt
    <2>3. paths \cap ShapeCodes = {}
      <3>1. CASE "path" \in DOMAIN x.strings
        BY <2>2, <3>1 DEF PathCodes, CodeIf, ShapeCodes, PlainText
      <3>2. CASE "path" \notin DOMAIN x.strings
        BY <3>2 DEF StringAt
      <3> QED
        BY <3>1, <3>2
    <2>4. symbols \cap ShapeCodes = {}
      BY DEF CodeIf, ShapeCodes
    <2>5. others = {}
      BY <2>2 DEF ScalarCodes, CodeIf, PlainText
    <2>6. CommentCodes(x.comment, FALSE) \cap ShapeCodes = {}
      BY DEF CommentCodes, CodeIf, ShapeCodes
    <2> HIDE DEF paths, symbols, others
    <2> QED
      BY <2>1, <2>3, <2>4, <2>5, <2>6
  <1> QED
    BY <1>2, <1>3

LEMMA SameDomain ==
  ASSUME NEW S, NEW T, NEW s \in Seq(S), NEW t \in Seq(T), DOMAIN s = DOMAIN t
  PROVE  Len(s) = Len(t) /\ (s = <<>> <=> t = <<>>)
  <1>1. /\ Len(s) \in Nat /\ DOMAIN s = 1..Len(s) /\ (s = <<>> <=> Len(s) = 0)
        /\ Len(t) \in Nat /\ DOMAIN t = 1..Len(t) /\ (t = <<>> <=> Len(t) = 0)
    BY ListProperties
  <1>2. ASSUME NEW m \in Nat, NEW n \in Nat, 1..m = 1..n
        PROVE  m = n
    <2>1. (m > 0 => m \in 1..n) /\ (n > 0 => n \in 1..m)
      BY <1>2
    <2> QED
      BY <2>1
  <1>3. Len(s) = Len(t)
    BY <1>1, <1>2
  <1> QED
    BY <1>1, <1>3

LEMMA ListAccepts ==
  ASSUME NEW node \in Nodes, NEW w \in OnceSections, NEW s \in Seq(EntryType(node, Note)),
         SpellsEntries(w, s), NEW least \in {0, 1}
  PROVE  AcceptsList(w, LAMBDA x : AcceptsFlat(x, node), least) <=>
           (least = 1 => s # <<>>) /\ \A x \in Range(s) : EntryTexts(x, node)
  <1>1. w.type = "list" /\ DOMAIN w.items = DOMAIN s
    BY DEF SpellsEntries
  <1>2. w.items \in Seq(ItemsOf(OnceEntries))
    BY <1>1, OnceParts DEF OnceSections
  <1>3. /\ Len(w.items) = Len(s) /\ Len(s) \in Nat /\ (s = <<>> <=> Len(s) = 0)
    BY <1>1, <1>2, SameDomain, ListProperties
  <1>4. ASSUME NEW n \in DOMAIN s
        PROVE  AcceptsFlat(w.items[n].value, node) <=> EntryTexts(s[n], node)
    <2>1. w.items[n].value \in OnceEntries
      <3>1. w.items[n] \in ItemsOf(OnceEntries)
        BY <1>1, <1>2, ListProperties
      <3> QED
        BY <3>1 DEF ItemsOf
    <2>2. s[n] \in EntryType(node, Note) /\ Note \in SUBSET TextOrNone
      BY ListProperties, NotesAreTexts
    <2>3. Spells(w.items[n].value, s[n])
      BY DEF SpellsEntries
    <2> QED
      BY <2>1, <2>2, <2>3, EntryAccepts DEF OnceEntries
  <1>5. (\A i \in Range(w.items) : AcceptsFlat(i.value, node)) <=>
          \A n \in DOMAIN s : AcceptsFlat(w.items[n].value, node)
    BY <1>1, <1>2, ListProperties
  <1>6. (\A x \in Range(s) : EntryTexts(x, node)) <=> \A n \in DOMAIN s : EntryTexts(s[n], node)
    BY ListProperties
  <1>7. AcceptsList(w, LAMBDA x : AcceptsFlat(x, node), least) <=>
          Len(w.items) >= least /\ \A i \in Range(w.items) : AcceptsFlat(i.value, node)
    BY <1>1 DEF AcceptsList
  <1>8. Len(w.items) >= least <=> (least = 1 => s # <<>>)
    BY <1>3
  <1> QED
    BY <1>4, <1>5, <1>6, <1>7, <1>8

FieldsTexts(d) ==
    d # <<>> /\ \A e \in Range(d) : PlainText(e.key) /\ EntryTexts(e.value, "field_locator")

LEMMA FieldsAccept ==
  ASSUME NEW w \in OnceSections, NEW d \in DictsOf(Texts, EntryType("field_locator", Note)),
         SpellsFields(w, d), \A p \in Range(w.pairs) : IsString(p.key)
  PROVE  AcceptsMap(w, AcceptsText, LAMBDA y : AcceptsFlat(y, "field_locator"), 1) <=> FieldsTexts(d)
  <1> DEFINE E == [key : Texts, value : EntryType("field_locator", Note)]
             A(p) == AcceptsText(p.key) /\ AcceptsFlat(p.value, "field_locator")
             T(e) == PlainText(e.key) /\ EntryTexts(e.value, "field_locator")
  <1>1. w.type = "mapping" /\ DOMAIN w.pairs = DOMAIN d
    BY DEF SpellsFields
  <1>2. w.pairs \in Seq(PairsOf(OnceEntries)) /\ d \in Seq(E)
    BY <1>1, OnceParts DEF OnceSections, DictsOf
  <1>3. /\ Len(w.pairs) = Len(d) /\ Len(d) \in Nat /\ (d = <<>> <=> Len(d) = 0)
    <2> HIDE DEF E
    <2> QED
      BY <1>1, <1>2, SameDomain, ListProperties
  <1>4. ASSUME NEW n \in DOMAIN d
        PROVE  A(w.pairs[n]) <=> T(d[n])
    <2>1. w.pairs[n] \in PairsOf(OnceEntries) /\ w.pairs[n] \in Range(w.pairs) /\ d[n] \in E
      BY <1>1, <1>2, ListProperties
    <2>2. w.pairs[n].value \in OnceEntries /\ w.pairs[n].key \in Scalars
      BY <2>1 DEF PairsOf
    <2>3. d[n].value \in EntryType("field_locator", Note) /\ Note \in SUBSET TextOrNone
      BY <2>1, NotesAreTexts
    <2>4. Spells(w.pairs[n].value, d[n].value) /\ w.pairs[n].key.text = d[n].key
      BY DEF SpellsFields
    <2>5. "field_locator" \in Nodes
      BY DEF Nodes
    <2>6. AcceptsFlat(w.pairs[n].value, "field_locator") <=> EntryTexts(d[n].value, "field_locator")
      BY <2>2, <2>3, <2>4, <2>5, EntryAccepts DEF OnceEntries
    <2>7. AcceptsText(w.pairs[n].key) <=> PlainText(d[n].key)
      BY <2>1, <2>4 DEF AcceptsText, IsString, PlainText
    <2> QED
      BY <2>6, <2>7
  <1>5. AcceptsMap(w, AcceptsText, LAMBDA y : AcceptsFlat(y, "field_locator"), 1) <=>
          Len(w.pairs) >= 1 /\ \A p \in Range(w.pairs) : A(p)
    BY <1>1 DEF AcceptsMap
  <1>6. FieldsTexts(d) <=> d # <<>> /\ \A e \in Range(d) : T(e)
    BY DEF FieldsTexts
  <1> HIDE DEF A, T, E
  <1>7. (\A p \in Range(w.pairs) : A(p)) <=> \A n \in DOMAIN d : A(w.pairs[n])
    BY <1>1, <1>2, ListProperties
  <1>8. (\A e \in Range(d) : T(e)) <=> \A n \in DOMAIN d : T(d[n])
    BY <1>2, ListProperties
  <1>9. Len(w.pairs) >= 1 <=> d # <<>>
    BY <1>3
  <1> QED
    BY <1>4, <1>5, <1>6, <1>7, <1>8, <1>9

BindingTexts(b) ==
    /\ \A x \in Range(b.locators) : EntryTexts(x, "locator")
    /\ b.compare_via # None => PlainText(b.compare_via)
    /\ b.fields # None => FieldsTexts(b.fields)
    /\ b.wire # None => EntryTexts(b.wire, "wire")
    /\ b.asserted_by # None =>
         b.asserted_by # <<>> /\ \A x \in Range(b.asserted_by) : EntryTexts(x, "assertion")

NamedByStrings(v) == Has(v, "fields") => \A p \in Range(At(v, "fields").pairs) : IsString(p.key)

LEMMA BindingAccepts ==
  ASSUME NEW v \in OnceBindings, NEW b \in BindingType(Note), SpellsBinding(v, b), NamedByStrings(v)
  PROVE  AcceptsBinding(v) <=> BindingTexts(b)
  <1>1. v.type = "mapping" /\ \A k : Has(v, k) => At(v, k) \in OnceSections
    BY OnceParts DEF SpellsBinding, OnceBindings
  <1>2. DOMAIN Shape["binding"].keys = SectionKeys /\ Shape["binding"].required = {"locators"}
    BY DEF Shape, SectionKeys
  <1>3. AcceptsKeys(v, "binding")
    BY <1>1, <1>2 DEF AcceptsKeys, SpellsBinding
  <1>4. {"locator", "field_locator", "wire", "assertion"} \subseteq Nodes /\ Note \in SUBSET TextOrNone
    BY NotesAreTexts DEF Nodes
  <1>5. AcceptsList(At(v, "locators"), LAMBDA x : AcceptsFlat(x, "locator"), 0) <=>
          \A x \in Range(b.locators) : EntryTexts(x, "locator")
    <2>1. b.locators \in Seq(EntryType("locator", Note)) /\ SpellsEntries(At(v, "locators"), b.locators)
          /\ At(v, "locators") \in OnceSections
      BY <1>1 DEF BindingType, SpellsBinding
    <2> QED
      BY <1>4, <2>1, ListAccepts DEF AcceptsList
  <1>6. IfPresent(v, "compare_via", AcceptsText) <=>
          (b.compare_via # None => PlainText(b.compare_via))
    BY PlainString DEF IfPresent, SpellsBinding
  <1>7. IfPresent(v, "fields", LAMBDA x :
          AcceptsMap(x, AcceptsText, LAMBDA y : AcceptsFlat(y, "field_locator"), 1)) <=>
          (b.fields # None => FieldsTexts(b.fields))
    <2>1. CASE b.fields = None
      BY <2>1 DEF IfPresent, SpellsBinding
    <2>2. CASE b.fields # None
      <3>1. /\ b.fields \in DictsOf(Texts, EntryType("field_locator", Note))
            /\ Has(v, "fields") /\ SpellsFields(At(v, "fields"), b.fields)
            /\ At(v, "fields") \in OnceSections
        BY <1>1, <2>2 DEF BindingType, SpellsBinding
      <3>2. AcceptsMap(At(v, "fields"), AcceptsText, LAMBDA y : AcceptsFlat(y, "field_locator"), 1)
              <=> FieldsTexts(b.fields)
        BY <3>1, FieldsAccept DEF NamedByStrings
      <3> QED
        BY <2>2, <3>1, <3>2 DEF IfPresent
    <2> QED
      BY <2>1, <2>2
  <1>8. IfPresent(v, "wire", LAMBDA x : AcceptsFlat(x, "wire")) <=>
          (b.wire # None => EntryTexts(b.wire, "wire"))
    <2>1. CASE b.wire = None
      BY <2>1 DEF IfPresent, SpellsBinding
    <2>2. CASE b.wire # None
      <3>1. /\ b.wire \in EntryType("wire", {None}) /\ Has(v, "wire") /\ Spells(At(v, "wire"), b.wire)
            /\ At(v, "wire") \in OnceSections
        BY <1>1, <2>2 DEF BindingType, SpellsBinding
      <3>2. At(v, "wire") \in Once(OnceEntries)
        BY <3>1 DEF OnceSections
      <3>3. {None} \in SUBSET TextOrNone
        BY DEF TextOrNone
      <3> QED
        BY <1>4, <2>2, <3>1, <3>2, <3>3, EntryAccepts DEF IfPresent
    <2> QED
      BY <2>1, <2>2
  <1>9. IfPresent(v, "asserted_by", LAMBDA x :
          AcceptsList(x, LAMBDA y : AcceptsFlat(y, "assertion"), 1)) <=>
          (b.asserted_by # None =>
             b.asserted_by # <<>> /\ \A x \in Range(b.asserted_by) : EntryTexts(x, "assertion"))
    <2>1. CASE b.asserted_by = None
      BY <2>1 DEF IfPresent, SpellsBinding
    <2>2. CASE b.asserted_by # None
      <3>1. /\ b.asserted_by \in Seq(EntryType("assertion", Note)) /\ Has(v, "asserted_by")
            /\ SpellsEntries(At(v, "asserted_by"), b.asserted_by)
            /\ At(v, "asserted_by") \in OnceSections
        BY <1>1, <2>2 DEF BindingType, SpellsBinding
      <3> QED
        BY <1>4, <2>2, <3>1, ListAccepts DEF IfPresent
    <2> QED
      BY <2>1, <2>2
  <1> QED
    BY <1>3, <1>5, <1>6, <1>7, <1>8, <1>9 DEF AcceptsBinding, BindingTexts

CoverageTexts(c) ==
    /\ c.fully_bound # None \/ c.curated # None
    /\ c.fully_bound # None =>
         c.fully_bound # <<>> /\ IsInjective(c.fully_bound) /\ \A k \in Range(c.fully_bound) : Is(k, "kind")
    /\ c.curated # None =>
         c.curated # <<>> /\ \A e \in Range(c.curated) : Is(e.key, "kind") /\ PlainText(e.value.reason)

IsKindName(x) == x.type = "string" /\ Is(x.text, "kind")

LEMMA ListedAccepts ==
  ASSUME NEW w \in OnceBindings, NEW s \in Seq(Texts), SpellsListed(w, s)
  PROVE  AcceptsList(w, IsKindName, 1) /\ IsInjective(Mapped(w.items, LAMBDA i : i.value)) <=>
           s # <<>> /\ IsInjective(s) /\ \A k \in Range(s) : Is(k, "kind")
  <1> DEFINE u == Mapped(w.items, LAMBDA i : i.value)
  <1>1. w.type = "list" /\ DOMAIN w.items = DOMAIN s
    BY DEF SpellsListed
  <1>2. w.items \in Seq(ItemsOf(OnceSections))
    BY <1>1, OnceParts DEF OnceBindings
  <1>3. Len(w.items) = Len(s) /\ Len(s) \in Nat /\ (s = <<>> <=> Len(s) = 0)
    BY <1>1, <1>2, SameDomain, ListProperties
  <1>4. DOMAIN u = DOMAIN s /\ \A n \in DOMAIN s : u[n] = String(s[n])
    BY <1>1 DEF Mapped, SpellsListed
  <1>5. \A n \in DOMAIN s : IsKindName(w.items[n].value) <=> Is(s[n], "kind")
    <2>1. \A t : IsKindName(String(t)) <=> Is(t, "kind")
      BY DEF IsKindName, String, Scalar
    <2> QED
      BY <2>1 DEF SpellsListed
  <1> HIDE DEF u
  <1>6. IsInjective(u) <=> IsInjective(s)
    BY <1>4, StringsDiffer DEF IsInjective
  <1>7. (\A i \in Range(w.items) : IsKindName(i.value)) <=>
          \A n \in DOMAIN s : IsKindName(w.items[n].value)
    BY <1>1, <1>2, ListProperties
  <1>8. (\A k \in Range(s) : Is(k, "kind")) <=> \A n \in DOMAIN s : Is(s[n], "kind")
    BY ListProperties
  <1>9. AcceptsList(w, IsKindName, 1) <=>
          Len(w.items) >= 1 /\ \A i \in Range(w.items) : IsKindName(i.value)
    BY <1>1 DEF AcceptsList
  <1>10. Len(w.items) >= 1 <=> s # <<>>
    BY <1>3
  <1> QED
    BY <1>5, <1>6, <1>7, <1>8, <1>9, <1>10 DEF u

LEMMA CuratedAccepts ==
  ASSUME NEW w \in OnceBindings, NEW d \in DictsOf(Texts, [reason : Texts, comment : Note]),
         SpellsCurated(w, d)
  PROVE  AcceptsMap(w, IsKindName, AcceptsText, 1) <=>
           d # <<>> /\ \A e \in Range(d) : Is(e.key, "kind") /\ PlainText(e.value.reason)
  <1> DEFINE E == [key : Texts, value : [reason : Texts, comment : Note]]
             A(p) == IsKindName(p.key) /\ AcceptsText(p.value)
             T(e) == Is(e.key, "kind") /\ PlainText(e.value.reason)
  <1>1. w.type = "mapping" /\ DOMAIN w.pairs = DOMAIN d
    BY DEF SpellsCurated
  <1>2. w.pairs \in Seq(PairsOf(OnceSections)) /\ d \in Seq(E)
    BY <1>1, OnceParts DEF OnceBindings, DictsOf
  <1>3. /\ Len(w.pairs) = Len(d) /\ Len(d) \in Nat /\ (d = <<>> <=> Len(d) = 0)
    <2> HIDE DEF E
    <2> QED
      BY <1>1, <1>2, SameDomain, ListProperties
  <1>4. ASSUME NEW n \in DOMAIN d
        PROVE  A(w.pairs[n]) <=> T(d[n])
    <2>1. w.pairs[n] \in PairsOf(OnceSections)
      BY <1>1, <1>2, ListProperties
    <2>2. w.pairs[n].key \in Scalars
      BY <2>1 DEF PairsOf
    <2>3. w.pairs[n].key.text = d[n].key /\ w.pairs[n].value = String(d[n].value.reason)
      BY DEF SpellsCurated
    <2>4. IsKindName(w.pairs[n].key) <=> Is(d[n].key, "kind")
      BY <2>2, <2>3, NamesAreStrings DEF IsKindName, IsString
    <2>5. AcceptsText(w.pairs[n].value) <=> PlainText(d[n].value.reason)
      BY <2>3, PlainString
    <2> QED
      BY <2>4, <2>5
  <1>5. AcceptsMap(w, IsKindName, AcceptsText, 1) <=>
          Len(w.pairs) >= 1 /\ \A p \in Range(w.pairs) : A(p)
    BY <1>1 DEF AcceptsMap
  <1> HIDE DEF A, T, E
  <1>6. (\A p \in Range(w.pairs) : A(p)) <=> \A n \in DOMAIN d : A(w.pairs[n])
    BY <1>1, <1>2, ListProperties
  <1>7. (\A e \in Range(d) : T(e)) <=> \A n \in DOMAIN d : T(d[n])
    BY <1>2, ListProperties
  <1>8. Len(w.pairs) >= 1 <=> d # <<>>
    BY <1>3
  <1>9. AcceptsMap(w, IsKindName, AcceptsText, 1) <=> d # <<>> /\ \A e \in Range(d) : T(e)
    BY <1>4, <1>5, <1>6, <1>7, <1>8
  <1> QED
    BY <1>9 DEF T

LEMMA CoverageAccepts ==
  ASSUME NEW v \in OnceBlocks, NEW c \in CoverageType, SpellsCoverage(v, c)
  PROVE  AcceptsCoverage(v) <=> CoverageTexts(c)
  <1>1. v.type = "mapping" /\ \A k : Has(v, k) => At(v, k) \in OnceBindings
    BY OnceParts DEF SpellsCoverage, OnceBlocks
  <1>2. DOMAIN Shape["coverage"].keys = {"fully_bound", "curated"} /\ Shape["coverage"].required = {}
    BY DEF Shape
  <1>3. AcceptsKeys(v, "coverage")
    BY <1>1, <1>2 DEF AcceptsKeys, SpellsCoverage
  <1>4. v.pairs # <<>> <=> c.fully_bound # None \/ c.curated # None
    <2>1. v.pairs \in Seq(PairsOf(OnceBindings))
      BY <1>1, OnceParts DEF OnceBlocks
    <2>2. v.pairs = <<>> <=> Range(v.pairs) = {}
      BY <2>1, NothingInIt
    <2>3. Range(v.pairs) # {} <=> KeysOf(v) # {}
      BY DEF KeysOf
    <2>4. KeysOf(v) # {} <=> Has(v, "fully_bound") \/ Has(v, "curated")
      BY DEF SpellsCoverage, Has
    <2> QED
      BY <2>2, <2>3, <2>4 DEF SpellsCoverage
  <1>5. IfPresent(v, "fully_bound", LAMBDA x : AcceptsList(x, IsKindName, 1)
                                       /\ IsInjective(Mapped(x.items, LAMBDA i : i.value))) <=>
          (c.fully_bound # None => /\ c.fully_bound # <<>> /\ IsInjective(c.fully_bound)
                                   /\ \A k \in Range(c.fully_bound) : Is(k, "kind"))
    <2>1. CASE c.fully_bound = None
      BY <2>1 DEF IfPresent, SpellsCoverage
    <2>2. CASE c.fully_bound # None
      <3>1. /\ c.fully_bound \in Seq(Texts) /\ Has(v, "fully_bound")
            /\ SpellsListed(At(v, "fully_bound"), c.fully_bound)
            /\ At(v, "fully_bound") \in OnceBindings
        BY <1>1, <2>2 DEF CoverageType, SpellsCoverage
      <3>2. AcceptsList(At(v, "fully_bound"), IsKindName, 1)
              /\ IsInjective(Mapped(At(v, "fully_bound").items, LAMBDA i : i.value)) <=>
              /\ c.fully_bound # <<>> /\ IsInjective(c.fully_bound)
              /\ \A k \in Range(c.fully_bound) : Is(k, "kind")
        BY <3>1, ListedAccepts
      <3> QED
        BY <2>2, <3>1, <3>2 DEF IfPresent
    <2> QED
      BY <2>1, <2>2
  <1>6. IfPresent(v, "curated", LAMBDA x : AcceptsMap(x, IsKindName, AcceptsText, 1)) <=>
          (c.curated # None => c.curated # <<>> /\ \A e \in Range(c.curated) :
             Is(e.key, "kind") /\ PlainText(e.value.reason))
    <2>1. CASE c.curated = None
      BY <2>1 DEF IfPresent, SpellsCoverage
    <2>2. CASE c.curated # None
      <3>1. /\ c.curated \in DictsOf(Texts, [reason : Texts, comment : Note]) /\ Has(v, "curated")
            /\ SpellsCurated(At(v, "curated"), c.curated)
            /\ At(v, "curated") \in OnceBindings
        BY <1>1, <2>2 DEF CoverageType, SpellsCoverage
      <3> QED
        BY <2>2, <3>1, CuratedAccepts DEF IfPresent
    <2> QED
      BY <2>1, <2>2
  <1>7. AcceptsCoverage(v) <=>
          /\ AcceptsKeys(v, "coverage") /\ v.pairs # <<>>
          /\ IfPresent(v, "fully_bound", LAMBDA x : AcceptsList(x, IsKindName, 1)
                                       /\ IsInjective(Mapped(x.items, LAMBDA i : i.value)))
          /\ IfPresent(v, "curated", LAMBDA x : AcceptsMap(x, IsKindName, AcceptsText, 1))
    BY DEF AcceptsCoverage, IsKindName, AcceptsList, AcceptsMap, IfPresent
  <1> QED
    BY <1>3, <1>4, <1>5, <1>6, <1>7 DEF CoverageTexts

MapTexts(m) ==
    /\ \A e \in Range(m.bindings) : BindingTexts(e.value)
    /\ m.coverage # None => CoverageTexts(m.coverage)

IsIdName(x) == x.type = "string" /\ Is(x.text, "id")

LEMMA BindingsAccept ==
  ASSUME NEW w \in OnceBlocks, NEW d \in DictsOf(IdTexts, BindingType(Note)), SpellsBindings(w, d),
         \A p \in Range(w.pairs) : NamedByStrings(p.value)
  PROVE  AcceptsMap(w, IsIdName, AcceptsBinding, 0) <=> \A e \in Range(d) : BindingTexts(e.value)
  <1> DEFINE E == [key : IdTexts, value : BindingType(Note)]
             A(p) == IsIdName(p.key) /\ AcceptsBinding(p.value)
             T(e) == BindingTexts(e.value)
  <1>1. w.type = "mapping" /\ DOMAIN w.pairs = DOMAIN d
    BY DEF SpellsBindings
  <1>2. w.pairs \in Seq(PairsOf(OnceBindings)) /\ d \in Seq(E)
    BY <1>1, OnceParts DEF OnceBlocks, DictsOf
  <1>3. Len(w.pairs) \in Nat
    BY <1>2, ListProperties
  <1>4. ASSUME NEW n \in DOMAIN d
        PROVE  A(w.pairs[n]) <=> T(d[n])
    <2>1. w.pairs[n] \in PairsOf(OnceBindings) /\ w.pairs[n] \in Range(w.pairs)
      BY <1>1, <1>2, ListProperties
    <2>2. d[n] \in E
      BY <1>2, ListProperties
    <2>3. w.pairs[n].key \in Scalars /\ w.pairs[n].value \in OnceBindings
      BY <2>1 DEF PairsOf
    <2>4. Is(d[n].key, "id") /\ d[n].value \in BindingType(Note)
      BY <2>2 DEF IdTexts
    <2>5. w.pairs[n].key.text = d[n].key /\ SpellsBinding(w.pairs[n].value, d[n].value)
      BY DEF SpellsBindings
    <2>6. IsIdName(w.pairs[n].key)
      BY <2>3, <2>4, <2>5, NamesAreStrings DEF IsIdName, IsString
    <2>7. AcceptsBinding(w.pairs[n].value) <=> BindingTexts(d[n].value)
      BY <2>1, <2>3, <2>4, <2>5, BindingAccepts
    <2> QED
      BY <2>6, <2>7
  <1>5. AcceptsMap(w, IsIdName, AcceptsBinding, 0) <=> \A p \in Range(w.pairs) : A(p)
    BY <1>1, <1>3 DEF AcceptsMap
  <1> HIDE DEF A, T, E
  <1>6. (\A p \in Range(w.pairs) : A(p)) <=> \A n \in DOMAIN d : A(w.pairs[n])
    BY <1>1, <1>2, ListProperties
  <1>7. (\A e \in Range(d) : T(e)) <=> \A n \in DOMAIN d : T(d[n])
    BY <1>2, ListProperties
  <1>8. AcceptsMap(w, IsIdName, AcceptsBinding, 0) <=> \A e \in Range(d) : T(e)
    BY <1>4, <1>5, <1>6, <1>7
  <1> QED
    BY <1>8 DEF T

LEMMA MapAccepts ==
  ASSUME NEW f \in ParsedFiles, NEW m \in MapType, SpellsRest(f, m),
         AcceptsScalar(At(f.root, "schema_version"), Shape["document"].keys["schema_version"]),
         \A p \in Range(At(f.root, "bindings").pairs) : NamedByStrings(p.value)
  PROVE  SchemaAccepts(f.root) <=> MapTexts(m)
  <1> DEFINE v == f.root
  <1>1. v.type = "mapping" /\ \A k : Has(v, k) => At(v, k) \in OnceBlocks
    BY ParsedRoot, OnceParts
  <1>2. /\ DOMAIN Shape["document"].keys = RootKeys
        /\ Shape["document"].required = {"schema_version", "bindings"}
    BY DEF Shape, RootKeys
  <1>3. AcceptsKeys(v, "document")
    BY <1>1, <1>2 DEF AcceptsKeys, SpellsRest
  <1>5. AcceptsMap(At(v, "bindings"), IsIdName, AcceptsBinding, 0) <=>
          \A e \in Range(m.bindings) : BindingTexts(e.value)
    <2>1. /\ At(v, "bindings") \in OnceBlocks /\ SpellsBindings(At(v, "bindings"), m.bindings)
          /\ m.bindings \in DictsOf(IdTexts, BindingType(Note))
      BY <1>1 DEF SpellsRest, MapType, IdTexts
    <2> QED
      BY <2>1, BindingsAccept
  <1>6. IfPresent(v, "coverage", AcceptsCoverage) <=>
          (m.coverage # None => CoverageTexts(m.coverage))
    <2>1. CASE m.coverage = None
      BY <2>1 DEF IfPresent, SpellsRest
    <2>2. CASE m.coverage # None
      <3>1. /\ m.coverage \in CoverageType /\ Has(v, "coverage")
            /\ SpellsCoverage(At(v, "coverage"), m.coverage) /\ At(v, "coverage") \in OnceBlocks
        BY <1>1, <2>2 DEF MapType, SpellsRest
      <3> QED
        BY <2>2, <3>1, CoverageAccepts DEF IfPresent
    <2> QED
      BY <2>1, <2>2
  <1>7. SchemaAccepts(v) <=>
          /\ AcceptsKeys(v, "document")
          /\ AcceptsScalar(At(v, "schema_version"), Shape["document"].keys["schema_version"])
          /\ AcceptsMap(At(v, "bindings"), IsIdName, AcceptsBinding, 0)
          /\ IfPresent(v, "coverage", AcceptsCoverage)
    BY DEF SchemaAccepts, IsIdName, AcceptsMap
  <1> QED
    BY <1>3, <1>5, <1>6, <1>7 DEF MapTexts

LEMMA GoodTexts ==
  ASSUME NEW m, Good(m)
  PROVE  MapTexts(m)
  <1>1. /\ \A e \in Range(m.bindings) : e.value \in BindingType(Note) /\ BindingRules(e.value, FALSE)
        /\ m.coverage # None => m.coverage \in CoverageType /\ CoverageRules(m.coverage)
    BY GoodMaps, GoodCoverage DEF GoodBinding
  <1>2. ASSUME NEW b \in BindingType(Note), BindingRules(b, FALSE)
        PROVE  BindingTexts(b)
    <2>1. {"locator", "field_locator", "wire", "assertion"} \subseteq Nodes
          /\ Note \in SUBSET TextOrNone /\ {None} \in SUBSET TextOrNone
      BY NotesAreTexts DEF Nodes, TextOrNone
    <2>2. \A x \in Range(b.locators) : EntryTexts(x, "locator")
      <3>1. \A x \in Range(b.locators) : x \in EntryType("locator", Note) /\ StringRules(x)
        BY <1>2, ListProperties DEF BindingType, BindingRules, LocatorsRules
      <3> QED
        BY <2>1, <3>1, EntryTextsFine
    <2>3. b.compare_via # None => PlainText(b.compare_via)
      BY <1>2 DEF BindingRules, ScalarRules, PlainText
    <2>4. b.fields # None => FieldsTexts(b.fields)
      <3> SUFFICES ASSUME b.fields # None
                   PROVE  FieldsTexts(b.fields)
        OBVIOUS
      <3>1. /\ b.fields \in Seq([key : Texts, value : EntryType("field_locator", Note)])
            /\ b.fields # <<>> /\ FieldsRules(b.fields, FALSE)
        BY <1>2 DEF BindingType, BindingRules, DictsOf
      <3>2. \A e \in Range(b.fields) : /\ e.value \in EntryType("field_locator", Note)
                                       /\ StringRules(e.value) /\ FieldNameRules(e.key)
        <4>1. \A e \in Range(b.fields) : e \in [key : Texts, value : EntryType("field_locator", Note)]
          BY <3>1, ListProperties
        <4> QED
          BY <3>1, <4>1 DEF FieldsRules
      <3> QED
        BY <2>1, <3>1, <3>2, EntryTextsFine DEF FieldsTexts, FieldNameRules, PlainText
    <2>5. b.wire # None => EntryTexts(b.wire, "wire")
      <3>1. b.wire # None => b.wire \in EntryType("wire", {None}) /\ WireRules(b.wire)
        BY <1>2 DEF BindingType, BindingRules
      <3> QED
        BY <2>1, <3>1, EntryTextsFine DEF WireRules
    <2>6. b.asserted_by # None =>
            b.asserted_by # <<>> /\ \A x \in Range(b.asserted_by) : EntryTexts(x, "assertion")
      <3> SUFFICES ASSUME b.asserted_by # None
                   PROVE  b.asserted_by # <<>> /\ \A x \in Range(b.asserted_by) : EntryTexts(x, "assertion")
        OBVIOUS
      <3>1. /\ b.asserted_by \in Seq(EntryType("assertion", Note))
            /\ b.asserted_by # <<>> /\ AssertedRules(b.asserted_by, FALSE)
        BY <1>2 DEF BindingType, BindingRules
      <3>2. \A x \in Range(b.asserted_by) : x \in EntryType("assertion", Note) /\ StringRules(x)
        BY <3>1, ListProperties DEF AssertedRules
      <3> QED
        BY <2>1, <3>1, <3>2, EntryTextsFine
    <2> QED
      BY <2>2, <2>3, <2>4, <2>5, <2>6 DEF BindingTexts
  <1>3. ASSUME NEW c \in CoverageType, CoverageRules(c)
        PROVE  CoverageTexts(c)
    BY <1>3 DEF CoverageRules, CoverageTexts, PlainText
  <1> QED
    BY <1>1, <1>2, <1>3 DEF MapTexts

LEMMA BindingTextsFine ==
  ASSUME NEW b \in BindingType(Note), BindingTexts(b)
  PROVE  BindingCodes(b, FALSE) \cap ShapeCodes = {}
  <1> DEFINE fields == OrEmpty(b.fields)
             asserted == OrEmpty(b.asserted_by)
             entries == Range(b.locators) \cup Range(asserted) \cup {e.value : e \in Range(fields)}
             U1 == UNION {EntryCodes(x, FALSE) : x \in entries}
             U2 == UNION {FieldNameCodes(name) : name \in Keys(fields)}
             U3 == UNION {AssertionCodes(x) : x \in Range(asserted)}
             W == IF b.wire = None THEN {}
                  ELSE CodeIf("INV-WIRE-SUBSET", DOMAIN b.wire.strings = {}) \cup EntryCodes(b.wire, FALSE)
  <1>1. /\ b.locators \in Seq(EntryType("locator", Note))
        /\ fields \in Seq([key : Texts, value : EntryType("field_locator", Note)])
        /\ asserted \in Seq(EntryType("assertion", Note))
        /\ b.wire \in EntryType("wire", {None}) \cup {None}
    BY EmptyList DEF BindingType, OrEmpty, DictsOf
  <1>2. /\ {"locator", "field_locator", "wire", "assertion"} \subseteq Nodes
        /\ Note \in SUBSET TextOrNone /\ {None} \in SUBSET TextOrNone
    BY NotesAreTexts DEF Nodes, TextOrNone
  <1>3. /\ \A e \in Range(fields) : PlainText(e.key) /\ EntryTexts(e.value, "field_locator")
        /\ \A x \in Range(asserted) : EntryTexts(x, "assertion")
    BY EmptyList DEF BindingTexts, FieldsTexts, OrEmpty
  <1>4. /\ \A e \in Range(fields) : e.value \in EntryType("field_locator", Note)
        /\ \A x \in Range(asserted) : x \in EntryType("assertion", Note)
        /\ \A x \in Range(b.locators) : x \in EntryType("locator", Note)
        /\ Keys(fields) = {e.key : e \in Range(fields)}
    <2>1. \A e \in Range(fields) : e \in [key : Texts, value : EntryType("field_locator", Note)]
      BY <1>1, ListProperties
    <2> HIDE DEF fields, asserted
    <2> QED
      BY <1>1, <2>1, ListProperties
  <1>5. BindingCodes(b, FALSE) =
          CommentCodes(b.comment, FALSE) \cup ScalarCodes(b.compare_via) \cup U1
            \cup CodeIf("INV-LOCATOR-UNIQUE", Repeated(b.locators, LocatorIdentity))
            \cup CodeIf("INV-FIELD-NAME", b.fields = <<>>) \cup U2 \cup W
            \cup CodeIf("INV-ASSERTION-SHAPE", b.asserted_by = <<>>) \cup U3
            \cup CodeIf("INV-ASSERTION-UNIQUE", Repeated(asserted, AssertionIdentity))
    BY DEF BindingCodes
  <1> HIDE DEF fields, asserted
  <1>6. U1 \cap ShapeCodes = {}
    <2>1. \A x \in entries : EntryCodes(x, FALSE) \cap ShapeCodes = {}
      BY <1>2, <1>3, <1>4, EntryTextsFine DEF BindingTexts
    <2> HIDE DEF entries
    <2> QED
      BY <2>1
  <1>7. U2 = {}
    <2>1. \A name \in Keys(fields) : FieldNameCodes(name) = {}
      BY <1>3, <1>4 DEF FieldNameCodes, CodeIf, PlainText
    <2> QED
      BY <2>1
  <1>8. U3 \cap ShapeCodes = {}
    <2>1. \A x : AssertionCodes(x) \cap ShapeCodes = {}
      BY DEF AssertionCodes, CodeIf, ShapeCodes
    <2> QED
      BY <2>1
  <1>9. W \cap ShapeCodes = {}
    <2>1. CASE b.wire = None
      BY <2>1
    <2>2. CASE b.wire # None
      <3>1. EntryTexts(b.wire, "wire") /\ b.wire \in EntryType("wire", {None})
        BY <1>1, <2>2 DEF BindingTexts
      <3>2. DOMAIN b.wire.strings # {} /\ EntryCodes(b.wire, FALSE) \cap ShapeCodes = {}
        BY <1>2, <3>1, EntryTextsFine DEF EntryTexts
      <3> QED
        BY <2>2, <3>2 DEF CodeIf
    <2> QED
      BY <2>1, <2>2
  <1>10. ScalarCodes(b.compare_via) = {} /\ CodeIf("INV-FIELD-NAME", b.fields = <<>>) = {}
    <2>1. b.fields # <<>>
      BY EmptyList, NoneAssumption DEF BindingTexts, FieldsTexts
    <2> QED
      BY <2>1 DEF ScalarCodes, CodeIf, BindingTexts, PlainText
  <1>11. /\ CommentCodes(b.comment, FALSE) \cap ShapeCodes = {}
         /\ CodeIf("INV-LOCATOR-UNIQUE", Repeated(b.locators, LocatorIdentity)) \cap ShapeCodes = {}
         /\ CodeIf("INV-ASSERTION-SHAPE", b.asserted_by = <<>>) \cap ShapeCodes = {}
         /\ CodeIf("INV-ASSERTION-UNIQUE", Repeated(asserted, AssertionIdentity)) \cap ShapeCodes = {}
    BY DEF CommentCodes, CodeIf, ShapeCodes
  <1> HIDE DEF U1, U2, U3, W
  <1> QED
    BY <1>5, <1>6, <1>7, <1>8, <1>9, <1>10, <1>11

LEMMA CoverageTextsFine ==
  ASSUME NEW c \in CoverageType, CoverageTexts(c)
  PROVE  CoverageCodes(c) \cap ShapeCodes = {}
  <1> DEFINE listed == OrEmpty(c.fully_bound)
             curated == OrEmpty(c.curated)
             notes == UNION {CommentCodes(e.value.comment, FALSE) : e \in Range(curated)}
             controls == CodeIf("INV-SYMBOL-NONEMPTY", \E e \in Range(curated) : Is(e.value.reason, "control"))
  <1>1. CoverageCodes(c) \subseteq CommentCodes(c.comment, FALSE) \cup notes
                                     \cup {"INV-COVERAGE-WELLFORMED"} \cup controls
    BY DEF CoverageCodes, CodeIf
  <1>2. \A x : CommentCodes(x, FALSE) \cap ShapeCodes = {}
    BY DEF CommentCodes, CodeIf, ShapeCodes
  <1>3. \A e \in Range(curated) : PlainText(e.value.reason)
    BY EmptyList DEF CoverageTexts, OrEmpty
  <1> HIDE DEF curated
  <1>4. controls = {}
    BY <1>3 DEF CodeIf, PlainText
  <1>5. notes \cap ShapeCodes = {}
    BY <1>2
  <1> HIDE DEF notes, controls
  <1>6. {"INV-COVERAGE-WELLFORMED"} \cap ShapeCodes = {}
    BY DEF ShapeCodes
  <1> QED
    BY <1>1, <1>2, <1>4, <1>5, <1>6

LEMMA MapTextsFine ==
  ASSUME NEW m \in MapType, MapTexts(m)
  PROVE  MapCodes(m) \cap ShapeCodes = {}
  <1> DEFINE bindings == UNION {BindingCodes(e.value, FALSE) : e \in Range(m.bindings)}
             coverage == IF m.coverage = None THEN {} ELSE CoverageCodes(m.coverage)
  <1>1. MapCodes(m) = CommentCodes(m.header, FALSE)
                        \cup CodeIf("INV-SCHEMA-VERSION", m.schema_version # "1")
                        \cup bindings \cup coverage
    BY DEF MapCodes
  <1>2. \A e \in Range(m.bindings) : BindingCodes(e.value, FALSE) \cap ShapeCodes = {}
    BY MapFine, BindingTextsFine DEF MapTexts
  <1>3. bindings \cap ShapeCodes = {}
    BY <1>2
  <1>4. coverage \cap ShapeCodes = {}
    <2>1. m.coverage # None => m.coverage \in CoverageType
      BY DEF MapType
    <2> QED
      BY <2>1, CoverageTextsFine DEF MapTexts
  <1>5. CommentCodes(m.header, FALSE) \cap ShapeCodes = {}
        /\ CodeIf("INV-SCHEMA-VERSION", m.schema_version # "1") \cap ShapeCodes = {}
    BY DEF CommentCodes, CodeIf, ShapeCodes
  <1> HIDE DEF bindings, coverage
  <1> QED
    BY <1>1, <1>3, <1>4, <1>5

(***************************************************************************)
(* A file that the schema accepts has no finding of shape.                 *)
(***************************************************************************)
LEMMA SchemaKeys ==
  ASSUME NEW v, NEW node, AcceptsKeys(v, node)
  PROVE  v.type = "mapping" /\ ClosedKeys(v, node) = {}
  BY DEF AcceptsKeys, ClosedKeys, Code

LEMMA SchemaFlat ==
  ASSUME NEW v, NEW node \in Nodes, AcceptsFlat(v, node)
  PROVE  FlatFindings(v, node) = {}
  <1> DEFINE keys == Shape[node].keys
             present == {k \in DOMAIN keys : Has(v, k)}
             untexts == {k \in present : At(v, k).type # "string"}
             unroles == {k \in present : At(v, k).type = "string" /\ ~Allowed(v, k, keys[k])}
  <1>1. v.type = "mapping" /\ ClosedKeys(v, node) = {}
    BY SchemaKeys DEF AcceptsFlat
  <1>2. ASSUME NEW k \in present
        PROVE  At(v, k).type = "string" /\ Allowed(v, k, keys[k])
    <2>1. AcceptsScalar(At(v, k), keys[k]) /\ Has(v, k)
      BY DEF AcceptsFlat
    <2>2. keys[k].type = IF k = "role" THEN "enum" ELSE "str"
      BY SpecTypes
    <2>3. CASE k = "role"
      BY <2>1, <2>2, <2>3 DEF AcceptsScalar, Allowed, HasA
    <2>4. CASE k # "role"
      BY <2>1, <2>2, <2>4 DEF AcceptsScalar, AcceptsText, Allowed, HasA
    <2> QED
      BY <2>3, <2>4
  <1>3. untexts = {} /\ unroles = {}
    BY <1>2
  <1>4. FlatFindings(v, node) =
          ClosedKeys(v, node) \cup Code("INV-CLOSED-KEYS", untexts) \cup Code("INV-ROLE-VALUES", unroles)
    BY <1>1 DEF FlatFindings
  <1> HIDE DEF untexts, unroles
  <1> QED
    BY <1>1, <1>3, <1>4 DEF Code

LEMMA SchemaBinding ==
  ASSUME NEW v, AcceptsBinding(v)
  PROVE  BindingFindings(v) = {}
  <1>1. v.type = "mapping" /\ ClosedKeys(v, "binding") = {} /\ Has(v, "locators")
    <2>1. AcceptsKeys(v, "binding")
      BY DEF AcceptsBinding
    <2>2. "locators" \in Shape["binding"].required
      BY DEF Shape
    <2> QED
      BY <2>1, <2>2, SchemaKeys DEF AcceptsKeys
  <1>2. {"locator", "field_locator", "wire", "assertion"} \subseteq Nodes
    BY DEF Nodes
  <1>3. HasA(v, "locators", "list") /\ ItemFindings(v, "locators", "locator") = {}
    <2>1. /\ At(v, "locators").type = "list"
          /\ \A i \in Range(At(v, "locators").items) : AcceptsFlat(i.value, "locator")
      BY DEF AcceptsBinding, AcceptsList
    <2>2. \A i \in Range(At(v, "locators").items) : FlatFindings(i.value, "locator") = {}
      BY <1>2, <2>1, SchemaFlat
    <2> QED
      BY <1>1, <2>1, <2>2 DEF HasA, ItemFindings, Mistyped, CodeIf
  <1>4. Mistyped(v, "compare_via", "string") = {}
    BY DEF AcceptsBinding, IfPresent, AcceptsText, Mistyped, CodeIf
  <1>5. PairFindings(v, "fields", "field_locator") = {}
    <2>1. CASE ~Has(v, "fields")
      BY <2>1 DEF PairFindings, Mistyped, CodeIf, HasA
    <2>2. CASE Has(v, "fields")
      <3>1. /\ At(v, "fields").type = "mapping"
            /\ \A p \in Range(At(v, "fields").pairs) : AcceptsFlat(p.value, "field_locator")
        BY <2>2 DEF AcceptsBinding, IfPresent, AcceptsMap
      <3>2. \A p \in Range(At(v, "fields").pairs) : FlatFindings(p.value, "field_locator") = {}
        BY <1>2, <3>1, SchemaFlat
      <3> QED
        BY <3>1, <3>2 DEF PairFindings, Mistyped, CodeIf, HasA
    <2> QED
      BY <2>1, <2>2
  <1>6. Has(v, "wire") => FlatFindings(At(v, "wire"), "wire") = {}
    <2>1. Has(v, "wire") => AcceptsFlat(At(v, "wire"), "wire")
      BY DEF AcceptsBinding, IfPresent
    <2> QED
      BY <1>2, <2>1, SchemaFlat
  <1>7. ItemFindings(v, "asserted_by", "assertion") = {}
    <2>1. CASE ~Has(v, "asserted_by")
      BY <2>1 DEF ItemFindings, Mistyped, CodeIf, HasA
    <2>2. CASE Has(v, "asserted_by")
      <3>1. /\ At(v, "asserted_by").type = "list"
            /\ \A i \in Range(At(v, "asserted_by").items) : AcceptsFlat(i.value, "assertion")
        BY <2>2 DEF AcceptsBinding, IfPresent, AcceptsList
      <3>2. \A i \in Range(At(v, "asserted_by").items) : FlatFindings(i.value, "assertion") = {}
        BY <1>2, <3>1, SchemaFlat
      <3> QED
        BY <3>1, <3>2 DEF ItemFindings, Mistyped, CodeIf, HasA
    <2> QED
      BY <2>1, <2>2
  <1> QED
    BY <1>1, <1>3, <1>4, <1>5, <1>6, <1>7 DEF BindingFindings

LEMMA SchemaCoverage ==
  ASSUME NEW v, AcceptsCoverage(v)
  PROVE  /\ v.type = "mapping" /\ CoverageFindings(v) = {}
         /\ HasA(v, "curated", "mapping") =>
              \A p \in Range(At(v, "curated").pairs) : IsKindName(p.key)
  <1> DEFINE inside == {i.value : i \in IF HasA(v, "fully_bound", "list")
                                          THEN Range(At(v, "fully_bound").items) ELSE {}}
                         \cup {p.value : p \in IF HasA(v, "curated", "mapping")
                                                 THEN Range(At(v, "curated").pairs) ELSE {}}
             others == {x \in inside : ~IsString(x)}
  <1>1. v.type = "mapping" /\ ClosedKeys(v, "coverage") = {}
    BY SchemaKeys DEF AcceptsCoverage
  <1>2. Has(v, "fully_bound") =>
          /\ At(v, "fully_bound").type = "list"
          /\ \A i \in Range(At(v, "fully_bound").items) : IsString(i.value)
    BY DEF AcceptsCoverage, IfPresent, AcceptsList, IsString
  <1>3. Has(v, "curated") =>
          /\ At(v, "curated").type = "mapping"
          /\ \A p \in Range(At(v, "curated").pairs) : IsKindName(p.key) /\ IsString(p.value)
    BY DEF AcceptsCoverage, IfPresent, AcceptsMap, AcceptsText, IsString, IsKindName
  <1>4. others = {}
    BY <1>2, <1>3 DEF HasA
  <1>5. Mistyped(v, "fully_bound", "list") = {} /\ Mistyped(v, "curated", "mapping") = {}
    BY <1>2, <1>3 DEF Mistyped, CodeIf
  <1>6. CoverageFindings(v) =
          ClosedKeys(v, "coverage") \cup Mistyped(v, "fully_bound", "list")
            \cup Mistyped(v, "curated", "mapping") \cup Code("INV-CLOSED-KEYS", others)
    BY <1>1 DEF CoverageFindings
  <1> HIDE DEF others
  <1> QED
    BY <1>1, <1>3, <1>4, <1>5, <1>6 DEF Code, HasA

LEMMA SchemaFile ==
  ASSUME NEW f, SchemaAccepts(f.root)
  PROVE  RestFindings(f) = {} /\ HasA(f.root, "bindings", "mapping")
  <1> DEFINE v == f.root
             pairs == IF HasA(v, "bindings", "mapping") THEN Range(At(v, "bindings").pairs) ELSE {}
             named == {p \in pairs : Is(p.key.text, "id")}
             within == UNION {BindingFindings(p.value) : p \in named}
  <1>1. /\ v.type = "mapping" /\ ClosedKeys(v, "document") = {}
        /\ Has(v, "schema_version") /\ Has(v, "bindings")
    <2>1. AcceptsKeys(v, "document")
      BY DEF SchemaAccepts
    <2>2. {"schema_version", "bindings"} \subseteq Shape["document"].required
      BY DEF Shape
    <2> QED
      BY <2>1, <2>2, SchemaKeys DEF AcceptsKeys
  <1>3. /\ At(v, "bindings").type = "mapping"
        /\ \A p \in Range(At(v, "bindings").pairs) : Is(p.key.text, "id") /\ AcceptsBinding(p.value)
    BY DEF SchemaAccepts, AcceptsMap
  <1>4. pairs = Range(At(v, "bindings").pairs)
    BY <1>1, <1>3 DEF HasA
  <1> HIDE DEF pairs
  <1>5. pairs \ named = {}
    BY <1>3, <1>4
  <1>6. within = {}
    <2>1. \A p \in named : BindingFindings(p.value) = {}
      BY <1>3, <1>4, SchemaBinding
    <2> HIDE DEF named
    <2> QED
      BY <2>1
  <1>7. Mistyped(v, "bindings", "mapping") = {}
    BY <1>3 DEF Mistyped, CodeIf
  <1>8. Has(v, "coverage") => CoverageFindings(At(v, "coverage")) = {}
    <2>1. Has(v, "coverage") => AcceptsCoverage(At(v, "coverage"))
      BY DEF SchemaAccepts, IfPresent
    <2> QED
      BY <2>1, SchemaCoverage
  <1>9. RestFindings(f) =
          ClosedKeys(v, "document") \cup Mistyped(v, "bindings", "mapping")
            \cup Code("INV-ID-GRAMMAR", pairs \ named) \cup within
            \cup (IF Has(v, "coverage") THEN CoverageFindings(At(v, "coverage")) ELSE {})
    BY DEF RestFindings, pairs
  <1> HIDE DEF named, within
  <1> QED
    BY <1>1, <1>3, <1>5, <1>6, <1>7, <1>8, <1>9 DEF Code, HasA

LEMMA SchemaKinds ==
  ASSUME NEW f \in ParsedFiles, SchemaAccepts(f.root), Map(f).coverage # None
  PROVE  KindsNamed(Map(f).coverage)
  <1> DEFINE v == At(f.root, "coverage")
             curated == At(v, "curated").pairs
             entries == [n \in DOMAIN curated |-> CuratedEntry(curated[n])]
             E == [key : Texts, value : [reason : Texts, comment : Note]]
             c == Coverage(v, PairAt(f.root, "coverage").note)
  <1>1. Map(f).coverage = IF Has(f.root, "coverage") THEN c ELSE None
    BY DEF Map
  <1>2. Has(f.root, "coverage") /\ Map(f).coverage = c
    BY <1>1
  <1>3. AcceptsCoverage(v)
    BY <1>2 DEF SchemaAccepts, IfPresent
  <1>4. /\ v.type = "mapping"
        /\ HasA(v, "curated", "mapping") => \A p \in Range(curated) : IsKindName(p.key)
    BY <1>3, SchemaCoverage
  <1>5. c.curated = IF HasA(v, "curated", "mapping") THEN Dict(entries) ELSE None
    BY <1>4 DEF Coverage
  <1>6. ASSUME HasA(v, "curated", "mapping"), NEW e \in Range(Dict(entries))
        PROVE  Is(e.key, "kind")
    <2>1. v \in OnceBlocks
      BY <1>2, ParsedRoot, OnceParts
    <2>2. At(v, "curated") \in OnceBindings /\ At(v, "curated").type = "mapping"
      BY <1>4, <1>6, <2>1, OnceParts DEF OnceBlocks, HasA
    <2>3. curated \in Seq(PairsOf(OnceSections))
      BY <2>2, OnceParts DEF OnceBindings
    <2>4. ASSUME NEW n \in DOMAIN curated
          PROVE  /\ entries[n] \in E \cup {None}
                 /\ entries[n] # None => entries[n].key = curated[n].key.text
      <3>1. curated[n] \in PairsOf(OnceSections)
        BY <2>3, ListProperties
      <3>2. curated[n].key \in Scalars /\ curated[n].value \in OnceSections /\ curated[n].note \in Note
        BY <3>1 DEF PairsOf
      <3>3. CuratedEntry(curated[n]) =
              IF IsString(curated[n].value)
                THEN [key |-> curated[n].key.text,
                      value |-> [reason |-> curated[n].value.text, comment |-> curated[n].note]]
                ELSE None
        BY DEF CuratedEntry, Keyed
      <3>4. curated[n].key.text \in Texts
        BY <3>2 DEF Scalars
      <3>5. IsString(curated[n].value) => curated[n].value.text \in Texts
        <4>1. curated[n].value \in Values(OnceEntries)
          BY <3>2, OnceParts DEF OnceSections
        <4> QED
          BY <4>1 DEF Values, ListsOf, MappingsOf, Scalars, IsString
      <3> QED
        BY <3>2, <3>3, <3>4, <3>5
    <2>5. entries \in Seq(E \cup {None}) /\ None \notin E
      <3>1. DOMAIN curated = 1..Len(curated) /\ Len(curated) \in Nat
        BY <2>3, ListProperties
      <3> HIDE DEF curated, E
      <3>2. entries \in [1..Len(curated) -> E \cup {None}]
        BY <2>4, <3>1
      <3> HIDE DEF entries
      <3>3. None \notin E
        BY NoneAssumption DEF E
      <3> QED
        BY <3>1, <3>2, <3>3, SeqDef
    <2> HIDE DEF entries, E
    <2>6. Range(Dict(entries)) \subseteq Range(entries) \ {None}
      BY <2>5, DictProperties
    <2>7. PICK n \in DOMAIN entries : e = entries[n]
      BY <1>6, <2>6 DEF Range
    <2>8. DOMAIN entries = DOMAIN curated
      BY DEF entries
    <2>9. e.key = curated[n].key.text
      BY <1>6, <2>4, <2>6, <2>7, <2>8
    <2>10. curated[n] \in Range(curated)
      BY <2>7, <2>8 DEF Range
    <2> QED
      BY <1>4, <1>6, <2>9, <2>10 DEF IsKindName
  <1> HIDE DEF c, entries
  <1> QED
    BY <1>2, <1>5, <1>6 DEF KindsNamed

(***************************************************************************)
(* Together: SchemaAgrees.                                                 *)
(***************************************************************************)
LEMMA NamedStrings ==
  ASSUME file \in ParsedFiles, StringKeys, RestFindings(file) = {}
  PROVE  \A p \in Range(At(file.root, "bindings").pairs) : NamedByStrings(p.value)
  <1> SUFFICES ASSUME NEW p \in Range(At(file.root, "bindings").pairs), Has(p.value, "fields")
               PROVE  \A q \in Range(At(p.value, "fields").pairs) : IsString(q.key)
    BY DEF NamedByStrings
  <1>1. /\ file.root.type = "mapping" /\ HasA(file.root, "bindings", "mapping")
        /\ BindingFindings(p.value) = {}
    BY ParsedRoot, FileClean
  <1>2. p.value.type = "mapping" /\ HasA(p.value, "fields", "mapping")
    BY <1>1, BindingClean DEF HasA
  <1>3. p \in BindingPairs
    BY <1>1, BindingsAt
  <1> QED
    BY <1>2, <1>3, FieldsAt DEF StringKeys

LEMMA Agreement ==
  ASSUME file \in ParsedFiles, StringKeys, Attached(file)
  PROVE  /\ Clean => SchemaAccepts(file.root)
         /\ SchemaAccepts(file.root) =>
              FileFindings(file) \cap ShapeCodes = Mistyped(file.root, "schema_version", "integer")
  <1> DEFINE version == Mistyped(file.root, "schema_version", "integer")
  <1>1. ~NamesConfused
    BY StringsApart
  <1>2. ASSUME Clean
        PROVE  SchemaAccepts(file.root)
    <2>1. SpellsMap(file, Loaded) /\ SpellsRest(file, Loaded) /\ Good(Loaded)
      BY <1>1, <1>2, LoadedSpelled DEF SpellsMap, SpellsRest
    <2>2. \A p \in Range(At(file.root, "bindings").pairs) : NamedByStrings(p.value)
      BY <1>2, NamedStrings, RestAndVersion DEF Clean, FileFindings
    <2>3. Loaded \in MapType /\ MapTexts(Loaded)
      BY <2>1, GoodTexts DEF Good
    <2>4. AcceptsScalar(At(file.root, "schema_version"), Shape["document"].keys["schema_version"])
      <3>1. Shape["document"].keys["schema_version"].type = "int"
        BY DEF Shape, Typed
      <3> QED
        BY <2>1, <3>1 DEF AcceptsScalar, SpellsMap, SpellsRest, Scalar
    <2> QED
      BY <2>1, <2>2, <2>3, <2>4, MapAccepts
  <1>3. ASSUME SchemaAccepts(file.root)
        PROVE  FileFindings(file) \cap ShapeCodes = version
    <2>1. RestFindings(file) = {} /\ HasA(file.root, "bindings", "mapping") /\ file.root.type = "mapping"
      BY <1>3, SchemaFile, ParsedRoot
    <2>2. Map(file).coverage # None => KindsNamed(Map(file).coverage)
      BY <1>3, SchemaKinds
    <2>3. SpellsRest(file, Map(file)) /\ Map(file) \in MapType
      BY <1>1, <2>1, <2>2, NamesApart, ShapeSpelled
    <2>4. \A p \in Range(At(file.root, "bindings").pairs) : NamedByStrings(p.value)
      BY <2>1, NamedStrings
    <2>5. MapTexts(Map(file))
      BY <1>3, <2>3, <2>4, MapAccepts DEF SchemaAccepts
    <2>6. MapCodes(Map(file)) \cap ShapeCodes = {}
      BY <2>3, <2>5, MapTextsFine
    <2>7. CarrierFindings(file) \cap ShapeCodes = {}
      BY DEF CarrierFindings, CodeIf, ShapeCodes
    <2>8. ShapeFindings(file) = version
      BY <2>1, RestAndVersion
    <2>9. version \subseteq ShapeCodes
      BY DEF Mistyped, CodeIf, ShapeCodes
    <2> HIDE DEF version
    <2>10. FileFindings(file) = ShapeFindings(file) \cup CarrierFindings(file) \cup MapCodes(Map(file))
      BY DEF FileFindings
    <2> QED
      BY <2>6, <2>7, <2>8, <2>9, <2>10
  <1> QED
    BY <1>2, <1>3

(* Whatever file is given or left by a command, with all its comments where *)
(* something can carry them and field names that are strings: the schema    *)
(* published by schema.py accepts it if the validator finds nothing, and    *)
(* the validator finds nothing wrong with the shape of what the schema      *)
(* accepts, but for a schema_version written as 1.0.  (TextsReadBack is     *)
(* for the files that commands leave.)                                      *)
THEOREM SchemaAndRulesAgree == TextsReadBack => (Spec => []SchemaAgrees)
  <1> SUFFICES ASSUME TextsReadBack
               PROVE  Spec => []SchemaAgrees
    OBVIOUS
  <1>1. Parsed => SchemaAgrees
    BY Agreement DEF Parsed, SchemaAgrees
  <1>2. Spec => []Parsed
    BY FileParsed
  <1> QED
    BY <1>1, <1>2, PTL

(***************************************************************************)
(* Leaves level by level.                                                  *)
(***************************************************************************)
OneDown(A) == UNION {Below(x[1], x[2]) : x \in A}
AtRoot(v) == {<<<<>>, v>>}

LEMMA LeavesAre ==
  ASSUME NEW v
  PROVE  Leaves(v) = OneDown(OneDown(OneDown(OneDown(OneDown(AtRoot(v))))))
  <1> DEFINE A0 == AtRoot(v)
             A1 == OneDown(A0)
             A2 == OneDown(A1)
             A3 == OneDown(A2)
             A4 == OneDown(A3)
             A5 == OneDown(A4)
             level == CHOOSE g : g = [n \in 0..Depth |->
                        IF n = 0 THEN {<<<<>>, v>>} ELSE UNION {Below(x[1], x[2]) : x \in g[n - 1]}]
             h == [n \in 0..Depth |-> IF n = 0 THEN A0 ELSE IF n = 1 THEN A1 ELSE IF n = 2 THEN A2
                                      ELSE IF n = 3 THEN A3 ELSE IF n = 4 THEN A4 ELSE A5]
  <1>1. Leaves(v) = level[Depth]
    BY DEF Leaves
  <1>2. h = [n \in 0..Depth |->
               IF n = 0 THEN {<<<<>>, v>>} ELSE UNION {Below(x[1], x[2]) : x \in h[n - 1]}]
    <2>1. \A A : OneDown(A) = UNION {Below(x[1], x[2]) : x \in A}
      BY DEF OneDown
    <2>2. A0 = {<<<<>>, v>>}
      BY DEF AtRoot
    <2> DEFINE F(n) == IF n = 0 THEN {<<<<>>, v>>} ELSE UNION {Below(x[1], x[2]) : x \in h[n - 1]}
    <2>3. F(0) = A0
      BY <2>2
    <2>4. h[0] = A0 /\ h[1] = A1 /\ h[2] = A2 /\ h[3] = A3 /\ h[4] = A4 /\ h[5] = A5
      <3> HIDE DEF A0, A1, A2, A3, A4, A5
      <3> QED
        BY DEF Depth
    <2>5. F(1) = OneDown(h[0]) /\ F(2) = OneDown(h[1]) /\ F(3) = OneDown(h[2])
            /\ F(4) = OneDown(h[3]) /\ F(5) = OneDown(h[4])
      <3> HIDE DEF h
      <3> QED
        BY DEF OneDown
    <2>6. F(1) = A1 /\ F(2) = A2 /\ F(3) = A3 /\ F(4) = A4 /\ F(5) = A5
      BY <2>4, <2>5
    <2>7. h = [n \in 0..Depth |-> h[n]]
      OBVIOUS
    <2>8. \A n \in 0..Depth : n = 0 \/ n = 1 \/ n = 2 \/ n = 3 \/ n = 4 \/ n = 5
      BY DEF Depth
    <2>9. \A n \in 0..Depth : h[n] = F(n)
      <3> HIDE DEF A0, A1, A2, A3, A4, A5, F, h
      <3> QED
        BY <2>3, <2>4, <2>6, <2>8
    <2>10. h = [n \in 0..Depth |-> F(n)]
      <3> HIDE DEF A0, A1, A2, A3, A4, A5, F, h
      <3> QED
        BY <2>7, <2>9
    <2> QED
      BY <2>10
  <1> HIDE DEF h
  <1>3. level = [n \in 0..Depth |->
                   IF n = 0 THEN {<<<<>>, v>>} ELSE UNION {Below(x[1], x[2]) : x \in level[n - 1]}]
    BY <1>2
  <1> HIDE DEF level
  <1>4. level[0] = {<<<<>>, v>>}
    BY <1>3 DEF Depth
  <1>5. \A n \in 1..5 : level[n] = UNION {Below(x[1], x[2]) : x \in level[n - 1]}
    BY <1>3 DEF Depth
  <1>6. /\ level[1] = OneDown(level[0]) /\ level[2] = OneDown(level[1]) /\ level[3] = OneDown(level[2])
        /\ level[4] = OneDown(level[3]) /\ level[5] = OneDown(level[4])
    <2>1. \A A : OneDown(A) = UNION {Below(x[1], x[2]) : x \in A}
      BY DEF OneDown
    <2>2. level[1] = UNION {Below(x[1], x[2]) : x \in level[0]}
      BY <1>5
    <2>3. level[2] = UNION {Below(x[1], x[2]) : x \in level[1]}
      BY <1>5
    <2>4. level[3] = UNION {Below(x[1], x[2]) : x \in level[2]}
      BY <1>5
    <2>5. level[4] = UNION {Below(x[1], x[2]) : x \in level[3]}
      BY <1>5
    <2>6. level[5] = UNION {Below(x[1], x[2]) : x \in level[4]}
      BY <1>5
    <2> QED
      BY <2>1, <2>2, <2>3, <2>4, <2>5, <2>6
  <1> QED
    BY <1>1, <1>4, <1>6 DEF Depth, AtRoot

(***************************************************************************)
(* Values that correspond to each other: what is in v is in w, at the same *)
(* key or position, with the same note, and corresponds to it.             *)
(***************************************************************************)
Branching(v) ==
    (v.type = "list" /\ v.items # <<>>) \/ (v.type = "mapping" /\ v.pairs # <<>>)
SameNote(R, x, y) == x.note = y.note /\ (x.note # None => <<String(x.note), String(x.note)>> \in R)

Within(R, v, w) ==
    \/ ~Branching(v) /\ w = v /\ <<v, v>> \in R
    \/ /\ v.type = "list" /\ w.type = "list" /\ v.items # <<>>
       /\ \A n \in DOMAIN v.items : /\ n \in DOMAIN w.items /\ SameNote(R, v.items[n], w.items[n])
                                    /\ <<v.items[n].value, w.items[n].value>> \in R
    \/ /\ v.type = "mapping" /\ w.type = "mapping" /\ v.pairs # <<>>
       /\ \A p \in Range(v.pairs) : \E q \in Range(w.pairs) :
            p.key.text = q.key.text /\ SameNote(R, p, q) /\ <<p.value, q.value>> \in R

Covers(R, A, B) == \A x \in A : \E y \in B : y[1] = x[1] /\ <<x[2], y[2]>> \in R

LEMMA BelowItems ==
  ASSUME NEW path, NEW v, v.type = "list", v.items # <<>>
  PROVE  \A x : x \in Below(path, v) <=> \E n \in DOMAIN v.items :
           LET at == Append(path, AtItem(n))
           IN  x = <<at, v.items[n].value>> \/ x \in Noted(at, v.items[n].note)
  <1> DEFINE I(n) == {<<Append(path, AtItem(n)), v.items[n].value>>}
                       \cup Noted(Append(path, AtItem(n)), v.items[n].note)
  <1>1. Below(path, v) = UNION {I(n) : n \in DOMAIN v.items}
    BY DEF Below
  <1> QED
    BY <1>1

LEMMA BelowPairs ==
  ASSUME NEW path, NEW v, v.type = "mapping", v.pairs # <<>>
  PROVE  \A x : x \in Below(path, v) <=> \E p \in Range(v.pairs) :
           LET at == Append(path, AtKey(p.key.text))
           IN  x = <<at, p.value>> \/ x \in Noted(at, p.note)
  <1> DEFINE I(p) == {<<Append(path, AtKey(p.key.text)), p.value>>}
                       \cup Noted(Append(path, AtKey(p.key.text)), p.note)
  <1>1. Below(path, v) = UNION {I(p) : p \in Range(v.pairs)}
    BY DEF Below
  <1> QED
    BY <1>1

LEMMA BelowLeaf ==
  ASSUME NEW path, NEW v, ~Branching(v)
  PROVE  Below(path, v) = {<<path, v>>}
  BY DEF Below, Branching

LEMMA NoteCovered ==
  ASSUME NEW R, NEW x, NEW y, SameNote(R, x, y), NEW at, NEW z \in Noted(at, x.note)
  PROVE  z \in Noted(at, y.note) /\ <<z[2], z[2]>> \in R
  BY DEF SameNote, Noted

LEMMA BelowCovered ==
  ASSUME NEW R, NEW v, NEW w, Within(R, v, w), NEW path
  PROVE  Covers(R, Below(path, v), Below(path, w))
  <1> SUFFICES ASSUME NEW x \in Below(path, v)
               PROVE  \E y \in Below(path, w) : y[1] = x[1] /\ <<x[2], y[2]>> \in R
    BY DEF Covers
  <1>1. CASE ~Branching(v) /\ w = v /\ <<v, v>> \in R
    <2>1. x = <<path, v>> /\ x \in Below(path, w)
      BY <1>1, BelowLeaf
    <2> QED
      BY <1>1, <2>1
  <1>2. CASE /\ v.type = "list" /\ w.type = "list" /\ v.items # <<>>
             /\ \A n \in DOMAIN v.items : /\ n \in DOMAIN w.items /\ SameNote(R, v.items[n], w.items[n])
                                          /\ <<v.items[n].value, w.items[n].value>> \in R
    <2>1. PICK n \in DOMAIN v.items :
            \/ x = <<Append(path, AtItem(n)), v.items[n].value>>
            \/ x \in Noted(Append(path, AtItem(n)), v.items[n].note)
      BY <1>2, BelowItems
    <2>2. /\ n \in DOMAIN w.items /\ SameNote(R, v.items[n], w.items[n])
          /\ <<v.items[n].value, w.items[n].value>> \in R
      BY <1>2
    <2>3. w.items # <<>>
      BY <2>2, EmptyList
    <2>4. CASE x = <<Append(path, AtItem(n)), v.items[n].value>>
      <3> DEFINE y == <<Append(path, AtItem(n)), w.items[n].value>>
      <3>1. y \in Below(path, w)
        BY <1>2, <2>2, <2>3, BelowItems
      <3> QED
        BY <2>2, <2>4, <3>1
    <2>5. CASE x \in Noted(Append(path, AtItem(n)), v.items[n].note)
      <3>1. x \in Noted(Append(path, AtItem(n)), w.items[n].note) /\ <<x[2], x[2]>> \in R
        BY <2>2, <2>5, NoteCovered
      <3>2. x \in Below(path, w)
        BY <1>2, <2>2, <2>3, <3>1, BelowItems
      <3> QED
        BY <3>1, <3>2
    <2> QED
      BY <2>1, <2>4, <2>5
  <1>3. CASE /\ v.type = "mapping" /\ w.type = "mapping" /\ v.pairs # <<>>
             /\ \A p \in Range(v.pairs) : \E q \in Range(w.pairs) :
                  p.key.text = q.key.text /\ SameNote(R, p, q) /\ <<p.value, q.value>> \in R
    <2>1. PICK p \in Range(v.pairs) :
            \/ x = <<Append(path, AtKey(p.key.text)), p.value>>
            \/ x \in Noted(Append(path, AtKey(p.key.text)), p.note)
      BY <1>3, BelowPairs
    <2>2. PICK q \in Range(w.pairs) :
            p.key.text = q.key.text /\ SameNote(R, p, q) /\ <<p.value, q.value>> \in R
      BY <1>3
    <2>3. w.pairs # <<>>
      BY <2>2, EmptyList
    <2>4. CASE x = <<Append(path, AtKey(p.key.text)), p.value>>
      <3> DEFINE y == <<Append(path, AtKey(q.key.text)), q.value>>
      <3>1. y \in Below(path, w)
        BY <1>3, <2>2, <2>3, BelowPairs
      <3> QED
        BY <2>2, <2>4, <3>1
    <2>5. CASE x \in Noted(Append(path, AtKey(p.key.text)), p.note)
      <3>1. x \in Noted(Append(path, AtKey(q.key.text)), q.note) /\ <<x[2], x[2]>> \in R
        BY <2>2, <2>5, NoteCovered
      <3>2. x \in Below(path, w)
        BY <1>3, <2>2, <2>3, <3>1, BelowPairs
      <3> QED
        BY <3>1, <3>2
    <2> QED
      BY <2>1, <2>4, <2>5
  <1> QED
    BY <1>1, <1>2, <1>3 DEF Within

LEMMA NextCovered ==
  ASSUME NEW R, NEW Q, NEW A, NEW B, Covers(R, A, B),
         \A v, w : <<v, w>> \in R => Within(Q, v, w)
  PROVE  Covers(Q, OneDown(A), OneDown(B))
  <1> SUFFICES ASSUME NEW x \in OneDown(A)
               PROVE  \E y \in OneDown(B) : y[1] = x[1] /\ <<x[2], y[2]>> \in Q
    BY DEF Covers
  <1>1. PICK a \in A : x \in Below(a[1], a[2])
    BY DEF OneDown
  <1>2. PICK b \in B : b[1] = a[1] /\ <<a[2], b[2]>> \in R
    BY DEF Covers
  <1>3. Covers(Q, Below(a[1], a[2]), Below(a[1], b[2]))
    BY <1>2, BelowCovered
  <1>4. PICK y \in Below(b[1], b[2]) : y[1] = x[1] /\ <<x[2], y[2]>> \in Q
    BY <1>1, <1>2, <1>3 DEF Covers
  <1>5. y \in OneDown(B)
    BY DEF OneDown
  <1> QED
    BY <1>4, <1>5

(***************************************************************************)
(* Two files that spell the same map, level by level: AlikeN are the pairs *)
(* of values found in them N levels down, at the same place.               *)
(***************************************************************************)
Ident == {<<v, v>> : v \in OnceBlocks}
AlikeEntries(S) == {x \in S \X S : \E o : Spells(x[1], o) /\ Spells(x[2], o)}
AlikeLists == {x \in OnceSections \X OnceSections : \E s : SpellsEntries(x[1], s) /\ SpellsEntries(x[2], s)}
AlikeFields == {x \in OnceSections \X OnceSections : \E d : SpellsFields(x[1], d) /\ SpellsFields(x[2], d)}
AlikeBindings == {x \in OnceBindings \X OnceBindings : \E b : SpellsBinding(x[1], b) /\ SpellsBinding(x[2], b)}
AlikeKinds == {x \in OnceBindings \X OnceBindings : \E s : SpellsListed(x[1], s) /\ SpellsListed(x[2], s)}
AlikeCurated == {x \in OnceBindings \X OnceBindings : \E d : SpellsCurated(x[1], d) /\ SpellsCurated(x[2], d)}
AlikeBlocks == {x \in OnceBlocks \X OnceBlocks : \E d : SpellsBindings(x[1], d) /\ SpellsBindings(x[2], d)}
AlikeCoverage == {x \in OnceBlocks \X OnceBlocks : \E c : SpellsCoverage(x[1], c) /\ SpellsCoverage(x[2], c)}

Alike4 == Ident \cup AlikeEntries(OnceEntries)
Alike3 == Ident \cup AlikeEntries(OnceSections) \cup AlikeLists \cup AlikeFields
Alike2 == Ident \cup AlikeBindings \cup AlikeKinds \cup AlikeCurated
Alike1 == Ident \cup AlikeBlocks \cup AlikeCoverage

LEMMA BlockParts ==
  ASSUME NEW v \in OnceBlocks
  PROVE  /\ v.type = "list" =>
              /\ v.items \in Seq(ItemsOf(OnceBindings)) /\ v = List(v.items)
              /\ \A n \in DOMAIN v.items : v.items[n].value \in OnceBlocks /\ v.items[n].note \in Note
         /\ v.type = "mapping" =>
              /\ v.pairs \in Seq(PairsOf(OnceBindings)) /\ v = Mapping(v.pairs)
              /\ \A n \in DOMAIN v.pairs : v.pairs[n] \in Range(v.pairs)
              /\ \A p \in Range(v.pairs) : p.value \in OnceBlocks /\ p.note \in Note
  <1>1. /\ v \in Values(OnceBindings) /\ OnceBindings \subseteq OnceBlocks
        /\ v.type = "mapping" => /\ v.pairs \in Seq(PairsOf(OnceBindings))
                                 /\ \A n \in DOMAIN v.pairs : v.pairs[n] \in Range(v.pairs)
                                 /\ \A p \in Range(v.pairs) : p \in PairsOf(OnceBindings)
        /\ v.type = "list" => /\ v.items \in Seq(ItemsOf(OnceBindings))
                              /\ \A n \in DOMAIN v.items : v.items[n] \in ItemsOf(OnceBindings)
    BY OnceParts, OnceMonotonic DEF OnceBlocks
  <1>2. /\ v.type = "list" => v = List(v.items)
        /\ v.type = "mapping" => v = Mapping(v.pairs)
    BY <1>1 DEF Values, Scalars, ScalarTypes, ListsOf, MappingsOf, List, Mapping
  <1>3. /\ \A p \in PairsOf(OnceBindings) : p.value \in OnceBindings /\ p.note \in Note
        /\ \A i \in ItemsOf(OnceBindings) : i.value \in OnceBindings /\ i.note \in Note
    BY DEF PairsOf, ItemsOf
  <1> QED
    BY <1>1, <1>2, <1>3

LEMMA NoteIdent ==
  ASSUME NEW R, Ident \subseteq R, NEW x, NEW y, x.note = y.note, x.note \in Note
  PROVE  SameNote(R, x, y)
  <1>1. x.note # None => String(x.note) \in OnceBlocks
    <2>1. x.note # None => String(x.note) \in Scalars
      BY NotesAreTexts, StringScalar DEF TextOrNone
    <2> QED
      BY <2>1, OnceDepths DEF OnceBlocks
  <1> QED
    BY <1>1 DEF SameNote, Ident

LEMMA SameWithin ==
  ASSUME NEW R, Ident \subseteq R, NEW v \in OnceBlocks
  PROVE  Within(R, v, v)
  <1>1. CASE ~Branching(v)
    BY <1>1 DEF Within, Ident
  <1>2. CASE v.type = "list" /\ v.items # <<>>
    <2>1. \A n \in DOMAIN v.items : /\ SameNote(R, v.items[n], v.items[n])
                                    /\ <<v.items[n].value, v.items[n].value>> \in R
      <3>1. \A n \in DOMAIN v.items : v.items[n].value \in OnceBlocks /\ v.items[n].note \in Note
        BY <1>2, BlockParts
      <3> QED
        BY <3>1, NoteIdent DEF Ident
    <2> QED
      BY <1>2, <2>1 DEF Within
  <1>3. CASE v.type = "mapping" /\ v.pairs # <<>>
    <2>1. \A p \in Range(v.pairs) : SameNote(R, p, p) /\ <<p.value, p.value>> \in R
      <3>1. \A p \in Range(v.pairs) : p.value \in OnceBlocks /\ p.note \in Note
        BY <1>3, BlockParts
      <3> QED
        BY <3>1, NoteIdent DEF Ident
    <2> QED
      BY <1>3, <2>1 DEF Within
  <1> QED
    BY <1>1, <1>2, <1>3 DEF Branching

LEMMA ListWithin ==
  ASSUME NEW R, Ident \subseteq R, NEW v \in OnceBlocks, NEW w \in OnceBlocks,
         v.type = "list", w.type = "list", DOMAIN v.items = DOMAIN w.items,
         \A n \in DOMAIN v.items : /\ v.items[n].note = w.items[n].note
                                   /\ <<v.items[n].value, w.items[n].value>> \in R
  PROVE  Within(R, v, w)
  <1>1. CASE v.items = <<>>
    <2>1. w.items = <<>>
      BY <1>1, BlockParts, SameDomain
    <2>2. v = w
      BY <1>1, <2>1, BlockParts
    <2> QED
      BY <2>2, SameWithin
  <1>2. CASE v.items # <<>>
    <2>1. \A n \in DOMAIN v.items : v.items[n].note \in Note
      BY BlockParts
    <2>2. \A n \in DOMAIN v.items : SameNote(R, v.items[n], w.items[n])
      BY <2>1, NoteIdent
    <2> QED
      BY <1>2, <2>2 DEF Within
  <1> QED
    BY <1>1, <1>2

LEMMA PairsWithin ==
  ASSUME NEW R, Ident \subseteq R, NEW v \in OnceBlocks, NEW w \in OnceBlocks,
         v.type = "mapping", w.type = "mapping", DOMAIN v.pairs = DOMAIN w.pairs,
         \A n \in DOMAIN v.pairs :
           /\ v.pairs[n].key.text = w.pairs[n].key.text /\ v.pairs[n].note = w.pairs[n].note
           /\ <<v.pairs[n].value, w.pairs[n].value>> \in R
  PROVE  Within(R, v, w)
  <1>1. CASE v.pairs = <<>>
    <2>1. w.pairs = <<>>
      BY <1>1, BlockParts, SameDomain
    <2>2. v = w
      BY <1>1, <2>1, BlockParts
    <2> QED
      BY <2>2, SameWithin
  <1>2. CASE v.pairs # <<>>
    <2>1. ASSUME NEW p \in Range(v.pairs)
          PROVE  \E q \in Range(w.pairs) :
                   p.key.text = q.key.text /\ SameNote(R, p, q) /\ <<p.value, q.value>> \in R
      <3>1. PICK n \in DOMAIN v.pairs : p = v.pairs[n]
        BY DEF Range
      <3>2. w.pairs[n] \in Range(w.pairs)
        BY DEF Range
      <3>3. SameNote(R, p, w.pairs[n])
        BY <3>1, BlockParts, NoteIdent
      <3> QED
        BY <3>1, <3>2, <3>3
    <2> QED
      BY <1>2, <2>1 DEF Within
  <1> QED
    BY <1>1, <1>2

LEMMA FlatWithin ==
  ASSUME NEW R, Ident \subseteq R, NEW v \in OnceBlocks, NEW w \in OnceBlocks,
         NEW o, Spells(v, o), Spells(w, o)
  PROVE  Within(R, v, w)
  <1>1. v.type = "mapping" /\ w.type = "mapping" /\ Range(v.pairs) = Range(w.pairs)
    BY DEF Spells
  <1>2. CASE v.pairs = <<>>
    <2>1. w.pairs \in Seq(PairsOf(OnceBindings)) /\ Range(w.pairs) = {}
      BY <1>1, <1>2, BlockParts, EmptyList
    <2>2. w.pairs = <<>>
      BY <2>1, NothingInIt
    <2>3. v = w
      BY <1>1, <1>2, <2>2, BlockParts
    <2> QED
      BY <2>3, SameWithin
  <1>3. CASE v.pairs # <<>>
    <2>1. \A p \in Range(v.pairs) : p.value \in OnceBlocks /\ p.note \in Note
      BY <1>1, BlockParts
    <2>2. \A p \in Range(v.pairs) : SameNote(R, p, p) /\ <<p.value, p.value>> \in R
      BY <2>1, NoteIdent DEF Ident
    <2> QED
      BY <1>1, <1>3, <2>2 DEF Within
  <1> QED
    BY <1>2, <1>3

LEMMA InRelation ==
  /\ \A S : \A v, w \in S : \A o : Spells(v, o) /\ Spells(w, o) => <<v, w>> \in AlikeEntries(S)
  /\ \A v, w \in OnceSections :
       /\ \A s : SpellsEntries(v, s) /\ SpellsEntries(w, s) => <<v, w>> \in AlikeLists
       /\ \A d : SpellsFields(v, d) /\ SpellsFields(w, d) => <<v, w>> \in AlikeFields
  /\ \A v, w \in OnceBindings :
       /\ \A b : SpellsBinding(v, b) /\ SpellsBinding(w, b) => <<v, w>> \in AlikeBindings
       /\ \A s : SpellsListed(v, s) /\ SpellsListed(w, s) => <<v, w>> \in AlikeKinds
       /\ \A d : SpellsCurated(v, d) /\ SpellsCurated(w, d) => <<v, w>> \in AlikeCurated
  /\ \A v, w \in OnceBlocks :
       /\ \A d : SpellsBindings(v, d) /\ SpellsBindings(w, d) => <<v, w>> \in AlikeBlocks
       /\ \A c : SpellsCoverage(v, c) /\ SpellsCoverage(w, c) => <<v, w>> \in AlikeCoverage
  <1>1. \A S : \A v, w \in S : \A o : Spells(v, o) /\ Spells(w, o) => <<v, w>> \in AlikeEntries(S)
    BY DEF AlikeEntries
  <1>2. ASSUME NEW v \in OnceSections, NEW w \in OnceSections
        PROVE  /\ \A s : SpellsEntries(v, s) /\ SpellsEntries(w, s) => <<v, w>> \in AlikeLists
               /\ \A d : SpellsFields(v, d) /\ SpellsFields(w, d) => <<v, w>> \in AlikeFields
    BY DEF AlikeLists, AlikeFields
  <1>3. ASSUME NEW v \in OnceBindings, NEW w \in OnceBindings
        PROVE  /\ \A b : SpellsBinding(v, b) /\ SpellsBinding(w, b) => <<v, w>> \in AlikeBindings
               /\ \A s : SpellsListed(v, s) /\ SpellsListed(w, s) => <<v, w>> \in AlikeKinds
               /\ \A d : SpellsCurated(v, d) /\ SpellsCurated(w, d) => <<v, w>> \in AlikeCurated
    BY DEF AlikeBindings, AlikeKinds, AlikeCurated
  <1>4. ASSUME NEW v \in OnceBlocks, NEW w \in OnceBlocks
        PROVE  /\ \A d : SpellsBindings(v, d) /\ SpellsBindings(w, d) => <<v, w>> \in AlikeBlocks
               /\ \A c : SpellsCoverage(v, c) /\ SpellsCoverage(w, c) => <<v, w>> \in AlikeCoverage
    BY DEF AlikeBlocks, AlikeCoverage
  <1> QED
    BY <1>1, <1>2, <1>3, <1>4

LEMMA IdentWithin ==
  ASSUME NEW R, Ident \subseteq R, NEW v, NEW w, <<v, w>> \in Ident
  PROVE  Within(R, v, w)
  BY SameWithin DEF Ident

LEMMA FlatsWithin ==
  ASSUME NEW R, Ident \subseteq R, NEW S, S \subseteq OnceBlocks, NEW v, NEW w, <<v, w>> \in AlikeEntries(S)
  PROVE  Within(R, v, w)
  <1>1. v \in OnceBlocks /\ w \in OnceBlocks /\ \E o : Spells(v, o) /\ Spells(w, o)
    BY DEF AlikeEntries
  <1> QED
    BY <1>1, FlatWithin

LEMMA Deepest ==
  ASSUME NEW v, NEW w, <<v, w>> \in Alike4
  PROVE  Within(Ident, v, w)
  <1>1. OnceEntries \subseteq OnceBlocks
    BY OnceMonotonic
  <1> QED
    BY <1>1, IdentWithin, FlatsWithin DEF Alike4

LEMMA SectionsWithin ==
  ASSUME NEW v, NEW w, <<v, w>> \in Alike3
  PROVE  Within(Alike4, v, w)
  <1>1. Ident \subseteq Alike4 /\ OnceSections \subseteq OnceBlocks
    BY OnceMonotonic DEF Alike4
  <1>2. CASE <<v, w>> \in AlikeLists
    <2>1. /\ v \in OnceSections /\ w \in OnceSections
          /\ \E s : SpellsEntries(v, s) /\ SpellsEntries(w, s)
      BY <1>2 DEF AlikeLists
    <2>2. PICK s : SpellsEntries(v, s) /\ SpellsEntries(w, s)
      BY <2>1
    <2>3. ASSUME NEW n \in DOMAIN s
          PROVE  /\ v.items[n].note = w.items[n].note
                 /\ <<v.items[n].value, w.items[n].value>> \in Alike4
      <3>1. /\ Spells(v.items[n].value, s[n]) /\ Spells(w.items[n].value, s[n])
            /\ v.items[n].note = s[n].comment /\ w.items[n].note = s[n].comment
        BY <2>2 DEF SpellsEntries
      <3>2. v.items[n] \in ItemsOf(OnceEntries) /\ w.items[n] \in ItemsOf(OnceEntries)
        BY <2>1, <2>2, OnceParts DEF SpellsEntries, OnceSections
      <3>3. v.items[n].value \in OnceEntries /\ w.items[n].value \in OnceEntries
        BY <3>2 DEF ItemsOf
      <3> QED
        BY <3>1, <3>3, InRelation DEF Alike4
    <2> QED
      BY <1>1, <2>1, <2>2, <2>3, ListWithin DEF SpellsEntries
  <1>3. CASE <<v, w>> \in AlikeFields
    <2>1. /\ v \in OnceSections /\ w \in OnceSections
          /\ \E d : SpellsFields(v, d) /\ SpellsFields(w, d)
      BY <1>3 DEF AlikeFields
    <2>2. PICK d : SpellsFields(v, d) /\ SpellsFields(w, d)
      BY <2>1
    <2>3. ASSUME NEW n \in DOMAIN d
          PROVE  /\ v.pairs[n].key.text = w.pairs[n].key.text /\ v.pairs[n].note = w.pairs[n].note
                 /\ <<v.pairs[n].value, w.pairs[n].value>> \in Alike4
      <3>1. /\ Spells(v.pairs[n].value, d[n].value) /\ Spells(w.pairs[n].value, d[n].value)
            /\ v.pairs[n].note = d[n].value.comment /\ w.pairs[n].note = d[n].value.comment
            /\ v.pairs[n].key.text = d[n].key /\ w.pairs[n].key.text = d[n].key
        BY <2>2 DEF SpellsFields
      <3>2. v.pairs[n] \in PairsOf(OnceEntries) /\ w.pairs[n] \in PairsOf(OnceEntries)
        BY <2>1, <2>2, OnceParts DEF SpellsFields, OnceSections
      <3>3. v.pairs[n].value \in OnceEntries /\ w.pairs[n].value \in OnceEntries
        BY <3>2 DEF PairsOf
      <3> QED
        BY <3>1, <3>3, InRelation DEF Alike4
    <2> QED
      BY <1>1, <2>1, <2>2, <2>3, PairsWithin DEF SpellsFields
  <1> QED
    BY <1>1, <1>2, <1>3, IdentWithin, FlatsWithin DEF Alike3

LEMMA KeyedWithin ==
  ASSUME NEW R, Ident \subseteq R, NEW v \in OnceBlocks, NEW w \in OnceBlocks, NEW keys,
         v.type = "mapping", w.type = "mapping",
         KeysOf(v) \subseteq {String(k) : k \in keys}, UniqueKeys(v.pairs),
         KeysOf(w) \subseteq {String(k) : k \in keys},
         \A k \in keys : Has(v, k) =>
           /\ Has(w, k) /\ PairAt(v, k).note = PairAt(w, k).note /\ <<At(v, k), At(w, k)>> \in R,
         \A k \in keys : Has(w, k) => Has(v, k)
  PROVE  Within(R, v, w)
  <1>1. ASSUME NEW p \in Range(v.pairs)
        PROVE  \E q \in Range(w.pairs) :
                 p.key.text = q.key.text /\ SameNote(R, p, q) /\ <<p.value, q.value>> \in R
    <2>1. PICK k \in keys : p.key = String(k)
      BY DEF KeysOf
    <2>2. Has(v, k) /\ PairAt(v, k) = p /\ At(v, k) = p.value
      BY <2>1, OnePairAt
    <2>3. Has(w, k) /\ p.note = PairAt(w, k).note /\ <<p.value, At(w, k)>> \in R
      BY <2>2
    <2>4. PairAt(w, k) \in Range(w.pairs) /\ PairAt(w, k).key = String(k)
      BY <2>3, OnceParts DEF OnceBlocks
    <2>5. p.note \in Note
      BY BlockParts
    <2>6. SameNote(R, p, PairAt(w, k))
      BY <2>3, <2>5, NoteIdent
    <2> QED
      BY <2>1, <2>3, <2>4, <2>6 DEF At
  <1>2. CASE v.pairs = <<>>
    <2>1. KeysOf(v) = {}
      BY <1>2, EmptyList DEF KeysOf
    <2>2. KeysOf(w) = {}
      BY <2>1 DEF Has
    <2>3. Range(w.pairs) = {}
      BY <2>2 DEF KeysOf
    <2>4. w.pairs = <<>>
      BY <2>3, BlockParts, NothingInIt
    <2>5. v = w
      BY <1>2, <2>4, BlockParts
    <2> QED
      BY <2>5, SameWithin
  <1> QED
    BY <1>1, <1>2 DEF Within

LEMMA LeavesArePairs ==
  \A A : \A z \in OneDown(A) : z = <<z[1], z[2]>>
  <1> SUFFICES ASSUME NEW A, NEW z \in OneDown(A)
               PROVE  z = <<z[1], z[2]>>
    OBVIOUS
  <1>1. PICK a \in A : z \in Below(a[1], a[2])
    BY DEF OneDown
  <1>2. \A at, note : \A y \in Noted(at, note) : y = <<y[1], y[2]>>
    BY DEF Noted
  <1>3. CASE ~Branching(a[2])
    BY <1>1, <1>3, BelowLeaf
  <1>4. CASE a[2].type = "list" /\ a[2].items # <<>>
    BY <1>1, <1>2, <1>4, BelowItems
  <1>5. CASE a[2].type = "mapping" /\ a[2].pairs # <<>>
    BY <1>1, <1>2, <1>5, BelowPairs
  <1> QED
    BY <1>3, <1>4, <1>5 DEF Branching

LEMMA UnnotedAt ==
  ASSUME NEW v, v.type = "mapping", Unnoted(v), NEW k, Has(v, k)
  PROVE  PairAt(v, k).note = None
  <1>1. PairAt(v, k) \in Range(v.pairs)
    BY DEF Has, KeysOf, PairAt
  <1> QED
    BY <1>1 DEF Unnoted, Parts

LEMMA BindingWithin ==
  ASSUME NEW v \in OnceBindings, NEW w \in OnceBindings, NEW b,
         SpellsBinding(v, b), SpellsBinding(w, b)
  PROVE  Within(Alike3, v, w)
  <1>1. Ident \subseteq Alike3 /\ v \in OnceBlocks /\ w \in OnceBlocks
    BY OnceMonotonic DEF Alike3
  <1>2. v.type = "mapping" /\ w.type = "mapping"
    BY DEF SpellsBinding
  <1>3. /\ \A k : Has(v, k) => At(v, k) \in OnceSections
        /\ \A k : Has(w, k) => At(w, k) \in OnceSections
    BY <1>2, OnceParts DEF OnceBindings
  <1>4. \A k \in SectionKeys : Has(v, k) <=> Has(w, k)
    BY DEF SpellsBinding, SectionKeys
  <1>5. ASSUME NEW k \in SectionKeys, Has(v, k)
        PROVE  /\ Has(w, k) /\ PairAt(v, k).note = PairAt(w, k).note /\ <<At(v, k), At(w, k)>> \in Alike3
    <2>1. Has(w, k)
      BY <1>4, <1>5
    <2>2. PairAt(v, k).note = None /\ PairAt(w, k).note = None
      BY <1>2, <1>5, <2>1, UnnotedAt DEF SpellsBinding
    <2>3. At(v, k) \in OnceSections /\ At(w, k) \in OnceSections
      BY <1>3, <1>5, <2>1
    <2>4. CASE k \in {"locators", "asserted_by"}
      <3>1. \E s : SpellsEntries(At(v, k), s) /\ SpellsEntries(At(w, k), s)
        BY <1>5, <2>4 DEF SpellsBinding
      <3> QED
        BY <2>1, <2>2, <2>3, <3>1, InRelation DEF Alike3
    <2>5. CASE k = "fields"
      <3>1. SpellsFields(At(v, k), b.fields) /\ SpellsFields(At(w, k), b.fields)
        BY <1>5, <2>5 DEF SpellsBinding
      <3> QED
        BY <2>1, <2>2, <2>3, <3>1, InRelation DEF Alike3
    <2>6. CASE k = "wire"
      <3>1. Spells(At(v, k), b.wire) /\ Spells(At(w, k), b.wire)
        BY <1>5, <2>6 DEF SpellsBinding
      <3> QED
        BY <2>1, <2>2, <2>3, <3>1, InRelation DEF Alike3
    <2>7. CASE k = "compare_via"
      <3>1. At(v, k) = At(w, k)
        BY <1>5, <2>7 DEF SpellsBinding
      <3>2. At(v, k) \in OnceBlocks
        BY <2>3, OnceMonotonic
      <3> QED
        BY <2>1, <2>2, <3>1, <3>2 DEF Alike3, Ident
    <2> QED
      BY <2>4, <2>5, <2>6, <2>7 DEF SectionKeys
  <1> QED
    BY <1>1, <1>2, <1>4, <1>5, KeyedWithin DEF SpellsBinding

LEMMA BindingsWithin ==
  ASSUME NEW v, NEW w, <<v, w>> \in Alike2
  PROVE  Within(Alike3, v, w)
  <1>1. Ident \subseteq Alike3 /\ OnceBindings \subseteq OnceBlocks
    BY OnceMonotonic DEF Alike3
  <1>2. \A u \in OnceSections : <<u, u>> \in Alike3
    BY OnceMonotonic DEF Alike3, Ident
  <1>3. CASE <<v, w>> \in AlikeBindings
    BY <1>3, BindingWithin DEF AlikeBindings
  <1>4. CASE <<v, w>> \in AlikeKinds
    <2>1. /\ v \in OnceBindings /\ w \in OnceBindings
          /\ \E s : SpellsListed(v, s) /\ SpellsListed(w, s)
      BY <1>4 DEF AlikeKinds
    <2>2. PICK s : SpellsListed(v, s) /\ SpellsListed(w, s)
      BY <2>1
    <2>3. ASSUME NEW n \in DOMAIN s
          PROVE  /\ v.items[n].note = w.items[n].note
                 /\ <<v.items[n].value, w.items[n].value>> \in Alike3
      <3>1. v.items[n].value = w.items[n].value /\ v.items[n].note = w.items[n].note
        BY <2>2 DEF SpellsListed
      <3>2. v.items[n] \in ItemsOf(OnceSections)
        BY <2>1, <2>2, OnceParts DEF SpellsListed, OnceBindings
      <3>3. v.items[n].value \in OnceSections
        BY <3>2 DEF ItemsOf
      <3> QED
        BY <1>2, <3>1, <3>3
    <2> QED
      BY <1>1, <2>1, <2>2, <2>3, ListWithin DEF SpellsListed
  <1>5. CASE <<v, w>> \in AlikeCurated
    <2>1. /\ v \in OnceBindings /\ w \in OnceBindings
          /\ \E d : SpellsCurated(v, d) /\ SpellsCurated(w, d)
      BY <1>5 DEF AlikeCurated
    <2>2. PICK d : SpellsCurated(v, d) /\ SpellsCurated(w, d)
      BY <2>1
    <2>3. ASSUME NEW n \in DOMAIN d
          PROVE  /\ v.pairs[n].key.text = w.pairs[n].key.text /\ v.pairs[n].note = w.pairs[n].note
                 /\ <<v.pairs[n].value, w.pairs[n].value>> \in Alike3
      <3>1. /\ v.pairs[n].value = w.pairs[n].value /\ v.pairs[n].note = w.pairs[n].note
            /\ v.pairs[n].key.text = w.pairs[n].key.text
        BY <2>2 DEF SpellsCurated
      <3>2. v.pairs[n] \in PairsOf(OnceSections)
        BY <2>1, <2>2, OnceParts DEF SpellsCurated, OnceBindings
      <3>3. v.pairs[n].value \in OnceSections
        BY <3>2 DEF PairsOf
      <3> QED
        BY <1>2, <3>1, <3>3
    <2> QED
      BY <1>1, <2>1, <2>2, <2>3, PairsWithin DEF SpellsCurated
  <1> QED
    BY <1>1, <1>3, <1>4, <1>5, IdentWithin DEF Alike2

LEMMA BlocksWithin ==
  ASSUME NEW v, NEW w, <<v, w>> \in Alike1
  PROVE  Within(Alike2, v, w)
  <1>1. Ident \subseteq Alike2
    BY DEF Alike2
  <1>2. CASE <<v, w>> \in AlikeBlocks
    <2>1. /\ v \in OnceBlocks /\ w \in OnceBlocks
          /\ \E d : SpellsBindings(v, d) /\ SpellsBindings(w, d)
      BY <1>2 DEF AlikeBlocks
    <2>2. PICK d : SpellsBindings(v, d) /\ SpellsBindings(w, d)
      BY <2>1
    <2>3. ASSUME NEW n \in DOMAIN d
          PROVE  /\ v.pairs[n].key.text = w.pairs[n].key.text /\ v.pairs[n].note = w.pairs[n].note
                 /\ <<v.pairs[n].value, w.pairs[n].value>> \in Alike2
      <3>1. /\ SpellsBinding(v.pairs[n].value, d[n].value) /\ SpellsBinding(w.pairs[n].value, d[n].value)
            /\ v.pairs[n].note = w.pairs[n].note /\ v.pairs[n].key.text = w.pairs[n].key.text
        BY <2>2 DEF SpellsBindings
      <3>2. v.pairs[n] \in PairsOf(OnceBindings) /\ w.pairs[n] \in PairsOf(OnceBindings)
        BY <2>1, <2>2, OnceParts DEF SpellsBindings, OnceBlocks
      <3>3. v.pairs[n].value \in OnceBindings /\ w.pairs[n].value \in OnceBindings
        BY <3>2 DEF PairsOf
      <3> QED
        BY <3>1, <3>3, InRelation DEF Alike2
    <2> QED
      BY <1>1, <2>1, <2>2, <2>3, PairsWithin DEF SpellsBindings
  <1>3. CASE <<v, w>> \in AlikeCoverage
    <2>1. /\ v \in OnceBlocks /\ w \in OnceBlocks
          /\ \E c : SpellsCoverage(v, c) /\ SpellsCoverage(w, c)
      BY <1>3 DEF AlikeCoverage
    <2>2. PICK c : SpellsCoverage(v, c) /\ SpellsCoverage(w, c)
      BY <2>1
    <2>3. v.type = "mapping" /\ w.type = "mapping"
      BY <2>2 DEF SpellsCoverage
    <2>4. /\ \A k : Has(v, k) => At(v, k) \in OnceBindings
          /\ \A k : Has(w, k) => At(w, k) \in OnceBindings
      BY <2>1, <2>3, OnceParts DEF OnceBlocks
    <2>5. \A k \in {"fully_bound", "curated"} : Has(v, k) <=> Has(w, k)
      BY <2>2 DEF SpellsCoverage
    <2>6. ASSUME NEW k \in {"fully_bound", "curated"}, Has(v, k)
          PROVE  Has(w, k) /\ PairAt(v, k).note = PairAt(w, k).note /\ <<At(v, k), At(w, k)>> \in Alike2
      <3>1. Has(w, k)
        BY <2>5, <2>6
      <3>2. PairAt(v, k).note = None /\ PairAt(w, k).note = None
        BY <2>2, <2>3, <2>6, <3>1, UnnotedAt DEF SpellsCoverage
      <3>3. At(v, k) \in OnceBindings /\ At(w, k) \in OnceBindings
        BY <2>4, <2>6, <3>1
      <3>4. CASE k = "fully_bound"
        <4>1. SpellsListed(At(v, k), c.fully_bound) /\ SpellsListed(At(w, k), c.fully_bound)
          BY <2>2, <2>6, <3>4 DEF SpellsCoverage
        <4> QED
          BY <3>1, <3>2, <3>3, <4>1, InRelation DEF Alike2
      <3>5. CASE k = "curated"
        <4>1. SpellsCurated(At(v, k), c.curated) /\ SpellsCurated(At(w, k), c.curated)
          BY <2>2, <2>6, <3>5 DEF SpellsCoverage
        <4> QED
          BY <3>1, <3>2, <3>3, <4>1, InRelation DEF Alike2
      <3> QED
        BY <3>4, <3>5
    <2> DEFINE keys == {"fully_bound", "curated"}
    <2>7. /\ KeysOf(v) \subseteq {String(k) : k \in keys} /\ UniqueKeys(v.pairs)
          /\ KeysOf(w) \subseteq {String(k) : k \in keys}
      BY <2>2 DEF SpellsCoverage
    <2>8. \A k \in keys : Has(v, k) =>
            /\ Has(w, k) /\ PairAt(v, k).note = PairAt(w, k).note /\ <<At(v, k), At(w, k)>> \in Alike2
      BY <2>6
    <2>9. /\ \A k \in keys : Has(w, k) => Has(v, k)
      BY <2>5
    <2> HIDE DEF keys
    <2> QED
      BY <1>1, <2>1, <2>3, <2>7, <2>8, <2>9, KeyedWithin
  <1> QED
    BY <1>1, <1>2, <1>3, IdentWithin DEF Alike1

LEMMA RootWithin ==
  ASSUME NEW f \in ParsedFiles, NEW g \in ParsedFiles, NEW m, SpellsMap(f, m), SpellsMap(g, m)
  PROVE  Within(Alike1, f.root, g.root)
  <1> DEFINE v == f.root
             w == g.root
  <1>1. v \in Once(OnceBlocks) /\ w \in Once(OnceBlocks) /\ v.type = "mapping" /\ w.type = "mapping"
    BY ParsedRoot
  <1>2. /\ \A k : Has(v, k) => At(v, k) \in OnceBlocks
        /\ \A k : Has(w, k) => At(w, k) \in OnceBlocks
    BY <1>1, OnceParts
  <1>3. /\ \A k : Has(v, k) => PairAt(v, k) \in Range(v.pairs) /\ PairAt(v, k).key = String(k)
        /\ \A k : Has(w, k) => PairAt(w, k) \in Range(w.pairs) /\ PairAt(w, k).key = String(k)
    BY <1>1, OnceParts
  <1>4. ASSUME NEW k \in RootKeys, Has(v, k)
        PROVE  Has(w, k) /\ PairAt(v, k).note = PairAt(w, k).note /\ <<At(v, k), At(w, k)>> \in Alike1
    <2>1. Has(w, k)
      BY <1>4 DEF SpellsMap, SpellsRest, RootKeys
    <2>2. At(v, k) \in OnceBlocks /\ At(w, k) \in OnceBlocks
      BY <1>2, <1>4, <2>1
    <2>3. PairAt(v, k).note = PairAt(w, k).note
      <3>1. CASE k = "coverage"
        BY <1>4, <3>1 DEF SpellsMap, SpellsRest
      <3>2. CASE k # "coverage"
        <4>1. PairAt(v, k).key # String("coverage") /\ PairAt(w, k).key # String("coverage")
          BY <1>3, <1>4, <2>1, <3>2, StringsDiffer
        <4> QED
          BY <1>3, <1>4, <2>1, <4>1 DEF SpellsMap, SpellsRest
      <3> QED
        BY <3>1, <3>2
    <2>4. CASE k = "schema_version"
      <3>1. At(v, k) = At(w, k)
        BY <2>4 DEF SpellsMap, SpellsRest
      <3> QED
        BY <2>1, <2>2, <2>3, <3>1 DEF Alike1, Ident
    <2>5. CASE k = "bindings"
      <3>1. SpellsBindings(At(v, k), m.bindings) /\ SpellsBindings(At(w, k), m.bindings)
        BY <2>5 DEF SpellsMap, SpellsRest
      <3> QED
        BY <2>1, <2>2, <2>3, <3>1, InRelation DEF Alike1
    <2>6. CASE k = "coverage"
      <3>1. SpellsCoverage(At(v, k), m.coverage) /\ SpellsCoverage(At(w, k), m.coverage)
        BY <1>4, <2>6 DEF SpellsMap, SpellsRest
      <3> QED
        BY <2>1, <2>2, <2>3, <3>1, InRelation DEF Alike1
    <2> QED
      BY <2>4, <2>5, <2>6 DEF RootKeys
  <1>5. ASSUME NEW p \in Range(v.pairs)
        PROVE  \E q \in Range(w.pairs) :
                 p.key.text = q.key.text /\ SameNote(Alike1, p, q) /\ <<p.value, q.value>> \in Alike1
    <2>1. PICK k \in RootKeys : p.key = String(k)
      BY DEF KeysOf, SpellsMap, SpellsRest
    <2>2. Has(v, k) /\ PairAt(v, k) = p /\ At(v, k) = p.value
      BY <2>1, OnePairAt DEF SpellsMap, SpellsRest
    <2>3. Has(w, k) /\ p.note = PairAt(w, k).note /\ <<p.value, At(w, k)>> \in Alike1
      BY <1>4, <2>2
    <2>4. PairAt(w, k) \in Range(w.pairs) /\ PairAt(w, k).key = String(k)
      BY <1>3, <2>3
    <2>5. p.note \in Note
      <3>1. p \in PairsOf(OnceBlocks)
        BY <1>1, OnceParts
      <3> QED
        BY <3>1 DEF PairsOf
    <2>6. SameNote(Alike1, p, PairAt(w, k))
      BY <2>3, <2>5, NoteIdent DEF Alike1
    <2> QED
      BY <2>1, <2>3, <2>4, <2>6 DEF At
  <1>6. v.pairs # <<>>
    <2>1. Range(v.pairs) # {}
      BY DEF SpellsMap, SpellsRest, Has, KeysOf
    <2> QED
      BY <2>1, EmptyList
  <1> QED
    BY <1>1, <1>5, <1>6 DEF Within

LEMMA LeavesCovered ==
  ASSUME NEW f \in ParsedFiles, NEW g \in ParsedFiles, NEW m, SpellsMap(f, m), SpellsMap(g, m)
  PROVE  Leaves(f.root) \subseteq Leaves(g.root)
  <1> DEFINE R == {<<f.root, g.root>>}
             A0 == AtRoot(f.root)
             B0 == AtRoot(g.root)
             A1 == OneDown(A0)
             B1 == OneDown(B0)
             A2 == OneDown(A1)
             B2 == OneDown(B1)
             A3 == OneDown(A2)
             B3 == OneDown(B2)
             A4 == OneDown(A3)
             B4 == OneDown(B3)
             A5 == OneDown(A4)
             B5 == OneDown(B4)
  <1>1. Covers(R, A0, B0)
    BY DEF Covers, AtRoot
  <1>2. Covers(Alike1, A1, B1)
    <2>1. \A v, w : <<v, w>> \in R => Within(Alike1, v, w)
      BY RootWithin
    <2> HIDE DEF R, A0, B0
    <2> QED
      BY <1>1, <2>1, NextCovered
  <1>3. Leaves(f.root) = A5 /\ Leaves(g.root) = B5
    BY LeavesAre
  <1> HIDE DEF A1, B1
  <1>4. Covers(Alike2, A2, B2)
    BY <1>2, BlocksWithin, NextCovered
  <1> HIDE DEF A2, B2
  <1>5. Covers(Alike3, A3, B3)
    BY <1>4, BindingsWithin, NextCovered
  <1> HIDE DEF A3, B3
  <1>6. Covers(Alike4, A4, B4)
    BY <1>5, SectionsWithin, NextCovered
  <1> HIDE DEF A4, B4
  <1>7. Covers(Ident, A5, B5)
    BY <1>6, Deepest, NextCovered
  <1> HIDE DEF A5, B5
  <1>8. SUFFICES ASSUME NEW x \in A5
                 PROVE  x \in B5
    BY <1>3
  <1>9. PICK y \in B5 : y[1] = x[1] /\ <<x[2], y[2]>> \in Ident
    BY <1>7 DEF Covers
  <1>10. y[2] = x[2]
    BY <1>9 DEF Ident
  <1>11. x = <<x[1], x[2]>> /\ y = <<y[1], y[2]>>
    <2>1. \A A : \A z \in OneDown(A) : z = <<z[1], z[2]>>
      BY LeavesArePairs
    <2> QED
      BY <2>1 DEF A5, B5
  <1> QED
    BY <1>9, <1>10, <1>11

LEMMA Preserved ==
  ASSUME TextsReadBack, file \in ParsedFiles, Clean, ~NamesConfused
  PROVE  Contents(Emit(Loaded)) = Contents(file)
  <1>1. SpellsMap(file, Loaded) /\ Good(Loaded)
    BY LoadedSpelled
  <1>2. Emit(Loaded) \in ParsedFiles /\ SpellsMap(Emit(Loaded), Loaded)
    BY <1>1, MapSpells
  <1>3. Leaves(file.root) = Leaves(Emit(Loaded).root)
    BY <1>1, <1>2, LeavesCovered
  <1>4. file.header = Emit(Loaded).header
    BY <1>1, <1>2 DEF SpellsMap, SpellsRest
  <1> QED
    BY <1>3, <1>4 DEF Contents

(* Whatever commands have run, loading a file that the rules accept and    *)
(* emitting it again gives a file of exactly its keys, values and comments *)
(* at their places, if its texts read back and no field name that is no    *)
(* string is in the way (TextsReadBack, NamesConfused).                    *)
THEOREM LoadAndEmitKeepAll == TextsReadBack => (Spec => []NothingLost)
  <1> SUFFICES ASSUME TextsReadBack
               PROVE  Spec => []NothingLost
    OBVIOUS
  <1>1. Parsed => NothingLost
    BY Preserved DEF Parsed, NothingLost
  <1>2. Spec => []Parsed
    BY FileParsed
  <1> QED
    BY <1>1, <1>2, PTL
=============================================================================
