---------------------------- MODULE Exchange_proofs ----------------------------
(***************************************************************************)
(* Exchange: every answer and every file is of its type; what the rules on *)
(* inputs let through, the second validation never refuses; what is        *)
(* written is read back, and what `get` answers is taken back by `set`.    *)
(*                                                                         *)
(* First the way there and back: the file that is emitted for a valid map  *)
(* loads without a finding of shape, and as that map; the answer of `get`  *)
(* about a valid binding is an accepted input, and is made into that       *)
(* binding.  Then the commands: a map is good if no rule finds anything in *)
(* it.  A writing command has a good map to begin with, as it has refused  *)
(* any other file; each way to change a good map keeps it good if what     *)
(* goes into it is an accepted input.                                      *)
(***************************************************************************)
EXTENDS Exchange, Documents_proofs

(* What is written without quotes YAML must take for what it is.  It does  *)
(* so for all IDs, for the kinds that are no words of its core schema and  *)
(* do not end in a line break, and for all other texts that needs_quotes   *)
(* has nothing against but `<<` and `=`.                                   *)
TextsReadBack ==
    (\A t \in Texts : Is(t, "id") \/ Is(t, "kind") => Bare(t) = String(t)) /\ NoneResolved

(***************************************************************************)
(* Looking something up in a mapping whose pairs are known as a set.       *)
(***************************************************************************)
LEMMA StringsDiffer ==
  \A s, t : String(s) = String(t) <=> s = t
  BY DEF String, Scalar

LEMMA Found ==
  ASSUME NEW m, NEW k, NEW p \in Range(m.pairs), p.key = String(k),
         \A q \in Range(m.pairs) : q.key = String(k) => q = p
  PROVE  Has(m, k) /\ PairAt(m, k) = p /\ At(m, k) = p.value
  <1>1. Has(m, k)
    BY DEF Has, KeysOf
  <1>2. PairAt(m, k) \in Range(m.pairs) /\ PairAt(m, k).key = String(k)
    BY DEF PairAt
  <1>3. PairAt(m, k) = p
    BY <1>2
  <1> QED
    BY <1>1, <1>3 DEF At

LEMMA FoundAs ==
  \A m, k, type : Has(m, k) => (HasA(m, k, type) <=> At(m, k).type = type)
  BY DEF HasA

LEMMA Missing ==
  ASSUME NEW m, NEW k, \A q \in Range(m.pairs) : q.key # String(k)
  PROVE  ~Has(m, k) /\ \A type : ~HasA(m, k, type)
  BY DEF Has, HasA, KeysOf

LEMMA PairIs ==
  \A key, value, note : /\ Pair(key, value, note).key = key
                        /\ Pair(key, value, note).value = value
                        /\ Pair(key, value, note).note = note
  BY DEF Pair

(***************************************************************************)
(* Values that have no comment in them.                                    *)
(***************************************************************************)
LEMMA SilentKinds ==
  /\ Scalars \subseteq Silent
  /\ \A S : \A m \in MappingsOf(S) :
       (\A p \in Range(m.pairs) : p.value \in Scalars /\ p.note = None) => m \in Silent
  /\ \A S : \A l \in ListsOf(S) :
       (\A i \in Range(l.items) : i.value \in Scalars /\ i.note = None) => l \in Silent
  <1> DEFINE Q == Quiet(Quiet(Quiet(Quiet({}))))
  <1>1. Silent = Quiet(Q)
    BY DEF Silent
  <1>2. ASSUME NEW S, NEW v \in Scalars
        PROVE  v \in Quiet(S)
    BY StringScalar DEF Quiet, Unnoted, Parts, Scalars, ScalarTypes
  <1>3. Scalars \subseteq Q
    BY <1>2
  <1> HIDE DEF Q
  <1>4. ASSUME NEW S, NEW m \in MappingsOf(S),
               \A p \in Range(m.pairs) : p.value \in Scalars /\ p.note = None
        PROVE  m \in Silent
    <2>1. m.pairs \in Seq(PairsOf(S)) /\ m.type = "mapping" /\ m = [type |-> m.type, pairs |-> m.pairs]
      BY DEF MappingsOf, PairsOf
    <2>2. \A n \in DOMAIN m.pairs : m.pairs[n] \in PairsOf(Q)
      <3> SUFFICES ASSUME NEW n \in DOMAIN m.pairs PROVE m.pairs[n] \in PairsOf(Q)
        OBVIOUS
      <3>1. m.pairs[n] \in PairsOf(S)
        BY <2>1, ListProperties
      <3>2. m.pairs[n].value \in Q
        BY <1>3, <1>4 DEF Range
      <3> QED
        BY <3>1, <3>2 DEF PairsOf
    <2>3. m.pairs \in Seq(PairsOf(Q))
      <3>1. m.pairs = [n \in DOMAIN m.pairs |-> m.pairs[n]]
        BY <2>1, LenProperties
      <3> QED
        BY <2>1, <2>2, <3>1, MappedList
    <2>4. m \in Values(Q)
      BY <2>1, <2>3 DEF Values, MappingsOf, PairsOf
    <2>5. Unnoted(m)
      BY <1>4, <2>1 DEF Unnoted, Parts
    <2> QED
      BY <1>1, <2>4, <2>5 DEF Quiet
  <1>5. ASSUME NEW S, NEW l \in ListsOf(S),
               \A i \in Range(l.items) : i.value \in Scalars /\ i.note = None
        PROVE  l \in Silent
    <2>1. l.items \in Seq(ItemsOf(S)) /\ l.type = "list" /\ l = [type |-> l.type, items |-> l.items]
      BY DEF ListsOf, ItemsOf
    <2>2. \A n \in DOMAIN l.items : l.items[n] \in ItemsOf(Q)
      <3> SUFFICES ASSUME NEW n \in DOMAIN l.items PROVE l.items[n] \in ItemsOf(Q)
        OBVIOUS
      <3>1. l.items[n] \in ItemsOf(S)
        BY <2>1, ListProperties
      <3>2. l.items[n].value \in Q
        BY <1>3, <1>5 DEF Range
      <3> QED
        BY <3>1, <3>2 DEF ItemsOf
    <2>3. l.items \in Seq(ItemsOf(Q))
      <3>1. l.items = [n \in DOMAIN l.items |-> l.items[n]]
        BY <2>1, LenProperties
      <3> QED
        BY <2>1, <2>2, <3>1, MappedList
    <2>4. l \in Values(Q)
      BY <2>1, <2>3 DEF Values, ListsOf, ItemsOf
    <2>5. Unnoted(l)
      BY <1>5, <2>1 DEF Unnoted, Parts
    <2> QED
      BY <1>1, <2>4, <2>5 DEF Quiet
  <1> QED
    BY <1>1, <1>2, <1>4, <1>5

LEMMA FlatSilent ==
  ASSUME NEW node \in Nodes, NEW C, NEW x \in EntryType(node, C)
  PROVE  WrittenFlat(x, node) \in Silent
  <1>1. WrittenFlat(x, node) \in MappingsOf(Values({}))
    BY FlatWritten
  <1>2. ASSUME NEW p \in Range(WrittenFlat(x, node).pairs)
        PROVE  p.value \in Scalars /\ p.note = None
    <2>1. PICK k \in DOMAIN x.strings : p = Pair(String(k), Written(x.strings[k]), None)
      BY FlatWritten
    <2>2. x.strings[k] \in Texts
      BY DEF EntryType, StringsOf
    <2> QED
      BY <2>1, <2>2, PairIs, TextsWritten
  <1> QED
    BY <1>1, <1>2, SilentKinds

(***************************************************************************)
(* Locators, fields, assertions and wire blocks.                           *)
(***************************************************************************)
(* v has the strings of x and nothing else.                                *)
Spells(v, x) ==
    /\ v.type = "mapping"
    /\ Range(v.pairs) = {Pair(String(k), String(x.strings[k]), None) : k \in DOMAIN x.strings}

LEMMA SpelledAt ==
  ASSUME NEW v, NEW x, Spells(v, x)
  PROVE  /\ \A k \in DOMAIN x.strings :
              Has(v, k) /\ HasA(v, k, "string") /\ At(v, k) = String(x.strings[k])
         /\ \A k : k \notin DOMAIN x.strings => ~Has(v, k) /\ ~HasA(v, k, "string")
         /\ KeysOf(v) = {String(k) : k \in DOMAIN x.strings}
  <1>1. ASSUME NEW k \in DOMAIN x.strings
        PROVE  Has(v, k) /\ HasA(v, k, "string") /\ At(v, k) = String(x.strings[k])
    <2> DEFINE p == Pair(String(k), String(x.strings[k]), None)
    <2>1. p \in Range(v.pairs) /\ p.key = String(k) /\ p.value = String(x.strings[k])
      BY PairIs DEF Spells
    <2>2. ASSUME NEW q \in Range(v.pairs), q.key = String(k)
          PROVE  q = p
      <3>1. PICK l \in DOMAIN x.strings : q = Pair(String(l), String(x.strings[l]), None)
        BY DEF Spells
      <3>2. l = k
        BY <2>2, <3>1, PairIs, StringsDiffer
      <3> QED
        BY <3>1, <3>2
    <2>3. p.value.type = "string"
      BY <2>1 DEF String, Scalar
    <2> HIDE DEF p
    <2>4. Has(v, k) /\ At(v, k) = p.value
      <3>1. p \in Range(v.pairs) /\ p.key = String(k)
        BY <2>1
      <3>2. \A q \in Range(v.pairs) : q.key = String(k) => q = p
        BY <2>2
      <3> QED
        BY <3>1, <3>2, Found
    <2> QED
      BY <2>1, <2>3, <2>4, FoundAs
  <1>2. ASSUME NEW k, k \notin DOMAIN x.strings
        PROVE  ~Has(v, k) /\ ~HasA(v, k, "string")
    <2>1. ASSUME NEW q \in Range(v.pairs)
          PROVE  q.key # String(k)
      <3>1. PICK l \in DOMAIN x.strings : q = Pair(String(l), String(x.strings[l]), None)
        BY DEF Spells
      <3> QED
        BY <1>2, <3>1, PairIs, StringsDiffer
    <2> QED
      BY <2>1, Missing
  <1>3. \A k \in DOMAIN x.strings : Pair(String(k), String(x.strings[k]), None).key = String(k)
    BY PairIs
  <1>4. KeysOf(v) = {String(k) : k \in DOMAIN x.strings}
    BY <1>3 DEF KeysOf, Spells
  <1> QED
    BY <1>1, <1>2, <1>4

LEMMA SpelledFlat ==
  ASSUME NEW node \in Nodes, NEW C, NEW x \in EntryType(node, C), NEW v, Spells(v, x)
  PROVE  /\ Strings(v, node) = x.strings /\ FlatFindings(v, node) = {}
         /\ Flat(v, node, x.comment) = x
  <1> DEFINE keys == Shape[node].keys
             D == {k \in DOMAIN keys : Allowed(v, k, keys[k])}
             present == {k \in DOMAIN keys : Has(v, k)}
             unknown == KeysOf(v) \ {String(k) : k \in DOMAIN keys}
             missing == {k \in Shape[node].required : ~Has(v, k)}
             line == unknown \cap {String("line"), String("lines")}
             untexts == {k \in present : At(v, k).type # "string"}
             unroles == {k \in present : At(v, k).type = "string" /\ ~Allowed(v, k, keys[k])}
  <1>1. /\ DOMAIN x.strings \subseteq DOMAIN keys /\ Shape[node].required \subseteq DOMAIN x.strings
        /\ x.strings = [k \in DOMAIN x.strings |-> x.strings[k]]
        /\ "role" \in DOMAIN x.strings => x.strings["role"] \in Roles
        /\ x = [strings |-> x.strings, comment |-> x.comment]
    BY DEF EntryType, StringsOf
  <1>2. v.type = "mapping"
    BY DEF Spells
  <1>3. ASSUME NEW k \in DOMAIN x.strings
        PROVE  Allowed(v, k, keys[k]) /\ At(v, k).text = x.strings[k] /\ At(v, k).type = "string"
    <2>1. HasA(v, k, "string") /\ At(v, k) = String(x.strings[k])
      BY SpelledAt
    <2>2. At(v, k).text = x.strings[k] /\ At(v, k).type = "string"
      BY <2>1 DEF String, Scalar
    <2>3. keys[k].type = "enum" => k = "role"
      BY <1>1, ShapeFacts
    <2> QED
      BY <1>1, <2>1, <2>2, <2>3 DEF Allowed
  <1>4. \A k : k \notin DOMAIN x.strings => ~Has(v, k) /\ ~HasA(v, k, "string")
    BY SpelledAt
  <1>5. D = DOMAIN x.strings
    BY <1>1, <1>3, <1>4 DEF Allowed
  <1>6. Strings(v, node) = [k \in D |-> At(v, k).text]
    BY DEF Strings
  <1>7. Strings(v, node) = x.strings
    <2>1. [k \in DOMAIN x.strings |-> At(v, k).text] = [k \in DOMAIN x.strings |-> x.strings[k]]
      BY <1>3
    <2> QED
      BY <1>1, <1>5, <1>6, <2>1
  <1>8. present = DOMAIN x.strings
    BY <1>1, <1>4, SpelledAt
  <1>9. unknown = {} /\ missing = {} /\ line = {}
    <2>1. KeysOf(v) = {String(k) : k \in DOMAIN x.strings}
      BY SpelledAt
    <2>2. unknown = {}
      BY <1>1, <2>1
    <2>3. missing = {}
      BY <1>1, SpelledAt
    <2> QED
      BY <2>2, <2>3
  <1>10. untexts = {} /\ unroles = {}
    BY <1>3, <1>8
  <1>11. FlatFindings(v, node) =
           ClosedKeys(v, node) \cup Code("INV-CLOSED-KEYS", untexts)
             \cup Code("INV-ROLE-VALUES", unroles)
    BY <1>2 DEF FlatFindings
  <1>12. ClosedKeys(v, node) = Code("INV-CLOSED-KEYS", unknown \cup missing)
                                 \cup Code("INV-NO-LINE-NUMBERS", line)
    BY DEF ClosedKeys
  <1> HIDE DEF keys, D, present, unknown, missing, line, untexts, unroles
  <1>13. FlatFindings(v, node) = {}
    BY <1>9, <1>10, <1>11, <1>12 DEF Code
  <1>14. Flat(v, node, x.comment) = [strings |-> x.strings, comment |-> x.comment]
    BY <1>1, <1>2, <1>7 DEF Flat
  <1> QED
    BY <1>1, <1>7, <1>13, <1>14

(* What the rules let through is written as it is.                         *)
LEMMA StringsKept ==
  ASSUME TextsReadBack, NEW node \in Nodes, NEW C \in SUBSET TextOrNone, NEW x \in EntryType(node, C),
         StringRules(x), NEW k \in DOMAIN x.strings
  PROVE  Written(x.strings[k]) = String(x.strings[k])
  <1>1. x.strings[k] \in Texts
    BY EntryParts
  <1>2. ~Is(x.strings[k], "control")
    <2>1. CASE k = "path"
      BY <2>1 DEF StringRules, PathCodes, CodeIf
    <2>2. CASE k = "role"
      <3>1. x.strings[k] \in Roles
        BY <2>2 DEF EntryType
      <3> QED
        BY <1>1, <3>1, TraitAssumption
    <2>3. CASE k \notin {"path", "role"}
      BY <1>1, <2>3, NotesAreTexts DEF StringRules, ScalarRules
    <2> QED
      BY <2>1, <2>2, <2>3
  <1> QED
    BY <1>1, <1>2, TextsWritten DEF TextsReadBack

LEMMA EntryBack ==
  ASSUME TextsReadBack, NEW node \in Nodes, NEW C \in SUBSET TextOrNone, NEW x \in EntryType(node, C),
         StringRules(x)
  PROVE  /\ Flat(WrittenFlat(x, node), node, x.comment) = x
         /\ FlatFindings(WrittenFlat(x, node), node) = {}
  <1>1. \A k \in DOMAIN x.strings : Written(x.strings[k]) = String(x.strings[k])
    BY StringsKept
  <1>2. {Pair(String(k), Written(x.strings[k]), None) : k \in DOMAIN x.strings} =
          {Pair(String(k), String(x.strings[k]), None) : k \in DOMAIN x.strings}
    BY <1>1
  <1>3. Spells(WrittenFlat(x, node), x)
    BY <1>2, FlatWritten DEF Spells
  <1> QED
    BY <1>3, SpelledFlat

(***************************************************************************)
(* Lists of them, and fields.                                              *)
(***************************************************************************)
LEMMA ListBack ==
  ASSUME TextsReadBack, NEW node \in Nodes, NEW s \in Seq(EntryType(node, Note)),
         \A x \in Range(s) : StringRules(x)
  PROVE  /\ Entries(WrittenList(s, node).items, node) = s
         /\ \A i \in Range(WrittenList(s, node).items) : FlatFindings(i.value, node) = {}
         /\ ItemsAttached(WrittenList(s, node).items, node)
  <1> DEFINE E == EntryType(node, Note)
             items == WrittenList(s, node).items
             t == [n \in DOMAIN items |-> Flat(items[n].value, node, items[n].note)]
  <1>1. items = [n \in DOMAIN s |-> Item(WrittenFlat(s[n], node), s[n].comment)]
    BY ListWritten
  <1>2. DOMAIN items = DOMAIN s
    BY <1>1
  <1>3. ASSUME NEW n \in DOMAIN s
        PROVE  /\ t[n] = s[n] /\ FlatFindings(items[n].value, node) = {}
               /\ items[n].value \in Silent /\ Flat(items[n].value, node, items[n].note) # None
    <2>1. s[n] \in E /\ StringRules(s[n])
      BY ListProperties DEF Range
    <2>2. items[n].value = WrittenFlat(s[n], node) /\ items[n].note = s[n].comment
      BY <1>1 DEF Item
    <2>3. Flat(items[n].value, node, items[n].note) = s[n]
          /\ FlatFindings(items[n].value, node) = {}
      BY <2>1, <2>2, EntryBack, NotesAreTexts
    <2>4. s[n] # None /\ items[n].value \in Silent
      BY <2>1, <2>2, EntryKinds, NotesAreTexts, FlatSilent
    <2> HIDE DEF items
    <2> QED
      BY <1>2, <2>3, <2>4
  <1>4. s = [n \in DOMAIN s |-> s[n]]
    BY LenProperties
  <1> HIDE DEF items
  <1>5. t = s
    BY <1>2, <1>3, <1>4
  <1>6. None \notin E
    BY EntryKinds, NotesAreTexts
  <1>7. s \in Seq(E \cup {None})
    BY SeqMonotonic
  <1> HIDE DEF E, t
  <1>8. Represented(s) = s
    BY <1>6, <1>7, RepresentedList DEF E
  <1>9. Entries(items, node) = Represented(t)
    BY DEF Entries, t
  <1>10. ItemsAttached(items, node)
    BY <1>2, <1>3 DEF ItemsAttached, Range
  <1> QED
    BY <1>2, <1>3, <1>5, <1>8, <1>9, <1>10 DEF Range, items

LEMMA FieldsBack ==
  ASSUME TextsReadBack, NEW d \in DictsOf(Texts, EntryType("field_locator", Note)), FieldsRules(d, FALSE)
  PROVE  /\ Fields(WrittenFields(d).pairs) = d
         /\ \A p \in Range(WrittenFields(d).pairs) : FlatFindings(p.value, "field_locator") = {}
         /\ PairsAttached(WrittenFields(d).pairs, "field_locator")
         /\ \A n \in DOMAIN d : Has(WrittenFields(d), d[n].key)
  <1> DEFINE E == [key : Texts, value : EntryType("field_locator", Note)]
             pairs == WrittenFields(d).pairs
             t == [n \in DOMAIN pairs |-> FieldEntry(pairs[n])]
  <1>0. "field_locator" \in Nodes /\ Note \in SUBSET TextOrNone
    BY NotesAreTexts DEF Nodes
  <1>a. d \in Seq(E)
    BY DEF DictsOf
  <1>b. ASSUME NEW n \in DOMAIN d
        PROVE  Written(d[n].key) = String(d[n].key)
    <2>1. d[n] \in E
      BY <1>a, ListProperties
    <2>2. ~Is(d[n].key, "control")
      BY DEF FieldsRules, FieldNameRules, Range
    <2> QED
      BY <2>1, <2>2, TextsWritten DEF TextsReadBack
  <1>1. pairs = [n \in DOMAIN d |-> Pair(Written(d[n].key), WrittenFlat(d[n].value, "field_locator"),
                                         d[n].value.comment)]
    BY <1>b, FieldsWritten
  <1>2. d \in Seq(E) /\ UniqueKeys(d) /\ DOMAIN pairs = DOMAIN d
    BY <1>1 DEF DictsOf
  <1>3. ASSUME NEW n \in DOMAIN d
        PROVE  /\ t[n] = d[n] /\ FlatFindings(pairs[n].value, "field_locator") = {}
               /\ pairs[n].key = String(d[n].key) /\ pairs[n].key.text = d[n].key
               /\ pairs[n].key.type # "merge" /\ pairs[n].value \in Silent
               /\ FieldEntry(pairs[n]) # None
    <2>1. d[n] \in E
      BY <1>2, ListProperties
    <2>2. /\ d[n].key \in Texts /\ d[n].value \in EntryType("field_locator", Note)
          /\ d[n] = [key |-> d[n].key, value |-> d[n].value]
      BY <2>1
    <2>3. StringRules(d[n].value)
      BY DEF FieldsRules, Range
    <2>4. Written(d[n].key) = String(d[n].key)
      BY <1>b
    <2>5. /\ pairs[n].key = String(d[n].key)
          /\ pairs[n].value = WrittenFlat(d[n].value, "field_locator")
          /\ pairs[n].note = d[n].value.comment
      BY <1>1, <2>4 DEF Pair
    <2>6. /\ Flat(pairs[n].value, "field_locator", pairs[n].note) = d[n].value
          /\ FlatFindings(pairs[n].value, "field_locator") = {}
      BY <1>0, <2>2, <2>3, <2>5, EntryBack
    <2>7. pairs[n].key.text = d[n].key /\ pairs[n].key.type # "merge"
      BY <2>5 DEF String, Scalar
    <2>8. d[n].value # None
      BY <1>0, <2>2, EntryKinds
    <2> HIDE DEF pairs
    <2>9. FieldEntry(pairs[n]) = d[n]
      BY <2>2, <2>6, <2>7, <2>8 DEF FieldEntry, Keyed
    <2>10. d[n] # None /\ pairs[n].value \in Silent
      BY <1>0, <2>1, <2>2, <2>5, EntryKinds, FlatSilent DEF pairs
    <2> QED
      BY <1>2, <2>5, <2>6, <2>7, <2>9, <2>10
  <1>4. d = [n \in DOMAIN d |-> d[n]]
    BY <1>2, LenProperties
  <1> HIDE DEF pairs
  <1>5. t = d
    BY <1>2, <1>3, <1>4
  <1>6. None \notin E
    BY <1>0, EntryKinds
  <1> HIDE DEF E, t
  <1>7. Dict(d) = d
    BY <1>2, <1>6, DictOfUnique
  <1>8. Fields(pairs) = Dict(t)
    BY DEF Fields, t
  <1>9. PairsAttached(pairs, "field_locator")
    <2>1. \A m, n \in DOMAIN pairs : pairs[m].key.text = pairs[n].key.text => m = n
      BY <1>2, <1>3 DEF UniqueKeys
    <2>2. ASSUME NEW m \in DOMAIN pairs
          PROVE  m <= m
      BY <1>2, ListProperties
    <2> QED
      BY <1>2, <1>3, <2>1, <2>2 DEF PairsAttached, EntryOf
  <1>10. \A n \in DOMAIN d : Has(WrittenFields(d), d[n].key)
    BY <1>2, <1>3 DEF Has, KeysOf, Range, pairs
  <1> QED
    BY <1>2, <1>3, <1>5, <1>7, <1>8, <1>9, <1>10 DEF Range, pairs

(***************************************************************************)
(* Bindings.                                                               *)
(***************************************************************************)
SectionKeys == {"locators", "compare_via", "fields", "wire", "asserted_by"}

(* The sections of a written binding, looked up.                           *)
LEMMA SectionsAt ==
  ASSUME NEW b \in BindingType(Note),
         b.fields # <<>>, b.asserted_by # <<>>, b.wire # None => DOMAIN b.wire.strings # {}
  PROVE  LET v == WrittenBinding(b)
         IN  /\ KeysOf(v) \subseteq {String(k) : k \in SectionKeys}
             /\ Has(v, "locators") /\ At(v, "locators") = WrittenList(b.locators, "locator")
             /\ Has(v, "compare_via") <=> b.compare_via # None
             /\ b.compare_via # None => At(v, "compare_via") = Written(b.compare_via)
             /\ Has(v, "fields") <=> b.fields # None
             /\ b.fields # None => At(v, "fields") = WrittenFields(b.fields)
             /\ Has(v, "wire") <=> b.wire # None
             /\ b.wire # None => At(v, "wire") = WrittenFlat(b.wire, "wire")
             /\ Has(v, "asserted_by") <=> b.asserted_by # None
             /\ b.asserted_by # None => At(v, "asserted_by") = WrittenList(b.asserted_by, "assertion")
  <1> DEFINE v == WrittenBinding(b)
             v1 == WrittenList(b.locators, "locator")
             v2 == Written(b.compare_via)
             v3 == WrittenFields(b.fields)
             v4 == WrittenFlat(b.wire, "wire")
             v5 == WrittenList(b.asserted_by, "assertion")
             p1 == Pair(String("locators"), v1, None)
             p2 == Pair(String("compare_via"), v2, None)
             p3 == Pair(String("fields"), v3, None)
             p4 == Pair(String("wire"), v4, None)
             p5 == Pair(String("asserted_by"), v5, None)
  <1>1. /\ b.fields # None => OrNull(v3, b.fields = <<>>) = v3
        /\ b.wire # None => OrNull(v4, DOMAIN b.wire.strings = {}) = v4
        /\ b.asserted_by # None => OrNull(v5, b.asserted_by = <<>>) = v5
    BY DEF OrNull
  <1>2. Range(v.pairs) =
          {p1} \cup PairIf(b.compare_via # None, "compare_via", v2)
               \cup PairIf(b.fields # None, "fields", OrNull(v3, b.fields = <<>>))
               \cup PairIf(b.wire # None, "wire", OrNull(v4, DOMAIN b.wire.strings = {}))
               \cup PairIf(b.asserted_by # None, "asserted_by", OrNull(v5, b.asserted_by = <<>>))
    BY BindingWritten
  <1> HIDE DEF v, v1, v2, v3, v4, v5
  <1>3. \A p : p \in Range(v.pairs) <=>
                 \/ p = p1
                 \/ b.compare_via # None /\ p = p2
                 \/ b.fields # None /\ p = p3
                 \/ b.wire # None /\ p = p4
                 \/ b.asserted_by # None /\ p = p5
    <2>1. TAKE p
    <2>2. p \in PairIf(b.compare_via # None, "compare_via", v2) <=> b.compare_via # None /\ p = p2
      BY DEF PairIf
    <2>3. p \in PairIf(b.fields # None, "fields", OrNull(v3, b.fields = <<>>)) <=>
            b.fields # None /\ p = p3
      BY <1>1 DEF PairIf
    <2>4. p \in PairIf(b.wire # None, "wire", OrNull(v4, DOMAIN b.wire.strings = {})) <=>
            b.wire # None /\ p = p4
      BY <1>1 DEF PairIf
    <2>5. p \in PairIf(b.asserted_by # None, "asserted_by", OrNull(v5, b.asserted_by = <<>>)) <=>
            b.asserted_by # None /\ p = p5
      BY <1>1 DEF PairIf
    <2> HIDE DEF p1, p2, p3, p4, p5
    <2> QED
      BY <1>2, <2>2, <2>3, <2>4, <2>5
  <1>4. /\ p1.key = String("locators") /\ p1.value = v1
        /\ p2.key = String("compare_via") /\ p2.value = v2
        /\ p3.key = String("fields") /\ p3.value = v3
        /\ p4.key = String("wire") /\ p4.value = v4
        /\ p5.key = String("asserted_by") /\ p5.value = v5
    BY PairIs
  <1> HIDE DEF p1, p2, p3, p4, p5
  <1>5. \A k, l \in SectionKeys : String(k) = String(l) => k = l
    BY StringsDiffer
  <1>6. KeysOf(v) \subseteq {String(k) : k \in SectionKeys}
    BY <1>3, <1>4 DEF KeysOf, SectionKeys
  <1>7. Has(v, "locators") /\ At(v, "locators") = v1
    <2>1. \A q \in Range(v.pairs) : q.key = String("locators") => q = p1
      BY <1>3, <1>4, <1>5 DEF SectionKeys
    <2> QED
      BY <1>3, <1>4, <2>1, Found
  <1>8. (Has(v, "compare_via") <=> b.compare_via # None)
        /\ (b.compare_via # None => At(v, "compare_via") = v2)
    <2>1. \A q \in Range(v.pairs) : q.key = String("compare_via") => q = p2 /\ b.compare_via # None
      BY <1>3, <1>4, <1>5 DEF SectionKeys
    <2>2. CASE b.compare_via # None
      <3>1. p2 \in Range(v.pairs) /\ p2.key = String("compare_via")
        BY <1>3, <1>4, <2>2
      <3>2. \A q \in Range(v.pairs) : q.key = String("compare_via") => q = p2
        BY <2>1
      <3>3. Has(v, "compare_via") /\ At(v, "compare_via") = p2.value
        BY <3>1, <3>2, Found
      <3> QED
        BY <1>4, <2>2, <3>3
    <2>3. CASE b.compare_via = None
      BY <2>1, <2>3, Missing
    <2> QED
      BY <2>2, <2>3
  <1>9. (Has(v, "fields") <=> b.fields # None) /\ (b.fields # None => At(v, "fields") = v3)
    <2>1. \A q \in Range(v.pairs) : q.key = String("fields") => q = p3 /\ b.fields # None
      BY <1>3, <1>4, <1>5 DEF SectionKeys
    <2>2. CASE b.fields # None
      <3>1. p3 \in Range(v.pairs) /\ p3.key = String("fields")
        BY <1>3, <1>4, <2>2
      <3>2. \A q \in Range(v.pairs) : q.key = String("fields") => q = p3
        BY <2>1
      <3>3. Has(v, "fields") /\ At(v, "fields") = p3.value
        BY <3>1, <3>2, Found
      <3> QED
        BY <1>4, <2>2, <3>3
    <2>3. CASE b.fields = None
      BY <2>1, <2>3, Missing
    <2> QED
      BY <2>2, <2>3
  <1>10. (Has(v, "wire") <=> b.wire # None) /\ (b.wire # None => At(v, "wire") = v4)
    <2>1. \A q \in Range(v.pairs) : q.key = String("wire") => q = p4 /\ b.wire # None
      BY <1>3, <1>4, <1>5 DEF SectionKeys
    <2>2. CASE b.wire # None
      <3>1. p4 \in Range(v.pairs) /\ p4.key = String("wire")
        BY <1>3, <1>4, <2>2
      <3>2. \A q \in Range(v.pairs) : q.key = String("wire") => q = p4
        BY <2>1
      <3>3. Has(v, "wire") /\ At(v, "wire") = p4.value
        BY <3>1, <3>2, Found
      <3> QED
        BY <1>4, <2>2, <3>3
    <2>3. CASE b.wire = None
      BY <2>1, <2>3, Missing
    <2> QED
      BY <2>2, <2>3
  <1>11. (Has(v, "asserted_by") <=> b.asserted_by # None)
         /\ (b.asserted_by # None => At(v, "asserted_by") = v5)
    <2>1. \A q \in Range(v.pairs) : q.key = String("asserted_by") => q = p5 /\ b.asserted_by # None
      BY <1>3, <1>4, <1>5 DEF SectionKeys
    <2>2. CASE b.asserted_by # None
      <3>1. p5 \in Range(v.pairs) /\ p5.key = String("asserted_by")
        BY <1>3, <1>4, <2>2
      <3>2. \A q \in Range(v.pairs) : q.key = String("asserted_by") => q = p5
        BY <2>1
      <3>3. Has(v, "asserted_by") /\ At(v, "asserted_by") = p5.value
        BY <3>1, <3>2, Found
      <3> QED
        BY <1>4, <2>2, <3>3
    <2>3. CASE b.asserted_by = None
      BY <2>1, <2>3, Missing
    <2> QED
      BY <2>2, <2>3
  <1> QED
    BY <1>6, <1>7, <1>8, <1>9, <1>10, <1>11 DEF v, v1, v2, v3, v4, v5

LEMMA BindingKeys ==
  /\ DOMAIN Shape["binding"].keys = SectionKeys /\ Shape["binding"].required = {"locators"}
  /\ DOMAIN Shape["coverage"].keys = {"fully_bound", "curated"} /\ Shape["coverage"].required = {}
  /\ DOMAIN Shape["document"].keys = {"schema_version", "bindings", "coverage"}
  /\ Shape["document"].required = {"schema_version", "bindings"}
  BY DEF Shape, SectionKeys

(* A mapping with known keys, none of which is missing.                    *)
LEMMA NoneUnknown ==
  ASSUME NEW v, NEW node, KeysOf(v) \subseteq {String(k) : k \in DOMAIN Shape[node].keys},
         \A k \in Shape[node].required : Has(v, k)
  PROVE  ClosedKeys(v, node) = {}
  <1> DEFINE unknown == KeysOf(v) \ {String(k) : k \in DOMAIN Shape[node].keys}
             missing == {k \in Shape[node].required : ~Has(v, k)}
             line == unknown \cap {String("line"), String("lines")}
  <1>1. unknown = {} /\ missing = {} /\ line = {}
    OBVIOUS
  <1>2. ClosedKeys(v, node) = Code("INV-CLOSED-KEYS", unknown \cup missing)
                                \cup Code("INV-NO-LINE-NUMBERS", line)
    BY DEF ClosedKeys
  <1> HIDE DEF unknown, missing, line
  <1> QED
    BY <1>1, <1>2 DEF Code

LEMMA BindingBack ==
  ASSUME TextsReadBack, NEW b \in BindingType(Note), BindingRules(b, FALSE)
  PROVE  /\ Binding(WrittenBinding(b), b.comment) = b
         /\ BindingFindings(WrittenBinding(b)) = {}
         /\ ~Relocates(WrittenBinding(b), b) /\ Unnoted(WrittenBinding(b))
         /\ \A q \in Range(WrittenBinding(b).pairs) : SectionAttached(q)
  <1> DEFINE v == WrittenBinding(b)
             locators == WrittenList(b.locators, "locator")
             fields == WrittenFields(b.fields)
             wire == WrittenFlat(b.wire, "wire")
             asserted == WrittenList(b.asserted_by, "assertion")
  <1>1. /\ b.locators \in Seq(EntryType("locator", Note)) /\ b.compare_via \in Texts \cup {None}
        /\ b.fields \in DictsOf(Texts, EntryType("field_locator", Note)) \cup {None}
        /\ b.wire \in EntryType("wire", {None}) \cup {None}
        /\ b.asserted_by \in Seq(EntryType("assertion", Note)) \cup {None}
        /\ b = [locators |-> b.locators, compare_via |-> b.compare_via, fields |-> b.fields,
                wire |-> b.wire, asserted_by |-> b.asserted_by, comment |-> b.comment]
    BY DEF BindingType, TextOrNone
  <1>2. /\ "locator" \in Nodes /\ "field_locator" \in Nodes /\ "wire" \in Nodes
        /\ "assertion" \in Nodes /\ {None} \in SUBSET TextOrNone
    BY NotesAreTexts DEF Nodes
  <1>3. v.type = "mapping"
    BY BindingWritten
  <1>4. /\ locators.type = "list" /\ Entries(locators.items, "locator") = b.locators
        /\ \A i \in Range(locators.items) : FlatFindings(i.value, "locator") = {}
        /\ ItemsAttached(locators.items, "locator")
    <2>1. \A x \in Range(b.locators) : StringRules(x)
      BY DEF BindingRules, LocatorsRules
    <2> QED
      BY <1>1, <1>2, <2>1, ListBack, ListWritten
  <1>5. ASSUME b.compare_via # None
        PROVE  Written(b.compare_via) = String(b.compare_via)
    BY <1>1, <1>5, TextsWritten DEF BindingRules, ScalarRules, TextsReadBack
  <1>6. ASSUME b.fields # None
        PROVE  /\ fields.type = "mapping" /\ Fields(fields.pairs) = b.fields
               /\ \A p \in Range(fields.pairs) : FlatFindings(p.value, "field_locator") = {}
               /\ PairsAttached(fields.pairs, "field_locator")
               /\ \A n \in DOMAIN b.fields : Has(fields, b.fields[n].key)
    <2>1. b.fields \in DictsOf(Texts, EntryType("field_locator", Note)) /\ FieldsRules(b.fields, FALSE)
      BY <1>1, <1>6 DEF BindingRules
    <2> QED
      BY <2>1, FieldsBack, FieldsWritten
  <1>7. ASSUME b.wire # None
        PROVE  /\ Flat(wire, "wire", None) = b.wire /\ FlatFindings(wire, "wire") = {}
               /\ wire \in Silent
    <2>1. b.wire \in EntryType("wire", {None}) /\ StringRules(b.wire) /\ b.wire.comment = None
      BY <1>1, <1>7 DEF BindingRules, WireRules, EntryType
    <2> QED
      BY <1>2, <2>1, EntryBack, FlatSilent
  <1>8. ASSUME b.asserted_by # None
        PROVE  /\ asserted.type = "list" /\ Entries(asserted.items, "assertion") = b.asserted_by
               /\ \A i \in Range(asserted.items) : FlatFindings(i.value, "assertion") = {}
               /\ ItemsAttached(asserted.items, "assertion")
    <2>1. b.asserted_by \in Seq(EntryType("assertion", Note))
          /\ \A x \in Range(b.asserted_by) : StringRules(x)
      BY <1>1, <1>8 DEF BindingRules, AssertedRules
    <2> QED
      BY <1>2, <2>1, ListBack, ListWritten
  <1>9. /\ b.fields # <<>> /\ b.asserted_by # <<>>
        /\ b.wire # None => DOMAIN b.wire.strings # {}
    <2>1. None # <<>>
      BY EmptyList, NoneAssumption
    <2> QED
      BY <2>1 DEF BindingRules, WireRules
  <1>10. /\ KeysOf(v) \subseteq {String(k) : k \in SectionKeys}
         /\ Has(v, "locators") /\ At(v, "locators") = locators
         /\ Has(v, "compare_via") <=> b.compare_via # None
         /\ b.compare_via # None => At(v, "compare_via") = Written(b.compare_via)
         /\ Has(v, "fields") <=> b.fields # None
         /\ b.fields # None => At(v, "fields") = fields
         /\ Has(v, "wire") <=> b.wire # None
         /\ b.wire # None => At(v, "wire") = wire
         /\ Has(v, "asserted_by") <=> b.asserted_by # None
         /\ b.asserted_by # None => At(v, "asserted_by") = asserted
    BY <1>9, SectionsAt
  <1>a. Range(v.pairs) =
          {Pair(String("locators"), locators, None)}
            \cup PairIf(b.compare_via # None, "compare_via", Written(b.compare_via))
            \cup PairIf(b.fields # None, "fields", fields)
            \cup PairIf(b.wire # None, "wire", wire)
            \cup PairIf(b.asserted_by # None, "asserted_by", asserted)
    <2>1. /\ OrNull(fields, b.fields = <<>>) = fields
          /\ OrNull(asserted, b.asserted_by = <<>>) = asserted
      BY <1>9 DEF OrNull
    <2>2. PairIf(b.wire # None, "wire", OrNull(wire, DOMAIN b.wire.strings = {})) =
            PairIf(b.wire # None, "wire", wire)
      <3>1. CASE b.wire = None
        BY <3>1 DEF PairIf
      <3>2. CASE b.wire # None
        BY <1>9, <3>2 DEF OrNull
      <3> QED
        BY <3>1, <3>2
    <2> HIDE DEF locators, fields, wire, asserted
    <2> QED
      BY <2>1, <2>2, BindingWritten DEF locators, fields, wire, asserted
  <1> HIDE DEF v, locators, fields, wire, asserted
  <1>11. HasA(v, "locators", "list")
    BY <1>4, <1>10 DEF HasA
  <1>12. /\ TextAt(v, "compare_via") = b.compare_via
         /\ Mistyped(v, "compare_via", "string") = {}
    <2>1. CASE b.compare_via = None
      BY <1>10, <2>1 DEF TextAt, HasA, Mistyped, CodeIf
    <2>2. CASE b.compare_via # None
      <3>1. At(v, "compare_via") = String(b.compare_via) /\ Has(v, "compare_via")
        BY <1>5, <1>10, <2>2
      <3>2. At(v, "compare_via").type = "string" /\ At(v, "compare_via").text = b.compare_via
        BY <3>1 DEF String, Scalar
      <3> QED
        BY <3>1, <3>2 DEF TextAt, HasA, Mistyped, CodeIf
    <2> QED
      BY <2>1, <2>2
  <1>13. /\ HasA(v, "fields", "mapping") <=> b.fields # None
         /\ Mistyped(v, "fields", "mapping") = {} /\ PairFindings(v, "fields", "field_locator") = {}
    <2>1. /\ HasA(v, "fields", "mapping") <=> b.fields # None
          /\ Mistyped(v, "fields", "mapping") = {}
      BY <1>6, <1>10 DEF HasA, Mistyped, CodeIf
    <2>2. CASE b.fields = None
      BY <2>1, <2>2 DEF PairFindings
    <2>3. CASE b.fields # None
      <3>1. {FlatFindings(p.value, "field_locator") : p \in Range(fields.pairs)} \subseteq {{}}
        BY <1>6, <2>3
      <3>2. UNION {FlatFindings(p.value, "field_locator") : p \in Range(fields.pairs)} = {}
        BY <3>1
      <3> QED
        BY <1>10, <2>1, <2>3, <3>2 DEF PairFindings
    <2> QED
      BY <2>1, <2>2, <2>3
  <1>14. ASSUME Has(v, "wire")
         PROVE  Flat(At(v, "wire"), "wire", None) = b.wire /\ FlatFindings(At(v, "wire"), "wire") = {}
    BY <1>7, <1>10, <1>14
  <1>15. ItemFindings(v, "locators", "locator") = {}
    <2>1. {FlatFindings(i.value, "locator") : i \in Range(locators.items)} \subseteq {{}}
      BY <1>4
    <2>2. UNION {FlatFindings(i.value, "locator") : i \in Range(locators.items)} = {}
      BY <2>1
    <2> QED
      BY <1>4, <1>10, <1>11, <2>2 DEF ItemFindings, Mistyped, CodeIf
  <1>16. /\ HasA(v, "asserted_by", "list") <=> b.asserted_by # None
         /\ ItemFindings(v, "asserted_by", "assertion") = {}
    <2>1. /\ HasA(v, "asserted_by", "list") <=> b.asserted_by # None
          /\ Mistyped(v, "asserted_by", "list") = {}
      BY <1>8, <1>10 DEF HasA, Mistyped, CodeIf
    <2>2. CASE b.asserted_by = None
      BY <2>1, <2>2 DEF ItemFindings
    <2>3. CASE b.asserted_by # None
      <3>1. {FlatFindings(i.value, "assertion") : i \in Range(asserted.items)} \subseteq {{}}
        BY <1>8, <2>3
      <3>2. UNION {FlatFindings(i.value, "assertion") : i \in Range(asserted.items)} = {}
        BY <3>1
      <3> QED
        BY <1>10, <2>1, <2>3, <3>2 DEF ItemFindings
    <2> QED
      BY <2>1, <2>2, <2>3
  <1>17. ClosedKeys(v, "binding") = {}
    <2>1. KeysOf(v) \subseteq {String(k) : k \in DOMAIN Shape["binding"].keys}
      BY <1>10, BindingKeys
    <2>2. \A k \in Shape["binding"].required : Has(v, k)
      BY <1>10, BindingKeys
    <2> QED
      BY <2>1, <2>2, NoneUnknown
  <1>18. BindingFindings(v) = {}
    BY <1>3, <1>11, <1>12, <1>13, <1>14, <1>15, <1>16, <1>17 DEF BindingFindings
  <1>19. Binding(v, b.comment) =
           [locators |-> Entries(At(v, "locators").items, "locator"),
            compare_via |-> TextAt(v, "compare_via"),
            fields |-> IF HasA(v, "fields", "mapping") THEN Fields(At(v, "fields").pairs) ELSE None,
            wire |-> IF Has(v, "wire") THEN Flat(At(v, "wire"), "wire", None) ELSE None,
            asserted_by |-> IF HasA(v, "asserted_by", "list")
                              THEN Entries(At(v, "asserted_by").items, "assertion") ELSE None,
            comment |-> b.comment]
    BY <1>3, <1>11 DEF Binding
  <1>20. /\ Entries(At(v, "locators").items, "locator") = b.locators
         /\ (IF HasA(v, "fields", "mapping") THEN Fields(At(v, "fields").pairs) ELSE None) = b.fields
         /\ (IF Has(v, "wire") THEN Flat(At(v, "wire"), "wire", None) ELSE None) = b.wire
         /\ (IF HasA(v, "asserted_by", "list")
               THEN Entries(At(v, "asserted_by").items, "assertion") ELSE None) = b.asserted_by
    BY <1>4, <1>6, <1>8, <1>10, <1>13, <1>14, <1>16
  <1>21. Binding(v, b.comment) = b
    BY <1>1, <1>12, <1>19, <1>20
  <1>22. ~Relocates(v, b)
    <2>1. CASE b.fields = None
      BY <2>1, EmptyList DEF Relocates, Strays, OrEmpty
    <2>2. CASE b.fields # None
      BY <1>6, <1>10, <2>2 DEF Relocates, Strays, OrEmpty
    <2> QED
      BY <2>1, <2>2
  <1>23. ASSUME NEW q \in Range(v.pairs)
         PROVE  q.note = None /\ SectionAttached(q)
    <2>1. /\ String("compare_via") # String("locators") /\ String("compare_via") # String("fields")
          /\ String("compare_via") # String("asserted_by")
          /\ String("wire") # String("locators") /\ String("wire") # String("fields")
          /\ String("wire") # String("asserted_by") /\ String("fields") # String("locators")
          /\ String("fields") # String("asserted_by")
          /\ String("asserted_by") # String("locators")
      BY StringsDiffer
    <2>2. CASE q = Pair(String("locators"), locators, None)
      <3>1. q.key = String("locators") /\ q.value = locators /\ q.note = None
        BY <2>2, PairIs
      <3> QED
        BY <1>4, <2>1, <3>1 DEF SectionAttached
    <2>3. CASE b.compare_via # None /\ q = Pair(String("compare_via"), Written(b.compare_via), None)
      <3>1. q.key = String("compare_via") /\ q.value = Written(b.compare_via) /\ q.note = None
        BY <2>3, PairIs
      <3>2. q.value \in Silent
        BY <1>1, <2>3, <3>1, TextsWritten, SilentKinds
      <3> QED
        BY <2>1, <3>1, <3>2 DEF SectionAttached
    <2>4. CASE b.fields # None /\ q = Pair(String("fields"), fields, None)
      <3>1. q.key = String("fields") /\ q.value = fields /\ q.note = None
        BY <2>4, PairIs
      <3>2. fields.type = "mapping" /\ PairsAttached(fields.pairs, "field_locator")
        BY <1>6, <2>4
      <3> QED
        BY <2>1, <3>1, <3>2 DEF SectionAttached
    <2>5. CASE b.wire # None /\ q = Pair(String("wire"), wire, None)
      <3>1. q.key = String("wire") /\ q.value = wire /\ q.note = None
        BY <2>5, PairIs
      <3>2. q.value \in Silent
        BY <1>7, <2>5, <3>1
      <3> QED
        BY <2>1, <3>1, <3>2 DEF SectionAttached
    <2>6. CASE b.asserted_by # None /\ q = Pair(String("asserted_by"), asserted, None)
      <3>1. q.key = String("asserted_by") /\ q.value = asserted /\ q.note = None
        BY <2>6, PairIs
      <3>2. asserted.type = "list" /\ ItemsAttached(asserted.items, "assertion")
        BY <1>8, <2>6
      <3> QED
        BY <2>1, <3>1, <3>2 DEF SectionAttached
    <2> QED
      BY <1>a, <2>2, <2>3, <2>4, <2>5, <2>6 DEF PairIf
  <1>24. Unnoted(v)
    BY <1>3, <1>23 DEF Unnoted, Parts
  <1> QED
    BY <1>18, <1>21, <1>22, <1>23, <1>24 DEF v

(***************************************************************************)
(* Coverage.                                                               *)
(***************************************************************************)
ListedOut(s) == List([n \in DOMAIN s |-> Item(Bare(s[n]), None)])
CuratedOut(d) ==
    Mapping([n \in DOMAIN d |->
               Pair(Bare(d[n].key), Written(d[n].value.reason), d[n].value.comment)])

LEMMA CoverageAt ==
  ASSUME NEW c \in CoverageType, c.curated # <<>>
  PROVE  LET v == WrittenCoverage(c)
         IN  /\ KeysOf(v) \subseteq {String(k) : k \in {"fully_bound", "curated"}}
             /\ Has(v, "fully_bound") <=> c.fully_bound # None
             /\ c.fully_bound # None => At(v, "fully_bound") = ListedOut(c.fully_bound)
             /\ Has(v, "curated") <=> c.curated # None
             /\ c.curated # None => At(v, "curated") = CuratedOut(c.curated)
  <1> DEFINE v == WrittenCoverage(c)
             w1 == ListedOut(OrEmpty(c.fully_bound))
             w2 == CuratedOut(OrEmpty(c.curated))
             p1 == Pair(String("fully_bound"), w1, None)
             p2 == Pair(String("curated"), w2, None)
  <1>1. Range(v.pairs) = PairIf(c.fully_bound # None, "fully_bound", w1)
                           \cup PairIf(c.curated # None, "curated", OrNull(w2, c.curated = <<>>))
    BY CoverageWritten DEF ListedOut, CuratedOut
  <1>2. OrNull(w2, c.curated = <<>>) = w2
    BY DEF OrNull
  <1>3. /\ c.fully_bound # None => w1 = ListedOut(c.fully_bound)
        /\ c.curated # None => w2 = CuratedOut(c.curated)
    BY DEF OrEmpty
  <1> HIDE DEF v, w1, w2
  <1>4. \A p : p \in Range(v.pairs) <=>
                 (c.fully_bound # None /\ p = p1) \/ (c.curated # None /\ p = p2)
    BY <1>1, <1>2 DEF PairIf
  <1>5. p1.key = String("fully_bound") /\ p1.value = w1 /\ p2.key = String("curated") /\ p2.value = w2
    BY PairIs
  <1> HIDE DEF p1, p2
  <1>6. String("fully_bound") # String("curated")
    BY StringsDiffer
  <1>7. KeysOf(v) \subseteq {String(k) : k \in {"fully_bound", "curated"}}
    BY <1>4, <1>5 DEF KeysOf
  <1>8. (Has(v, "fully_bound") <=> c.fully_bound # None)
        /\ (c.fully_bound # None => At(v, "fully_bound") = w1)
    <2>1. \A q \in Range(v.pairs) : q.key = String("fully_bound") => q = p1 /\ c.fully_bound # None
      BY <1>4, <1>5, <1>6
    <2>2. CASE c.fully_bound # None
      <3>1. p1 \in Range(v.pairs) /\ p1.key = String("fully_bound")
        BY <1>4, <1>5, <2>2
      <3>2. \A q \in Range(v.pairs) : q.key = String("fully_bound") => q = p1
        BY <2>1
      <3>3. Has(v, "fully_bound") /\ At(v, "fully_bound") = p1.value
        BY <3>1, <3>2, Found
      <3> QED
        BY <1>5, <2>2, <3>3
    <2>3. CASE c.fully_bound = None
      BY <2>1, <2>3, Missing
    <2> QED
      BY <2>2, <2>3
  <1>9. (Has(v, "curated") <=> c.curated # None) /\ (c.curated # None => At(v, "curated") = w2)
    <2>1. \A q \in Range(v.pairs) : q.key = String("curated") => q = p2 /\ c.curated # None
      BY <1>4, <1>5, <1>6
    <2>2. CASE c.curated # None
      <3>1. p2 \in Range(v.pairs) /\ p2.key = String("curated")
        BY <1>4, <1>5, <2>2
      <3>2. \A q \in Range(v.pairs) : q.key = String("curated") => q = p2
        BY <2>1
      <3>3. Has(v, "curated") /\ At(v, "curated") = p2.value
        BY <3>1, <3>2, Found
      <3> QED
        BY <1>5, <2>2, <3>3
    <2>3. CASE c.curated = None
      BY <2>1, <2>3, Missing
    <2> QED
      BY <2>2, <2>3
  <1> QED
    BY <1>3, <1>7, <1>8, <1>9 DEF v

LEMMA ListedBack ==
  ASSUME TextsReadBack, NEW s \in Seq(Texts), \A k \in Range(s) : Is(k, "kind")
  PROVE  LET items == ListedOut(s).items
         IN  /\ ListedOut(s).type = "list"
             /\ Represented([n \in DOMAIN items |-> AsText(items[n].value)]) = s
             /\ \A i \in Range(items) : IsString(i.value)
             /\ ListedOut(s) \in Silent
  <1> DEFINE items == ListedOut(s).items
             t == [n \in DOMAIN items |-> AsText(items[n].value)]
  <1>1. items = [n \in DOMAIN s |-> Item(Bare(s[n]), None)] /\ ListedOut(s).type = "list"
    BY DEF ListedOut, List
  <1>2. DOMAIN items = DOMAIN s
    BY <1>1
  <1>3. ASSUME NEW n \in DOMAIN s
        PROVE  t[n] = s[n] /\ IsString(items[n].value)
    <2>1. s[n] \in Texts /\ Is(s[n], "kind")
      BY ListProperties DEF Range
    <2>2. items[n].value = String(s[n])
      BY <1>1, <2>1 DEF TextsReadBack, Item
    <2>3. items[n].value.type = "string" /\ items[n].value.text = s[n]
      BY <2>2 DEF String, Scalar
    <2> HIDE DEF items
    <2> QED
      BY <1>2, <2>3 DEF AsText, IsString
  <1>4. s = [n \in DOMAIN s |-> s[n]]
    BY LenProperties
  <1>a. ListedOut(s) \in Silent
    <2>1. ASSUME NEW n \in DOMAIN s
          PROVE  /\ items[n] \in ItemsOf(Scalars)
                 /\ items[n].value \in Scalars /\ items[n].note = None
      <3>1. s[n] \in Texts
        BY ListProperties
      <3>2. Bare(s[n]) \in Scalars /\ None \in Note
        BY <3>1, TextsWritten, NotesAreTexts
      <3> QED
        BY <1>1, <3>2 DEF Item, ItemsOf
    <2>2. items = [n \in DOMAIN items |-> items[n]]
      BY <1>1
    <2>3. ListedOut(s) = List(items)
      BY <1>1 DEF ListedOut
    <2> HIDE DEF items
    <2>4. items \in Seq(ItemsOf(Scalars))
      BY <1>2, <2>1, <2>2, MappedList
    <2>5. List(items) \in ListsOf(Scalars) /\ List(items).items = items
      BY <2>4, Containers
    <2>6. \A i \in Range(items) : i.value \in Scalars /\ i.note = None
      BY <1>2, <2>1 DEF Range
    <2> QED
      BY <2>3, <2>5, <2>6, SilentKinds
  <1> HIDE DEF items
  <1>5. t = s
    BY <1>2, <1>3, <1>4
  <1>6. s \in Seq(Texts \cup {None})
    BY SeqMonotonic
  <1>7. Represented(s) = s
    BY <1>6, NotesAreTexts, RepresentedList
  <1> QED
    BY <1>1, <1>2, <1>3, <1>5, <1>7, <1>a DEF Range, items

LEMMA CuratedBack ==
  ASSUME TextsReadBack, NEW d \in DictsOf(Texts, [reason : Texts, comment : Note]),
         \A e \in Range(d) : Is(e.key, "kind") /\ ~Is(e.value.reason, "control")
  PROVE  LET pairs == CuratedOut(d).pairs
         IN  /\ CuratedOut(d).type = "mapping"
             /\ Dict([n \in DOMAIN pairs |-> CuratedEntry(pairs[n])]) = d
             /\ \A p \in Range(pairs) : IsString(p.value)
             /\ PairsAttached(pairs, "curated")
  <1> DEFINE pairs == CuratedOut(d).pairs
             R == [reason : Texts, comment : Note]
             E == [key : Texts, value : R]
             t == [n \in DOMAIN pairs |-> CuratedEntry(pairs[n])]
  <1>1. /\ pairs = [n \in DOMAIN d |->
                      Pair(Bare(d[n].key), Written(d[n].value.reason), d[n].value.comment)]
        /\ CuratedOut(d).type = "mapping"
    BY DEF CuratedOut, Mapping
  <1>2. d \in Seq(E) /\ UniqueKeys(d) /\ DOMAIN pairs = DOMAIN d
    BY <1>1 DEF DictsOf
  <1>3. ASSUME NEW n \in DOMAIN d
        PROVE  /\ t[n] = d[n] /\ IsString(pairs[n].value)
               /\ pairs[n].key.text = d[n].key /\ pairs[n].key.type # "merge"
               /\ pairs[n].value \in Silent /\ CuratedEntry(pairs[n]) # None
    <2>1. d[n] \in E
      BY <1>2, ListProperties
    <2>2. /\ d[n].key \in Texts /\ d[n].value.reason \in Texts
          /\ d[n] = [key |-> d[n].key,
                     value |-> [reason |-> d[n].value.reason, comment |-> d[n].value.comment]]
      BY <2>1
    <2>3. Is(d[n].key, "kind") /\ ~Is(d[n].value.reason, "control")
      BY DEF Range
    <2>4. Bare(d[n].key) = String(d[n].key) /\ Written(d[n].value.reason) = String(d[n].value.reason)
      BY <2>2, <2>3, TextsWritten DEF TextsReadBack
    <2>5. /\ pairs[n].key = String(d[n].key) /\ pairs[n].value = String(d[n].value.reason)
          /\ pairs[n].note = d[n].value.comment
      BY <1>1, <2>4 DEF Pair
    <2>6. /\ pairs[n].key.text = d[n].key /\ pairs[n].value.type = "string"
          /\ pairs[n].value.text = d[n].value.reason /\ pairs[n].key.type # "merge"
      BY <2>5 DEF String, Scalar
    <2> HIDE DEF pairs
    <2>7. CuratedEntry(pairs[n]) = d[n]
      BY <2>2, <2>5, <2>6 DEF CuratedEntry, IsString, Keyed
    <2>8. pairs[n].value \in Silent
      BY <2>2, <2>5, StringScalar, SilentKinds
    <2>9. d[n] # None
      BY <2>1, NoneAssumption DEF E, R
    <2> QED
      BY <1>2, <2>6, <2>7, <2>8, <2>9 DEF IsString
  <1>4. d = [n \in DOMAIN d |-> d[n]]
    BY <1>2, LenProperties
  <1> HIDE DEF pairs
  <1>5. t = d
    BY <1>2, <1>3, <1>4
  <1>6. None \notin E
    BY NoneAssumption
  <1> HIDE DEF E
  <1>7. Dict(d) = d
    BY <1>2, <1>6, DictOfUnique
  <1>8. PairsAttached(pairs, "curated")
    <2>1. \A m, n \in DOMAIN pairs : pairs[m].key.text = pairs[n].key.text => m = n
      BY <1>2, <1>3 DEF UniqueKeys
    <2>2. ASSUME NEW m \in DOMAIN pairs
          PROVE  m <= m
      BY <1>2, ListProperties
    <2> QED
      BY <1>2, <1>3, <2>1, <2>2 DEF PairsAttached, EntryOf
  <1> QED
    BY <1>1, <1>2, <1>3, <1>5, <1>7, <1>8 DEF Range, pairs

LEMMA CoverageBack ==
  ASSUME TextsReadBack, NEW c \in CoverageType, CoverageRules(c)
  PROVE  /\ Coverage(WrittenCoverage(c), c.comment) = c
         /\ CoverageFindings(WrittenCoverage(c)) = {}
         /\ CoverageAttached(WrittenCoverage(c))
  <1> DEFINE v == WrittenCoverage(c)
             listed == At(v, "fully_bound").items
             curated == At(v, "curated").pairs
             first == IF HasA(v, "fully_bound", "list")
                        THEN Represented([n \in DOMAIN listed |-> AsText(listed[n].value)]) ELSE None
             second == IF HasA(v, "curated", "mapping")
                         THEN Dict([n \in DOMAIN curated |-> CuratedEntry(curated[n])]) ELSE None
             items == IF HasA(v, "fully_bound", "list") THEN Range(listed) ELSE {}
             pairs == IF HasA(v, "curated", "mapping") THEN Range(curated) ELSE {}
             inside == {i.value : i \in items} \cup {p.value : p \in pairs}
  <1>1. /\ c.fully_bound \in Seq(Texts) \cup {None}
        /\ c.curated \in DictsOf(Texts, [reason : Texts, comment : Note]) \cup {None}
        /\ c = [fully_bound |-> c.fully_bound, curated |-> c.curated, comment |-> c.comment]
    BY DEF CoverageType
  <1>2. v.type = "mapping"
    BY CoverageWritten
  <1>3. c.curated # <<>>
    BY EmptyList, NoneAssumption DEF CoverageRules
  <1>4. /\ KeysOf(v) \subseteq {String(k) : k \in {"fully_bound", "curated"}}
        /\ Has(v, "fully_bound") <=> c.fully_bound # None
        /\ c.fully_bound # None => At(v, "fully_bound") = ListedOut(c.fully_bound)
        /\ Has(v, "curated") <=> c.curated # None
        /\ c.curated # None => At(v, "curated") = CuratedOut(c.curated)
    BY <1>3, CoverageAt
  <1>a. Range(v.pairs) =
          PairIf(c.fully_bound # None, "fully_bound", ListedOut(OrEmpty(c.fully_bound)))
            \cup PairIf(c.curated # None, "curated", CuratedOut(OrEmpty(c.curated)))
    <2>1. OrNull(CuratedOut(OrEmpty(c.curated)), c.curated = <<>>) = CuratedOut(OrEmpty(c.curated))
      BY <1>3 DEF OrNull
    <2> QED
      BY <2>1, CoverageWritten DEF ListedOut, CuratedOut
  <1> HIDE DEF v
  <1>5. /\ first = c.fully_bound /\ Mistyped(v, "fully_bound", "list") = {}
        /\ \A i \in items : IsString(i.value)
        /\ c.fully_bound # None => ListedOut(c.fully_bound) \in Silent
    <2>1. CASE c.fully_bound = None
      BY <1>4, <2>1 DEF HasA, Mistyped, CodeIf
    <2>2. CASE c.fully_bound # None
      <3>1. c.fully_bound \in Seq(Texts) /\ \A k \in Range(c.fully_bound) : Is(k, "kind")
        BY <1>1, <2>2 DEF CoverageRules
      <3>2. /\ At(v, "fully_bound").type = "list"
            /\ Represented([n \in DOMAIN listed |-> AsText(listed[n].value)]) = c.fully_bound
            /\ \A i \in Range(listed) : IsString(i.value)
            /\ ListedOut(c.fully_bound) \in Silent
        BY <1>4, <2>2, <3>1, ListedBack
      <3>3. HasA(v, "fully_bound", "list") /\ Mistyped(v, "fully_bound", "list") = {}
        BY <1>4, <2>2, <3>2 DEF HasA, Mistyped, CodeIf
      <3> HIDE DEF listed
      <3> QED
        BY <3>2, <3>3
    <2> QED
      BY <2>1, <2>2
  <1>6. /\ second = c.curated /\ Mistyped(v, "curated", "mapping") = {}
        /\ \A p \in pairs : IsString(p.value)
        /\ c.curated # None => /\ CuratedOut(c.curated).type = "mapping"
                               /\ PairsAttached(CuratedOut(c.curated).pairs, "curated")
    <2>1. CASE c.curated = None
      BY <1>4, <2>1 DEF HasA, Mistyped, CodeIf
    <2>2. CASE c.curated # None
      <3>1. /\ c.curated \in DictsOf(Texts, [reason : Texts, comment : Note])
            /\ \A e \in Range(c.curated) : Is(e.key, "kind") /\ ~Is(e.value.reason, "control")
        BY <1>1, <2>2 DEF CoverageRules
      <3>2. /\ At(v, "curated").type = "mapping"
            /\ Dict([n \in DOMAIN curated |-> CuratedEntry(curated[n])]) = c.curated
            /\ \A p \in Range(curated) : IsString(p.value)
            /\ CuratedOut(c.curated).type = "mapping"
            /\ PairsAttached(CuratedOut(c.curated).pairs, "curated")
        BY <1>4, <2>2, <3>1, CuratedBack
      <3>3. HasA(v, "curated", "mapping") /\ Mistyped(v, "curated", "mapping") = {}
        BY <1>4, <2>2, <3>2 DEF HasA, Mistyped, CodeIf
      <3> HIDE DEF curated
      <3> QED
        BY <3>2, <3>3
    <2> QED
      BY <2>1, <2>2
  <1>7. ClosedKeys(v, "coverage") = {}
    BY <1>4, BindingKeys, NoneUnknown
  <1>8. {x \in inside : ~IsString(x)} = {}
    <2> HIDE DEF items, pairs
    <2> QED
      BY <1>5, <1>6
  <1>9. CoverageFindings(v) =
          ClosedKeys(v, "coverage") \cup Mistyped(v, "fully_bound", "list")
            \cup Mistyped(v, "curated", "mapping") \cup Code("INV-CLOSED-KEYS", {x \in inside : ~IsString(x)})
    BY <1>2 DEF CoverageFindings
  <1>10. Coverage(v, c.comment) = [fully_bound |-> first, curated |-> second, comment |-> c.comment]
    BY <1>2 DEF Coverage
  <1> HIDE DEF first, second, inside
  <1>11. CoverageFindings(v) = {}
    BY <1>5, <1>6, <1>7, <1>8, <1>9 DEF Code
  <1>12. Coverage(v, c.comment) = c
    BY <1>1, <1>5, <1>6, <1>10
  <1>13. ASSUME NEW p \in Range(v.pairs)
         PROVE  /\ p.note = None
                /\ IF p.key = String("curated") /\ p.value.type = "mapping"
                     THEN PairsAttached(p.value.pairs, "curated") ELSE p.value \in Silent
    <2>1. CASE c.fully_bound # None /\ p = Pair(String("fully_bound"), ListedOut(c.fully_bound), None)
      <3>1. p.key = String("fully_bound") /\ p.value = ListedOut(c.fully_bound) /\ p.note = None
        BY <2>1, PairIs
      <3>2. String("fully_bound") # String("curated")
        BY StringsDiffer
      <3> QED
        BY <1>5, <2>1, <3>1, <3>2
    <2>2. CASE c.curated # None /\ p = Pair(String("curated"), CuratedOut(c.curated), None)
      <3>1. p.key = String("curated") /\ p.value = CuratedOut(c.curated) /\ p.note = None
        BY <2>2, PairIs
      <3> QED
        BY <1>6, <2>2, <3>1
    <2> QED
      BY <1>a, <2>1, <2>2 DEF PairIf, OrEmpty
  <1>14. Unnoted(v)
    BY <1>2, <1>13 DEF Unnoted, Parts
  <1>15. CoverageAttached(v)
    BY <1>13, <1>14 DEF CoverageAttached
  <1> QED
    BY <1>11, <1>12, <1>15 DEF v

(***************************************************************************)
(* The file.                                                               *)
(***************************************************************************)
BindingsOut(d) ==
    Mapping([n \in DOMAIN d |-> Pair(Bare(d[n].key), WrittenBinding(d[n].value), d[n].value.comment)])

LEMMA RootAt ==
  ASSUME NEW m \in MapType, m.schema_version = "1"
  PROVE  LET v == Emit(m).root
         IN  /\ KeysOf(v) \subseteq {String(k) : k \in {"schema_version", "bindings", "coverage"}}
             /\ Has(v, "schema_version") /\ At(v, "schema_version") = Scalar("integer", m.schema_version)
             /\ Has(v, "bindings") /\ At(v, "bindings") = BindingsOut(m.bindings)
             /\ Has(v, "coverage") <=> m.coverage # None
             /\ m.coverage # None => /\ At(v, "coverage") = WrittenCoverage(m.coverage)
                                     /\ PairAt(v, "coverage").note = m.coverage.comment
  <1> DEFINE v == Emit(m).root
             w1 == Scalar("integer", m.schema_version)
             w2 == BindingsOut(m.bindings)
             w3 == WrittenCoverage(m.coverage)
             p1 == Pair(String("schema_version"), w1, None)
             p2 == Pair(String("bindings"), w2, None)
             p3 == Pair(String("coverage"), w3, m.coverage.comment)
  <1>1. Range(v.pairs) = {p1, p2} \cup {p \in {p3} : m.coverage # None}
    BY EmitTyped DEF BindingsOut
  <1>2. /\ p1.key = String("schema_version") /\ p1.value = w1
        /\ p2.key = String("bindings") /\ p2.value = w2
        /\ p3.key = String("coverage") /\ p3.value = w3 /\ p3.note = m.coverage.comment
    BY PairIs
  <1> HIDE DEF v, w1, w2, w3, p1, p2, p3
  <1>3. \A p : p \in Range(v.pairs) <=> p = p1 \/ p = p2 \/ (m.coverage # None /\ p = p3)
    BY <1>1
  <1>4. /\ String("schema_version") # String("bindings")
        /\ String("schema_version") # String("coverage")
        /\ String("bindings") # String("coverage")
    BY StringsDiffer
  <1>5. KeysOf(v) \subseteq {String(k) : k \in {"schema_version", "bindings", "coverage"}}
    BY <1>2, <1>3 DEF KeysOf
  <1>6. Has(v, "schema_version") /\ At(v, "schema_version") = w1
    <2>1. p1 \in Range(v.pairs) /\ p1.key = String("schema_version")
      BY <1>2, <1>3
    <2>2. \A q \in Range(v.pairs) : q.key = String("schema_version") => q = p1
      BY <1>2, <1>3, <1>4
    <2> QED
      BY <1>2, <2>1, <2>2, Found
  <1>7. Has(v, "bindings") /\ At(v, "bindings") = w2
    <2>1. p2 \in Range(v.pairs) /\ p2.key = String("bindings")
      BY <1>2, <1>3
    <2>2. \A q \in Range(v.pairs) : q.key = String("bindings") => q = p2
      BY <1>2, <1>3, <1>4
    <2> QED
      BY <1>2, <2>1, <2>2, Found
  <1>8. /\ Has(v, "coverage") <=> m.coverage # None
        /\ m.coverage # None => /\ At(v, "coverage") = w3
                                /\ PairAt(v, "coverage").note = m.coverage.comment
    <2>1. \A q \in Range(v.pairs) : q.key = String("coverage") => q = p3 /\ m.coverage # None
      BY <1>2, <1>3, <1>4
    <2>2. CASE m.coverage # None
      <3>1. p3 \in Range(v.pairs) /\ p3.key = String("coverage")
        BY <1>2, <1>3, <2>2
      <3>2. \A q \in Range(v.pairs) : q.key = String("coverage") => q = p3
        BY <2>1
      <3>3. Has(v, "coverage") /\ PairAt(v, "coverage") = p3 /\ At(v, "coverage") = p3.value
        BY <3>1, <3>2, Found
      <3> QED
        BY <1>2, <2>2, <3>3
    <2>3. CASE m.coverage = None
      BY <2>1, <2>3, Missing
    <2> QED
      BY <2>2, <2>3
  <1> QED
    BY <1>5, <1>6, <1>7, <1>8 DEF v, w1, w2, w3

LEMMA BindingsBack ==
  ASSUME TextsReadBack, NEW d \in DictsOf(IdTexts, BindingType(Note)),
         \A e \in Range(d) : BindingRules(e.value, FALSE)
  PROVE  LET pairs == BindingsOut(d).pairs
         IN  /\ BindingsOut(d).type = "mapping"
             /\ Dict([n \in DOMAIN pairs |-> BindingEntry(pairs[n])]) = d
             /\ \A p \in Range(pairs) : /\ Is(p.key.text, "id") /\ BindingFindings(p.value) = {}
                                        /\ ~TwoCarriers(p.value, Binding(p.value, p.note))
                                        /\ BindingAttached(p)
  <1> DEFINE pairs == BindingsOut(d).pairs
             E == [key : IdTexts, value : BindingType(Note)]
             t == [n \in DOMAIN pairs |-> BindingEntry(pairs[n])]
  <1>1. /\ pairs = [n \in DOMAIN d |->
                      Pair(Bare(d[n].key), WrittenBinding(d[n].value), d[n].value.comment)]
        /\ BindingsOut(d).type = "mapping"
    BY DEF BindingsOut, Mapping
  <1>2. d \in Seq(E) /\ UniqueKeys(d) /\ DOMAIN pairs = DOMAIN d
    BY <1>1 DEF DictsOf
  <1>3. ASSUME NEW n \in DOMAIN d
        PROVE  /\ t[n] = d[n] /\ Is(pairs[n].key.text, "id") /\ BindingFindings(pairs[n].value) = {}
               /\ ~TwoCarriers(pairs[n].value, Binding(pairs[n].value, pairs[n].note))
               /\ BindingAttached(pairs[n])
    <2>1. d[n] \in E
      BY <1>2, ListProperties
    <2>2. /\ d[n].key \in Texts /\ Is(d[n].key, "id") /\ d[n].value \in BindingType(Note)
          /\ d[n] = [key |-> d[n].key, value |-> d[n].value]
      BY <2>1 DEF IdTexts
    <2>3. BindingRules(d[n].value, FALSE)
      BY DEF Range
    <2>4. Bare(d[n].key) = String(d[n].key)
      BY <2>2 DEF TextsReadBack
    <2>5. /\ pairs[n].key = String(d[n].key) /\ pairs[n].value = WrittenBinding(d[n].value)
          /\ pairs[n].note = d[n].value.comment
      BY <1>1, <2>4 DEF Pair
    <2>6. pairs[n].key.text = d[n].key
      BY <2>5 DEF String, Scalar
    <2>7. /\ Binding(pairs[n].value, pairs[n].note) = d[n].value /\ BindingFindings(pairs[n].value) = {}
          /\ ~Relocates(pairs[n].value, d[n].value) /\ Unnoted(pairs[n].value)
          /\ \A q \in Range(pairs[n].value.pairs) : SectionAttached(q)
      BY <2>2, <2>3, <2>5, BindingBack
    <2>8. d[n].value # None
      BY <2>2, BindingKinds, NotesAreTexts
    <2> HIDE DEF pairs
    <2>9. BindingEntry(pairs[n]) = d[n]
      BY <2>2, <2>6, <2>7, <2>8, RelocatedTyped DEF BindingEntry, Keyed
    <2>10. d[n] # None
      BY <2>2, BindingKinds, NotesAreTexts
    <2>11. BindingAttached(pairs[n])
      BY <2>7, <2>9, <2>10 DEF BindingAttached
    <2>12. ~TwoCarriers(pairs[n].value, Binding(pairs[n].value, pairs[n].note))
      BY <2>7 DEF TwoCarriers
    <2> QED
      BY <1>2, <2>2, <2>6, <2>7, <2>9, <2>11, <2>12
  <1>4. d = [n \in DOMAIN d |-> d[n]]
    BY <1>2, LenProperties
  <1> HIDE DEF pairs
  <1>5. t = d
    BY <1>2, <1>3, <1>4
  <1>6. None \notin E
    <2>1. E \subseteq [key : Texts, value : BindingType(Note)]
      BY DEF IdTexts
    <2> QED
      BY <2>1, BindingKinds, NotesAreTexts
  <1> HIDE DEF E
  <1>7. Dict(d) = d
    BY <1>2, <1>6, DictOfUnique
  <1>8. \A p \in Range(pairs) : /\ Is(p.key.text, "id") /\ BindingFindings(p.value) = {}
                               /\ ~TwoCarriers(p.value, Binding(p.value, p.note))
                               /\ BindingAttached(p)
    BY <1>2, <1>3 DEF Range
  <1> QED
    BY <1>1, <1>5, <1>7, <1>8 DEF pairs

LEMMA MapBack ==
  ASSUME TextsReadBack, NEW m \in MapType, MapRules(m)
  PROVE  /\ Map(Emit(m)) = m /\ ShapeFindings(Emit(m)) = {}
         /\ CarrierFindings(Emit(m)) = {} /\ Attached(Emit(m))
  <1> DEFINE f == Emit(m)
             v == f.root
             pairs == At(v, "bindings").pairs
             version == IF HasA(v, "schema_version", "integer")
                          THEN At(v, "schema_version").text ELSE None
             bindings == IF HasA(v, "bindings", "mapping")
                           THEN Dict([n \in DOMAIN pairs |-> BindingEntry(pairs[n])]) ELSE <<>>
             coverage == IF Has(v, "coverage")
                           THEN Coverage(At(v, "coverage"), PairAt(v, "coverage").note) ELSE None
             there == IF HasA(v, "bindings", "mapping") THEN Range(pairs) ELSE {}
             named == {p \in there : Is(p.key.text, "id")}
             within == UNION {BindingFindings(p.value) : p \in named}
             covering == IF Has(v, "coverage") THEN CoverageFindings(At(v, "coverage")) ELSE {}
  <1>1. /\ m.schema_version = "1" /\ m.schema_version \in Texts
        /\ m.bindings \in DictsOf(IdTexts, BindingType(Note))
        /\ m.coverage \in CoverageType \cup {None}
        /\ m = [schema_version |-> m.schema_version, bindings |-> m.bindings,
                coverage |-> m.coverage, header |-> m.header]
        /\ f.header = m.header
    BY KeyTexts DEF MapRules, MapType, IdTexts, Emit
  <1>2. /\ KeysOf(v) \subseteq {String(k) : k \in {"schema_version", "bindings", "coverage"}}
        /\ Has(v, "schema_version") /\ At(v, "schema_version") = Scalar("integer", m.schema_version)
        /\ Has(v, "bindings") /\ At(v, "bindings") = BindingsOut(m.bindings)
        /\ Has(v, "coverage") <=> m.coverage # None
        /\ m.coverage # None => /\ At(v, "coverage") = WrittenCoverage(m.coverage)
                                /\ PairAt(v, "coverage").note = m.coverage.comment
    BY <1>1, RootAt
  <1>a. Range(v.pairs) =
          {Pair(String("schema_version"), Scalar("integer", m.schema_version), None),
           Pair(String("bindings"), BindingsOut(m.bindings), None)}
            \cup {p \in {Pair(String("coverage"), WrittenCoverage(m.coverage), m.coverage.comment)} :
                    m.coverage # None}
    BY <1>1, EmitTyped DEF BindingsOut
  <1> HIDE DEF f
  <1>3. version = m.schema_version /\ Mistyped(v, "schema_version", "integer") = {}
    <2>1. At(v, "schema_version").type = "integer" /\ At(v, "schema_version").text = m.schema_version
      BY <1>2 DEF Scalar
    <2> QED
      BY <1>2, <2>1 DEF HasA, Mistyped, CodeIf
  <1>4. /\ BindingsOut(m.bindings).type = "mapping"
        /\ Dict([n \in DOMAIN pairs |-> BindingEntry(pairs[n])]) = m.bindings
        /\ \A p \in Range(pairs) : /\ Is(p.key.text, "id") /\ BindingFindings(p.value) = {}
                                   /\ ~TwoCarriers(p.value, Binding(p.value, p.note))
                                   /\ BindingAttached(p)
    <2>1. \A e \in Range(m.bindings) : BindingRules(e.value, FALSE)
      BY DEF MapRules
    <2> QED
      BY <1>1, <1>2, <2>1, BindingsBack
  <1>5. HasA(v, "bindings", "mapping") /\ Mistyped(v, "bindings", "mapping") = {}
    BY <1>2, <1>4 DEF HasA, Mistyped, CodeIf
  <1>6. bindings = m.bindings
    BY <1>4, <1>5
  <1>7. there \ named = {} /\ within = {}
    <2>1. there = Range(pairs)
      BY <1>5
    <2>2. \A p \in there : Is(p.key.text, "id") /\ BindingFindings(p.value) = {}
      BY <1>4, <2>1
    <2> HIDE DEF there
    <2>3. {BindingFindings(p.value) : p \in named} \subseteq {{}}
      BY <2>2
    <2>4. within = {}
      BY <2>3
    <2> QED
      BY <2>2, <2>4
  <1>8. /\ coverage = m.coverage /\ covering = {}
        /\ m.coverage # None => CoverageAttached(WrittenCoverage(m.coverage))
    <2>1. CASE m.coverage = None
      BY <1>2, <2>1
    <2>2. CASE m.coverage # None
      <3>1. m.coverage \in CoverageType /\ CoverageRules(m.coverage)
        BY <1>1, <2>2 DEF MapRules
      <3>2. /\ Coverage(WrittenCoverage(m.coverage), m.coverage.comment) = m.coverage
            /\ CoverageFindings(WrittenCoverage(m.coverage)) = {}
            /\ CoverageAttached(WrittenCoverage(m.coverage))
        BY <3>1, CoverageBack
      <3> QED
        BY <1>2, <2>2, <3>2
    <2> QED
      BY <2>1, <2>2
  <1>9. ClosedKeys(v, "document") = {}
    BY <1>2, BindingKeys, NoneUnknown
  <1>10. ShapeFindings(f) =
           ClosedKeys(v, "document")
             \cup Mistyped(v, "schema_version", "integer") \cup Mistyped(v, "bindings", "mapping")
             \cup Code("INV-ID-GRAMMAR", there \ named) \cup within \cup covering
    BY DEF ShapeFindings
  <1>11. Map(f) = [schema_version |-> version, bindings |-> bindings, coverage |-> coverage,
                   header |-> f.header]
    BY DEF Map
  <1>b. CarrierFindings(f) = {}
    <2>1. CarrierFindings(f) =
            CodeIf("INV-COMMENT-ANCHORED",
                   \E p \in there : Is(p.key.text, "id") /\ TwoCarriers(p.value, Binding(p.value, p.note)))
      BY DEF CarrierFindings
    <2>2. there = Range(pairs)
      BY <1>5
    <2> HIDE DEF there
    <2> QED
      BY <1>4, <2>1, <2>2 DEF CodeIf
  <1>c. Attached(f)
    <2> DEFINE Fits(p) ==
                 LET made == p.value.type = "mapping"
                 IN  /\ p.note # None => p.key = String("coverage") /\ made
                     /\ CASE p.key = String("bindings") /\ made ->
                               \A q \in Range(p.value.pairs) : BindingAttached(q)
                          [] p.key = String("coverage") /\ made -> CoverageAttached(p.value)
                          [] OTHER -> p.value \in Silent
    <2>1. /\ String("schema_version") # String("bindings")
          /\ String("schema_version") # String("coverage") /\ String("bindings") # String("coverage")
      BY StringsDiffer
    <2>2. ASSUME NEW p \in Range(v.pairs)
          PROVE  Fits(p)
      <3>1. CASE p = Pair(String("schema_version"), Scalar("integer", m.schema_version), None)
        <4>1. /\ p.key = String("schema_version") /\ p.value = Scalar("integer", m.schema_version)
              /\ p.note = None
          BY <3>1, PairIs
        <4>2. p.value \in Silent
          <5>1. "1" \in Texts /\ ~Is("1", "id") /\ ~Is("1", "kind")
            BY TraitAssumption
          <5>2. Scalar("integer", "1") \in Scalars
            BY <5>1 DEF Scalar, Scalars, ScalarTypes
          <5> QED
            BY <1>1, <4>1, <5>2, SilentKinds
        <4> QED
          BY <2>1, <4>1, <4>2
      <3>2. CASE p = Pair(String("bindings"), BindingsOut(m.bindings), None)
        <4>1. p.key = String("bindings") /\ p.value = BindingsOut(m.bindings) /\ p.note = None
          BY <3>2, PairIs
        <4>2. p.value.type = "mapping" /\ \A q \in Range(p.value.pairs) : BindingAttached(q)
          BY <1>2, <1>4, <4>1
        <4> QED
          BY <2>1, <4>1, <4>2
      <3>3. CASE m.coverage # None
                   /\ p = Pair(String("coverage"), WrittenCoverage(m.coverage), m.coverage.comment)
        <4>1. p.key = String("coverage") /\ p.value = WrittenCoverage(m.coverage)
          BY <3>3, PairIs
        <4>2. p.value.type = "mapping" /\ CoverageAttached(p.value)
          BY <1>1, <1>8, <3>3, <4>1, CoverageWritten
        <4> QED
          BY <2>1, <4>1, <4>2
      <3> QED
        BY <1>a, <3>1, <3>2, <3>3
    <2> HIDE DEF v
    <2> QED
      BY <2>2 DEF Attached, v
  <1> HIDE DEF version, bindings, coverage, there, named, within, covering
  <1>12. ShapeFindings(f) = {}
    BY <1>3, <1>5, <1>7, <1>8, <1>9, <1>10 DEF Code
  <1>13. Map(f) = m
    BY <1>1, <1>3, <1>6, <1>8, <1>11
  <1> QED
    BY <1>12, <1>13, <1>b, <1>c DEF f

(***************************************************************************)
(* What `get` answers, `set` takes back.  First entries: what is left of   *)
(* an entry of an answer without its comment and without nulls spells the  *)
(* strings of the entry again.                                             *)
(***************************************************************************)
NoNote == {None}
Uncommented(x) == [strings |-> x.strings, comment |-> None]

LEMMA NullableIs ==
  /\ \A t \in Texts : Nullable(t) = String(t) /\ String(t).type = "string" /\ String(t).text = t
  /\ Nullable(None) = Null /\ Null.type = "null"
  BY NullableTyped, StringScalar

(* The row of a key, which is null if there is no string at it.            *)
LEMMA RowOf ==
  ASSUME NEW node \in Nodes, NEW C \in SUBSET TextOrNone, NEW x \in EntryType(node, C),
         NEW k \in DOMAIN Shape[node].keys
  PROVE  LET p == Pair(String(k), Nullable(StringAt(x, k)), None)
         IN  /\ k \in DOMAIN x.strings => p = Pair(String(k), String(x.strings[k]), None)
             /\ IsNull(p) <=> k \notin DOMAIN x.strings
             /\ ~(p.key = String("comment"))
  <1> DEFINE p == Pair(String(k), Nullable(StringAt(x, k)), None)
  <1>1. k # "comment"
    BY ShapeFacts DEF Nodes
  <1>2. p.key = String(k) /\ p.value = Nullable(StringAt(x, k))
    BY PairIs
  <1>3. CASE k \in DOMAIN x.strings
    <2>1. x.strings[k] \in Texts /\ StringAt(x, k) = x.strings[k]
      BY <1>3, EntryParts DEF StringAt
    <2>2. Nullable(StringAt(x, k)) = String(x.strings[k]) /\ String(x.strings[k]).type = "string"
      BY <2>1, NullableIs
    <2> QED
      BY <1>1, <1>2, <1>3, <2>2, StringsDiffer DEF IsNull
  <1>4. CASE k \notin DOMAIN x.strings
    <2>1. StringAt(x, k) = None
      BY <1>4 DEF StringAt
    <2> QED
      BY <1>1, <1>2, <1>4, <2>1, NullableIs, StringsDiffer DEF IsNull
  <1> QED
    BY <1>3, <1>4

LEMMA EntryPlain ==
  ASSUME NEW node \in Nodes, NEW C \in SUBSET TextOrNone, NEW x \in EntryType(node, C),
         NEW v, v = FlatOut(x, node)
  PROVE  /\ v \in EntryValues /\ v.type = "mapping" /\ Spells(Plain(v), x)
         /\ CommentOf(v) = x.comment /\ CommentFindings(v) = {}
  <1> DEFINE K == DOMAIN Shape[node].keys
             row(k) == Pair(String(k), Nullable(StringAt(x, k)), None)
             last == Pair(String("comment"), Nullable(x.comment), None)
  <1>1. /\ v \in EntryValues /\ v.type = "mapping" /\ v \in Values(Values({}))
        /\ Range(v.pairs) = {row(k) : k \in K} \cup {last}
    BY EntryParts, FlatShown, Layers
  <1>2. \A k \in K : /\ k \in DOMAIN x.strings => row(k) = Pair(String(k), String(x.strings[k]), None)
                     /\ IsNull(row(k)) <=> k \notin DOMAIN x.strings
                     /\ row(k).key # String("comment")
    BY RowOf
  <1>3. last.key = String("comment") /\ last.value = Nullable(x.comment)
    BY PairIs
  <1>4. DOMAIN x.strings \subseteq K /\ x.comment \in TextOrNone
    BY EntryParts
  <1> HIDE DEF K, row, last
  <1>5. {p \in Range(v.pairs) : ~NullOrComment(p)} = {row(k) : k \in DOMAIN x.strings}
    BY <1>1, <1>2, <1>3, <1>4 DEF NullOrComment
  <1>6. {row(k) : k \in DOMAIN x.strings} =
          {Pair(String(k), String(x.strings[k]), None) : k \in DOMAIN x.strings}
    BY <1>2, <1>4
  <1>7. Plain(v).type = "mapping" /\ Range(Plain(v).pairs) = {p \in Range(v.pairs) : ~NullOrComment(p)}
    BY <1>1, PlainIs
  <1>8. Spells(Plain(v), x)
    BY <1>5, <1>6, <1>7 DEF Spells
  <1>9. Has(v, "comment") /\ At(v, "comment") = Nullable(x.comment)
    <2>1. last \in Range(v.pairs)
      BY <1>1
    <2>2. \A q \in Range(v.pairs) : q.key = String("comment") => q = last
      BY <1>1, <1>2
    <2> QED
      BY <1>3, <2>1, <2>2, Found
  <1>10. CommentOf(v) = x.comment /\ CommentFindings(v) = {}
    <2>1. CASE x.comment = None
      <3>1. At(v, "comment").type = "null"
        BY <1>9, <2>1, NullableIs
      <3> QED
        BY <1>1, <1>9, <2>1, <3>1 DEF CommentOf, TextAt, HasA, CommentFindings, CodeIf
    <2>2. CASE x.comment # None
      <3>1. At(v, "comment").type = "string" /\ At(v, "comment").text = x.comment
        BY <1>4, <1>9, <2>2, NullableIs DEF TextOrNone
      <3> QED
        BY <1>1, <1>9, <3>1 DEF CommentOf, TextAt, HasA, CommentFindings, CodeIf
    <2> QED
      BY <2>1, <2>2
  <1> QED
    BY <1>1, <1>8, <1>10

LEMMA AnsweredEntry ==
  ASSUME NEW node \in Nodes, NEW C \in SUBSET TextOrNone, NEW x \in EntryType(node, C),
         NEW v, v = FlatOut(x, node)
  PROVE  /\ Flat(Plain(v), node, None) = Uncommented(x) /\ FlatFindings(Plain(v), node) = {}
         /\ Uncommented(x) \in EntryType(node, NoNote)
         /\ [Uncommented(x) EXCEPT !.comment = x.comment] = x
  <1>1. x = [strings |-> x.strings, comment |-> x.comment] /\ x.comment \in C
    BY DEF EntryType
  <1> DEFINE y == Uncommented(x)
  <1>2. y \in EntryType(node, NoNote)
    BY DEF EntryType, Uncommented, NoNote
  <1>3. y.strings = x.strings /\ y.comment = None
    BY DEF Uncommented
  <1>4. [y EXCEPT !.comment = x.comment] = x
    BY <1>1 DEF Uncommented
  <1> HIDE DEF y
  <1>5. Spells(Plain(v), y)
    BY <1>3, EntryPlain DEF Spells
  <1>6. Flat(Plain(v), node, y.comment) = y /\ FlatFindings(Plain(v), node) = {}
    BY <1>2, <1>5, SpelledFlat
  <1> QED
    BY <1>2, <1>3, <1>4, <1>6 DEF y

(***************************************************************************)
(* Lists of them, and fields: the comments find their entries again.       *)
(***************************************************************************)
LEMMA AnsweredList ==
  ASSUME NEW node \in Nodes, NEW s \in Seq(EntryType(node, Note)),
         NEW items, items = EntriesOut(s, node).items
  PROVE  /\ Reattached(Entries(PlainItems(items).items, node),
                       [n \in DOMAIN items |-> CommentOf(items[n].value)]) = s
         /\ Entries(PlainItems(items).items, node) # None
         /\ \A i \in Range(PlainItems(items).items) : FlatFindings(i.value, node) = {}
         /\ \A i \in Range(items) : CommentFindings(i.value) = {}
  <1> DEFINE E == EntryType(node, NoNote)
             plain == PlainItems(items).items
             t == [n \in DOMAIN plain |-> Flat(plain[n].value, node, plain[n].note)]
             u == [n \in DOMAIN s |-> Uncommented(s[n])]
             c == [n \in DOMAIN items |-> CommentOf(items[n].value)]
  <1>0. NoNote \in SUBSET TextOrNone /\ Note \in SUBSET TextOrNone
    BY NotesAreTexts DEF NoNote
  <1>1. items = [n \in DOMAIN s |-> Item(FlatOut(s[n], node), None)]
    BY DEF EntriesOut, List
  <1>2. items \in Seq(ItemsOf(EntryValues))
    BY <1>0, <1>1, EntriesShown
  <1>3. plain = [n \in DOMAIN items |-> Item(Plain(items[n].value), None)]
    BY DEF PlainItems, List
  <1>4. DOMAIN items = DOMAIN s /\ DOMAIN plain = DOMAIN s
    BY <1>1, <1>3
  <1>5. ASSUME NEW n \in DOMAIN s
        PROVE  /\ t[n] = u[n] /\ u[n] \in E /\ c[n] = s[n].comment
               /\ [u[n] EXCEPT !.comment = c[n]] = s[n]
               /\ FlatFindings(plain[n].value, node) = {} /\ CommentFindings(items[n].value) = {}
    <2>1. s[n] \in EntryType(node, Note)
      BY ListProperties
    <2>2. items[n].value = FlatOut(s[n], node)
      BY <1>1 DEF Item
    <2>3. plain[n].value = Plain(items[n].value) /\ plain[n].note = None
      BY <1>3, <1>4 DEF Item
    <2>4. /\ Flat(plain[n].value, node, None) = Uncommented(s[n])
          /\ FlatFindings(plain[n].value, node) = {} /\ Uncommented(s[n]) \in E
          /\ [Uncommented(s[n]) EXCEPT !.comment = s[n].comment] = s[n]
      <3>1. /\ Flat(Plain(items[n].value), node, None) = Uncommented(s[n])
            /\ FlatFindings(Plain(items[n].value), node) = {}
            /\ Uncommented(s[n]) \in EntryType(node, NoNote)
            /\ [Uncommented(s[n]) EXCEPT !.comment = s[n].comment] = s[n]
        BY <1>0, <2>1, <2>2, AnsweredEntry
      <3> HIDE DEF plain
      <3> QED
        BY <1>0, <2>3, <3>1
    <2>5. CommentOf(items[n].value) = s[n].comment /\ CommentFindings(items[n].value) = {}
      BY <1>0, <2>1, <2>2, EntryPlain
    <2>6. t[n] = Flat(plain[n].value, node, plain[n].note) /\ u[n] = Uncommented(s[n])
          /\ c[n] = CommentOf(items[n].value)
      BY <1>4
    <2> HIDE DEF t, u, c, plain, E
    <2> QED
      BY <2>3, <2>4, <2>5, <2>6
  <1>6. t = u
    <2> HIDE DEF plain
    <2> QED
      BY <1>4, <1>5
  <1>7. u \in Seq(E) /\ Len(u) = Len(s) /\ DOMAIN u = DOMAIN s
    <2>1. u = [n \in DOMAIN u |-> u[n]] /\ DOMAIN u = DOMAIN s
      OBVIOUS
    <2>2. \A n \in DOMAIN s : u[n] \in E
      BY <1>5
    <2> HIDE DEF u, E
    <2> QED
      BY <2>1, <2>2, MappedList
  <1>8. None \notin E
    BY <1>0, EntryKinds
  <1>9. Represented(u) = u
    <2>1. u \in Seq(E \cup {None})
      BY <1>7, SeqMonotonic
    <2> HIDE DEF u, E
    <2> QED
      BY <1>7, <1>8, <2>1, RepresentedList
  <1>10. Entries(plain, node) = u
    BY <1>6, <1>9 DEF Entries
  <1>11. Len(c) = Len(u)
    <2>1. Len(c) = Len(items)
      <3> DEFINE T == {CommentOf(items[n].value) : n \in DOMAIN items}
      <3>1. \A n \in DOMAIN items : c[n] \in T
        OBVIOUS
      <3>2. c = [n \in DOMAIN c |-> c[n]] /\ DOMAIN c = DOMAIN items
        OBVIOUS
      <3> HIDE DEF c, T
      <3> QED
        BY <1>2, <3>1, <3>2, MappedList
    <2>2. Len(items) = Len(s)
      BY <1>2, <1>4, ListProperties
    <2> QED
      BY <1>7, <2>1, <2>2
  <1>12. Reattached(u, c) = [n \in DOMAIN s |-> [u[n] EXCEPT !.comment = c[n]]]
    <2> HIDE DEF u, c
    <2> QED
      BY <1>7, <1>11 DEF Reattached
  <1>13. s = [n \in DOMAIN s |-> s[n]]
    BY LenProperties
  <1>14. Reattached(u, c) = s
    <2> HIDE DEF u, c
    <2> QED
      BY <1>5, <1>12, <1>13
  <1>15. /\ \A i \in Range(plain) : FlatFindings(i.value, node) = {}
         /\ \A i \in Range(items) : CommentFindings(i.value) = {}
    <2> HIDE DEF plain
    <2> QED
      BY <1>4, <1>5 DEF Range
  <1>16. u # None
    <2>1. None \notin Seq(E)
      BY <1>0, EntryKinds
    <2> HIDE DEF u, E
    <2> QED
      BY <1>7, <2>1
  <1> QED
    BY <1>10, <1>14, <1>15, <1>16

LEMMA AnsweredFields ==
  ASSUME NEW d \in DictsOf(Texts, EntryType("field_locator", Note)), NEW v,
         v = Object([n \in DOMAIN d |-> <<d[n].key, FlatOut(d[n].value, "field_locator")>>])
  PROVE  LET f == Fields(PlainPairs(v.pairs).pairs)
         IN  /\ [n \in DOMAIN f |-> [f[n] EXCEPT !.value.comment = CommentOf(At(v, f[n].key))]] = d
             /\ f # None
             /\ \A p \in Range(PlainPairs(v.pairs).pairs) : FlatFindings(p.value, "field_locator") = {}
             /\ \A p \in Range(v.pairs) : CommentFindings(p.value) = {}
  <1> DEFINE E == [key : Texts, value : EntryType("field_locator", NoNote)]
             D == [key : Texts, value : EntryType("field_locator", Note)]
             pairs == v.pairs
             plain == PlainPairs(pairs).pairs
             t == [n \in DOMAIN plain |-> FieldEntry(plain[n])]
             u == [n \in DOMAIN d |-> [key |-> d[n].key, value |-> Uncommented(d[n].value)]]
  <1>0. NoNote \in SUBSET TextOrNone /\ Note \in SUBSET TextOrNone /\ "field_locator" \in Nodes
    BY NotesAreTexts DEF Nodes, NoNote
  <1>1. pairs \in Seq(PairsOf(EntryValues))
        /\ pairs = [n \in DOMAIN d |-> Pair(String(d[n].key), FlatOut(d[n].value, "field_locator"), None)]
    BY FieldsShown
  <1>2. plain = [n \in DOMAIN pairs |-> Pair(pairs[n].key, Plain(pairs[n].value), None)]
    BY DEF PlainPairs, Mapping
  <1>3. d \in Seq(D) /\ UniqueKeys(d) /\ DOMAIN pairs = DOMAIN d /\ DOMAIN plain = DOMAIN d
    BY <1>1, <1>2 DEF DictsOf
  <1>4. ASSUME NEW n \in DOMAIN d
        PROVE  /\ d[n].key \in Texts /\ d[n] = [key |-> d[n].key, value |-> d[n].value]
               /\ pairs[n].key = String(d[n].key) /\ pairs[n] \in Range(pairs)
               /\ t[n] = u[n] /\ u[n] \in E
               /\ CommentOf(pairs[n].value) = d[n].value.comment
               /\ [Uncommented(d[n].value) EXCEPT !.comment = d[n].value.comment] = d[n].value
               /\ FlatFindings(plain[n].value, "field_locator") = {}
               /\ CommentFindings(pairs[n].value) = {}
    <2>1. d[n] \in D
      BY <1>3, ListProperties
    <2>2. /\ d[n].key \in Texts /\ d[n].value \in EntryType("field_locator", Note)
          /\ d[n] = [key |-> d[n].key, value |-> d[n].value]
      BY <2>1
    <2>3. pairs[n].key = String(d[n].key) /\ pairs[n].value = FlatOut(d[n].value, "field_locator")
      BY <1>1, PairIs
    <2>4. plain[n].key = pairs[n].key /\ plain[n].value = Plain(pairs[n].value) /\ plain[n].note = None
      <3> HIDE DEF plain, pairs
      <3>1. plain[n] = Pair(pairs[n].key, Plain(pairs[n].value), None)
        BY <1>2, <1>3
      <3> QED
        BY <3>1, PairIs
    <2>5. /\ Flat(plain[n].value, "field_locator", None) = Uncommented(d[n].value)
          /\ FlatFindings(plain[n].value, "field_locator") = {}
          /\ Uncommented(d[n].value) \in EntryType("field_locator", NoNote)
          /\ [Uncommented(d[n].value) EXCEPT !.comment = d[n].value.comment] = d[n].value
      <3> HIDE DEF pairs, plain, t, u, D, E
      <3>1. /\ Flat(Plain(pairs[n].value), "field_locator", None) = Uncommented(d[n].value)
            /\ FlatFindings(Plain(pairs[n].value), "field_locator") = {}
            /\ Uncommented(d[n].value) \in EntryType("field_locator", NoNote)
            /\ [Uncommented(d[n].value) EXCEPT !.comment = d[n].value.comment] = d[n].value
        BY <1>0, <2>2, <2>3, AnsweredEntry
      <3> QED
        BY <2>4, <3>1
    <2>6. CommentOf(pairs[n].value) = d[n].value.comment /\ CommentFindings(pairs[n].value) = {}
      BY <1>0, <2>2, <2>3, EntryPlain
    <2>7. t[n] = FieldEntry(plain[n]) /\ u[n] = [key |-> d[n].key, value |-> Uncommented(d[n].value)]
      BY <1>3
    <2>8. Uncommented(d[n].value) # None
      <3> HIDE DEF pairs, plain, t, u, D, E
      <3> QED
        BY <1>0, <2>5, EntryKinds
    <2>9. plain[n].key.text = d[n].key
      <3>1. plain[n].key = String(d[n].key) /\ String(d[n].key).text = d[n].key
        BY <2>2, <2>3, <2>4, StringScalar
      <3> HIDE DEF plain
      <3> QED
        BY <3>1
    <2>10. pairs[n] \in Range(pairs)
      BY <1>3 DEF Range
    <2> HIDE DEF t, u, plain, pairs, D
    <2>11. FieldEntry(plain[n]) = [key |-> d[n].key, value |-> Uncommented(d[n].value)]
      BY <2>4, <2>5, <2>8, <2>9 DEF FieldEntry, Keyed
    <2> QED
      BY <2>2, <2>3, <2>5, <2>6, <2>7, <2>10, <2>11
  <1>5. t = u /\ DOMAIN u = DOMAIN d
    <2>1. DOMAIN t = DOMAIN d /\ DOMAIN u = DOMAIN d /\ t = [n \in DOMAIN t |-> t[n]]
          /\ u = [n \in DOMAIN u |-> u[n]]
      BY <1>3
    <2> HIDE DEF t, u
    <2> QED
      BY <1>4, <2>1
  <1>6. u \in Seq(E) /\ UniqueKeys(u)
    <2>1. u = [n \in DOMAIN u |-> u[n]] /\ \A n \in DOMAIN d : u[n].key = d[n].key
      OBVIOUS
    <2>2. \A n \in DOMAIN d : u[n] \in E
      BY <1>4
    <2>3. d \in Seq(D) /\ UniqueKeys(d) /\ DOMAIN u = DOMAIN d
      BY <1>3, <1>5
    <2> HIDE DEF t, u, E, D
    <2>4. u \in Seq(E)
      BY <2>1, <2>2, <2>3, MappedList
    <2> QED
      BY <2>1, <2>3, <2>4 DEF UniqueKeys
  <1>7. None \notin E
    BY <1>0, EntryKinds
  <1>8. Fields(plain) = u
    <2>1. Dict(u) = u
      <3> HIDE DEF u, E
      <3> QED
        BY <1>6, <1>7, DictOfUnique
    <2> QED
      BY <1>5, <2>1 DEF Fields
  <1> DEFINE f == [n \in DOMAIN u |-> [u[n] EXCEPT !.value.comment = CommentOf(At(v, u[n].key))]]
  <1>9. ASSUME NEW n \in DOMAIN d
        PROVE  f[n] = d[n]
    <2>1. u[n] = [key |-> d[n].key, value |-> Uncommented(d[n].value)]
      OBVIOUS
    <2>2. UniqueKeys(pairs)
      <3>1. \A k \in DOMAIN d : pairs[k].key = String(d[k].key)
        BY <1>4
      <3> HIDE DEF pairs
      <3> QED
        BY <1>3, <3>1, StringsDiffer DEF UniqueKeys
    <2>3. At(v, d[n].key) = pairs[n].value
      <3>1. pairs[n] \in Range(v.pairs) /\ pairs[n].key = String(d[n].key) /\ UniqueKeys(v.pairs)
        BY <1>4, <2>2
      <3> HIDE DEF pairs
      <3> QED
        BY <3>1, OnePairAt
    <2>4. CommentOf(At(v, u[n].key)) = d[n].value.comment
      BY <1>4, <2>1, <2>3
    <2> DEFINE comment == CommentOf(At(v, u[n].key))
    <2>5. f[n] = [u[n] EXCEPT !.value.comment = comment]
      BY <1>5
    <2> HIDE DEF f, u, comment
    <2>6. f[n] = [key |-> d[n].key, value |-> [Uncommented(d[n].value) EXCEPT !.comment = comment]]
      BY <2>1, <2>5
    <2> QED
      BY <1>4, <2>4, <2>6 DEF comment
  <1>10. f = d
    <2>1. DOMAIN f = DOMAIN d /\ f = [n \in DOMAIN f |-> f[n]]
      BY <1>5
    <2>2. d = [n \in DOMAIN d |-> d[n]]
      BY <1>3, LenProperties
    <2> HIDE DEF f
    <2> QED
      BY <1>9, <2>1, <2>2
  <1>11. /\ \A p \in Range(plain) : FlatFindings(p.value, "field_locator") = {}
         /\ \A p \in Range(pairs) : CommentFindings(p.value) = {}
    <2> HIDE DEF plain, pairs
    <2> QED
      BY <1>3, <1>4 DEF Range
  <1> DEFINE g == Fields(PlainPairs(v.pairs).pairs)
  <1>12. g = u
    BY <1>8
  <1> HIDE DEF g
  <1>13. [n \in DOMAIN g |-> [g[n] EXCEPT !.value.comment = CommentOf(At(v, g[n].key))]] = d
    <2> HIDE DEF u
    <2> QED
      BY <1>10, <1>12
  <1>14. u # None
    <2>1. u \in DictsOf(Texts, EntryType("field_locator", NoNote))
      BY <1>6 DEF DictsOf
    <2>2. None \notin DictsOf(Texts, EntryType("field_locator", NoNote))
      BY <1>0, EntryKinds
    <2> HIDE DEF u
    <2> QED
      BY <2>1, <2>2
  <1> QED
    BY <1>11, <1>12, <1>13, <1>14 DEF g

(***************************************************************************)
(* Bindings.                                                               *)
(***************************************************************************)
(* What a section of a document becomes: itself without comments, unless   *)
(* it is null.                                                             *)
LEMMA SectionLeft ==
  ASSUME NEW v \in InputDocuments, v.type = "mapping", NEW k \in SectionKeys,
         NEW p \in Range(v.pairs), p.key = String(k)
  PROVE  /\ PairAt(v, k) = p /\ At(v, k) = p.value /\ Has(v, k)
         /\ Has(StrippedBinding(v), k) <=> p.value.type # "null"
         /\ p.value.type # "null" =>
              At(StrippedBinding(v), k) = Stripped(p)
              /\ At(StrippedBinding(v), k).type = p.value.type
  <1> DEFINE b == StrippedBinding(v)
  <1>1. v \in DocumentValues /\ UniqueKeys(v.pairs)
    BY DocumentParts
  <1>2. PairAt(v, k) = p /\ At(v, k) = p.value /\ Has(v, k)
    BY <1>1, OnePairAt
  <1>3. Range(b.pairs) = {Pair(q.key, Stripped(q), None) : q \in Kept(v)}
    BY <1>1, StrippedBindingIs
  <1>4. k \notin {"id", "kind", "comment"}
    BY DEF SectionKeys
  <1> HIDE DEF b
  <1>5. ASSUME p.value.type # "null"
        PROVE  Has(b, k)
    <2>1. p \in Kept(v)
      BY <1>4, <1>5, StringsDiffer DEF Kept, NullOrComment, IsNull
    <2>2. Pair(p.key, Stripped(p), None) \in Range(b.pairs)
          /\ Pair(p.key, Stripped(p), None).key = String(k)
      BY <1>3, <2>1, PairIs
    <2> QED
      BY <2>2 DEF Has, KeysOf
  <1>6. ASSUME Has(b, k)
        PROVE  /\ p.value.type # "null" /\ At(b, k) = Stripped(p) /\ At(b, k).type = p.value.type
    <2>1. ~IsNull(PairAt(v, k)) /\ At(b, k) = Stripped(PairAt(v, k)) /\ At(b, k).type = At(v, k).type
      BY <1>6, StrippedAt DEF b
    <2> QED
      BY <1>2, <2>1 DEF IsNull
  <1> QED
    BY <1>2, <1>5, <1>6 DEF b

(* The wire block of an answer.                                            *)
LEMMA AnsweredWire ==
  ASSUME NEW x \in EntryType("wire", NoNote), NEW v, v = Object(Columns(x, "wire"))
  PROVE  /\ v.type = "mapping" /\ Flat(Without(v, IsNull), "wire", None) = x
         /\ FlatFindings(Without(v, IsNull), "wire") = {}
  <1> DEFINE K == DOMAIN Shape["wire"].keys
             rows == Columns(x, "wire")
             row(k) == Pair(String(k), Nullable(StringAt(x, k)), None)
  <1>1. "wire" \in Nodes /\ NoNote \in SUBSET TextOrNone
    BY NotesAreTexts DEF Nodes, NoNote
  <1>2. DOMAIN x.strings \subseteq K /\ x.strings \in [DOMAIN x.strings -> Texts]
        /\ x.comment \in NoNote
    BY <1>1, EntryParts
  <1>3. rows \in Seq(Texts \X Values({}))
        /\ Range(rows) = {<<k, Nullable(StringAt(x, k))>> : k \in K}
    BY <1>1, <1>2, ColumnsTyped
  <1>4. /\ v \in Values(Values({})) /\ v.type = "mapping"
        /\ Range(v.pairs) = {Pair(String(r[1]), r[2], None) : r \in Range(rows)}
    <2> HIDE DEF rows
    <2> QED
      BY <1>3, ObjectTyped DEF rows
  <1>5. Range(v.pairs) = {row(k) : k \in K}
    <2> DEFINE G(r) == Pair(String(r[1]), r[2], None)
    <2>1. \A k : G(<<k, Nullable(StringAt(x, k))>>) = row(k)
      OBVIOUS
    <2>2. Range(v.pairs) = {G(r) : r \in Range(rows)}
      BY <1>4
    <2> HIDE DEF G, row, rows, K
    <2>3. Range(v.pairs) = {G(<<k, Nullable(StringAt(x, k))>>) : k \in K}
      BY <1>3, <2>2
    <2> QED
      BY <2>1, <2>3
  <1>6. \A k \in K : /\ k \in DOMAIN x.strings => row(k) = Pair(String(k), String(x.strings[k]), None)
                     /\ IsNull(row(k)) <=> k \notin DOMAIN x.strings
    BY <1>1, RowOf
  <1> HIDE DEF K, row
  <1>7. {p \in Range(v.pairs) : ~IsNull(p)} = {row(k) : k \in DOMAIN x.strings}
    BY <1>2, <1>5, <1>6
  <1>8. {row(k) : k \in DOMAIN x.strings} =
          {Pair(String(k), String(x.strings[k]), None) : k \in DOMAIN x.strings}
    BY <1>2, <1>6
  <1>9. Spells(Without(v, IsNull), x)
    BY <1>4, <1>7, <1>8, WithoutNulls DEF Spells
  <1>10. x.comment = None
    BY <1>2 DEF NoNote
  <1> QED
    BY <1>1, <1>4, <1>9, <1>10, SpelledFlat

(* The sections of what `set` makes of an answer.                          *)
LEMMA SectionsLeft ==
  ASSUME NEW id \in IdTexts, NEW b \in BindingType(Note)
  PROVE  LET out == BindingOut(id, b)
             v == StrippedBinding(out)
         IN  /\ KeysOf(v) \subseteq {String(k) : k \in SectionKeys}
             /\ Has(v, "locators") /\ At(out, "locators") = EntriesOut(b.locators, "locator")
             /\ At(v, "locators") = PlainItems(EntriesOut(b.locators, "locator").items)
             /\ Has(v, "compare_via") <=> b.compare_via # None
             /\ b.compare_via # None => At(v, "compare_via") = String(b.compare_via)
             /\ Has(v, "fields") <=> b.fields # None
             /\ b.fields # None => /\ At(out, "fields") = FieldsOut(b)
                                   /\ At(v, "fields") = PlainPairs(FieldsOut(b).pairs)
             /\ Has(v, "wire") <=> b.wire # None
             /\ b.wire # None => At(v, "wire") = Without(WireOut(b), IsNull)
             /\ Has(v, "asserted_by") <=> b.asserted_by # None
             /\ b.asserted_by # None =>
                  /\ At(out, "asserted_by") = EntriesOut(b.asserted_by, "assertion")
                  /\ At(v, "asserted_by") = PlainItems(EntriesOut(b.asserted_by, "assertion").items)
             /\ b.fields = None => ~HasA(out, "fields", "mapping")
             /\ b.asserted_by = None => ~HasA(out, "asserted_by", "list")
             /\ HasA(out, "locators", "list")
             /\ b.fields # None => HasA(out, "fields", "mapping")
             /\ b.asserted_by # None => HasA(out, "asserted_by", "list")
  <1> DEFINE out == BindingOut(id, b)
             v == StrippedBinding(out)
             w1 == EntriesOut(b.locators, "locator")
             w2 == Nullable(b.compare_via)
             w3 == FieldsOut(b)
             w4 == WireOut(b)
             w5 == AssertedOut(b)
             p1 == Pair(String("locators"), w1, None)
             p2 == Pair(String("compare_via"), w2, None)
             p3 == Pair(String("fields"), w3, None)
             p4 == Pair(String("wire"), w4, None)
             p5 == Pair(String("asserted_by"), w5, None)
             q1 == Pair(String("id"), String(id), None)
             q2 == Pair(String("kind"), String(KindOf[id]), None)
             q3 == Pair(String("comment"), Nullable(b.comment), None)
  <1>1. /\ out \in InputDocuments /\ out.type = "mapping"
        /\ Range(out.pairs) = {q1, q2, q3, p1, p2, p3, p4, p5}
    BY BindingShown
  <1>2. /\ p1.key = String("locators") /\ p1.value = w1 /\ p2.key = String("compare_via") /\ p2.value = w2
        /\ p3.key = String("fields") /\ p3.value = w3 /\ p4.key = String("wire") /\ p4.value = w4
        /\ p5.key = String("asserted_by") /\ p5.value = w5
        /\ q1.key = String("id") /\ q2.key = String("kind") /\ q3.key = String("comment")
    BY PairIs
  <1>3. /\ String("locators").text = "locators" /\ String("compare_via").text = "compare_via"
        /\ String("fields").text = "fields" /\ String("wire").text = "wire"
        /\ String("asserted_by").text = "asserted_by"
    BY DEF String, Scalar
  <1>4. w1.type = "list" /\ w1.type # "null" /\ w1.type # "mapping"
    BY DEF EntriesOut, List
  <1>5. /\ b.compare_via # None => w2 = String(b.compare_via) /\ w2.type = "string"
        /\ b.compare_via = None => w2.type = "null"
    BY NullableIs DEF BindingType, TextOrNone
  <1>6. /\ b.fields # None => w3.type = "mapping"
        /\ b.fields = None => w3.type = "null"
    BY NullableIs DEF FieldsOut, Object, Mapping
  <1>7. /\ b.wire # None => w4.type = "mapping"
        /\ b.wire = None => w4.type = "null"
    BY NullableIs DEF WireOut, Object, Mapping
  <1>8. /\ b.asserted_by # None => w5 = EntriesOut(b.asserted_by, "assertion") /\ w5.type = "list"
        /\ b.asserted_by = None => w5.type = "null"
    BY NullableIs DEF AssertedOut, EntriesOut, List
  <1> HIDE DEF w1, w2, w3, w4, w5, p1, p2, p3, p4, p5, q1, q2, q3
  <1>9. KeysOf(v) \subseteq {String(k) : k \in SectionKeys}
    <2>1. Range(v.pairs) = {Pair(p.key, Stripped(p), None) : p \in Kept(out)}
      <3>1. out \in DocumentValues
        BY <1>1, DocumentParts
      <3> HIDE DEF out
      <3> QED
        BY <1>1, <3>1, StrippedBindingIs
    <2>2. \A p \in Kept(out) : p \in {p1, p2, p3, p4, p5}
      <3> HIDE DEF out
      <3> QED
        BY <1>1, <1>2 DEF Kept, NullOrComment
    <2>3. \A p \in Kept(out) : p.key \in {String(k) : k \in SectionKeys}
      <3> HIDE DEF out
      <3> QED
        BY <1>2, <2>2 DEF SectionKeys
    <2> HIDE DEF v, out
    <2>4. \A p \in Range(v.pairs) : p.key \in {String(k) : k \in SectionKeys}
      BY <2>1, <2>3, PairIs
    <2> QED
      BY <2>4 DEF KeysOf
  <1>10. /\ At(out, "locators") = w1 /\ Has(v, "locators") /\ At(v, "locators") = Stripped(p1)
         /\ Has(out, "locators")
    <2>1. p1 \in Range(out.pairs) /\ "locators" \in SectionKeys
      BY <1>1 DEF SectionKeys
    <2> HIDE DEF out
    <2> QED
      BY <1>1, <1>2, <1>4, <2>1, SectionLeft
  <1>11. /\ Has(v, "compare_via") <=> w2.type # "null"
         /\ w2.type # "null" => At(v, "compare_via") = Stripped(p2)
    <2>1. p2 \in Range(out.pairs) /\ "compare_via" \in SectionKeys
      BY <1>1 DEF SectionKeys
    <2> HIDE DEF out
    <2> QED
      BY <1>1, <1>2, <2>1, SectionLeft
  <1>12. /\ At(out, "fields") = w3 /\ Has(out, "fields")
         /\ Has(v, "fields") <=> w3.type # "null"
         /\ w3.type # "null" => At(v, "fields") = Stripped(p3)
    <2>1. p3 \in Range(out.pairs) /\ "fields" \in SectionKeys
      BY <1>1 DEF SectionKeys
    <2> HIDE DEF out
    <2> QED
      BY <1>1, <1>2, <2>1, SectionLeft
  <1>13. /\ Has(v, "wire") <=> w4.type # "null"
         /\ w4.type # "null" => At(v, "wire") = Stripped(p4)
    <2>1. p4 \in Range(out.pairs) /\ "wire" \in SectionKeys
      BY <1>1 DEF SectionKeys
    <2> HIDE DEF out
    <2> QED
      BY <1>1, <1>2, <2>1, SectionLeft
  <1>14. /\ At(out, "asserted_by") = w5 /\ Has(out, "asserted_by")
         /\ Has(v, "asserted_by") <=> w5.type # "null"
         /\ w5.type # "null" => At(v, "asserted_by") = Stripped(p5)
    <2>1. p5 \in Range(out.pairs) /\ "asserted_by" \in SectionKeys
      BY <1>1 DEF SectionKeys
    <2> HIDE DEF out
    <2> QED
      BY <1>1, <1>2, <2>1, SectionLeft
  <1>15. /\ Stripped(p1) = PlainItems(w1.items)
         /\ b.compare_via # None => Stripped(p2) = w2
         /\ b.fields # None => Stripped(p3) = PlainPairs(w3.pairs)
         /\ b.wire # None => Stripped(p4) = Without(w4, IsNull)
         /\ b.asserted_by # None => Stripped(p5) = PlainItems(w5.items)
    <2>1. p1.key.text = "locators" /\ p2.key.text = "compare_via" /\ p3.key.text = "fields"
          /\ p4.key.text = "wire" /\ p5.key.text = "asserted_by"
      BY <1>2, <1>3
    <2>2. Stripped(p1) = PlainItems(w1.items)
      BY <1>2, <1>4, <2>1, StrippedIs
    <2>3. b.compare_via # None => Stripped(p2) = w2
      BY <1>2, <2>1, StrippedIs
    <2>4. b.fields # None => Stripped(p3) = PlainPairs(w3.pairs)
      BY <1>2, <1>6, <2>1, StrippedIs
    <2>5. b.wire # None => Stripped(p4) = Without(w4, IsNull)
      BY <1>2, <2>1, StrippedIs
    <2>6. b.asserted_by # None => Stripped(p5) = PlainItems(w5.items)
      BY <1>2, <1>8, <2>1, StrippedIs
    <2> QED
      BY <2>2, <2>3, <2>4, <2>5, <2>6
  <1> HIDE DEF out, v
  <1>16. /\ Has(v, "compare_via") <=> b.compare_via # None
         /\ b.compare_via # None => At(v, "compare_via") = String(b.compare_via)
    BY <1>5, <1>11, <1>15
  <1>17. /\ Has(v, "fields") <=> b.fields # None
         /\ b.fields # None => At(v, "fields") = PlainPairs(w3.pairs)
         /\ b.fields = None => ~HasA(out, "fields", "mapping")
         /\ b.fields # None => HasA(out, "fields", "mapping")
    BY <1>6, <1>12, <1>15 DEF HasA
  <1>18. /\ Has(v, "wire") <=> b.wire # None
         /\ b.wire # None => At(v, "wire") = Without(w4, IsNull)
    BY <1>7, <1>13, <1>15
  <1>19. /\ Has(v, "asserted_by") <=> b.asserted_by # None
         /\ b.asserted_by # None => At(out, "asserted_by") = EntriesOut(b.asserted_by, "assertion")
         /\ b.asserted_by # None =>
              At(v, "asserted_by") = PlainItems(EntriesOut(b.asserted_by, "assertion").items)
         /\ b.asserted_by = None => ~HasA(out, "asserted_by", "list")
         /\ b.asserted_by # None => HasA(out, "asserted_by", "list")
    BY <1>8, <1>14, <1>15 DEF HasA
  <1>20. HasA(out, "locators", "list") /\ At(v, "locators") = PlainItems(w1.items)
    BY <1>4, <1>10, <1>15 DEF HasA
  <1> QED
    BY <1>9, <1>10, <1>12, <1>16, <1>17, <1>18, <1>19, <1>20 DEF out, v, w1, w3, w4

(* Its heading, and the comment of the binding.                            *)
LEMMA AnsweredHead ==
  ASSUME NEW id \in IdTexts, NEW b \in BindingType(Note)
  PROVE  LET out == BindingOut(id, b)
         IN  /\ ~UsageRefuses(id, out)
             /\ CommentOf(out) = b.comment /\ CommentFindings(out) = {}
  <1> DEFINE out == BindingOut(id, b)
             q1 == Pair(String("id"), String(id), None)
             q2 == Pair(String("kind"), String(KindOf[id]), None)
             q3 == Pair(String("comment"), Nullable(b.comment), None)
  <1>1. /\ out \in InputDocuments /\ out.type = "mapping"
        /\ q1 \in Range(out.pairs) /\ q2 \in Range(out.pairs) /\ q3 \in Range(out.pairs)
    BY BindingShown
  <1>2. UniqueKeys(out.pairs)
    BY <1>1, DocumentParts
  <1>3. /\ q1.key = String("id") /\ q1.value = String(id)
        /\ q2.key = String("kind") /\ q2.value = String(KindOf[id])
        /\ q3.key = String("comment") /\ q3.value = Nullable(b.comment)
    BY PairIs
  <1>4. b.comment \in Note
    BY DEF BindingType
  <1> HIDE DEF out, q1, q2, q3
  <1>5. /\ At(out, "id") = String(id) /\ At(out, "kind") = String(KindOf[id])
        /\ Has(out, "comment") /\ At(out, "comment") = Nullable(b.comment)
    BY <1>1, <1>2, <1>3, OnePairAt
  <1>6. ~UsageRefuses(id, out)
    BY <1>1, <1>5 DEF UsageRefuses, Contradicts
  <1>7. CommentOf(out) = b.comment /\ CommentFindings(out) = {}
    <2>1. CASE b.comment = None
      <3>1. At(out, "comment").type = "null"
        BY <1>5, <2>1, NullableIs
      <3> QED
        BY <1>1, <1>5, <2>1, <3>1 DEF CommentOf, TextAt, HasA, CommentFindings, CodeIf
    <2>2. CASE b.comment # None
      <3>1. b.comment \in Texts
        BY <1>4, <2>2, NotesAreTexts
      <3>2. At(out, "comment").type = "string" /\ At(out, "comment").text = b.comment
        BY <1>5, <3>1, NullableIs
      <3> QED
        BY <1>1, <1>5, <3>2 DEF CommentOf, TextAt, HasA, CommentFindings, CodeIf
    <2> QED
      BY <2>1, <2>2
  <1> QED
    BY <1>6, <1>7 DEF out

(* What is made of the sections, and no finding of shape.                  *)
LEMMA AnsweredShape ==
  ASSUME NEW id \in IdTexts, NEW b \in BindingType(Note)
  PROVE  LET v == StrippedBinding(BindingOut(id, b))
             c == Binding(v, b.comment)
         IN  /\ HasA(v, "locators", "list") /\ BindingFindings(v) = {}
             /\ c.locators = Entries(PlainItems(EntriesOut(b.locators, "locator").items).items, "locator")
             /\ c.compare_via = b.compare_via /\ c.wire = b.wire /\ c.comment = b.comment
             /\ b.fields = None => c.fields = None
             /\ b.fields # None => c.fields = Fields(PlainPairs(FieldsOut(b).pairs).pairs)
             /\ b.asserted_by = None => c.asserted_by = None
             /\ b.asserted_by # None =>
                  c.asserted_by = Entries(PlainItems(EntriesOut(b.asserted_by, "assertion").items).items,
                                          "assertion")
  <1> DEFINE v == StrippedBinding(BindingOut(id, b))
             c == Binding(v, b.comment)
             w1 == PlainItems(EntriesOut(b.locators, "locator").items)
             w3 == PlainPairs(FieldsOut(b).pairs)
             w4 == Without(WireOut(b), IsNull)
             w5 == PlainItems(EntriesOut(b.asserted_by, "assertion").items)
  <1>1. /\ b.locators \in Seq(EntryType("locator", Note)) /\ b.compare_via \in Texts \cup {None}
        /\ b.fields \in DictsOf(Texts, EntryType("field_locator", Note)) \cup {None}
        /\ b.wire \in EntryType("wire", NoNote) \cup {None}
        /\ b.asserted_by \in Seq(EntryType("assertion", Note)) \cup {None}
    BY DEF BindingType, TextOrNone, NoNote
  <1>2. "locator" \in Nodes /\ "assertion" \in Nodes
    BY DEF Nodes
  <1>3. v.type = "mapping"
    <2>1. BindingOut(id, b) \in DocumentValues /\ BindingOut(id, b).type = "mapping"
      BY BindingShown, DocumentParts
    <2> QED
      BY <2>1, StrippedBindingIs
  <1>4. w1.type = "list" /\ \A i \in Range(w1.items) : FlatFindings(i.value, "locator") = {}
    BY <1>1, <1>2, AnsweredList DEF PlainItems, List
  <1>5. ASSUME b.fields # None
        PROVE  /\ w3.type = "mapping"
               /\ \A p \in Range(w3.pairs) : FlatFindings(p.value, "field_locator") = {}
    <2>1. /\ b.fields \in DictsOf(Texts, EntryType("field_locator", Note))
          /\ FieldsOut(b) = Object([n \in DOMAIN b.fields |->
                              <<b.fields[n].key, FlatOut(b.fields[n].value, "field_locator")>>])
      BY <1>1, <1>5 DEF FieldsOut
    <2>2. \A p \in Range(w3.pairs) : FlatFindings(p.value, "field_locator") = {}
      BY <2>1, AnsweredFields
    <2> QED
      BY <2>2 DEF PlainPairs, Mapping
  <1>6. ASSUME b.wire # None
        PROVE  Flat(w4, "wire", None) = b.wire /\ FlatFindings(w4, "wire") = {}
    <2>1. b.wire \in EntryType("wire", NoNote) /\ WireOut(b) = Object(Columns(b.wire, "wire"))
      BY <1>1, <1>6 DEF WireOut
    <2> QED
      BY <2>1, AnsweredWire
  <1>7. ASSUME b.asserted_by # None
        PROVE  w5.type = "list" /\ \A i \in Range(w5.items) : FlatFindings(i.value, "assertion") = {}
    <2>1. b.asserted_by \in Seq(EntryType("assertion", Note))
      BY <1>1, <1>7
    <2> QED
      BY <1>2, <2>1, AnsweredList DEF PlainItems, List
  <1>8. /\ KeysOf(v) \subseteq {String(k) : k \in SectionKeys}
        /\ Has(v, "locators") /\ At(v, "locators") = w1
        /\ Has(v, "compare_via") <=> b.compare_via # None
        /\ b.compare_via # None => At(v, "compare_via") = String(b.compare_via)
        /\ Has(v, "fields") <=> b.fields # None
        /\ b.fields # None => At(v, "fields") = w3
        /\ Has(v, "wire") <=> b.wire # None
        /\ b.wire # None => At(v, "wire") = w4
        /\ Has(v, "asserted_by") <=> b.asserted_by # None
        /\ b.asserted_by # None => At(v, "asserted_by") = w5
    BY SectionsLeft
  <1> HIDE DEF v, w1, w3, w4, w5
  <1>9. HasA(v, "locators", "list")
    BY <1>4, <1>8 DEF HasA
  <1>10. /\ TextAt(v, "compare_via") = b.compare_via
         /\ Mistyped(v, "compare_via", "string") = {}
    <2>1. CASE b.compare_via = None
      BY <1>8, <2>1 DEF TextAt, HasA, Mistyped, CodeIf
    <2>2. CASE b.compare_via # None
      <3>1. At(v, "compare_via") = String(b.compare_via) /\ Has(v, "compare_via")
        BY <1>8, <2>2
      <3>2. At(v, "compare_via").type = "string" /\ At(v, "compare_via").text = b.compare_via
        BY <3>1 DEF String, Scalar
      <3> QED
        BY <3>1, <3>2 DEF TextAt, HasA, Mistyped, CodeIf
    <2> QED
      BY <2>1, <2>2
  <1>11. /\ HasA(v, "fields", "mapping") <=> b.fields # None
         /\ PairFindings(v, "fields", "field_locator") = {}
    <2>1. /\ HasA(v, "fields", "mapping") <=> b.fields # None
          /\ Mistyped(v, "fields", "mapping") = {}
      BY <1>5, <1>8 DEF HasA, Mistyped, CodeIf
    <2>2. CASE b.fields = None
      BY <2>1, <2>2 DEF PairFindings
    <2>3. CASE b.fields # None
      <3>1. {FlatFindings(p.value, "field_locator") : p \in Range(w3.pairs)} \subseteq {{}}
        BY <1>5, <2>3
      <3>2. UNION {FlatFindings(p.value, "field_locator") : p \in Range(w3.pairs)} = {}
        BY <3>1
      <3> QED
        BY <1>8, <2>1, <2>3, <3>2 DEF PairFindings
    <2> QED
      BY <2>1, <2>2, <2>3
  <1>12. ASSUME Has(v, "wire")
         PROVE  Flat(At(v, "wire"), "wire", None) = b.wire /\ FlatFindings(At(v, "wire"), "wire") = {}
    BY <1>6, <1>8, <1>12
  <1>13. ItemFindings(v, "locators", "locator") = {}
    <2>1. {FlatFindings(i.value, "locator") : i \in Range(w1.items)} \subseteq {{}}
      BY <1>4
    <2>2. UNION {FlatFindings(i.value, "locator") : i \in Range(w1.items)} = {}
      BY <2>1
    <2> QED
      BY <1>4, <1>8, <1>9, <2>2 DEF ItemFindings, Mistyped, CodeIf
  <1>14. /\ HasA(v, "asserted_by", "list") <=> b.asserted_by # None
         /\ ItemFindings(v, "asserted_by", "assertion") = {}
    <2>1. /\ HasA(v, "asserted_by", "list") <=> b.asserted_by # None
          /\ Mistyped(v, "asserted_by", "list") = {}
      BY <1>7, <1>8 DEF HasA, Mistyped, CodeIf
    <2>2. CASE b.asserted_by = None
      BY <2>1, <2>2 DEF ItemFindings
    <2>3. CASE b.asserted_by # None
      <3>1. {FlatFindings(i.value, "assertion") : i \in Range(w5.items)} \subseteq {{}}
        BY <1>7, <2>3
      <3>2. UNION {FlatFindings(i.value, "assertion") : i \in Range(w5.items)} = {}
        BY <3>1
      <3> QED
        BY <1>8, <2>1, <2>3, <3>2 DEF ItemFindings
    <2> QED
      BY <2>1, <2>2, <2>3
  <1>15. ClosedKeys(v, "binding") = {}
    BY <1>8, BindingKeys, NoneUnknown
  <1>16. BindingFindings(v) = {}
    BY <1>3, <1>9, <1>10, <1>11, <1>12, <1>13, <1>14, <1>15 DEF BindingFindings
  <1>17. c = [locators |-> Entries(At(v, "locators").items, "locator"),
              compare_via |-> TextAt(v, "compare_via"),
              fields |-> IF HasA(v, "fields", "mapping") THEN Fields(At(v, "fields").pairs) ELSE None,
              wire |-> IF Has(v, "wire") THEN Flat(At(v, "wire"), "wire", None) ELSE None,
              asserted_by |-> IF HasA(v, "asserted_by", "list")
                                THEN Entries(At(v, "asserted_by").items, "assertion") ELSE None,
              comment |-> b.comment]
    BY <1>3, <1>9 DEF Binding
  <1> HIDE DEF c
  <1>18. /\ c.locators = Entries(w1.items, "locator") /\ c.compare_via = b.compare_via
         /\ c.comment = b.comment /\ c.wire = b.wire
         /\ b.fields = None => c.fields = None
         /\ b.fields # None => c.fields = Fields(w3.pairs)
         /\ b.asserted_by = None => c.asserted_by = None
         /\ b.asserted_by # None => c.asserted_by = Entries(w5.items, "assertion")
    BY <1>8, <1>10, <1>11, <1>12, <1>14, <1>17
  <1> QED
    BY <1>9, <1>16, <1>18 DEF c, v, w1, w3, w5

(* Comments as the loader hands them out pass the rules on inputs.         *)
LEMMA BindingCommentsClean ==
  ASSUME NEW b \in BindingType(Note), BindingRules(b, FALSE)
  PROVE  BindingRules(b, TRUE)
  <1>1. \A c \in Note : CommentRules(c, FALSE) => CommentRules(c, TRUE)
    BY NotesAreTexts DEF CommentRules
  <1>2. /\ b.locators \in Seq(EntryType("locator", Note)) /\ b.comment \in Note
        /\ b.fields \in DictsOf(Texts, EntryType("field_locator", Note)) \cup {None}
        /\ b.asserted_by \in Seq(EntryType("assertion", Note)) \cup {None}
    BY DEF BindingType
  <1>3. \A node \in Nodes : \A x \in EntryType(node, Note) : x.comment \in Note
    BY DEF EntryType
  <1>4. "locator" \in Nodes /\ "assertion" \in Nodes /\ "field_locator" \in Nodes
    BY DEF Nodes
  <1>5. LocatorsRules(b.locators, TRUE)
    <2>1. \A x \in Range(b.locators) : x.comment \in Note
      BY <1>2, <1>3, <1>4, ListProperties
    <2> QED
      BY <1>1, <2>1 DEF BindingRules, LocatorsRules
  <1>6. ASSUME b.fields # None
        PROVE  FieldsRules(b.fields, TRUE)
    <2> DEFINE E == [key : Texts, value : EntryType("field_locator", Note)]
    <2>1. b.fields \in Seq(E) /\ \A e \in E : e.value \in EntryType("field_locator", Note)
      BY <1>2, <1>6 DEF DictsOf
    <2> HIDE DEF E
    <2>2. \A e \in Range(b.fields) : e.value \in EntryType("field_locator", Note)
      BY <2>1, ListProperties
    <2>3. \A e \in Range(b.fields) : e.value.comment \in Note
      BY <1>3, <1>4, <2>2
    <2> QED
      BY <1>1, <1>6, <2>3 DEF BindingRules, FieldsRules
  <1>7. ASSUME b.asserted_by # None
        PROVE  AssertedRules(b.asserted_by, TRUE)
    <2>1. b.asserted_by \in Seq(EntryType("assertion", Note))
      BY <1>2, <1>7
    <2>2. \A x \in Range(b.asserted_by) : x.comment \in Note
      BY <1>3, <1>4, <2>1, ListProperties
    <2> QED
      BY <1>1, <1>7, <2>2 DEF BindingRules, AssertedRules
  <1> QED
    BY <1>1, <1>2, <1>5, <1>6, <1>7 DEF BindingRules

(* Where the comments are.                                                 *)
LEMMA AnsweredComments ==
  ASSUME NEW id \in IdTexts, NEW b \in BindingType(Note)
  PROVE  LET out == BindingOut(id, b)
             w1 == EntriesOut(b.locators, "locator").items
             w5 == EntriesOut(b.asserted_by, "assertion").items
         IN  /\ Comments(out, "locators") = [n \in DOMAIN w1 |-> CommentOf(w1[n].value)]
             /\ b.asserted_by # None =>
                  Comments(out, "asserted_by") = [n \in DOMAIN w5 |-> CommentOf(w5[n].value)]
             /\ b.fields # None => \A k : FieldComment(out, k) = CommentOf(At(FieldsOut(b), k))
             /\ BindingFindings(StrippedBinding(out)) = {} => BindingInputFindings(out) = {}
  <1> DEFINE out == BindingOut(id, b)
             w1 == EntriesOut(b.locators, "locator").items
             w3 == FieldsOut(b)
             w5 == EntriesOut(b.asserted_by, "assertion").items
             items(k) == IF HasA(out, k, "list") THEN {i.value : i \in Range(At(out, k).items)} ELSE {}
             fields == IF HasA(out, "fields", "mapping")
                         THEN {p.value : p \in Range(At(out, "fields").pairs)} ELSE {}
             all == {out} \cup items("locators") \cup items("asserted_by") \cup fields
  <1>1. /\ b.locators \in Seq(EntryType("locator", Note))
        /\ b.fields \in DictsOf(Texts, EntryType("field_locator", Note)) \cup {None}
        /\ b.asserted_by \in Seq(EntryType("assertion", Note)) \cup {None}
        /\ "locator" \in Nodes /\ "assertion" \in Nodes
    BY DEF BindingType, Nodes
  <1>2. out \in DocumentValues /\ out.type = "mapping"
    BY BindingShown, DocumentParts
  <1>3. /\ At(out, "locators") = EntriesOut(b.locators, "locator") /\ HasA(out, "locators", "list")
        /\ b.fields # None => At(out, "fields") = w3 /\ HasA(out, "fields", "mapping")
        /\ b.fields = None => ~HasA(out, "fields", "mapping")
        /\ b.asserted_by # None => /\ At(out, "asserted_by") = EntriesOut(b.asserted_by, "assertion")
                                   /\ HasA(out, "asserted_by", "list")
        /\ b.asserted_by = None => ~HasA(out, "asserted_by", "list")
    BY SectionsLeft
  <1>4. CommentFindings(out) = {}
    BY AnsweredHead
  <1> HIDE DEF out
  <1>5. Comments(out, "locators") = [n \in DOMAIN w1 |-> CommentOf(w1[n].value)]
    BY <1>2, <1>3, CommentsTyped
  <1>6. b.asserted_by # None =>
          Comments(out, "asserted_by") = [n \in DOMAIN w5 |-> CommentOf(w5[n].value)]
    BY <1>2, <1>3, CommentsTyped
  <1>7. b.fields # None => \A k : FieldComment(out, k) = CommentOf(At(w3, k))
    BY <1>3 DEF FieldComment
  <1>8. \A x \in items("locators") : CommentFindings(x) = {}
    <2>1. \A i \in Range(w1) : CommentFindings(i.value) = {}
      BY <1>1, AnsweredList
    <2>2. items("locators") = {i.value : i \in Range(w1)}
      BY <1>3
    <2> HIDE DEF w1, items
    <2> QED
      BY <2>1, <2>2
  <1>9. \A x \in items("asserted_by") : CommentFindings(x) = {}
    <2>1. CASE b.asserted_by = None
      BY <1>3, <2>1
    <2>2. CASE b.asserted_by # None
      <3>1. b.asserted_by \in Seq(EntryType("assertion", Note))
        BY <1>1, <2>2
      <3>2. \A i \in Range(w5) : CommentFindings(i.value) = {}
        BY <1>1, <3>1, AnsweredList
      <3>3. items("asserted_by") = {i.value : i \in Range(w5)}
        BY <1>3, <2>2
      <3> HIDE DEF w5, items
      <3> QED
        BY <3>2, <3>3
    <2> QED
      BY <2>1, <2>2
  <1>10. \A x \in fields : CommentFindings(x) = {}
    <2>1. CASE b.fields = None
      BY <1>3, <2>1
    <2>2. CASE b.fields # None
      <3>1. /\ b.fields \in DictsOf(Texts, EntryType("field_locator", Note))
            /\ w3 = Object([n \in DOMAIN b.fields |->
                              <<b.fields[n].key, FlatOut(b.fields[n].value, "field_locator")>>])
        BY <1>1, <2>2 DEF FieldsOut
      <3>2. \A p \in Range(w3.pairs) : CommentFindings(p.value) = {}
        BY <3>1, AnsweredFields
      <3>3. fields = {p.value : p \in Range(w3.pairs)}
        BY <1>3, <2>2
      <3> HIDE DEF w3, fields
      <3> QED
        BY <3>2, <3>3
    <2> QED
      BY <2>1, <2>2
  <1>11. BindingInputFindings(out) =
           BindingFindings(StrippedBinding(out)) \cup UNION {CommentFindings(x) : x \in all}
    BY <1>2 DEF BindingInputFindings
  <1> HIDE DEF items, fields
  <1>12. \A x \in all : CommentFindings(x) = {}
    BY <1>4, <1>8, <1>9, <1>10
  <1> HIDE DEF all
  <1>13. UNION {CommentFindings(x) : x \in all} = {}
    <2>1. {CommentFindings(x) : x \in all} \subseteq {{}}
      BY <1>12
    <2> QED
      BY <2>1
  <1>14. BindingFindings(StrippedBinding(out)) = {} => BindingInputFindings(out) = {}
    BY <1>11, <1>13
  <1> QED
    BY <1>5, <1>6, <1>7, <1>14 DEF out, w1, w3, w5

(* The answer of `get` about a valid binding is an accepted input, and     *)
(* what it is made into is that binding.                                   *)
LEMMA AnswerTakenBack ==
  ASSUME NEW id \in IdTexts, NEW b \in BindingType(Note), BindingRules(b, FALSE)
  PROVE  /\ BindingInput(BindingOut(id, b)) = b /\ InputFindings(BindingOut(id, b)) = {}
         /\ ~UsageRefuses(id, BindingOut(id, b))
  <1> DEFINE out == BindingOut(id, b)
             v == StrippedBinding(out)
             c == Binding(v, b.comment)
             w1 == EntriesOut(b.locators, "locator").items
             w3 == FieldsOut(b)
             w5 == EntriesOut(b.asserted_by, "assertion").items
             e1 == Entries(PlainItems(w1).items, "locator")
             e3 == Fields(PlainPairs(w3.pairs).pairs)
             e5 == Entries(PlainItems(w5).items, "assertion")
  <1>1. /\ b.locators \in Seq(EntryType("locator", Note))
        /\ b.fields \in DictsOf(Texts, EntryType("field_locator", Note)) \cup {None}
        /\ b.asserted_by \in Seq(EntryType("assertion", Note)) \cup {None}
        /\ b = [locators |-> b.locators, compare_via |-> b.compare_via, fields |-> b.fields,
                wire |-> b.wire, asserted_by |-> b.asserted_by, comment |-> b.comment]
        /\ "locator" \in Nodes /\ "assertion" \in Nodes
    BY DEF BindingType, Nodes
  <1>2. out \in DocumentValues /\ out.type = "mapping"
    BY BindingShown, DocumentParts
  <1>3. ~UsageRefuses(id, out) /\ CommentOf(out) = b.comment
    BY AnsweredHead
  <1>4. /\ HasA(v, "locators", "list") /\ BindingFindings(v) = {}
        /\ c.locators = e1 /\ c.compare_via = b.compare_via /\ c.wire = b.wire
        /\ c.comment = b.comment
        /\ b.fields = None => c.fields = None
        /\ b.fields # None => c.fields = e3
        /\ b.asserted_by = None => c.asserted_by = None
        /\ b.asserted_by # None => c.asserted_by = e5
    BY AnsweredShape
  <1>5. /\ Comments(out, "locators") = [n \in DOMAIN w1 |-> CommentOf(w1[n].value)]
        /\ b.asserted_by # None =>
             Comments(out, "asserted_by") = [n \in DOMAIN w5 |-> CommentOf(w5[n].value)]
        /\ b.fields # None => \A k : FieldComment(out, k) = CommentOf(At(w3, k))
        /\ BindingInputFindings(out) = {}
    BY <1>4, AnsweredComments
  <1> HIDE DEF out
  <1>6. BindingInput(out) = Reattaching(out, c)
    <2>1. c = Binding(StrippedBinding(out), CommentOf(out))
      BY <1>3
    <2> HIDE DEF c
    <2> QED
      BY <1>2, <1>4, <2>1, BindingInputIs
  <1> HIDE DEF c, v
  <1>7. Reattached(e1, Comments(out, "locators")) = b.locators
    <2>1. Reattached(e1, [n \in DOMAIN w1 |-> CommentOf(w1[n].value)]) = b.locators
      BY <1>1, AnsweredList
    <2> HIDE DEF e1, w1
    <2> QED
      BY <1>5, <2>1
  <1>8. ASSUME b.asserted_by # None
        PROVE  Reattached(e5, Comments(out, "asserted_by")) = b.asserted_by /\ e5 # None
    <2>1. b.asserted_by \in Seq(EntryType("assertion", Note))
      BY <1>1, <1>8
    <2>2. /\ Reattached(e5, [n \in DOMAIN w5 |-> CommentOf(w5[n].value)]) = b.asserted_by
          /\ e5 # None
      BY <1>1, <2>1, AnsweredList
    <2> HIDE DEF e5, w5
    <2> QED
      BY <1>5, <1>8, <2>2
  <1>9. ASSUME b.fields # None
        PROVE  Recommented(out, e3) = b.fields /\ e3 # None
    <2>1. /\ b.fields \in DictsOf(Texts, EntryType("field_locator", Note))
          /\ w3 = Object([n \in DOMAIN b.fields |->
                            <<b.fields[n].key, FlatOut(b.fields[n].value, "field_locator")>>])
      BY <1>1, <1>9 DEF FieldsOut
    <2>2. /\ [n \in DOMAIN e3 |-> [e3[n] EXCEPT !.value.comment = CommentOf(At(w3, e3[n].key))]]
               = b.fields
          /\ e3 # None
      BY <2>1, AnsweredFields
    <2> HIDE DEF e3, w3
    <2>3. Recommented(out, e3) =
            [n \in DOMAIN e3 |-> [e3[n] EXCEPT !.value.comment = FieldComment(out, e3[n].key)]]
      BY DEF Recommented
    <2>4. \A k : FieldComment(out, k) = CommentOf(At(w3, k))
      BY <1>5, <1>9
    <2> QED
      BY <2>2, <2>3, <2>4
  <1> DEFINE x == Reattached(c.locators, Comments(out, "locators"))
             y == IF c.fields = None THEN None ELSE Recommented(out, c.fields)
             z == IF c.asserted_by = None THEN None
                  ELSE Reattached(c.asserted_by, Comments(out, "asserted_by"))
  <1> HIDE DEF e1, e3, e5
  <1>10. x = b.locators /\ y = b.fields /\ z = b.asserted_by
    BY <1>4, <1>7, <1>8, <1>9
  <1>11. Reattaching(out, c) = [locators |-> x, compare_via |-> c.compare_via, fields |-> y,
                                wire |-> c.wire, asserted_by |-> z, comment |-> c.comment]
    BY DEF Reattaching
  <1> HIDE DEF x, y, z
  <1>12. BindingInput(out) = b
    BY <1>1, <1>4, <1>6, <1>10, <1>11
  <1>13. BindingCodes(b, TRUE) = {}
    <2>1. b \in BindingType(TextOrNone)
      BY BindingKinds, NotesAreTexts
    <2>2. BindingRules(b, TRUE)
      BY BindingCommentsClean
    <2> QED
      BY <2>1, <2>2, BindingFine
  <1>14. InputFindings(out) = {}
    BY <1>5, <1>12, <1>13 DEF InputFindings
  <1> QED
    BY <1>3, <1>12, <1>14 DEF out

(***************************************************************************)
(* Good maps.                                                              *)
(***************************************************************************)
Good(m) == m \in MapType /\ MapRules(m)
GoodBinding(b) == b \in BindingType(Note) /\ BindingRules(b, FALSE)

LEMMA GoodMaps ==
  ASSUME NEW m, Good(m)
  PROVE  /\ MapCodes(m) = {} /\ Emit(m) \in FileType
         /\ m.bindings \in Seq([key : IdTexts, value : BindingType(Note)]) /\ UniqueKeys(m.bindings)
         /\ \A e \in Range(m.bindings) : e.key \in IdTexts /\ GoodBinding(e.value)
         /\ m.coverage \in CoverageType \cup {None}
         /\ m = [schema_version |-> m.schema_version, bindings |-> m.bindings,
                 coverage |-> m.coverage, header |-> m.header]
  <1>1. m \in MapType /\ MapRules(m) /\ m.schema_version = "1"
    BY DEF Good, MapRules
  <1>2. Emit(m) \in FileType
    BY <1>1, KeyTexts, EmitTyped
  <1>3. MapCodes(m) = {} /\ \A e \in Range(m.bindings) : e.key \in IdTexts /\ e.value \in BindingType(Note)
    BY <1>1, MapFine
  <1>4. \A e \in Range(m.bindings) : GoodBinding(e.value)
    BY <1>1, <1>3 DEF MapRules, GoodBinding
  <1> QED
    BY <1>1, <1>2, <1>3, <1>4 DEF MapType, DictsOf, IdTexts

LEMMA LoadedMap ==
  ASSUME file \in FileType
  PROVE  /\ Load.map \in MapType
         /\ Load.write = "ok" => Good(Load.map)
         /\ Load.write = "ok" => Load.read = "ok" /\ Clean
         /\ Load.read \in {"ok", "ERR-PARSE", "ERR-SCHEMA-VERSION"}
         /\ Load.write \in {"ok", "ERR-PARSE", "ERR-SCHEMA-VERSION", "ERR-FILE-INVALID"}
  <1>1. Map(file) \in MapType /\ Load.map = Map(file)
    BY MapTyped DEF Load, Loaded
  <1>2. ASSUME Load.write = "ok"
        PROVE  Good(Load.map)
    <2>1. FileFindings(file) = {}
      BY <1>2 DEF Load, WriteCode, ReadCode
    <2>2. MapCodes(Map(file)) = {}
      BY <2>1 DEF FileFindings
    <2> QED
      BY <1>1, <2>2, MapFine DEF Good
  <1> QED
    BY <1>1, <1>2 DEF Load, WriteCode, ReadCode, Clean

(***************************************************************************)
(* Good maps that are changed.                                             *)
(***************************************************************************)
LEMMA BindingPlaced ==
  ASSUME NEW m, Good(m), NEW id \in IdTexts, NEW b, GoodBinding(b)
  PROVE  Good(WithBinding(m, id, b))
  <1> DEFINE E == [key : IdTexts, value : BindingType(Note)]
             e == Keyed(id, b)
             d == Assign(m.bindings, e)
  <1>1. /\ m.bindings \in Seq(E) /\ UniqueKeys(m.bindings)
        /\ \A x \in Range(m.bindings) : GoodBinding(x.value)
        /\ m = [schema_version |-> m.schema_version, bindings |-> m.bindings,
                coverage |-> m.coverage, header |-> m.header]
    BY GoodMaps
  <1>2. e \in E /\ e.value = b
    BY DEF Keyed, GoodBinding
  <1>3. None \notin E
    <2>1. E \subseteq [key : Texts, value : BindingType(Note)]
      BY DEF IdTexts
    <2> QED
      BY <2>1, BindingKinds, NotesAreTexts
  <1>4. d \in Seq(E) /\ UniqueKeys(d) /\ Range(d) \subseteq Range(m.bindings) \cup {e}
    <2> HIDE DEF E, e
    <2> QED
      BY <1>1, <1>2, <1>3, AssignProperties
  <1>5. \A x \in Range(d) : GoodBinding(x.value)
    BY <1>1, <1>2, <1>4
  <1> HIDE DEF d
  <1> DEFINE t == [schema_version |-> m.schema_version, bindings |-> d,
                   coverage |-> m.coverage, header |-> m.header]
  <1>6. WithBinding(m, id, b) = t
    <2>1. WithBinding(m, id, b) = [m EXCEPT !.bindings = d]
      BY DEF WithBinding, d
    <2> QED
      BY <1>1, <2>1
  <1>7. t \in MapType
    BY <1>4 DEF Good, MapType, DictsOf, IdTexts
  <1>8. MapRules(t)
    BY <1>5 DEF Good, MapRules, GoodBinding
  <1> QED
    BY <1>6, <1>7, <1>8 DEF Good

LEMMA BindingTaken ==
  ASSUME NEW m, Good(m), NEW id \in Keys(m.bindings)
  PROVE  Good([m EXCEPT !.bindings = Drop(@, id)])
  <1> DEFINE E == [key : IdTexts, value : BindingType(Note)]
             d == Drop(m.bindings, id)
  <1>1. /\ m.bindings \in Seq(E) /\ UniqueKeys(m.bindings)
        /\ \A x \in Range(m.bindings) : GoodBinding(x.value)
        /\ m = [schema_version |-> m.schema_version, bindings |-> m.bindings,
                coverage |-> m.coverage, header |-> m.header]
    BY GoodMaps
  <1>2. d \in Seq(E) /\ UniqueKeys(d) /\ Range(d) \subseteq Range(m.bindings)
    <2> HIDE DEF E
    <2> QED
      BY <1>1, DropList
  <1> HIDE DEF d
  <1> DEFINE t == [schema_version |-> m.schema_version, bindings |-> d,
                   coverage |-> m.coverage, header |-> m.header]
  <1>3. [m EXCEPT !.bindings = d] = t
    BY <1>1
  <1>4. t \in MapType
    BY <1>2 DEF Good, MapType, DictsOf, IdTexts
  <1>5. MapRules(t)
    BY <1>1, <1>2 DEF Good, MapRules, GoodBinding
  <1> QED
    BY <1>3, <1>4, <1>5 DEF Good, d

(* What a command finds under an ID.                                       *)
LEMMA BindingFound ==
  ASSUME NEW m \in MapType, NEW id \in Keys(m.bindings)
  PROVE  /\ id \in IdTexts /\ BindingOf(m, id) \in BindingType(Note)
         /\ Good(m) => GoodBinding(BindingOf(m, id))
  <1>1. PICK e \in Range(m.bindings) : e.key = id /\ BindingOf(m, id) = e.value
    BY LookupProperties DEF BindingOf
  <1>2. e.key \in IdTexts /\ e.value \in BindingType(Note)
    BY MapFine
  <1> QED
    BY <1>1, <1>2, GoodMaps

(* The entries of a good binding.                                          *)
LEMMA GoodParts ==
  ASSUME NEW b, GoodBinding(b)
  PROVE  /\ b.locators \in Seq(EntryType("locator", Note)) /\ LocatorsRules(b.locators, FALSE)
         /\ OrEmpty(b.fields) \in Seq([key : Texts, value : EntryType("field_locator", Note)])
         /\ UniqueKeys(OrEmpty(b.fields)) /\ FieldsRules(OrEmpty(b.fields), FALSE)
         /\ OrEmpty(b.asserted_by) \in Seq(EntryType("assertion", Note))
         /\ AssertedRules(OrEmpty(b.asserted_by), FALSE)
         /\ OrEmpty(b.fields) # <<>> => b.fields = OrEmpty(b.fields)
         /\ OrEmpty(b.asserted_by) # <<>> => b.asserted_by = OrEmpty(b.asserted_by)
         /\ b = [locators |-> b.locators, compare_via |-> b.compare_via, fields |-> b.fields,
                 wire |-> b.wire, asserted_by |-> b.asserted_by, comment |-> b.comment]
  <1>1. b \in BindingType(Note) /\ BindingRules(b, FALSE)
    BY DEF GoodBinding
  <1>2. /\ b.locators \in Seq(EntryType("locator", Note))
        /\ b.fields \in DictsOf(Texts, EntryType("field_locator", Note)) \cup {None}
        /\ b.asserted_by \in Seq(EntryType("assertion", Note)) \cup {None}
        /\ b = [locators |-> b.locators, compare_via |-> b.compare_via, fields |-> b.fields,
                wire |-> b.wire, asserted_by |-> b.asserted_by, comment |-> b.comment]
    BY <1>1 DEF BindingType
  <1>3. /\ LocatorsRules(b.locators, FALSE)
        /\ b.fields # None => FieldsRules(b.fields, FALSE)
        /\ b.asserted_by # None => AssertedRules(b.asserted_by, FALSE)
    BY <1>1 DEF BindingRules
  <1>4. FieldsRules(<<>>, FALSE) /\ AssertedRules(<<>>, FALSE)
    BY EmptyList DEF FieldsRules, AssertedRules, OneOfEachAssertion
  <1> QED
    BY <1>2, <1>3, <1>4, EmptyList DEF OrEmpty, DictsOf

(* A binding with other entries.                                           *)
LEMMA OtherLocators ==
  ASSUME NEW b, GoodBinding(b), NEW s \in Seq(EntryType("locator", Note)), LocatorsRules(s, FALSE)
  PROVE  GoodBinding([b EXCEPT !.locators = s])
  <1> DEFINE t == [locators |-> s, compare_via |-> b.compare_via, fields |-> b.fields,
                   wire |-> b.wire, asserted_by |-> b.asserted_by, comment |-> b.comment]
  <1>1. [b EXCEPT !.locators = s] = t
    <2>1. b = [locators |-> b.locators, compare_via |-> b.compare_via, fields |-> b.fields,
               wire |-> b.wire, asserted_by |-> b.asserted_by, comment |-> b.comment]
      BY GoodParts
    <2> QED
      BY <2>1
  <1>2. t \in BindingType(Note)
    BY DEF GoodBinding, BindingType
  <1>3. BindingRules(t, FALSE)
    BY DEF GoodBinding, BindingRules
  <1> QED
    BY <1>1, <1>2, <1>3 DEF GoodBinding

LEMMA OtherFields ==
  ASSUME NEW b, GoodBinding(b),
         NEW d \in Seq([key : Texts, value : EntryType("field_locator", Note)]), UniqueKeys(d),
         FieldsRules(d, FALSE), NEW f, f = d \/ f = None, f # <<>>
  PROVE  GoodBinding([b EXCEPT !.fields = f])
  <1> DEFINE t == [locators |-> b.locators, compare_via |-> b.compare_via, fields |-> f,
                   wire |-> b.wire, asserted_by |-> b.asserted_by, comment |-> b.comment]
  <1>1. [b EXCEPT !.fields = f] = t
    <2>1. b = [locators |-> b.locators, compare_via |-> b.compare_via, fields |-> b.fields,
               wire |-> b.wire, asserted_by |-> b.asserted_by, comment |-> b.comment]
      BY GoodParts
    <2> QED
      BY <2>1
  <1>2. f \in DictsOf(Texts, EntryType("field_locator", Note)) \cup {None}
    BY DEF DictsOf
  <1>3. t \in BindingType(Note)
    BY <1>2 DEF GoodBinding, BindingType
  <1>4. BindingRules(t, FALSE)
    BY DEF GoodBinding, BindingRules
  <1> QED
    BY <1>1, <1>3, <1>4 DEF GoodBinding

LEMMA OtherAssertions ==
  ASSUME NEW b, GoodBinding(b), NEW s \in Seq(EntryType("assertion", Note)),
         AssertedRules(s, FALSE), NEW f, f = s \/ f = None, f # <<>>
  PROVE  GoodBinding([b EXCEPT !.asserted_by = f])
  <1> DEFINE t == [locators |-> b.locators, compare_via |-> b.compare_via, fields |-> b.fields,
                   wire |-> b.wire, asserted_by |-> f, comment |-> b.comment]
  <1>1. [b EXCEPT !.asserted_by = f] = t
    <2>1. b = [locators |-> b.locators, compare_via |-> b.compare_via, fields |-> b.fields,
               wire |-> b.wire, asserted_by |-> b.asserted_by, comment |-> b.comment]
      BY GoodParts
    <2> QED
      BY <2>1
  <1>2. t \in BindingType(Note)
    BY DEF GoodBinding, BindingType
  <1>3. BindingRules(t, FALSE)
    BY DEF GoodBinding, BindingRules
  <1> QED
    BY <1>1, <1>2, <1>3 DEF GoodBinding

LEMMA OtherComment ==
  ASSUME NEW b, GoodBinding(b), NEW c \in Note, CommentRules(c, FALSE)
  PROVE  GoodBinding([b EXCEPT !.comment = c])
  <1> DEFINE t == [locators |-> b.locators, compare_via |-> b.compare_via, fields |-> b.fields,
                   wire |-> b.wire, asserted_by |-> b.asserted_by, comment |-> c]
  <1>1. [b EXCEPT !.comment = c] = t
    <2>1. b = [locators |-> b.locators, compare_via |-> b.compare_via, fields |-> b.fields,
               wire |-> b.wire, asserted_by |-> b.asserted_by, comment |-> b.comment]
      BY GoodParts
    <2> QED
      BY <2>1
  <1>2. t \in BindingType(Note)
    BY DEF GoodBinding, BindingType
  <1>3. BindingRules(t, FALSE)
    BY DEF GoodBinding, BindingRules
  <1> QED
    BY <1>1, <1>2, <1>3 DEF GoodBinding

(* The first of the places of a list where a test succeeds.                *)
LEMMA FoundPlace ==
  ASSUME NEW S, NEW s \in Seq(S), NEW P \in SUBSET (1..Len(s))
  PROVE  P # {} => Min(P) \in DOMAIN s /\ Min(P) \in P
  <1>1. DOMAIN s = 1..Len(s)
    BY ListProperties
  <1>2. P \in SUBSET DOMAIN s
    BY <1>1
  <1>3. P \in SUBSET Nat /\ IsFiniteSet(P)
    BY <1>2, PlacesFinite
  <1> QED
    BY <1>2, <1>3, LeastPlace

LEMMA PositionFound ==
  ASSUME NEW b \in BindingType(Note), NEW l
  PROVE  /\ Position(b, "locator", l) \in DOMAIN b.locators \cup {0}
         /\ Position(b, "assertion", l) \in DOMAIN OrEmpty(b.asserted_by) \cup {0}
         /\ Position(b, "field", l) \in DOMAIN OrEmpty(b.fields) \cup {0}
  <1>1. /\ b.locators \in Seq(EntryType("locator", Note))
        /\ OrEmpty(b.fields) \in Seq([key : Texts, value : EntryType("field_locator", Note)])
        /\ OrEmpty(b.asserted_by) \in Seq(EntryType("assertion", Note))
    BY EmptyList DEF BindingType, DictsOf, OrEmpty
  <1>2. Position(b, "locator", l) \in DOMAIN b.locators \cup {0}
    <2> DEFINE P == {n \in 1..Len(b.locators) : LocatorIdentity(b.locators[n]) = LocatorGiven(l)}
    <2>1. Position(b, "locator", l) = IF P # {} THEN Min(P) ELSE 0
      BY DEF Position, SelectInSeq
    <2>2. P # {} => Min(P) \in DOMAIN b.locators
      <3>1. P = {n \in 1..Len(b.locators) : n \in P}
        OBVIOUS
      <3> HIDE DEF P
      <3> QED
        BY <1>1, <3>1, FoundPlace
    <2> HIDE DEF P
    <2> QED
      BY <2>1, <2>2
  <1>3. Position(b, "assertion", l) \in DOMAIN OrEmpty(b.asserted_by) \cup {0}
    <2> DEFINE s == OrEmpty(b.asserted_by)
               P == {n \in 1..Len(s) : AssertionIdentity(s[n]) = AssertionGiven(l)}
    <2>1. Position(b, "assertion", l) = IF P # {} THEN Min(P) ELSE 0
      BY DEF Position, SelectInSeq
    <2>2. P # {} => Min(P) \in DOMAIN s
      <3>1. P \in SUBSET (1..Len(s))
        OBVIOUS
      <3> HIDE DEF P, s
      <3> QED
        BY <1>1, <3>1, FoundPlace DEF s
    <2> HIDE DEF P
    <2> QED
      BY <2>1, <2>2
  <1>4. Position(b, "field", l) \in DOMAIN OrEmpty(b.fields) \cup {0}
    <2> DEFINE s == OrEmpty(b.fields)
               P == {n \in 1..Len(s) : s[n].key = l.name}
    <2>1. Position(b, "field", l) = IF P # {} THEN Min(P) ELSE 0
      BY DEF Position, SelectInSeq
    <2>2. P # {} => Min(P) \in DOMAIN s
      <3>1. P \in SUBSET (1..Len(s))
        OBVIOUS
      <3> HIDE DEF P, s
      <3> QED
        BY <1>1, <3>1, FoundPlace DEF s
    <2> HIDE DEF P
    <2> QED
      BY <2>1, <2>2
  <1> QED
    BY <1>2, <1>3, <1>4

(* An entry taken away.                                                    *)
LEMMA EntryTaken ==
  ASSUME NEW b, GoodBinding(b), NEW node \in {"locator", "assertion", "field"}, NEW l,
         Position(b, node, l) # 0
  PROVE  GoodBinding(EntryRemoved(b, node, Position(b, node, l)))
  <1> DEFINE n == Position(b, node, l)
             F == [key : Texts, value : EntryType("field_locator", Note)]
  <1>0. b \in BindingType(Note)
    BY DEF GoodBinding
  <1>1. CASE node = "locator"
    <2> DEFINE s == RemoveAt(b.locators, n)
    <2>1. b.locators \in Seq(EntryType("locator", Note)) /\ LocatorsRules(b.locators, FALSE)
      BY GoodParts
    <2>2. n \in DOMAIN b.locators
      BY <1>0, <1>1, PositionFound
    <2> HIDE DEF n
    <2>3. /\ s \in Seq(EntryType("locator", Note)) /\ Range(s) \subseteq Range(b.locators)
          /\ OneOfEachLocator(b.locators) => OneOfEachLocator(s)
      BY <2>1, <2>2, RemovedList
    <2>4. LocatorsRules(s, FALSE)
      <3> HIDE DEF s
      <3> QED
        BY <2>1, <2>3 DEF LocatorsRules
    <2>5. EntryRemoved(b, node, n) = [b EXCEPT !.locators = s]
      BY <1>1 DEF EntryRemoved
    <2> HIDE DEF s
    <2>6. GoodBinding([b EXCEPT !.locators = s])
      BY <2>3, <2>4, OtherLocators
    <2> QED
      BY <2>5, <2>6 DEF n
  <1>2. CASE node = "assertion"
    <2> DEFINE old == OrEmpty(b.asserted_by)
               s == RemoveAt(old, n)
    <2>1. old \in Seq(EntryType("assertion", Note)) /\ AssertedRules(old, FALSE)
      BY GoodParts
    <2>2. n \in DOMAIN old
      BY <1>0, <1>2, PositionFound
    <2>3. b.asserted_by = old
      BY <2>2, EmptyList, GoodParts
    <2> HIDE DEF n, old
    <2>4. /\ s \in Seq(EntryType("assertion", Note)) /\ Range(s) \subseteq Range(old)
          /\ OneOfEachAssertion(old) => OneOfEachAssertion(s)
      BY <2>1, <2>2, RemovedList
    <2>5. AssertedRules(s, FALSE)
      <3> HIDE DEF s
      <3> QED
        BY <2>1, <2>4 DEF AssertedRules
    <2>6. EntryRemoved(b, node, n) = [b EXCEPT !.asserted_by = OrNone(s)]
      BY <1>2, <2>3 DEF EntryRemoved
    <2> HIDE DEF s
    <2>7. (OrNone(s) = s \/ OrNone(s) = None) /\ OrNone(s) # <<>>
      BY EmptyList, NoneAssumption DEF OrNone
    <2>8. GoodBinding([b EXCEPT !.asserted_by = OrNone(s)])
      BY <2>4, <2>5, <2>7, OtherAssertions
    <2> QED
      BY <2>6, <2>8 DEF n
  <1>3. CASE node = "field"
    <2> DEFINE old == OrEmpty(b.fields)
               s == RemoveAt(old, n)
    <2>1. old \in Seq(F) /\ UniqueKeys(old) /\ FieldsRules(old, FALSE)
      BY GoodParts
    <2>2. n \in DOMAIN old
      BY <1>0, <1>3, PositionFound
    <2>3. b.fields = old
      BY <2>2, EmptyList, GoodParts
    <2> HIDE DEF n, old, F
    <2>4. s \in Seq(F) /\ Range(s) \subseteq Range(old) /\ UniqueKeys(s)
      BY <2>1, <2>2, RemovedList
    <2>5. FieldsRules(s, FALSE)
      <3> HIDE DEF s
      <3> QED
        BY <2>1, <2>4 DEF FieldsRules
    <2>6. EntryRemoved(b, node, n) = [b EXCEPT !.fields = OrNone(s)]
      BY <1>3, <2>3 DEF EntryRemoved
    <2> HIDE DEF s
    <2>7. (OrNone(s) = s \/ OrNone(s) = None) /\ OrNone(s) # <<>>
      BY EmptyList, NoneAssumption DEF OrNone
    <2>8. GoodBinding([b EXCEPT !.fields = OrNone(s)])
      BY <2>4, <2>5, <2>7, OtherFields DEF F
    <2> QED
      BY <2>6, <2>8 DEF n
  <1> QED
    BY <1>1, <1>2, <1>3

(* An entry more.                                                          *)
GoodEntry(x, node) ==
    /\ x \in EntryType(node, Note) /\ CommentRules(x.comment, FALSE) /\ StringRules(x)
    /\ node = "assertion" => AssertionRules(x)

LEMMA EntryAdded ==
  ASSUME NEW b, GoodBinding(b), NEW node \in {"locator", "field_locator", "assertion"}, NEW name,
         NEW x, GoodEntry(x, node),
         node = "field_locator" => name \in Texts /\ FieldNameRules(name),
         Added(b, node, name, x) # None
  PROVE  GoodBinding(Added(b, node, name, x))
  <1> DEFINE F == [key : Texts, value : EntryType("field_locator", Note)]
             fields == OrEmpty(b.fields)
             asserted == OrEmpty(b.asserted_by)
             kept == IF x.comment = None /\ name \in Keys(fields)
                       THEN [x EXCEPT !.comment = Lookup(fields, name).comment] ELSE x
  <1>1. CASE node = "locator"
    <2> DEFINE old == b.locators
               s == Append(old, x)
               E == EntryType("locator", Note)
    <2>1. old \in Seq(E) /\ LocatorsRules(old, FALSE)
      BY GoodParts
    <2>2. /\ \A y \in Range(old) : LocatorIdentity(y) # LocatorIdentity(x)
          /\ Added(b, node, name, x) = [b EXCEPT !.locators = s]
      BY <1>1 DEF Added
    <2>3. x \in E /\ CommentRules(x.comment, FALSE) /\ StringRules(x)
      BY <1>1 DEF GoodEntry
    <2> HIDE DEF E, old
    <2>4. /\ s \in Seq(E) /\ Range(s) = Range(old) \cup {x}
          /\ DOMAIN s = 1..(Len(old) + 1) /\ s[Len(old) + 1] = x
          /\ \A n \in 1..Len(old) : s[n] = old[n]
      BY <2>1, <2>3, AppendList
    <2>5. Len(old) \in Nat /\ DOMAIN old = 1..Len(old)
      BY <2>1, ListProperties
    <2> HIDE DEF s
    <2>6. \A n \in DOMAIN s : (n \in DOMAIN old /\ s[n] = old[n]) \/ (n = Len(old) + 1 /\ s[n] = x)
      BY <2>4, <2>5
    <2>7. \A n \in DOMAIN old : LocatorIdentity(old[n]) # LocatorIdentity(x)
      BY <2>2 DEF old, Range
    <2>8. OneOfEachLocator(s)
      BY <2>1, <2>6, <2>7 DEF OneOfEachLocator, LocatorsRules
    <2>9. LocatorsRules(s, FALSE)
      BY <2>1, <2>3, <2>4, <2>8 DEF LocatorsRules
    <2>10. GoodBinding([b EXCEPT !.locators = s])
      BY <2>4, <2>9, OtherLocators DEF E
    <2> QED
      BY <2>2, <2>10
  <1>2. CASE node = "assertion"
    <2> DEFINE s == Append(asserted, x)
               E == EntryType("assertion", Note)
    <2>1. asserted \in Seq(E) /\ AssertedRules(asserted, FALSE)
      BY GoodParts
    <2>2. /\ \A y \in Range(asserted) : AssertionIdentity(y) # AssertionIdentity(x)
          /\ Added(b, node, name, x) = [b EXCEPT !.asserted_by = s]
      BY <1>2 DEF Added
    <2>3. x \in E /\ CommentRules(x.comment, FALSE) /\ StringRules(x) /\ AssertionRules(x)
      BY <1>2 DEF GoodEntry
    <2> HIDE DEF E, asserted
    <2>4. /\ s \in Seq(E) /\ s # <<>> /\ Range(s) = Range(asserted) \cup {x}
          /\ DOMAIN s = 1..(Len(asserted) + 1) /\ s[Len(asserted) + 1] = x
          /\ \A n \in 1..Len(asserted) : s[n] = asserted[n]
      BY <2>1, <2>3, AppendList
    <2>5. Len(asserted) \in Nat /\ DOMAIN asserted = 1..Len(asserted)
      BY <2>1, ListProperties
    <2> HIDE DEF s
    <2>6. \A n \in DOMAIN s :
            (n \in DOMAIN asserted /\ s[n] = asserted[n]) \/ (n = Len(asserted) + 1 /\ s[n] = x)
      BY <2>4, <2>5
    <2>7. \A n \in DOMAIN asserted : AssertionIdentity(asserted[n]) # AssertionIdentity(x)
      BY <2>2 DEF Range
    <2>8. OneOfEachAssertion(s)
      BY <2>1, <2>6, <2>7 DEF OneOfEachAssertion, AssertedRules
    <2>9. AssertedRules(s, FALSE)
      BY <2>1, <2>3, <2>4, <2>8 DEF AssertedRules
    <2>10. GoodBinding([b EXCEPT !.asserted_by = s])
      BY <2>4, <2>9, OtherAssertions DEF E
    <2> QED
      BY <2>2, <2>10
  <1>3. CASE node = "field_locator"
    <2> DEFINE e == Keyed(name, kept)
               d == Assign(fields, e)
    <2>1. fields \in Seq(F) /\ UniqueKeys(fields) /\ FieldsRules(fields, FALSE)
      BY GoodParts
    <2>2. Added(b, node, name, x) = [b EXCEPT !.fields = d]
      BY <1>3 DEF Added
    <2>3. x \in EntryType("field_locator", Note) /\ CommentRules(x.comment, FALSE) /\ StringRules(x)
      BY <1>3 DEF GoodEntry
    <2>4. Range(fields) \subseteq F
      <3> HIDE DEF F, fields
      <3> QED
        BY <2>1, ListProperties
    <2>5. /\ kept \in EntryType("field_locator", Note) /\ CommentRules(kept.comment, FALSE)
          /\ StringRules(kept)
      <3>1. CASE x.comment = None /\ name \in Keys(fields)
        <4>1. PICK y \in Range(fields) : y.key = name /\ Lookup(fields, name) = y.value
          BY <3>1, LookupProperties
        <4>2. y.value \in EntryType("field_locator", Note) /\ CommentRules(y.value.comment, FALSE)
          BY <2>1, <2>4 DEF FieldsRules
        <4>3. y.value.comment \in Note
          BY <4>2 DEF EntryType
        <4>4. kept = [x EXCEPT !.comment = y.value.comment]
          BY <3>1, <4>1
        <4>5. x = [strings |-> x.strings, comment |-> x.comment]
          BY <2>3 DEF EntryType
        <4>6. kept = [strings |-> x.strings, comment |-> y.value.comment]
          BY <4>4, <4>5
        <4> HIDE DEF kept
        <4> QED
          BY <2>3, <4>2, <4>3, <4>6 DEF EntryType, StringRules
      <3>2. CASE ~(x.comment = None /\ name \in Keys(fields))
        BY <2>3, <3>2
      <3> QED
        BY <3>1, <3>2
    <2>6. e \in F /\ e.key = name /\ e.value = kept /\ FieldNameRules(name)
      <3> HIDE DEF kept
      <3> QED
        BY <1>3, <2>5 DEF Keyed
    <2>7. None \notin F
      BY EntryKinds, NotesAreTexts DEF Nodes
    <2> HIDE DEF F, fields, e, kept
    <2>8. d \in Seq(F) /\ UniqueKeys(d) /\ d # <<>> /\ Range(d) \subseteq Range(fields) \cup {e}
      BY <2>1, <2>6, <2>7, AssignProperties
    <2> HIDE DEF d
    <2>9. FieldsRules(d, FALSE)
      BY <2>1, <2>5, <2>6, <2>8 DEF FieldsRules
    <2>10. GoodBinding([b EXCEPT !.fields = d])
      BY <2>8, <2>9, OtherFields DEF F
    <2> QED
      BY <2>2, <2>10
  <1> QED
    BY <1>1, <1>2, <1>3

(***************************************************************************)
(* Comments.                                                               *)
(***************************************************************************)
(* One binding replaced where it is.                                       *)
LEMMA BindingReplaced ==
  ASSUME NEW m, Good(m), NEW n \in DOMAIN m.bindings, NEW b, GoodBinding(b)
  PROVE  Good([m EXCEPT !.bindings[n].value = b])
  <1> DEFINE E == [key : IdTexts, value : BindingType(Note)]
             d == m.bindings
             e == [key |-> d[n].key, value |-> b]
             s == [d EXCEPT ![n] = e]
             t == [schema_version |-> m.schema_version, bindings |-> s,
                   coverage |-> m.coverage, header |-> m.header]
  <1>1. /\ d \in Seq(E) /\ UniqueKeys(d)
        /\ \A x \in Range(d) : GoodBinding(x.value)
        /\ m = [schema_version |-> m.schema_version, bindings |-> m.bindings,
                coverage |-> m.coverage, header |-> m.header]
    BY GoodMaps
  <1>2. d[n] \in E
    <2> HIDE DEF E
    <2> QED
      BY <1>1, ListProperties
  <1>3. e \in E /\ d[n] = [key |-> d[n].key, value |-> d[n].value]
    BY <1>2 DEF GoodBinding
  <1>4. /\ s \in Seq(E) /\ DOMAIN s = DOMAIN d
        /\ \A k \in DOMAIN d : s[k] = IF k = n THEN e ELSE d[k]
    <2> HIDE DEF E, e, d
    <2> QED
      BY <1>1, <1>3, ReplaceList DEF d
  <1>5. UniqueKeys(s)
    <2>1. \A k \in DOMAIN d : s[k].key = d[k].key
      BY <1>4
    <2> HIDE DEF s, d
    <2> QED
      BY <1>1, <1>4, <2>1 DEF UniqueKeys
  <1>6. \A x \in Range(s) : GoodBinding(x.value)
    <2>1. \A k \in DOMAIN d : GoodBinding(s[k].value)
      <3>1. \A k \in DOMAIN d : GoodBinding(d[k].value)
        BY <1>1 DEF Range
      <3> QED
        BY <1>4, <3>1
    <2> HIDE DEF s, d
    <2> QED
      BY <1>4, <2>1 DEF Range
  <1>7. [m EXCEPT !.bindings[n].value = b] = t
    <2>1. [d[n] EXCEPT !.value = b] = e
      BY <1>3
    <2>2. [m EXCEPT !.bindings[n].value = b] = [m EXCEPT !.bindings = [d EXCEPT ![n] = [d[n] EXCEPT !.value = b]]]
      BY <1>1
    <2>3. [m EXCEPT !.bindings[n].value = b] = [m EXCEPT !.bindings = s]
      BY <2>1, <2>2
    <2> HIDE DEF s, e
    <2>4. [m EXCEPT !.bindings = s] = t
      BY <1>1
    <2> QED
      BY <2>3, <2>4
  <1> HIDE DEF s
  <1>8. t \in MapType
    BY <1>4, <1>5 DEF Good, MapType, DictsOf, IdTexts
  <1>9. MapRules(t)
    BY <1>6 DEF Good, MapRules, GoodBinding
  <1> QED
    BY <1>7, <1>8, <1>9 DEF Good

LEMMA OtherHeader ==
  ASSUME NEW m, Good(m), NEW c \in Note, CommentRules(c, FALSE)
  PROVE  Good([m EXCEPT !.header = c])
  <1> DEFINE t == [schema_version |-> m.schema_version, bindings |-> m.bindings,
                   coverage |-> m.coverage, header |-> c]
  <1>1. [m EXCEPT !.header = c] = t
    <2>1. m = [schema_version |-> m.schema_version, bindings |-> m.bindings,
               coverage |-> m.coverage, header |-> m.header]
      BY GoodMaps
    <2> QED
      BY <2>1
  <1>2. t \in MapType
    BY DEF Good, MapType
  <1>3. MapRules(t)
    BY DEF Good, MapRules
  <1> QED
    BY <1>1, <1>2, <1>3 DEF Good

LEMMA OtherCoverage ==
  ASSUME NEW m, Good(m), NEW c \in CoverageType
  PROVE  /\ [m EXCEPT !.coverage = c] \in MapType
         /\ CoverageRules(c) => Good([m EXCEPT !.coverage = c])
  <1> DEFINE t == [schema_version |-> m.schema_version, bindings |-> m.bindings,
                   coverage |-> c, header |-> m.header]
  <1>1. [m EXCEPT !.coverage = c] = t
    <2>1. m = [schema_version |-> m.schema_version, bindings |-> m.bindings,
               coverage |-> m.coverage, header |-> m.header]
      BY GoodMaps
    <2> QED
      BY <2>1
  <1>2. t \in MapType
    BY DEF Good, MapType
  <1>3. CoverageRules(c) => MapRules(t)
    BY DEF Good, MapRules
  <1> QED
    BY <1>1, <1>2, <1>3 DEF Good

(* The coverage of a good map.                                             *)
LEMMA GoodCoverage ==
  ASSUME NEW m, Good(m), m.coverage # None
  PROVE  /\ m.coverage \in CoverageType /\ CoverageRules(m.coverage)
         /\ m.coverage = [fully_bound |-> m.coverage.fully_bound, curated |-> m.coverage.curated,
                          comment |-> m.coverage.comment]
  BY DEF Good, MapType, MapRules, CoverageType

LEMMA EntryCommented ==
  ASSUME NEW node \in Nodes, NEW x \in EntryType(node, Note), NEW c \in Note
  PROVE  /\ [x EXCEPT !.comment = c] \in EntryType(node, Note)
         /\ [x EXCEPT !.comment = c].strings = x.strings
         /\ [x EXCEPT !.comment = c].comment = c
  BY DEF EntryType

LEMMA LocatorCommented ==
  ASSUME NEW b, GoodBinding(b), NEW i \in DOMAIN b.locators, NEW c \in Note, CommentRules(c, FALSE)
  PROVE  GoodBinding([b EXCEPT !.locators[i].comment = c])
  <1> DEFINE E == EntryType("locator", Note)
             old == b.locators
             x == [old[i] EXCEPT !.comment = c]
             s == [old EXCEPT ![i] = x]
  <1>1. old \in Seq(E) /\ LocatorsRules(old, FALSE)
    BY GoodParts
  <1>2. old[i] \in E /\ old[i] \in Range(old)
    <2> HIDE DEF E
    <2> QED
      BY <1>1, ListProperties
  <1>3. x \in E /\ x.strings = old[i].strings /\ x.comment = c
    BY <1>2, EntryCommented DEF Nodes
  <1>4. StringRules(x) /\ LocatorIdentity(x) = LocatorIdentity(old[i])
    <2>1. StringRules(old[i])
      BY <1>1, <1>2 DEF LocatorsRules
    <2> HIDE DEF x
    <2> QED
      BY <1>3, <2>1 DEF StringRules, LocatorIdentity, StringAt
  <1> HIDE DEF E, x
  <1>5. /\ s \in Seq(E) /\ DOMAIN s = DOMAIN old
        /\ \A k \in DOMAIN old : s[k] = IF k = i THEN x ELSE old[k]
    BY <1>1, <1>3, ReplaceList
  <1> HIDE DEF s
  <1>6. OneOfEachLocator(s)
    <2>1. \A k \in DOMAIN old : LocatorIdentity(s[k]) = LocatorIdentity(old[k])
      BY <1>4, <1>5
    <2> QED
      BY <1>1, <1>5, <2>1 DEF OneOfEachLocator, LocatorsRules
  <1>7. LocatorsRules(s, FALSE)
    <2>1. \A k \in DOMAIN old : CommentRules(s[k].comment, FALSE) /\ StringRules(s[k])
      <3>1. \A k \in DOMAIN old : CommentRules(old[k].comment, FALSE) /\ StringRules(old[k])
        BY <1>1 DEF LocatorsRules, Range
      <3> QED
        BY <1>3, <1>4, <1>5, <3>1
    <2> QED
      BY <1>5, <1>6, <2>1 DEF LocatorsRules, Range
  <1>8. [b EXCEPT !.locators[i].comment = c] = [b EXCEPT !.locators = s]
    BY DEF s, x
  <1>9. GoodBinding([b EXCEPT !.locators = s])
    BY <1>5, <1>7, OtherLocators DEF E
  <1> QED
    BY <1>8, <1>9

LEMMA AssertionCommented ==
  ASSUME NEW b, GoodBinding(b), NEW i \in DOMAIN OrEmpty(b.asserted_by),
         NEW c \in Note, CommentRules(c, FALSE)
  PROVE  GoodBinding([b EXCEPT !.asserted_by[i].comment = c])
  <1> DEFINE E == EntryType("assertion", Note)
             old == OrEmpty(b.asserted_by)
             x == [old[i] EXCEPT !.comment = c]
             s == [old EXCEPT ![i] = x]
  <1>1. old \in Seq(E) /\ AssertedRules(old, FALSE) /\ b.asserted_by = old
    BY GoodParts, EmptyList
  <1> HIDE DEF old
  <1>2. old[i] \in E /\ old[i] \in Range(old) /\ i \in DOMAIN old
    <2> HIDE DEF E
    <2> QED
      BY <1>1, ListProperties DEF old
  <1>3. x \in E /\ x.strings = old[i].strings /\ x.comment = c
    BY <1>2, EntryCommented DEF Nodes
  <1>4. /\ StringRules(x) /\ AssertionRules(x)
        /\ AssertionIdentity(x) = AssertionIdentity(old[i])
    <2>1. StringRules(old[i]) /\ AssertionRules(old[i])
      BY <1>1, <1>2 DEF AssertedRules
    <2> HIDE DEF x
    <2>2. StringRules(x)
      BY <1>3, <2>1 DEF StringRules
    <2>3. AssertionRules(x)
      BY <1>3, <2>1 DEF AssertionRules
    <2>4. AssertionIdentity(x) = AssertionIdentity(old[i])
      BY <1>3 DEF AssertionIdentity, StringAt
    <2> QED
      BY <2>2, <2>3, <2>4
  <1> HIDE DEF E, x
  <1>5. /\ s \in Seq(E) /\ s # <<>> /\ DOMAIN s = DOMAIN old
        /\ \A k \in DOMAIN old : s[k] = IF k = i THEN x ELSE old[k]
    BY <1>1, <1>2, <1>3, ReplaceList
  <1> HIDE DEF s
  <1>6. OneOfEachAssertion(s)
    <2>1. \A k \in DOMAIN old : AssertionIdentity(s[k]) = AssertionIdentity(old[k])
      BY <1>4, <1>5
    <2> QED
      BY <1>1, <1>5, <2>1 DEF OneOfEachAssertion, AssertedRules
  <1>7. AssertedRules(s, FALSE)
    <2>1. \A k \in DOMAIN old :
            CommentRules(s[k].comment, FALSE) /\ StringRules(s[k]) /\ AssertionRules(s[k])
      <3>1. \A k \in DOMAIN old :
              CommentRules(old[k].comment, FALSE) /\ StringRules(old[k]) /\ AssertionRules(old[k])
        BY <1>1 DEF AssertedRules, Range
      <3> QED
        BY <1>3, <1>4, <1>5, <3>1
    <2> QED
      BY <1>5, <1>6, <2>1 DEF AssertedRules, Range
  <1>8. [b EXCEPT !.asserted_by[i].comment = c]
          = [b EXCEPT !.asserted_by = s]
    BY <1>1 DEF s, x
  <1>9. GoodBinding([b EXCEPT !.asserted_by = s])
    BY <1>5, <1>7, OtherAssertions DEF E
  <1> QED
    BY <1>8, <1>9

LEMMA FieldCommented ==
  ASSUME NEW b, GoodBinding(b), NEW i \in DOMAIN OrEmpty(b.fields),
         NEW c \in Note, CommentRules(c, FALSE)
  PROVE  GoodBinding([b EXCEPT !.fields[i].value.comment = c])
  <1> DEFINE E == [key : Texts, value : EntryType("field_locator", Note)]
             old == OrEmpty(b.fields)
             x == [old[i].value EXCEPT !.comment = c]
             e == [key |-> old[i].key, value |-> x]
             s == [old EXCEPT ![i] = e]
  <1>1. old \in Seq(E) /\ UniqueKeys(old) /\ FieldsRules(old, FALSE) /\ b.fields = old
    BY GoodParts, EmptyList
  <1> HIDE DEF old
  <1>2. old[i] \in E /\ old[i] \in Range(old) /\ i \in DOMAIN old
    <2> HIDE DEF E
    <2> QED
      BY <1>1, ListProperties DEF old
  <1>3. /\ x \in EntryType("field_locator", Note) /\ x.strings = old[i].value.strings
        /\ x.comment = c
    BY <1>2, EntryCommented DEF Nodes
  <1>4. StringRules(x) /\ FieldNameRules(old[i].key)
    <2>1. StringRules(old[i].value) /\ FieldNameRules(old[i].key)
      BY <1>1, <1>2 DEF FieldsRules
    <2> HIDE DEF x
    <2> QED
      BY <1>3, <2>1 DEF StringRules
  <1>5. e \in E /\ [old[i] EXCEPT !.value.comment = c] = e
    <2>1. old[i] = [key |-> old[i].key, value |-> old[i].value]
      BY <1>2
    <2>2. [old[i] EXCEPT !.value = x] = e
      <3> HIDE DEF x
      <3> QED
        BY <2>1
    <2>3. e \in E
      <3> HIDE DEF x
      <3> QED
        BY <1>2, <1>3
    <2> QED
      BY <2>2, <2>3
  <1>6. e.key = old[i].key /\ e.value = x
    OBVIOUS
  <1> HIDE DEF E, x, e
  <1>7. /\ s \in Seq(E) /\ s # <<>> /\ DOMAIN s = DOMAIN old
        /\ \A k \in DOMAIN old : s[k] = IF k = i THEN e ELSE old[k]
    BY <1>1, <1>2, <1>5, ReplaceList
  <1> HIDE DEF s
  <1>8. UniqueKeys(s)
    <2>1. \A k \in DOMAIN old : s[k].key = old[k].key
      BY <1>6, <1>7
    <2> QED
      BY <1>1, <1>7, <2>1 DEF UniqueKeys
  <1>9. FieldsRules(s, FALSE)
    <2>1. \A k \in DOMAIN old : /\ CommentRules(s[k].value.comment, FALSE)
                                /\ StringRules(s[k].value) /\ FieldNameRules(s[k].key)
      <3>1. \A k \in DOMAIN old : /\ CommentRules(old[k].value.comment, FALSE)
                                  /\ StringRules(old[k].value) /\ FieldNameRules(old[k].key)
        BY <1>1 DEF FieldsRules, Range
      <3> QED
        BY <1>3, <1>4, <1>6, <1>7, <3>1
    <2> QED
      BY <1>7, <2>1 DEF FieldsRules, Range
  <1>10. [b EXCEPT !.fields[i].value.comment = c]
          = [b EXCEPT !.fields = s]
    BY <1>1, <1>5 DEF s
  <1>11. GoodBinding([b EXCEPT !.fields = s])
    BY <1>7, <1>8, <1>9, OtherFields DEF E
  <1> QED
    BY <1>10, <1>11

LEMMA CoverageCommented ==
  ASSUME NEW c \in CoverageType, CoverageRules(c), NEW x \in Note, CommentRules(x, FALSE)
  PROVE  [c EXCEPT !.comment = x] \in CoverageType /\ CoverageRules([c EXCEPT !.comment = x])
  <1> DEFINE t == [fully_bound |-> c.fully_bound, curated |-> c.curated, comment |-> x]
  <1>1. [c EXCEPT !.comment = x] = t
    BY DEF CoverageType
  <1>2. t \in CoverageType
    BY DEF CoverageType
  <1>3. CoverageRules(t)
    BY DEF CoverageRules
  <1> QED
    BY <1>1, <1>2, <1>3

LEMMA CuratedCommented ==
  ASSUME NEW c \in CoverageType, CoverageRules(c), NEW i \in DOMAIN OrEmpty(c.curated),
         NEW x \in Note, CommentRules(x, FALSE)
  PROVE  /\ [c EXCEPT !.curated[i].value.comment = x] \in CoverageType
         /\ CoverageRules([c EXCEPT !.curated[i].value.comment = x])
  <1> DEFINE V == [reason : Texts, comment : Note]
             E == [key : Texts, value : V]
             old == c.curated
             e == [key |-> old[i].key, value |-> [reason |-> old[i].value.reason, comment |-> x]]
             s == [old EXCEPT ![i] = e]
             t == [fully_bound |-> c.fully_bound, curated |-> s, comment |-> c.comment]
  <1>1. /\ c.curated # None /\ i \in DOMAIN old
        /\ old \in Seq(E) /\ UniqueKeys(old)
    BY EmptyList DEF OrEmpty, CoverageType, DictsOf
  <1>2. c = [fully_bound |-> c.fully_bound, curated |-> old, comment |-> c.comment]
    BY DEF CoverageType
  <1>3. old[i] \in E /\ old[i] \in Range(old)
    <2> HIDE DEF E, old
    <2> QED
      BY <1>1, ListProperties
  <1>4. e \in E /\ [old[i] EXCEPT !.value.comment = x] = e
    BY <1>3
  <1>5. /\ Is(e.key, "kind") /\ CommentRules(e.value.comment, FALSE)
        /\ ~Is(e.value.reason, "empty") /\ ~Is(e.value.reason, "control")
    BY <1>1, <1>3 DEF CoverageRules
  <1>6. [c EXCEPT !.curated[i].value.comment = x] = t
    <2>1. [c EXCEPT !.curated[i].value.comment = x] = [c EXCEPT !.curated = s]
      BY <1>4
    <2> HIDE DEF s
    <2> QED
      BY <1>2, <2>1
  <1>7. e.key = old[i].key
    OBVIOUS
  <1> HIDE DEF E, e, old
  <1>8. /\ s \in Seq(E) /\ s # <<>> /\ DOMAIN s = DOMAIN old
        /\ \A k \in DOMAIN old : s[k] = IF k = i THEN e ELSE old[k]
    BY <1>1, <1>4, ReplaceList
  <1> HIDE DEF s
  <1>9. \A k \in DOMAIN old : s[k].key = old[k].key
    BY <1>7, <1>8
  <1>10. UniqueKeys(s) /\ Keys(s) = Keys(old)
    BY <1>1, <1>8, <1>9 DEF UniqueKeys, Keys
  <1>11. \A y \in Range(s) : /\ Is(y.key, "kind") /\ CommentRules(y.value.comment, FALSE)
                             /\ ~Is(y.value.reason, "empty") /\ ~Is(y.value.reason, "control")
    <2>1. \A y \in Range(old) : /\ Is(y.key, "kind") /\ CommentRules(y.value.comment, FALSE)
                                /\ ~Is(y.value.reason, "empty") /\ ~Is(y.value.reason, "control")
      BY <1>1 DEF CoverageRules, old
    <2>2. \A k \in DOMAIN old : old[k] \in Range(old)
      BY DEF Range
    <2>3. \A k \in DOMAIN s : s[k] = e \/ s[k] \in Range(old)
      BY <1>8, <2>2
    <2> QED
      BY <1>5, <2>1, <2>3 DEF Range
  <1>12. t \in CoverageType
    BY <1>8, <1>10 DEF CoverageType, DictsOf, E
  <1>13. CoverageRules(t)
    <2>1. s # None
      BY <1>8, <1>10, NoneAssumption DEF DictsOf, E
    <2> QED
      BY <1>1, <1>8, <1>10, <1>11, <2>1 DEF CoverageRules, old
  <1> QED
    BY <1>6, <1>12, <1>13

Anchors == {"header", "coverage", "curated", "binding", "locator", "field", "assertion"}

(* The object that an anchor leads to gets another comment.                *)
LEMMA Commenting ==
  ASSUME NEW m, Good(m), NEW l, l.anchor \in Anchors,
         Resolve(m, l) # <<>>, NEW c \in Note, CommentRules(c, FALSE)
  PROVE  Good(WithText(m, Resolve(m, l), c))
  <1> DEFINE at == Resolve(m, l)
             curated == IF m.coverage = None THEN <<>> ELSE OrEmpty(m.coverage.curated)
             P == {i \in 1..Len(m.bindings) : m.bindings[i].key = l.target}
             Q == {i \in 1..Len(curated) : curated[i].key = l.target}
             n == IF P # {} THEN Min(P) ELSE 0
             k == IF Q # {} THEN Min(Q) ELSE 0
  <1>1. /\ l.anchor = "header" => at = <<"header">>
        /\ l.anchor = "coverage" => at = IF m.coverage = None THEN <<>> ELSE <<"coverage">>
        /\ l.anchor = "curated" => at = IF k = 0 THEN <<>> ELSE <<"curated", k>>
        /\ l.anchor \notin {"header", "coverage", "curated"} /\ n = 0 => at = <<>>
        /\ l.anchor = "binding" /\ n # 0 => at = <<"binding", n>>
        /\ l.anchor \in {"locator", "field", "assertion"} /\ n # 0 =>
             at = IF Position(m.bindings[n].value, l.anchor, l) = 0 THEN <<>>
                  ELSE <<l.anchor, n, Position(m.bindings[n].value, l.anchor, l)>>
    <2>1. SelectInSeq(m.bindings, LAMBDA e : e.key = l.target) = n
      BY DEF SelectInSeq
    <2>2. SelectInSeq(curated, LAMBDA e : e.key = l.target) = k
      BY DEF SelectInSeq
    <2> HIDE DEF n, k, P, Q
    <2> QED
      BY <2>1, <2>2 DEF Resolve
  <1>2. n # 0 => n \in DOMAIN m.bindings
    <2>1. m.bindings \in Seq([key : IdTexts, value : BindingType(Note)])
      BY GoodMaps
    <2>2. P # {} => Min(P) \in DOMAIN m.bindings
      <3> HIDE DEF P
      <3> P \in SUBSET (1..Len(m.bindings))
        BY DEF P
      <3> QED
        BY <2>1, FoundPlace
    <2> HIDE DEF P
    <2> QED
      BY <2>2
  <1>3. k # 0 => k \in DOMAIN curated
    <2>1. curated \in Seq([key : Texts, value : [reason : Texts, comment : Note]])
      <3>1. CASE m.coverage = None
        BY <3>1, EmptyList
      <3>2. CASE m.coverage # None
        <4>1. m.coverage \in CoverageType
          BY <3>2, GoodCoverage
        <4> QED
          BY <3>2, <4>1, EmptyList DEF CoverageType, DictsOf, OrEmpty
      <3> QED
        BY <3>1, <3>2
    <2>2. Q # {} => Min(Q) \in DOMAIN curated
      <3> HIDE DEF Q, curated
      <3> Q \in SUBSET (1..Len(curated))
        BY DEF Q
      <3> QED
        BY <2>1, FoundPlace
    <2> HIDE DEF Q
    <2> QED
      BY <2>2
  <1> HIDE DEF at, n, k
  <1>4. CASE l.anchor = "header"
    <2>1. at = <<"header">>
      BY <1>1, <1>4
    <2>2. WithText(m, at, c) = [m EXCEPT !.header = c]
      BY <2>1 DEF WithText
    <2> QED
      BY <2>2, OtherHeader DEF at
  <1>5. CASE l.anchor = "coverage"
    <2>1. at = <<"coverage">> /\ m.coverage # None
      BY <1>1, <1>5 DEF at
    <2>2. WithText(m, at, c) = [m EXCEPT !.coverage.comment = c]
      BY <2>1 DEF WithText
    <2>3. [m EXCEPT !.coverage.comment = c] = [m EXCEPT !.coverage = [m.coverage EXCEPT !.comment = c]]
      OBVIOUS
    <2>4. /\ [m.coverage EXCEPT !.comment = c] \in CoverageType
          /\ CoverageRules([m.coverage EXCEPT !.comment = c])
      BY <2>1, GoodCoverage, CoverageCommented
    <2> QED
      BY <2>2, <2>3, <2>4, OtherCoverage DEF at
  <1>6. CASE l.anchor = "curated"
    <2>1. at = <<"curated", k>> /\ k # 0
      BY <1>1, <1>6 DEF at
    <2>2. k \in DOMAIN OrEmpty(m.coverage.curated) /\ m.coverage # None
      BY <1>3, <2>1, EmptyList
    <2>3. WithText(m, at, c) = [m EXCEPT !.coverage.curated[k].value.comment = c]
      BY <2>1 DEF WithText
    <2>4. [m EXCEPT !.coverage.curated[k].value.comment = c] =
            [m EXCEPT !.coverage = [m.coverage EXCEPT !.curated[k].value.comment = c]]
      OBVIOUS
    <2>5. m.coverage \in CoverageType /\ CoverageRules(m.coverage)
      BY <2>2, GoodCoverage
    <2>6. /\ [m.coverage EXCEPT !.curated[k].value.comment = c] \in CoverageType
          /\ CoverageRules([m.coverage EXCEPT !.curated[k].value.comment = c])
      BY <2>2, <2>5, CuratedCommented
    <2> QED
      BY <2>3, <2>4, <2>6, OtherCoverage DEF at
  <1>7. CASE l.anchor \in {"binding", "locator", "field", "assertion"}
    <2> DEFINE b == m.bindings[n].value
               i == Position(b, l.anchor, l)
    <2>1. n # 0
      BY <1>1, <1>7 DEF at
    <2>2. n \in DOMAIN m.bindings /\ GoodBinding(b)
      BY <1>2, <2>1, GoodMaps DEF Range
    <2>3. b \in BindingType(Note)
      BY <2>2 DEF GoodBinding
    <2> HIDE DEF b
    <2>4. CASE l.anchor = "binding"
      <3>1. at = <<"binding", n>>
        BY <1>1, <2>1, <2>4
      <3>2. WithText(m, at, c) = [m EXCEPT !.bindings[n].value.comment = c]
        BY <3>1 DEF WithText
      <3>3. [m EXCEPT !.bindings[n].value.comment = c] =
              [m EXCEPT !.bindings[n].value = [b EXCEPT !.comment = c]]
        BY DEF b
      <3>4. GoodBinding([b EXCEPT !.comment = c])
        BY <2>2, OtherComment
      <3> QED
        BY <2>2, <3>2, <3>3, <3>4, BindingReplaced DEF at
    <2>5. CASE l.anchor = "locator"
      <3>1. at = <<"locator", n, i>> /\ i # 0
        BY <1>1, <2>1, <2>5 DEF at, b
      <3>2. WithText(m, at, c) = [m EXCEPT !.bindings[n].value.locators[i].comment = c]
        BY <3>1 DEF WithText
      <3>3. [m EXCEPT !.bindings[n].value.locators[i].comment = c] =
              [m EXCEPT !.bindings[n].value = [b EXCEPT !.locators[i].comment = c]]
        BY DEF b
      <3>4. i \in DOMAIN b.locators
        BY <2>3, <2>5, <3>1, PositionFound
      <3>5. GoodBinding([b EXCEPT !.locators[i].comment = c])
        BY <2>2, <3>4, LocatorCommented
      <3>6. Good([m EXCEPT !.bindings[n].value = [b EXCEPT !.locators[i].comment = c]])
        BY <2>2, <3>5, BindingReplaced
      <3> QED
        BY <3>2, <3>3, <3>6 DEF at
    <2>6. CASE l.anchor = "field"
      <3>1. at = <<"field", n, i>> /\ i # 0
        BY <1>1, <2>1, <2>6 DEF at, b
      <3>2. WithText(m, at, c) = [m EXCEPT !.bindings[n].value.fields[i].value.comment = c]
        BY <3>1 DEF WithText
      <3>3. [m EXCEPT !.bindings[n].value.fields[i].value.comment = c] =
              [m EXCEPT !.bindings[n].value = [b EXCEPT !.fields[i].value.comment = c]]
        BY DEF b
      <3>4. i \in DOMAIN OrEmpty(b.fields)
        BY <2>3, <2>6, <3>1, PositionFound
      <3>5. GoodBinding([b EXCEPT !.fields[i].value.comment = c])
        BY <2>2, <3>4, FieldCommented
      <3>6. Good([m EXCEPT !.bindings[n].value = [b EXCEPT !.fields[i].value.comment = c]])
        BY <2>2, <3>5, BindingReplaced
      <3> QED
        BY <3>2, <3>3, <3>6 DEF at
    <2>7. CASE l.anchor = "assertion"
      <3>1. at = <<"assertion", n, i>> /\ i # 0
        BY <1>1, <2>1, <2>7 DEF at, b
      <3>2. WithText(m, at, c) = [m EXCEPT !.bindings[n].value.asserted_by[i].comment = c]
        BY <3>1 DEF WithText
      <3>3. [m EXCEPT !.bindings[n].value.asserted_by[i].comment = c] =
              [m EXCEPT !.bindings[n].value = [b EXCEPT !.asserted_by[i].comment = c]]
        BY DEF b
      <3>4. i \in DOMAIN OrEmpty(b.asserted_by)
        BY <2>3, <2>7, <3>1, PositionFound
      <3>5. GoodBinding([b EXCEPT !.asserted_by[i].comment = c])
        BY <2>2, <3>4, AssertionCommented
      <3>6. Good([m EXCEPT !.bindings[n].value = [b EXCEPT !.asserted_by[i].comment = c]])
        BY <2>2, <3>5, BindingReplaced
      <3> QED
        BY <3>2, <3>3, <3>6 DEF at
    <2> QED
      BY <1>7, <2>4, <2>5, <2>6, <2>7
  <1> QED
    BY <1>4, <1>5, <1>6, <1>7 DEF Anchors

(***************************************************************************)
(* format.                                                                 *)
(***************************************************************************)
LEMMA CoverageSorted ==
  ASSUME NEW c \in CoverageType, CoverageRules(c)
  PROVE  CanonicalCoverage(c) \in CoverageType /\ CoverageRules(CanonicalCoverage(c))
  <1> DEFINE K == {t \in Texts : Is(t, "kind")}
             V == [reason : Texts, comment : Note]
             E == [key : K, value : V]
             x == c.fully_bound
             y == c.curated
             s == IF x = None THEN None ELSE SortKinds(x)
             d == IF y = None THEN None ELSE SortEntries(y)
             t == [fully_bound |-> s, curated |-> d, comment |-> c.comment]
  <1>0. /\ x \in Seq(Texts) \cup {None}
        /\ y \in DictsOf(Texts, V) \cup {None}
        /\ c = [fully_bound |-> x, curated |-> y, comment |-> c.comment]
    BY DEF CoverageType
  <1>1. CanonicalCoverage(c) = t
    <2>1. CanonicalCoverage(c) = [c EXCEPT !.fully_bound = s, !.curated = d]
      BY DEF CanonicalCoverage
    <2> HIDE DEF s, d
    <2> QED
      BY <1>0, <2>1
  <1>2. ASSUME x # None
        PROVE  /\ s \in Seq(Texts) /\ s # <<>> /\ IsInjective(s) /\ Range(s) = Range(x)
               /\ s # None
    <2>1. x \in Seq(Texts) /\ x # <<>> /\ IsInjective(x) /\ \A k \in Range(x) : Is(k, "kind")
      BY <1>0, <1>2 DEF CoverageRules
    <2>2. x \in Seq(K)
      <3>1. \A n \in DOMAIN x : x[n] \in K
        BY <2>1, ListProperties DEF Range
      <3>2. x = [n \in DOMAIN x |-> x[n]]
        BY <2>1, LenProperties
      <3> HIDE DEF K, x
      <3> QED
        BY <2>1, <3>1, <3>2, MappedList
    <2>3. \A k, l \in K : Rank[k] \in Nat /\ (Rank[k] = Rank[l] => k = l)
      BY RankAssumption
    <2> HIDE DEF K, x
    <2>4. /\ SortKinds(x) \in Seq(K) /\ IsInjective(SortKinds(x)) /\ Range(SortKinds(x)) = Range(x)
          /\ SortKinds(x) = <<>> <=> x = <<>>
      BY <2>1, <2>2, <2>3, SortedKinds
    <2>5. Seq(K) \subseteq Seq(Texts)
      BY SeqMonotonic DEF K
    <2>6. s = SortKinds(x)
      BY <1>2
    <2> QED
      BY <2>1, <2>4, <2>5, <2>6, NoneAssumption
  <1>3. ASSUME y # None
        PROVE  /\ d \in DictsOf(Texts, V) /\ d # <<>> /\ Range(d) = Range(y) /\ Keys(d) = Keys(y)
               /\ d # None
    <2>1. /\ y \in Seq([key : Texts, value : V]) /\ UniqueKeys(y) /\ y # <<>>
          /\ \A e \in Range(y) : Is(e.key, "kind")
      BY <1>0, <1>3 DEF CoverageRules, DictsOf
    <2>2. y \in Seq(E)
      <3>1. \A n \in DOMAIN y : y[n] \in E
        <4>1. \A n \in DOMAIN y : y[n] \in [key : Texts, value : V] /\ y[n] \in Range(y)
          <5> HIDE DEF V, y
          <5> QED
            BY <2>1, ListProperties DEF Range
        <4> QED
          BY <2>1, <4>1
      <3>2. y = [n \in DOMAIN y |-> y[n]]
        <4> HIDE DEF V, y
        <4> QED
          BY <2>1, LenProperties
      <3> HIDE DEF E, V, y
      <3> QED
        BY <2>1, <3>1, <3>2, MappedList
    <2>3. \A e, f \in E : Rank[e.key] \in Nat /\ (Rank[e.key] = Rank[f.key] => e.key = f.key)
      BY RankAssumption
    <2> HIDE DEF y
    <2>4. /\ SortEntries(y) \in Seq(E) /\ UniqueKeys(SortEntries(y))
          /\ Range(SortEntries(y)) = Range(y)
          /\ SortEntries(y) = <<>> <=> y = <<>>
      <3> HIDE DEF E
      <3> QED
        BY <2>1, <2>2, <2>3, SortedEntries
    <2>5. Seq(E) \subseteq Seq([key : Texts, value : V])
      <3>1. E \subseteq [key : Texts, value : V]
        OBVIOUS
      <3> HIDE DEF E
      <3> QED
        BY <3>1, SeqMonotonic
    <2>6. Keys(SortEntries(y)) = Keys(y)
      <3> HIDE DEF E
      <3>1. Keys(SortEntries(y)) = {e.key : e \in Range(SortEntries(y))}
        BY <2>4, ListProperties
      <3>2. Keys(y) = {e.key : e \in Range(y)}
        BY <2>2, ListProperties
      <3> QED
        BY <2>4, <3>1, <3>2
    <2>7. d = SortEntries(y)
      BY <1>3
    <2>8. d \in DictsOf(Texts, V)
      <3> HIDE DEF d
      <3> QED
        BY <2>4, <2>5, <2>7 DEF DictsOf
    <2>9. d # None
      BY <2>8, NoneAssumption
    <2> HIDE DEF d
    <2> QED
      BY <2>1, <2>4, <2>6, <2>7, <2>8, <2>9
  <1>4. (x = None => s = None) /\ (y = None => d = None)
    OBVIOUS
  <1> HIDE DEF s, d, x, y
  <1>5. t \in CoverageType
    <2>1. s \in Seq(Texts) \cup {None} /\ d \in DictsOf(Texts, V) \cup {None}
      BY <1>2, <1>3, <1>4
    <2>2. c.comment \in Note
      BY DEF CoverageType
    <2> QED
      BY <2>1, <2>2 DEF CoverageType
  <1>6. CoverageRules(t)
    BY <1>2, <1>3, <1>4 DEF CoverageRules, x, y
  <1> QED
    BY <1>1, <1>5, <1>6

LEMMA MapSorted ==
  ASSUME NEW m, Good(m)
  PROVE  Good(Canonical(m))
  <1> DEFINE E == [key : IdTexts, value : BindingType(Note)]
             d == SortEntries(m.bindings)
             c == IF m.coverage = None THEN None ELSE CanonicalCoverage(m.coverage)
             t == [schema_version |-> m.schema_version, bindings |-> d,
                   coverage |-> c, header |-> m.header]
  <1>1. /\ m.bindings \in Seq(E) /\ UniqueKeys(m.bindings)
        /\ \A x \in Range(m.bindings) : GoodBinding(x.value)
        /\ m = [schema_version |-> m.schema_version, bindings |-> m.bindings,
                coverage |-> m.coverage, header |-> m.header]
    BY GoodMaps
  <1>2. Canonical(m) = t
    <2>1. Canonical(m) = [m EXCEPT !.bindings = d, !.coverage = c]
      BY DEF Canonical
    <2> HIDE DEF c, d
    <2> QED
      BY <1>1, <2>1
  <1>3. d \in Seq(E) /\ UniqueKeys(d) /\ Range(d) = Range(m.bindings)
    <2>1. \A e, f \in E : Rank[e.key] \in Nat /\ (Rank[e.key] = Rank[f.key] => e.key = f.key)
      BY RankAssumption DEF IdTexts
    <2> HIDE DEF E
    <2> QED
      BY <1>1, <2>1, SortedEntries
  <1>4. c \in CoverageType \cup {None} /\ (c # None => CoverageRules(c))
    BY GoodCoverage, CoverageSorted
  <1> HIDE DEF c, d
  <1>5. t \in MapType
    BY <1>3, <1>4 DEF Good, MapType, DictsOf, IdTexts
  <1>6. MapRules(t)
    BY <1>1, <1>3, <1>4 DEF Good, MapRules, GoodBinding
  <1> QED
    BY <1>2, <1>5, <1>6 DEF Good

(***************************************************************************)
(* Coverage commands.                                                      *)
(***************************************************************************)
LEMMA CoveredTyped ==
  ASSUME NEW m, Good(m)
  PROVE  /\ Covered(m) \in CoverageType
         /\ OrEmpty(Covered(m).fully_bound) \in Seq(Texts)
         /\ OrEmpty(Covered(m).curated) \in Seq([key : Texts, value : [reason : Texts, comment : Note]])
         /\ UniqueKeys(OrEmpty(Covered(m).curated))
  <1>1. Covered(m) \in CoverageType
    <2>1. CASE m.coverage = None
      BY <2>1, NotesAreTexts DEF Covered, CoverageType
    <2>2. CASE m.coverage # None
      BY <2>2, GoodCoverage DEF Covered
    <2> QED
      BY <2>1, <2>2
  <1> QED
    BY <1>1, EmptyList DEF CoverageType, DictsOf, OrEmpty

LEMMA KindAdded ==
  ASSUME NEW m, Good(m), NEW kind \in Texts
  PROVE  [Covered(m) EXCEPT !.fully_bound = Append(OrEmpty(Covered(m).fully_bound), kind)]
           \in CoverageType
  <1> DEFINE c == Covered(m)
             s == Append(OrEmpty(c.fully_bound), kind)
  <1>1. c \in CoverageType /\ OrEmpty(c.fully_bound) \in Seq(Texts)
    BY CoveredTyped
  <1>2. s \in Seq(Texts)
    BY <1>1, AppendList
  <1> HIDE DEF s, c
  <1>4. [c EXCEPT !.fully_bound = s] \in CoverageType
    BY <1>1, <1>2 DEF CoverageType
  <1> QED
    BY <1>4 DEF c, s

LEMMA KindCurated ==
  ASSUME NEW m, Good(m), NEW kind \in Texts, NEW reason \in Texts, NEW note \in Note
  PROVE  LET curated == OrEmpty(Covered(m).curated)
             kept == IF note = None /\ kind \in Keys(curated)
                       THEN Lookup(curated, kind).comment ELSE note
             entry == Keyed(kind, [reason |-> reason, comment |-> kept])
         IN  [Covered(m) EXCEPT !.curated = Assign(curated, entry)] \in CoverageType
  <1> DEFINE c == Covered(m)
             V == [reason : Texts, comment : Note]
             E == [key : Texts, value : V]
             curated == OrEmpty(c.curated)
             kept == IF note = None /\ kind \in Keys(curated)
                       THEN Lookup(curated, kind).comment ELSE note
             entry == Keyed(kind, [reason |-> reason, comment |-> kept])
             d == Assign(curated, entry)
  <1>1. c \in CoverageType /\ curated \in Seq(E) /\ UniqueKeys(curated)
    BY CoveredTyped
  <1> HIDE DEF c, curated
  <1>2. kept \in Note
    <2>1. CASE note = None /\ kind \in Keys(curated)
      <3>1. PICK e \in Range(curated) : e.key = kind /\ Lookup(curated, kind) = e.value
        BY <2>1, LookupProperties
      <3>2. e \in E
        <4> HIDE DEF E
        <4> QED
          BY <1>1, ListProperties
      <3> QED
        BY <2>1, <3>1, <3>2
    <2>2. CASE ~(note = None /\ kind \in Keys(curated))
      BY <2>2
    <2> QED
      BY <2>1, <2>2
  <1>3. entry \in E
    <2> HIDE DEF kept
    <2> QED
      BY <1>2 DEF Keyed
  <1>4. None \notin E
    BY NoneAssumption
  <1>5. d \in Seq(E) /\ UniqueKeys(d)
    <2> HIDE DEF E, entry
    <2> QED
      BY <1>1, <1>3, <1>4, AssignProperties
  <1> HIDE DEF d
  <1>6. [c EXCEPT !.curated = d] \in CoverageType
    BY <1>1, <1>5 DEF CoverageType, DictsOf
  <1> QED
    BY <1>6 DEF c, curated, d

(***************************************************************************)
(* What a command comes to: it refuses, it answers from the file as it is, *)
(* or it writes a good map, of which it shows what it has written.         *)
(***************************************************************************)
(* That an answer is the one that a query of m would give.                 *)
Shows(op, id, m, out) ==
    /\ op \in {"set", "remove"} \cup DOMAIN Additions /\ out # None =>
         out = BindingOut(id, BindingOf(m, id))
    /\ op \in {"fully-bound", "curated"} => out = CoverageOut(m.coverage)

(* That `get` answers so from the file as it is.                           *)
Got(id, out) == id \in Keys(Loaded.bindings) /\ out = BindingOut(id, BindingOf(Loaded, id))

Refused ==
    /\ UNCHANGED <<file, writes>>
    /\ reply'.code \in Codes \ {"ok", "ERR-INTERNAL"} /\ reply'.out = None
Answered ==
    /\ UNCHANGED <<file, writes>>
    /\ reply'.code = "ok" /\ reply'.op \in ReadOps
    /\ reply'.op = "get" => reply'.out \in InputDocuments /\ Got(reply'.id, reply'.out)
Replaced ==
    /\ writes < MaxWrites /\ writes' = writes + 1
    /\ \E m : Good(m) /\ file' = Emit(m) /\ Shows(reply'.op, reply'.id, m, reply'.out)
    /\ reply'.code = "ok" /\ reply'.op # "get"

Outcome == Refused \/ Answered \/ Replaced

Refusals == {"ERR-USAGE", "ERR-PARSE", "ERR-SCHEMA-VERSION", "ERR-FILE-INVALID",
             "ERR-NOT-FOUND", "ERR-INPUT-INVALID", "ERR-DUPLICATE"}

LEMMA Refusing ==
  ASSUME NEW op, NEW id, NEW doc, NEW code \in Refusals, Refuse(op, id, doc, code)
  PROVE  Refused
  BY DEF Refuse, Answer, Refused, Refusals, Codes

LEMMA Denying ==
  ASSUME NEW op, NEW id, NEW code \in Refusals, Deny(op, id, code)
  PROVE  Refused
  BY Refusing DEF Deny

LEMMA Answering ==
  ASSUME NEW op \in ReadOps, op # "get", NEW id, NEW doc, NEW out, Answer(op, id, doc, "ok", out)
  PROVE  Answered
  BY DEF Answer, Answered

LEMMA Installing ==
  ASSUME NEW op, op # "get", NEW id, NEW doc, NEW m, Good(m), NEW out, Shows(op, id, m, out),
         writes < MaxWrites, Install(op, id, doc, m, out)
  PROVE  Replaced
  <1>1. MapCodes(m) = {}
    BY GoodMaps
  <1>2. file' = Emit(m) /\ writes' = writes + 1 /\ reply'.code = "ok" /\ reply'.op = op
        /\ reply'.id = id /\ reply'.out = out
    BY <1>1 DEF Install
  <1> QED
    BY <1>2 DEF Replaced

LEMMA Named ==
  ASSUME NEW op \in {"set", "remove"} \cup DOMAIN Additions
  PROVE  op \notin {"fully-bound", "curated", "comment set", "comment unset", "format", "get"}
  <1>1. op \in {"set", "remove", "locator", "field_locator", "assertion"}
    BY ArgumentsAssumption
  <1> QED
    BY <1>1, Zenon

LEMMA ShowsBinding ==
  ASSUME NEW op \in {"set", "remove"} \cup DOMAIN Additions, NEW id, NEW m
  PROVE  Shows(op, id, m, BindingOut(id, BindingOf(m, id))) /\ Shows(op, id, m, None)
  <1>1. op \notin {"fully-bound", "curated"}
    BY Named
  <1> QED
    BY <1>1 DEF Shows

LEMMA ShowsCoverage ==
  ASSUME NEW op \in {"fully-bound", "curated"}, NEW id, NEW m
  PROVE  Shows(op, id, m, CoverageOut(m.coverage))
  <1>1. op \notin {"set", "remove"} \cup DOMAIN Additions
    BY Named
  <1> QED
    BY <1>1 DEF Shows

LEMMA ShowsNothing ==
  ASSUME NEW op \in {"comment set", "comment unset", "format"}, NEW id, NEW m, NEW out
  PROVE  Shows(op, id, m, out)
  <1>1. op \notin {"set", "remove"} \cup DOMAIN Additions
    BY Named
  <1>2. op \notin {"fully-bound", "curated"}
    BY Zenon
  <1> QED
    BY <1>1, <1>2 DEF Shows

LEMMA LoadCodes ==
  ASSUME file \in FileType
  PROVE  /\ Load.read # "ok" => Load.read \in Refusals
         /\ Load.write # "ok" => Load.write \in Refusals
  BY LoadedMap DEF Refusals

LEMMA AcceptedId ==
  ASSUME NEW id \in Texts, IdAccepted(id)
  PROVE  id \in IdTexts
  BY DEF IdAccepted, IdTexts

(***************************************************************************)
(* Command by command.                                                     *)
(***************************************************************************)
LEMMA GetOutcome ==
  ASSUME file \in FileType, NEW id, Get(Load, id)
  PROVE  Outcome
  <1>1. CASE ~IdAccepted(id) \/ Load.read # "ok" \/ ~Present(Load, id)
    BY <1>1, LoadCodes, Denying DEF Get, Outcome, Refusals
  <1>2. CASE ~(~IdAccepted(id) \/ Load.read # "ok" \/ ~Present(Load, id))
    <2>1. Answer("get", id, None, "ok", BindingOut(id, BindingOf(Load.map, id)))
      BY <1>2 DEF Get
    <2>2. BindingOut(id, BindingOf(Load.map, id)) \in InputDocuments
      BY <1>2, LoadedMap, BindingFound, BindingShown DEF Present
    <2>3. Got(id, BindingOut(id, BindingOf(Load.map, id)))
      BY <1>2 DEF Got, Load, Present
    <2>4. Answered
      BY <2>1, <2>2, <2>3 DEF Answer, Answered, ReadOps
    <2> QED
      BY <2>4 DEF Outcome
  <1> QED
    BY <1>1, <1>2

LEMMA ReadOutcome ==
  ASSUME file \in FileType
  PROVE  /\ \A kinds, full : ListBindings(Load, kinds, full) => Outcome
         /\ \A l : CommentGet(Load, l) => Outcome
  <1>1. ASSUME NEW kinds, NEW full, ListBindings(Load, kinds, full)
        PROVE  Outcome
    <2>1. CASE (\E kind \in kinds : ~KindAccepted(kind)) \/ Load.read # "ok"
      BY <1>1, <2>1, LoadCodes, Denying DEF ListBindings, Outcome, Refusals
    <2>2. CASE ~((\E kind \in kinds : ~KindAccepted(kind)) \/ Load.read # "ok")
      <3>1. \E out : Answer(IF full THEN "list --full" ELSE "list", None, kinds, "ok", out)
        BY <1>1, <2>2 DEF ListBindings
      <3>2. /\ "list --full" # "get" /\ "list" # "get"
            /\ "list --full" \in ReadOps /\ "list" \in ReadOps
        BY DEF ReadOps
      <3>3. Answered
        BY <3>1, <3>2, Answering
      <3> QED
        BY <3>3 DEF Outcome
    <2> QED
      BY <2>1, <2>2
  <1>2. ASSUME NEW l, CommentGet(Load, l)
        PROVE  Outcome
    <2> DEFINE at == Resolve(Load.map, l)
               text == TextOf(Load.map, at)
    <2>1. \/ Deny("comment get", None, "ERR-USAGE")
          \/ Load.read # "ok" /\ Deny("comment get", None, Load.read)
          \/ Deny("comment get", None, "ERR-NOT-FOUND")
          \/ Answer("comment get", None, l, "ok", text)
      BY <1>2 DEF CommentGet
    <2>2. Refused \/ Answer("comment get", None, l, "ok", text)
      BY <2>1, LoadCodes, Denying DEF Refusals
    <2>3. "comment get" # "get" /\ "comment get" \in ReadOps
      BY DEF ReadOps
    <2> HIDE DEF text
    <2>4. Answer("comment get", None, l, "ok", text) => Answered
      BY <2>3, Answering
    <2> QED
      BY <2>2, <2>4 DEF Outcome
  <1> QED
    BY <1>1, <1>2

LEMMA SetOutcome ==
  ASSUME file \in FileType, NEW id \in Texts, NEW doc \in InputDocuments, Set(Load, id, doc)
  PROVE  Outcome
  <1> DEFINE b == BindingInput(doc)
             m == WithBinding(Load.map, id, b)
  <1>1. \/ Refuse("set", id, doc, "ERR-USAGE")
        \/ Load.write # "ok" /\ Deny("set", id, Load.write)
        \/ Refuse("set", id, doc, "ERR-INPUT-INVALID")
        \/ /\ writes < MaxWrites /\ IdAccepted(id) /\ Load.write = "ok" /\ InputFindings(doc) = {}
           /\ Install("set", id, doc, m, BindingOut(id, BindingOf(m, id)))
    BY DEF Set, Installs
  <1>2. CASE \/ Refuse("set", id, doc, "ERR-USAGE")
             \/ Load.write # "ok" /\ Deny("set", id, Load.write)
             \/ Refuse("set", id, doc, "ERR-INPUT-INVALID")
    BY <1>2, LoadCodes, Refusing, Denying DEF Outcome, Refusals
  <1>3. CASE /\ writes < MaxWrites /\ IdAccepted(id) /\ Load.write = "ok" /\ InputFindings(doc) = {}
             /\ Install("set", id, doc, m, BindingOut(id, BindingOf(m, id)))
    <2>1. Good(Load.map) /\ id \in IdTexts
      BY <1>3, LoadedMap, AcceptedId
    <2>2. GoodBinding(b)
      BY <1>3, InputAccepted DEF GoodBinding
    <2> HIDE DEF b
    <2>3. Good(m)
      BY <2>1, <2>2, BindingPlaced
    <2> HIDE DEF m
    <2>4. Shows("set", id, m, BindingOut(id, BindingOf(m, id))) /\ "set" # "get"
      BY ShowsBinding
    <2>5. Replaced
      BY <1>3, <2>3, <2>4, Installing
    <2> QED
      BY <2>5 DEF Outcome
  <1> QED
    BY <1>1, <1>2, <1>3

(* The options of `add-...` as a document.                                 *)
LEMMA OptionsAccepted ==
  ASSUME NEW node \in DOMAIN Additions, NEW options \in Additions[node]
  PROVE  LET doc == FlatOut(options, node)
         IN  /\ node \in {"locator", "field_locator", "assertion"}
             /\ EntryInputFindings(doc, node) = {} => GoodEntry(FlatInput(doc, node), node)
  <1> DEFINE doc == FlatOut(options, node)
  <1>1. /\ node \in {"locator", "field_locator", "assertion"} /\ node \in Nodes
        /\ DOMAIN options.strings \subseteq DOMAIN Shape[node].keys
        /\ options.strings \in [DOMAIN options.strings -> Texts] /\ options.comment \in TextOrNone
    BY ArgumentsAssumption DEF Nodes
  <1>2. doc \in Values(Values({}))
    BY <1>1, FlatShown, Layers
  <1> HIDE DEF doc
  <1>3. ASSUME EntryInputFindings(doc, node) = {}
        PROVE  GoodEntry(FlatInput(doc, node), node)
    BY <1>1, <1>2, <1>3, EntryAccepted DEF GoodEntry
  <1> QED
    BY <1>1, <1>3 DEF doc

LEMMA AddOutcome ==
  ASSUME file \in FileType, NEW id, NEW node \in DOMAIN Additions,
         NEW options \in Additions[node],
         NEW name \in IF node = "field_locator" THEN FieldNames ELSE {None},
         Add(Load, id, node, name, options)
  PROVE  Outcome
  <1> DEFINE doc == FlatOut(options, node)
             x == FlatInput(doc, node)
             named == IF node = "field_locator" THEN FieldNameCodes(name) ELSE {}
             old == BindingOf(Load.map, id)
             b == Added(old, node, name, x)
             m == WithBinding(Load.map, id, b)
  <1>1. \/ Deny(node, id, "ERR-USAGE")
        \/ Load.write # "ok" /\ Deny(node, id, Load.write)
        \/ Deny(node, id, "ERR-NOT-FOUND")
        \/ Deny(node, id, "ERR-INPUT-INVALID")
        \/ Deny(node, id, "ERR-DUPLICATE")
        \/ /\ writes < MaxWrites /\ Load.write = "ok" /\ Present(Load, id)
           /\ EntryInputFindings(doc, node) \cup named = {} /\ b # None
           /\ Install(node, id, doc, m, BindingOut(id, BindingOf(m, id)))
    BY DEF Add, Installs
  <1>2. CASE \/ Deny(node, id, "ERR-USAGE")
             \/ Load.write # "ok" /\ Deny(node, id, Load.write)
             \/ Deny(node, id, "ERR-NOT-FOUND")
             \/ Deny(node, id, "ERR-INPUT-INVALID")
             \/ Deny(node, id, "ERR-DUPLICATE")
    BY <1>2, LoadCodes, Denying DEF Outcome, Refusals
  <1>3. CASE /\ writes < MaxWrites /\ Load.write = "ok" /\ Present(Load, id)
             /\ EntryInputFindings(doc, node) \cup named = {} /\ b # None
             /\ Install(node, id, doc, m, BindingOut(id, BindingOf(m, id)))
    <2>1. Good(Load.map) /\ Load.map \in MapType /\ id \in Keys(Load.map.bindings)
      BY <1>3, LoadedMap DEF Present
    <2>2. id \in IdTexts /\ GoodBinding(old)
      BY <2>1, BindingFound
    <2>3. /\ node \in {"locator", "field_locator", "assertion"}
          /\ GoodEntry(x, node)
      BY <1>3, OptionsAccepted
    <2>4. node = "field_locator" => name \in Texts /\ FieldNameRules(name)
      BY <1>3, FieldNamesFine, ArgumentsAssumption
    <2> HIDE DEF old, x
    <2>5. GoodBinding(b)
      BY <1>3, <2>2, <2>3, <2>4, EntryAdded
    <2> HIDE DEF b
    <2>6. Good(m)
      BY <2>1, <2>2, <2>5, BindingPlaced
    <2> HIDE DEF m
    <2>7. Shows(node, id, m, BindingOut(id, BindingOf(m, id)))
      BY ShowsBinding
    <2>8. Replaced
      BY <1>3, <2>3, <2>6, <2>7, Installing
    <2> QED
      BY <2>8 DEF Outcome
  <1> QED
    BY <1>1, <1>2, <1>3

LEMMA RemoveOutcome ==
  ASSUME file \in FileType, NEW l, RemoveEntry(Load, l)
  PROVE  Outcome
  <1> DEFINE id == l.target
             node == RemovalNode(l)
             old == BindingOf(Load.map, id)
             n == Position(old, node, l)
             b == EntryRemoved(old, node, n)
             m == WithBinding(Load.map, id, b)
             k == [Load.map EXCEPT !.bindings = Drop(@, id)]
             Ready == writes < MaxWrites /\ Load.write = "ok" /\ Present(Load, id)
  <1>1. \/ Deny("remove", id, "ERR-USAGE")
        \/ Load.write # "ok" /\ Deny("remove", id, Load.write)
        \/ Deny("remove", id, "ERR-NOT-FOUND")
        \/ Ready /\ Install("remove", id, l, k, None)
        \/ /\ Ready /\ node # "binding" /\ n # 0
           /\ Install("remove", id, l, m, BindingOut(id, BindingOf(m, id)))
    BY DEF RemoveEntry, Installs
  <1>2. Ready => Good(Load.map) /\ Load.map \in MapType /\ id \in Keys(Load.map.bindings)
    BY LoadedMap DEF Present
  <1>3. CASE \/ Deny("remove", id, "ERR-USAGE")
             \/ Load.write # "ok" /\ Deny("remove", id, Load.write)
             \/ Deny("remove", id, "ERR-NOT-FOUND")
    BY <1>3, LoadCodes, Denying DEF Outcome, Refusals
  <1>4. CASE Ready /\ Install("remove", id, l, k, None)
    <2>1. Good(k)
      BY <1>2, <1>4, BindingTaken
    <2> HIDE DEF k
    <2>2. Shows("remove", id, k, None) /\ "remove" # "get"
      BY ShowsBinding
    <2>3. Replaced
      BY <1>4, <2>1, <2>2, Installing
    <2> QED
      BY <2>3 DEF Outcome
  <1>5. CASE /\ Ready /\ node # "binding" /\ n # 0
             /\ Install("remove", id, l, m, BindingOut(id, BindingOf(m, id)))
    <2>1. node \in {"locator", "assertion", "field"}
      BY <1>5 DEF RemovalNode
    <2>2. id \in IdTexts /\ GoodBinding(old)
      BY <1>2, <1>5, BindingFound
    <2> HIDE DEF old, node
    <2>3. GoodBinding(b)
      BY <1>5, <2>1, <2>2, EntryTaken
    <2> HIDE DEF b
    <2>4. Good(m)
      BY <1>2, <1>5, <2>2, <2>3, BindingPlaced
    <2> HIDE DEF m
    <2>5. Shows("remove", id, m, BindingOut(id, BindingOf(m, id))) /\ "remove" # "get"
      BY ShowsBinding
    <2>6. Replaced
      BY <1>5, <2>4, <2>5, Installing
    <2> QED
      BY <2>6 DEF Outcome
  <1> QED
    BY <1>1, <1>3, <1>4, <1>5

LEMMA CommentOutcome ==
  ASSUME file \in FileType, NEW l \in Remarks, NEW text \in Notes, CommentWrite(Load, l, text)
  PROVE  Outcome
  <1> DEFINE op == IF text = None THEN "comment unset" ELSE "comment set"
             at == Resolve(Load.map, l)
             m == WithText(Load.map, at, text)
  <1>1. \/ Deny(op, None, "ERR-USAGE")
        \/ Load.write # "ok" /\ Deny(op, None, Load.write)
        \/ Deny(op, None, "ERR-NOT-FOUND")
        \/ Deny(op, None, "ERR-INPUT-INVALID")
        \/ /\ writes < MaxWrites /\ Load.write = "ok" /\ at # <<>> /\ CommentCodes(text, TRUE) = {}
           /\ Install(op, None, l, m, text)
    BY DEF CommentWrite
  <1>2. CASE \/ Deny(op, None, "ERR-USAGE")
             \/ Load.write # "ok" /\ Deny(op, None, Load.write)
             \/ Deny(op, None, "ERR-NOT-FOUND")
             \/ Deny(op, None, "ERR-INPUT-INVALID")
    BY <1>2, LoadCodes, Denying DEF Outcome, Refusals
  <1>3. CASE /\ writes < MaxWrites /\ Load.write = "ok" /\ at # <<>> /\ CommentCodes(text, TRUE) = {}
             /\ Install(op, None, l, m, text)
    <2>1. text \in Note /\ CommentRules(text, FALSE)
      BY <1>3, CommentsFine, AcceptedComment, ArgumentsAssumption
    <2>2. Good(Load.map)
      BY <1>3, LoadedMap
    <2>3. l.anchor \in Anchors
      BY ArgumentsAssumption DEF Anchors
    <2>4. Good(m)
      <3>1. Resolve(Load.map, l) # <<>>
        BY <1>3
      <3> QED
        BY <2>1, <2>2, <2>3, <3>1, Commenting
    <2>5. op # "get" /\ op \in {"comment set", "comment unset", "format"}
      BY Zenon
    <2> HIDE DEF m, op
    <2>6. Shows(op, None, m, text)
      BY <2>5, ShowsNothing
    <2>7. Replaced
      BY <1>3, <2>4, <2>5, <2>6, Installing
    <2> QED
      BY <2>7 DEF Outcome
  <1> QED
    BY <1>1, <1>2, <1>3

(* The map with other coverage, if the first look at it finds nothing.     *)
LEMMA CoverageInstalled ==
  ASSUME Good(Load.map), writes < MaxWrites, NEW op \in {"fully-bound", "curated"}, NEW doc,
         NEW c \in CoverageType, InstallsCoverage(Load, op, doc, c)
  PROVE  Outcome
  <1> DEFINE m == [Load.map EXCEPT !.coverage = c]
  <1>1. m \in MapType
    BY OtherCoverage
  <1>2. \/ Deny(op, None, "ERR-INPUT-INVALID")
        \/ MapCodes(m) = {} /\ Install(op, None, doc, m, CoverageOut(c))
    BY DEF InstallsCoverage
  <1>3. m.coverage = c
    BY GoodMaps
  <1> HIDE DEF m
  <1>4. MapCodes(m) = {} => Good(m)
    BY <1>1, MapFine DEF Good
  <1>5. Shows(op, None, m, CoverageOut(c))
    BY <1>3, ShowsCoverage
  <1>6. op # "get"
    OBVIOUS
  <1>7. Install(op, None, doc, m, CoverageOut(c)) /\ Good(m) => Replaced
    BY <1>5, <1>6, Installing
  <1> QED
    BY <1>2, <1>4, <1>7, Denying DEF Outcome, Refusals

LEMMA FullyBoundOutcome ==
  ASSUME file \in FileType, NEW kind \in Texts, FullyBoundAdd(Load, kind)
  PROVE  Outcome
  <1> DEFINE c == [Covered(Load.map) EXCEPT
                     !.fully_bound = Append(OrEmpty(Covered(Load.map).fully_bound), kind)]
  <1>1. \/ Deny("fully-bound", None, "ERR-USAGE")
        \/ Load.write # "ok" /\ Deny("fully-bound", None, Load.write)
        \/ Deny("fully-bound", None, "ERR-DUPLICATE")
        \/ /\ writes < MaxWrites /\ Load.write = "ok"
           /\ InstallsCoverage(Load, "fully-bound", kind, c)
    BY DEF FullyBoundAdd
  <1>2. CASE \/ Deny("fully-bound", None, "ERR-USAGE")
             \/ Load.write # "ok" /\ Deny("fully-bound", None, Load.write)
             \/ Deny("fully-bound", None, "ERR-DUPLICATE")
    BY <1>2, LoadCodes, Denying DEF Outcome, Refusals
  <1>3. CASE /\ writes < MaxWrites /\ Load.write = "ok"
             /\ InstallsCoverage(Load, "fully-bound", kind, c)
    <2>1. Good(Load.map) /\ c \in CoverageType
      BY <1>3, LoadedMap, KindAdded
    <2> HIDE DEF c
    <2> QED
      BY <1>3, <2>1, CoverageInstalled
  <1> QED
    BY <1>1, <1>2, <1>3

LEMMA CuratedOutcome ==
  ASSUME file \in FileType, NEW kind \in Texts, NEW reason \in TextOrNone, NEW note \in TextOrNone,
         CuratedSet(Load, kind, reason, note)
  PROVE  Outcome
  <1> DEFINE curated == OrEmpty(Covered(Load.map).curated)
             kept == IF note = None /\ kind \in Keys(curated)
                       THEN Lookup(curated, kind).comment ELSE note
             entry == Keyed(kind, [reason |-> reason, comment |-> kept])
             c == [Covered(Load.map) EXCEPT !.curated = Assign(curated, entry)]
  <1>1. \/ Deny("curated", None, "ERR-USAGE")
        \/ Load.write # "ok" /\ Deny("curated", None, Load.write)
        \/ Deny("curated", None, "ERR-INPUT-INVALID")
        \/ /\ writes < MaxWrites /\ Load.write = "ok" /\ reason # None
           /\ CommentCodes(note, TRUE) = {} /\ InstallsCoverage(Load, "curated", kind, c)
    BY DEF CuratedSet, CuratedSetAccepted
  <1>2. CASE \/ Deny("curated", None, "ERR-USAGE")
             \/ Load.write # "ok" /\ Deny("curated", None, Load.write)
             \/ Deny("curated", None, "ERR-INPUT-INVALID")
    BY <1>2, LoadCodes, Denying DEF Outcome, Refusals
  <1>3. CASE /\ writes < MaxWrites /\ Load.write = "ok" /\ reason # None
             /\ CommentCodes(note, TRUE) = {} /\ InstallsCoverage(Load, "curated", kind, c)
    <2>1. Good(Load.map)
      BY <1>3, LoadedMap
    <2>2. reason \in Texts /\ note \in Note
      BY <1>3, CommentsFine, AcceptedComment DEF TextOrNone
    <2>3. c \in CoverageType
      BY <2>1, <2>2, KindCurated
    <2> HIDE DEF c
    <2> QED
      BY <1>3, <2>1, <2>3, CoverageInstalled
  <1> QED
    BY <1>1, <1>2, <1>3

LEMMA FormatOutcome ==
  ASSUME file \in FileType, Format(Load)
  PROVE  Outcome
  <1> DEFINE m == Canonical(Load.map)
  <1>1. \/ Load.write # "ok" /\ Deny("format", None, Load.write)
        \/ Load.write = "ok" /\ writes < MaxWrites /\ Install("format", None, None, m, None)
    BY DEF Format
  <1>2. Load.write = "ok" => Good(m)
    BY LoadedMap, MapSorted
  <1> HIDE DEF m
  <1>3. Shows("format", None, m, None) /\ "format" # "get"
    BY ShowsNothing
  <1>4. Load.write = "ok" /\ writes < MaxWrites /\ Install("format", None, None, m, None) => Replaced
    BY <1>2, <1>3, Installing
  <1> QED
    BY <1>1, <1>4, LoadCodes, Denying DEF Outcome

LEMMA EveryOutcome ==
  ASSUME TypeOK, Next
  PROVE  Outcome
  <1>1. file \in FileType
    BY DEF TypeOK
  <1>2. CASE AnswerRead
    BY <1>2 DEF AnswerRead, NoReply, Outcome, Answered, ReadOps
  <1>3. CASE Command(Load)
    <2>1. CASE \E id \in Ids : Get(Load, id)
      BY <1>1, <2>1, GetOutcome
    <2>2. CASE \E id \in Ids : SetGiven(Load, id)
      BY <1>1, <2>2, SetOutcome, ArgumentsAssumption DEF SetGiven
    <2>3. CASE \E id \in Ids : AddEntry(Load, id)
      BY <1>1, <2>3, AddOutcome DEF AddEntry
    <2>4. CASE \E kinds \in {{}} \cup {{k} : k \in Kinds}, full \in BOOLEAN :
                 ListBindings(Load, kinds, full)
      BY <1>1, <2>4, ReadOutcome
    <2>5. CASE \E kind \in Kinds : FullyBoundAdd(Load, kind)
      BY <1>1, <2>5, FullyBoundOutcome, ArgumentsAssumption
    <2>6. CASE \E kind \in Kinds, reason \in Reasons, note \in Notes :
                 CuratedSet(Load, kind, reason, note)
      BY <1>1, <2>6, CuratedOutcome, ArgumentsAssumption
    <2>7. CASE \E l \in Removals : RemoveEntry(Load, l)
      BY <1>1, <2>7, RemoveOutcome
    <2>8. CASE \E l \in Remarks : CommentGet(Load, l) \/ \E text \in Notes : CommentWrite(Load, l, text)
      BY <1>1, <2>8, ReadOutcome, CommentOutcome
    <2>9. CASE Format(Load)
      BY <1>1, <2>9, FormatOutcome
    <2> QED
      BY <1>3, <2>1, <2>2, <2>3, <2>4, <2>5, <2>6, <2>7, <2>8, <2>9 DEF Command
  <1>4. CASE \E id \in Ids : SetGot(Load, id)
    <2>1. PICK id \in Ids : SetGot(Load, id)
      BY <1>4
    <2>2. Set(Load, id, reply.out) /\ reply.out \in InputDocuments
      BY <2>1 DEF SetGot, TypeOK, Succeeded
    <2>3. id \in Texts
      BY ArgumentsAssumption
    <2> QED
      BY <1>1, <2>2, <2>3, SetOutcome
  <1> QED
    BY <1>2, <1>3, <1>4 DEF Next

(* What `get` has answered stays true until the answer is read.            *)
AnswerTrue == Succeeded("get") => Got(reply.id, reply.out)

LEMMA AnswerStaysTrue ==
  ASSUME TypeOK, AnswerTrue, [Next]_vars
  PROVE  AnswerTrue'
  <1>1. CASE UNCHANGED vars
    BY <1>1 DEF vars, AnswerTrue, Succeeded, Got, Loaded
  <1>2. CASE Refused
    BY <1>2 DEF Refused, AnswerTrue, Succeeded
  <1>3. CASE Answered
    <2>1. file' = file /\ (reply'.op = "get" => Got(reply'.id, reply'.out))
      BY <1>3 DEF Answered
    <2> QED
      BY <2>1 DEF AnswerTrue, Succeeded, Got, Loaded
  <1>4. CASE Replaced
    BY <1>4 DEF Replaced, AnswerTrue, Succeeded
  <1> QED
    BY <1>1, <1>2, <1>3, <1>4, EveryOutcome DEF Outcome

LEMMA CleanIsGood ==
  ASSUME file \in FileType, Clean
  PROVE  Good(Loaded) /\ Load.write = "ok" /\ Load.map = Loaded
  <1>1. MapCodes(Loaded) = {}
    BY DEF Clean, FileFindings, Loaded
  <1>2. Good(Loaded)
    BY <1>1, MapTyped, MapFine DEF Good, Loaded
  <1>3. Readable
    BY <1>2 DEF Good, MapRules, Readable
  <1> QED
    BY <1>2, <1>3 DEF Clean, Load, WriteCode, ReadCode

LEMMA BindingPutBack ==
  ASSUME NEW m, Good(m), NEW id \in Keys(m.bindings)
  PROVE  WithBinding(m, id, BindingOf(m, id)) = m
  <1> DEFINE E == [key : IdTexts, value : BindingType(Note)]
             d == m.bindings
             e == Keyed(id, BindingOf(m, id))
  <1>1. /\ d \in Seq(E) /\ UniqueKeys(d)
        /\ m = [schema_version |-> m.schema_version, bindings |-> m.bindings,
                coverage |-> m.coverage, header |-> m.header]
    BY GoodMaps
  <1>2. None \notin E
    <2>1. E \subseteq [key : Texts, value : BindingType(Note)]
      BY DEF IdTexts
    <2> QED
      BY <2>1, BindingKinds, NotesAreTexts
  <1>3. PICK x \in Range(d) : x.key = id /\ BindingOf(m, id) = x.value
    <2>1. m \in MapType
      BY DEF Good
    <2> QED
      BY <2>1, LookupProperties DEF BindingOf
  <1>4. PICK n \in DOMAIN d : x = d[n]
    BY <1>3 DEF Range
  <1>5. d[n] \in E
    BY <1>1, <1>4, ListProperties
  <1>6. e = d[n] /\ e.key = id /\ e # None
    <2>1. d[n] = [key |-> d[n].key, value |-> d[n].value]
      BY <1>5
    <2>2. e = d[n]
      BY <1>3, <1>4, <2>1 DEF Keyed
    <2> HIDE DEF e, d, E
    <2> QED
      BY <1>2, <1>3, <1>4, <1>5, <2>2
  <1> HIDE DEF e
  <1>7. Assign(d, e) = [k \in DOMAIN d |-> IF d[k].key = e.key THEN e ELSE d[k]]
    BY <1>6 DEF Assign
  <1>8. \A k \in DOMAIN d : d[k].key = e.key => d[k] = e
    BY <1>1, <1>6 DEF UniqueKeys
  <1>9. d = [k \in DOMAIN d |-> d[k]]
    <2> HIDE DEF d, E
    <2> QED
      BY <1>1, LenProperties
  <1>10. Assign(d, e) = d
    BY <1>7, <1>8, <1>9
  <1>11. WithBinding(m, id, BindingOf(m, id)) = [m EXCEPT !.bindings = Assign(d, e)]
    BY DEF WithBinding, e
  <1> QED
    BY <1>1, <1>10, <1>11

(***************************************************************************)
(* The theorems.                                                           *)
(***************************************************************************)
LEMMA TypeFirst ==
  ASSUME Init
  PROVE  TypeOK
  BY FilesAssumption, ArgumentsAssumption DEF ParsedFiles, Init, NoReply, TypeOK, Succeeded, Codes

LEMMA TypeKept ==
  ASSUME TypeOK, [Next]_vars
  PROVE  TypeOK' /\ (reply.code # "ERR-INTERNAL" => reply'.code # "ERR-INTERNAL")
  <1>1. CASE UNCHANGED vars
    BY <1>1 DEF vars, TypeOK, Succeeded
  <1>2. CASE Refused
    BY <1>2 DEF TypeOK, Succeeded, Refused
  <1>3. CASE Answered
    BY <1>3 DEF TypeOK, Succeeded, Answered, Codes
  <1>4. CASE Replaced
    <2>1. file' \in FileType
      BY <1>4, GoodMaps DEF Replaced
    <2>2. writes' \in 0..MaxWrites
      BY <1>4, ArgumentsAssumption DEF Replaced, TypeOK
    <2> QED
      BY <1>4, <2>1, <2>2 DEF TypeOK, Succeeded, Replaced, Codes
  <1> QED
    BY <1>1, <1>2, <1>3, <1>4, EveryOutcome DEF Outcome

(* Every file that a command leaves is one that the parser may deliver, a  *)
(* refusal shows nothing, and what `get` answers is an input document.     *)
THEOREM AnswersTyped == Spec => []TypeOK
  <1>1. Init => TypeOK
    BY TypeFirst
  <1>2. TypeOK /\ [Next]_vars => TypeOK'
    BY TypeKept
  <1> QED
    BY <1>1, <1>2, PTL DEF Spec

(* A command whose input passed the rules on inputs is never refused by    *)
(* the validation of the whole map (ERR-INTERNAL): every entry accepted    *)
(* alone keeps a valid map valid, whatever the map and the input are.      *)
THEOREM SecondValidationPasses == Spec => []InputRulesSuffice
  <1>1. Init => InputRulesSuffice
    BY DEF Init, NoReply, InputRulesSuffice
  <1>2. TypeOK /\ InputRulesSuffice /\ [Next]_vars => InputRulesSuffice'
    BY TypeKept DEF InputRulesSuffice
  <1> QED
    BY <1>1, <1>2, AnswersTyped, PTL DEF Spec

(* After a write the file loads without a finding, and a query of it gives *)
(* the answer that the writing command gave, for any file, input and       *)
(* options: the quoting, the conversions and the rules agree.  It rests on *)
(* what is written without quotes being what YAML reads (TextsReadBack),   *)
(* which the code leaves open for `<<`, `=` and some kinds.                *)
THEOREM WritesReadBack == TextsReadBack => (Spec => []WrittenReadsBack)
  <1>1. Init => WrittenReadsBack
    BY DEF Init, NoReply, WrittenReadsBack, ReadOps
  <1>2. ASSUME TextsReadBack, TypeOK, WrittenReadsBack, [Next]_vars
        PROVE  WrittenReadsBack'
    <2>1. CASE UNCHANGED vars
      BY <1>2, <2>1 DEF vars, WrittenReadsBack, Clean, Loaded
    <2>2. CASE Refused
      BY <2>2 DEF Refused, WrittenReadsBack, Codes
    <2>3. CASE Answered
      BY <2>3 DEF Answered, WrittenReadsBack
    <2>4. CASE Replaced
      <3>1. PICK m : Good(m) /\ file' = Emit(m) /\ Shows(reply'.op, reply'.id, m, reply'.out)
        BY <2>4 DEF Replaced
      <3>2. /\ Map(Emit(m)) = m /\ ShapeFindings(Emit(m)) = {}
            /\ CarrierFindings(Emit(m)) = {} /\ Attached(Emit(m))
        BY <1>2, <3>1, MapBack DEF Good
      <3>3. MapCodes(m) = {}
        BY <3>1, GoodMaps
      <3>4. Clean' /\ Loaded' = m
        BY <3>1, <3>2, <3>3 DEF Clean, FileFindings, Loaded
      <3> QED
        BY <3>1, <3>4 DEF WrittenReadsBack, Shows
    <2> QED
      BY <1>2, <2>1, <2>2, <2>3, <2>4, EveryOutcome DEF Outcome
  <1>3. TextsReadBack /\ TypeOK /\ WrittenReadsBack /\ [Next]_vars => WrittenReadsBack'
    BY <1>2
  <1> SUFFICES ASSUME TextsReadBack
               PROVE  Spec => []WrittenReadsBack
    OBVIOUS
  <1>4. TypeOK /\ WrittenReadsBack /\ [Next]_vars => WrittenReadsBack'
    BY <1>3
  <1> QED
    BY <1>1, <1>4, AnswersTyped, PTL DEF Spec

(* What `get` has answered about a binding of a valid file is accepted by  *)
(* `set`, and neither the map nor the answer changes: from_input undoes    *)
(* query.binding, comments, fields and nulls included, whatever the map.   *)
THEOREM GetTakenBack == Spec => GetThenSet
  <1> DEFINE Taken ==
        reply.op = "get" /\ reply'.op = "set" /\ reply'.id = reply.id /\ reply'.doc = reply.out
          /\ Clean => reply'.code = "ok" /\ reply'.out = reply.out /\ file' = Emit(Loaded)
  <1>1. Init => AnswerTrue
    BY DEF Init, NoReply, AnswerTrue, Succeeded
  <1>2. TypeOK /\ AnswerTrue /\ [Next]_vars => AnswerTrue'
    BY AnswerStaysTrue
  <1>3. ASSUME TypeOK, AnswerTrue, Next, reply.op = "get", reply'.op = "set",
               reply'.id = reply.id, Clean
        PROVE  reply'.code = "ok" /\ reply'.out = reply.out /\ file' = Emit(Loaded)
    <2>1. reply # NoReply
      BY <1>3 DEF NoReply
    <2>2. ~AnswerRead
      BY <1>3 DEF AnswerRead, NoReply
    <2>3. PICK id \in Ids : SetGot(Load, id)
      BY <1>3, <2>1, <2>2 DEF Next
    <2>4. reply.code = "ok" /\ Set(Load, id, reply.out)
      BY <2>3 DEF SetGot
    <2>5. reply'.id = id
      BY <2>4 DEF Set, Installs, Install, Deny, Refuse, Answer
    <2>6. id \in Keys(Loaded.bindings) /\ reply.out = BindingOut(id, BindingOf(Loaded, id))
      BY <1>3, <2>4, <2>5 DEF AnswerTrue, Succeeded, Got
    <2> DEFINE b == BindingOf(Loaded, id)
    <2>7. Good(Loaded) /\ Load.write = "ok" /\ Load.map = Loaded
      BY <1>3, CleanIsGood DEF TypeOK
    <2>8. id \in IdTexts /\ b \in BindingType(Note) /\ BindingRules(b, FALSE)
      BY <2>6, <2>7, BindingFound DEF Good, GoodBinding
    <2> HIDE DEF b
    <2>9. BindingInput(reply.out) = b /\ InputFindings(reply.out) = {} /\ ~UsageRefuses(id, reply.out)
      BY <2>6, <2>8, AnswerTakenBack DEF b
    <2>10. IdAccepted(id)
      BY <2>8 DEF IdAccepted, IdTexts
    <2>11. WithBinding(Loaded, id, b) = Loaded
      BY <2>6, <2>7, BindingPutBack DEF b
    <2>12. Install("set", id, reply.out, Loaded, BindingOut(id, BindingOf(Loaded, id)))
      BY <2>4, <2>7, <2>9, <2>10, <2>11 DEF Set, Installs
    <2>13. MapCodes(Loaded) = {}
      BY <2>7, GoodMaps
    <2> QED
      BY <2>6, <2>12, <2>13 DEF Install
  <1>4. TypeOK /\ AnswerTrue /\ [Next]_vars => [Taken]_vars
    BY <1>3
  <1>5. GetThenSet <=> [][Taken]_vars
    BY DEF GetThenSet
  <1> QED
    BY <1>1, <1>2, <1>4, <1>5, AnswersTyped, PTL DEF Spec
=============================================================================
