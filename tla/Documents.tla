----------------------------- MODULE Documents -----------------------------
(***************************************************************************)
(* What becomes of data on its way through dbind: the values the YAML or   *)
(* JSON parser delivers, the objects of model.py that are made of them,    *)
(* and the values that are made of those again, in the file and in the     *)
(* answers of `get` and `list`.                                            *)
(*                                                                         *)
(* Of a string only what the code's tests on it find counts (Traits), and  *)
(* what YAML takes it for when it is written without quotes (Reads).       *)
(* Where a comment stands among the lines of a file is the business of     *)
(* Layout; here a comment is a note on the item or pair it belongs to, and *)
(* it stands where the emitter puts one of one line: above a binding,      *)
(* beside an entry.                                                        *)
(***************************************************************************)
EXTENDS Lists

CONSTANTS
    Traits,        \* [texts -> sets of traits]
    Reads,         \* [texts -> scalars]: an unquoted text as YAML reads it
    KindOf         \* [IDs -> kinds]

(* empty; with a space, a flow character, an indicator or one of the       *)
(* leading characters in front; a non-string of the core schema; no string *)
(* for YAML although needs_quotes looks for none of that in it (`<<`, the  *)
(* merge key, and `=`); with a control character; with a line number at    *)
(* the end; no path; with trailing whitespace; a contract ID; a kind; a    *)
(* number without a fraction.  Other characters than those have no meaning *)
(* to YAML (U+2028, U+FFFE and lone surrogates are left out).              *)
TraitNames ==
    {"empty", "space", "flow", "indicator", "leading", "core", "resolved",
     "control", "suffix", "nopath", "unclean", "id", "kind", "integral"}

Is(text, trait) == trait \in Traits[text]

Texts == DOMAIN Traits
TextOrNone == Texts \cup {None}

(* A comment as the loader hands it out, without trailing whitespace.      *)
Note == {t \in Texts : ~Is(t, "unclean")} \cup {None}
-----------------------------------------------------------------------------
(***************************************************************************)
(* Parsed values.                                                          *)
(***************************************************************************)
Scalar(type, text) == [type |-> type, text |-> text]
String(text) == Scalar("string", text)
Null == Scalar("null", "None")

Item(value, note) == [value |-> value, note |-> note]
Pair(key, value, note) == [key |-> key, value |-> value, note |-> note]
List(items) == [type |-> "list", items |-> items]
Mapping(pairs) == [type |-> "mapping", pairs |-> pairs]

(* Null has one form, and what is no string is no ID and no kind when      *)
(* str() makes it one.  A tagged scalar is one that YAML gives a type that *)
(* Python has nothing for; a merge key is one until the mapping is made.   *)
ScalarTypes == {"string", "null", "integer", "float", "boolean", "date", "tagged", "merge"}
Scalars ==
    {s \in [type : ScalarTypes, text : Texts] :
       /\ s.type = "null" => s = Null
       /\ s.type # "string" => ~Is(s.text, "id") /\ ~Is(s.text, "kind")}

(* Values that hold nothing but values of S, and how deep the code looks   *)
(* into a file: at its pairs, a binding, a list in that, an entry of it.   *)
ListsOf(S) == [type : {"list"}, items : Seq([value : S, note : Note])]
MappingsOf(S) == [type : {"mapping"}, pairs : Seq([key : Scalars, value : S, note : Note])]
Values(S) == Scalars \cup ListsOf(S) \cup MappingsOf(S)

EntryValues == Values(Values({}))
SectionValues == Values(EntryValues)
DocumentValues == Values(SectionValues)
FileType == [header : Note, root : MappingsOf(Values(DocumentValues))]

KeysOf(m) == {p.key : p \in Range(m.pairs)}
Has(m, k) == String(k) \in KeysOf(m)
PairAt(m, k) == CHOOSE p \in Range(m.pairs) : p.key = String(k)
At(m, k) == PairAt(m, k).value
HasA(m, k, type) == Has(m, k) /\ At(m, k).type = type

TextAt(m, k) == IF HasA(m, k, "string") THEN At(m, k).text ELSE None

(* Values of which no mapping has a key twice, for the parsers refuse it   *)
(* or keep one, and none has a key with `<<`: what it merges is outside    *)
(* the files of this model, but for what a write comes to (Merged).        *)
Once(S) ==
    {v \in Values(S) :
       v.type = "mapping" => UniqueKeys(v.pairs) /\ \A p \in Range(v.pairs) : p.key.type # "merge"}

ParsedFiles == {f \in FileType : f.root \in Once(Once(Once(Once(Once(Once({}))))))}

Parts(v) ==
    CASE v.type = "list" -> Range(v.items) [] v.type = "mapping" -> Range(v.pairs) [] OTHER -> {}
Unnoted(v) == \A x \in Parts(v) : x.note = None

(* A code if there is a reason for it.                                     *)
Code(code, reasons) == {code : r \in reasons}
CodeIf(code, condition) == IF condition THEN {code} ELSE {}
-----------------------------------------------------------------------------
(***************************************************************************)
(* The rule table SHAPE.                                                   *)
(***************************************************************************)
Typed(type, item) == [type |-> type, item |-> item]
Text == Typed("str", None)

Shape ==
  [document |-> [keys |-> [schema_version |-> Typed("int", None),
                           bindings |-> Typed("map", "binding"),
                           coverage |-> Typed("node", "coverage")],
                 required |-> {"schema_version", "bindings"}],
   binding |-> [keys |-> [locators |-> Typed("list", "locator"),
                          compare_via |-> Text,
                          fields |-> Typed("map", "field_locator"),
                          wire |-> Typed("node", "wire"),
                          asserted_by |-> Typed("list", "assertion")],
                required |-> {"locators"}],
   locator |-> [keys |-> [path |-> Text, symbol |-> Text, role |-> Typed("enum", None)],
                required |-> {"path"}],
   field_locator |-> [keys |-> [path |-> Text, symbol |-> Text], required |-> {"path"}],
   wire |-> [keys |-> [casing |-> Text, enums |-> Text, dates |-> Text], required |-> {}],
   assertion |-> [keys |-> [path |-> Text, symbol |-> Text, run |-> Text, arm |-> Text,
                            owed |-> Text],
                  required |-> {}],
   coverage |-> [keys |-> [fully_bound |-> Typed("list", "kind"),
                           curated |-> Typed("map", "reason")],
                 required |-> {}]]

Roles == {"producer", "consumer"}

(* The order in which keys are written.                                    *)
KeyOrder ==
  [locator |-> <<"path", "symbol", "role">>, field_locator |-> <<"path", "symbol">>,
   wire |-> <<"casing", "enums", "dates">>,
   assertion |-> <<"path", "symbol", "run", "arm", "owed">>]
-----------------------------------------------------------------------------
(***************************************************************************)
(* The objects of model.py, with comments of C.                            *)
(***************************************************************************)
StringsOf(node) == UNION {[D -> Texts] : D \in SUBSET DOMAIN Shape[node].keys}

EntryType(node, C) ==
  [strings : {f \in StringsOf(node) : /\ Shape[node].required \subseteq DOMAIN f
                                      /\ "role" \in DOMAIN f => f["role"] \in Roles},
   comment : C]

DictsOf(keys, S) == {d \in Seq([key : keys, value : S]) : UniqueKeys(d)}

BindingType(C) ==
  [locators : Seq(EntryType("locator", C)), compare_via : TextOrNone,
   fields : DictsOf(Texts, EntryType("field_locator", C)) \cup {None},
   wire : EntryType("wire", {None}) \cup {None},
   asserted_by : Seq(EntryType("assertion", C)) \cup {None}, comment : C]

CoverageType ==
  [fully_bound : Seq(Texts) \cup {None},
   curated : DictsOf(Texts, [reason : Texts, comment : Note]) \cup {None}, comment : Note]

MapType ==
  [schema_version : TextOrNone,
   bindings : DictsOf({t \in Texts : Is(t, "id")}, BindingType(Note)),
   coverage : CoverageType \cup {None}, header : Note]
-----------------------------------------------------------------------------
(***************************************************************************)
(* What the proofs rest on.  The keys and words of the code are texts, and *)
(* what has none of the traits that mean something to YAML is read as it   *)
(* is written.                                                             *)
(***************************************************************************)
ASSUME ReadsAssumption ==
    LET special ==
          {"empty", "space", "flow", "indicator", "leading", "core", "resolved", "control"}
    IN  Reads \in [Texts -> Scalars]
          /\ \A t \in Texts : Traits[t] \cap special = {} => Reads[t] = String(t)

ASSUME TraitAssumption ==
    /\ \A t \in Texts : Traits[t] \subseteq TraitNames
    /\ {"id", "kind", "comment", "reason", "None", "1"} \subseteq Texts
    /\ \A t \in {"None", "1"} : ~Is(t, "id") /\ ~Is(t, "kind")
    /\ \A node \in DOMAIN Shape : DOMAIN Shape[node].keys \subseteq Texts
    /\ \A t \in Texts \cap Roles : ~Is(t, "control")

ASSUME KindAssumption ==
    \A t \in Texts : Is(t, "id") => t \in DOMAIN KindOf /\ KindOf[t] \in Texts

ASSUME RankAssumption ==
    LET keys == {t \in Texts : Is(t, "id") \/ Is(t, "kind")}
    IN  \A s, t \in keys : Rank[s] \in Nat /\ (Rank[s] = Rank[t] => s = t)

(* Python's None is no text, no object, no list and no mapping.            *)
ASSUME NoneAssumption ==
    /\ None \notin Texts /\ None \notin Seq(Texts)
    /\ \A node \in DOMAIN KeyOrder :
         LET entries == EntryType(node, TextOrNone)
         IN  /\ None \notin entries /\ None \notin Seq(entries)
             /\ None \notin [key : Texts, value : entries]
             /\ None \notin DictsOf(Texts, entries)
    /\ None \notin BindingType(TextOrNone)
    /\ None \notin [key : Texts, value : BindingType(TextOrNone)]
    /\ None \notin CoverageType
    /\ None \notin [key : Texts, value : [reason : Texts, comment : Note]]
    /\ None \notin DictsOf(Texts, [reason : Texts, comment : Note])
-----------------------------------------------------------------------------
(***************************************************************************)
(* _Converter: values to objects, and a finding for what cannot be         *)
(* represented.  A locator, field, assertion or wire block is the strings  *)
(* at its keys and a comment.                                              *)
(***************************************************************************)
ClosedKeys(m, node) ==
    LET unknown == KeysOf(m) \ {String(k) : k \in DOMAIN Shape[node].keys}
        missing == {k \in Shape[node].required : ~Has(m, k)}
    IN  Code("INV-CLOSED-KEYS", unknown \cup missing)
          \cup Code("INV-NO-LINE-NUMBERS", unknown \cap {String("line"), String("lines")})

Allowed(m, k, spec) ==
    HasA(m, k, "string") /\ (spec.type = "enum" => At(m, k).text \in Roles)

Strings(m, node) ==
    LET keys == Shape[node].keys
    IN  [k \in {k \in DOMAIN keys : Allowed(m, k, keys[k])} |-> At(m, k).text]

Flat(v, node, comment) ==
    IF v.type # "mapping" \/ ~(Shape[node].required \subseteq DOMAIN Strings(v, node)) THEN None
    ELSE [strings |-> Strings(v, node), comment |-> comment]

FlatFindings(v, node) ==
    IF v.type # "mapping" THEN {"INV-CLOSED-KEYS"}
    ELSE LET keys == Shape[node].keys
             present == {k \in DOMAIN keys : Has(v, k)}
         IN  ClosedKeys(v, node)
               \cup Code("INV-CLOSED-KEYS", {k \in present : At(v, k).type # "string"})
               \cup Code("INV-ROLE-VALUES", {k \in present : /\ At(v, k).type = "string"
                                                             /\ ~Allowed(v, k, keys[k])})

(* An entry that cannot be represented is left out.                        *)
Represented(s) == Chosen(s, {n \in DOMAIN s : s[n] # None})

Entries(items, node) ==
    Represented([n \in DOMAIN items |-> Flat(items[n].value, node, items[n].note)])

(* d[str(key)] = value.                                                    *)
Keyed(key, value) == [key |-> key, value |-> value]

Assign(d, e) ==
    IF e = None THEN d
    ELSE IF \E n \in DOMAIN d : d[n].key = e.key
      THEN [n \in DOMAIN d |-> IF d[n].key = e.key THEN e ELSE d[n]]
      ELSE Append(d, e)

(* The entries that are not None assigned one after another: a key is      *)
(* where it was first, and has what it was given last.                     *)
Dict(entries) ==
    LET given == {n \in DOMAIN entries : entries[n] # None}
        same(n) == {m \in given : entries[m].key = entries[n].key}
        first == {n \in given : \A m \in same(n) : n <= m}
    IN  Chosen([n \in first |-> entries[CHOOSE m \in same(n) : \A k \in same(n) : k <= m]], first)

Lookup(d, key) == (CHOOSE e \in Range(d) : e.key = key).value

FieldEntry(p) ==
    LET f == Flat(p.value, "field_locator", p.note)
    IN  IF f = None THEN None ELSE Keyed(p.key.text, f)

Fields(pairs) == Dict([n \in DOMAIN pairs |-> FieldEntry(pairs[n])])

Binding(v, comment) ==
    IF v.type # "mapping" THEN None
    ELSE IF ~HasA(v, "locators", "list") THEN None
    ELSE [locators |-> Entries(At(v, "locators").items, "locator"),
          compare_via |-> TextAt(v, "compare_via"),
          fields |-> IF HasA(v, "fields", "mapping") THEN Fields(At(v, "fields").pairs) ELSE None,
          wire |-> IF Has(v, "wire") THEN Flat(At(v, "wire"), "wire", None) ELSE None,
          asserted_by |-> IF HasA(v, "asserted_by", "list")
                            THEN Entries(At(v, "asserted_by").items, "assertion") ELSE None,
          comment |-> comment]

(* A present key with a value of the wrong type, and the findings in one   *)
(* of the right type.                                                      *)
Mistyped(m, k, type) == CodeIf("INV-CLOSED-KEYS", Has(m, k) /\ At(m, k).type # type)

ItemFindings(m, k, node) ==
    Mistyped(m, k, "list") \cup
    (IF HasA(m, k, "list") THEN UNION {FlatFindings(i.value, node) : i \in Range(At(m, k).items)}
     ELSE {})

PairFindings(m, k, node) ==
    Mistyped(m, k, "mapping") \cup
    (IF HasA(m, k, "mapping") THEN UNION {FlatFindings(p.value, node) : p \in Range(At(m, k).pairs)}
     ELSE {})

(* Without its locators nothing else of a binding is looked at.            *)
BindingFindings(v) ==
    IF v.type # "mapping" THEN {"INV-CLOSED-KEYS"}
    ELSE ClosedKeys(v, "binding") \cup ItemFindings(v, "locators", "locator")
           \cup (IF ~HasA(v, "locators", "list") THEN {}
                 ELSE Mistyped(v, "compare_via", "string")
                        \cup PairFindings(v, "fields", "field_locator")
                        \cup (IF Has(v, "wire") THEN FlatFindings(At(v, "wire"), "wire") ELSE {})
                        \cup ItemFindings(v, "asserted_by", "assertion"))
-----------------------------------------------------------------------------
IsString(v) == v.type = "string"
AsText(v) == IF IsString(v) THEN v.text ELSE None

CuratedEntry(p) ==
    IF IsString(p.value)
      THEN Keyed(p.key.text, [reason |-> p.value.text, comment |-> p.note]) ELSE None

Coverage(v, comment) ==
    IF v.type # "mapping" THEN None
    ELSE LET curated == At(v, "curated").pairs
             listed == At(v, "fully_bound").items
         IN  [fully_bound |-> IF HasA(v, "fully_bound", "list")
                                THEN Represented([n \in DOMAIN listed |-> AsText(listed[n].value)])
                                ELSE None,
              curated |-> IF HasA(v, "curated", "mapping")
                            THEN Dict([n \in DOMAIN curated |-> CuratedEntry(curated[n])])
                            ELSE None,
              comment |-> comment]

CoverageFindings(v) ==
    IF v.type # "mapping" THEN {"INV-CLOSED-KEYS"}
    ELSE LET inside == {i.value : i \in IF HasA(v, "fully_bound", "list")
                                          THEN Range(At(v, "fully_bound").items) ELSE {}}
                         \cup {p.value : p \in IF HasA(v, "curated", "mapping")
                                                 THEN Range(At(v, "curated").pairs) ELSE {}}
         IN  ClosedKeys(v, "coverage")
               \cup Mistyped(v, "fully_bound", "list") \cup Mistyped(v, "curated", "mapping")
               \cup Code("INV-CLOSED-KEYS", {x \in inside : ~IsString(x)})

(* A field's line is looked up with the name that str() has made of its    *)
(* key.  For a key that is no string there is none, and the field is taken *)
(* to start on the line of its binding: the comment above that goes to the *)
(* last such field (_Anchors), in place of one that it may have.           *)
Strays(v, b) == {n \in DOMAIN OrEmpty(b.fields) : ~Has(At(v, "fields"), b.fields[n].key)}
LastStray(v, b) == CHOOSE n \in Strays(v, b) : \A m \in Strays(v, b) : m <= n

Relocates(v, b) == b.comment # None /\ Strays(v, b) # {}

Relocated(v, b) ==
    IF ~Relocates(v, b) THEN b
    ELSE [b EXCEPT !.comment = None,
                   !.fields = [n \in DOMAIN @ |->
                                 IF n = LastStray(v, b) THEN [@[n] EXCEPT !.value.comment = b.comment]
                                 ELSE @[n]]]

TwoCarriers(v, b) ==
    b # None /\ Relocates(v, b) /\ b.fields[LastStray(v, b)].value.comment # None

BindingEntry(p) ==
    LET b == Binding(p.value, p.note)
    IN  IF ~Is(p.key.text, "id") \/ b = None THEN None
        ELSE Keyed(p.key.text, Relocated(p.value, b))

(* from_plain of a file, of which the parser has made sure that it is a    *)
(* mapping (_Converter.document).                                          *)
Map(file) ==
    LET v == file.root
        pairs == At(v, "bindings").pairs
    IN  [schema_version |-> IF HasA(v, "schema_version", "integer")
                              THEN At(v, "schema_version").text ELSE None,
         bindings |-> IF HasA(v, "bindings", "mapping")
                        THEN Dict([n \in DOMAIN pairs |-> BindingEntry(pairs[n])]) ELSE <<>>,
         coverage |-> IF Has(v, "coverage")
                        THEN Coverage(At(v, "coverage"), PairAt(v, "coverage").note) ELSE None,
         header |-> file.header]

ShapeFindings(file) ==
    LET v == file.root
        pairs == IF HasA(v, "bindings", "mapping") THEN Range(At(v, "bindings").pairs) ELSE {}
        named == {p \in pairs : Is(p.key.text, "id")}
    IN  ClosedKeys(v, "document")
          \cup Mistyped(v, "schema_version", "integer") \cup Mistyped(v, "bindings", "mapping")
          \cup Code("INV-ID-GRAMMAR", pairs \ named)
          \cup (UNION {BindingFindings(p.value) : p \in named})
          \cup (IF Has(v, "coverage") THEN CoverageFindings(At(v, "coverage")) ELSE {})
-----------------------------------------------------------------------------
(***************************************************************************)
(* Where comments may stand.  One beside or above a part of the file of    *)
(* which no object is made has no anchor, and the loader refuses the file  *)
(* with ERR-PARSE (attach_comments).                                       *)
(***************************************************************************)
Quiet(S) == {v \in Values(S) : Unnoted(v)}
Silent == Quiet(Quiet(Quiet(Quiet(Quiet({})))))

ItemsAttached(s, node) ==
    \A i \in Range(s) : i.value \in Silent /\ (i.note # None => Flat(i.value, node, i.note) # None)

EntryOf(p, node) == IF node = "field_locator" THEN FieldEntry(p) ELSE CuratedEntry(p)

(* A pair whose key is that of a later one, by str(), has no object.       *)
PairsAttached(s, node) ==
    \A n \in DOMAIN s :
      /\ s[n].value \in Silent
      /\ s[n].note # None =>
           /\ s[n].key.type # "merge" /\ EntryOf(s[n], node) # None
           /\ \A m \in DOMAIN s : s[m].key.text = s[n].key.text /\ EntryOf(s[m], node) # None => m <= n

SectionAttached(p) ==
    LET k == p.key
    IN  CASE k = String("locators") /\ p.value.type = "list" -> ItemsAttached(p.value.items, "locator")
          [] k = String("asserted_by") /\ p.value.type = "list" ->
               ItemsAttached(p.value.items, "assertion")
          [] k = String("fields") /\ p.value.type = "mapping" ->
               PairsAttached(p.value.pairs, "field_locator")
          [] OTHER -> p.value \in Silent

BindingAttached(p) ==
    IF BindingEntry(p) = None THEN p.note = None /\ p.value \in Silent
    ELSE Unnoted(p.value) /\ \A q \in Range(p.value.pairs) : SectionAttached(q)

CoverageAttached(v) ==
    /\ Unnoted(v)
    /\ \A p \in Range(v.pairs) :
         IF p.key = String("curated") /\ p.value.type = "mapping"
           THEN PairsAttached(p.value.pairs, "curated") ELSE p.value \in Silent

Attached(f) ==
    \A p \in Range(f.root.pairs) :
      LET made == p.value.type = "mapping"
      IN  /\ p.note # None => p.key = String("coverage") /\ made
          /\ CASE p.key = String("bindings") /\ made ->
                    \A q \in Range(p.value.pairs) : BindingAttached(q)
               [] p.key = String("coverage") /\ made -> CoverageAttached(p.value)
               [] OTHER -> p.value \in Silent

(* A block above an entry and a comment beside it.                         *)
CarrierFindings(file) ==
    LET pairs == IF HasA(file.root, "bindings", "mapping")
                   THEN Range(At(file.root, "bindings").pairs) ELSE {}
    IN  CodeIf("INV-COMMENT-ANCHORED",
               \E p \in pairs : Is(p.key.text, "id")
                                  /\ TwoCarriers(p.value, Binding(p.value, p.note)))
-----------------------------------------------------------------------------
(***************************************************************************)
(* The rules on objects whose findings are errors (validator._Rules); in   *)
(* an input, trailing whitespace of a comment is one.                      *)
(***************************************************************************)
StringAt(x, k) == IF k \in DOMAIN x.strings THEN x.strings[k] ELSE None

ScalarCodes(t) == CodeIf("INV-SYMBOL-NONEMPTY", t # None /\ (Is(t, "empty") \/ Is(t, "control")))

PathCodes(t) ==
    IF Is(t, "suffix") THEN {"INV-NO-LINE-NUMBERS"}
    ELSE IF Is(t, "empty") \/ Is(t, "nopath") THEN {"INV-PATH-FORM"}
    ELSE CodeIf("INV-SYMBOL-NONEMPTY", Is(t, "control"))

CommentCodes(c, input) ==
    CodeIf("INV-COMMENT-TEXT",
           c # None /\ (Is(c, "empty") \/ Is(c, "control") \/ (input /\ Is(c, "unclean"))))

EntryCodes(x, input) ==
    CommentCodes(x.comment, input)
      \cup (IF StringAt(x, "path") = None THEN {} ELSE PathCodes(StringAt(x, "path")))
      \cup CodeIf("INV-NO-LINE-NUMBERS", "symbol" \in DOMAIN x.strings
                                          /\ Is(StringAt(x, "symbol"), "suffix"))
      \cup (UNION {ScalarCodes(StringAt(x, k)) : k \in DOMAIN x.strings \ {"path", "role"}})

AssertionCodes(x) ==
    LET bound == DOMAIN x.strings \cap {"path", "symbol", "run"}
    IN  CodeIf("INV-ASSERTION-SHAPE", IF "owed" \in DOMAIN x.strings THEN bound # {}
                                      ELSE bound # {"path", "symbol", "run"})

LocatorIdentity(x) == <<StringAt(x, "path"), StringAt(x, "symbol")>>

AssertionIdentity(x) ==
    IF "owed" \in DOMAIN x.strings /\ "path" \notin DOMAIN x.strings
      THEN <<"owed", StringAt(x, "owed"), None, StringAt(x, "arm")>>
      ELSE <<"bound", StringAt(x, "path"), StringAt(x, "symbol"), StringAt(x, "arm")>>

Repeated(s, Identity(_)) == \E m, n \in DOMAIN s : m # n /\ Identity(s[m]) = Identity(s[n])

FieldNameCodes(name) ==
    CodeIf("INV-FIELD-NAME", Is(name, "empty"))
      \cup CodeIf("INV-SYMBOL-NONEMPTY", Is(name, "control"))

BindingCodes(b, input) ==
    LET fields == OrEmpty(b.fields)
        asserted == OrEmpty(b.asserted_by)
    IN  CommentCodes(b.comment, input) \cup ScalarCodes(b.compare_via)
          \cup (UNION {EntryCodes(x, input) : x \in Range(b.locators) \cup Range(asserted)
                                                    \cup {e.value : e \in Range(fields)}})
          \cup CodeIf("INV-LOCATOR-UNIQUE", Repeated(b.locators, LocatorIdentity))
          \cup CodeIf("INV-FIELD-NAME", b.fields = <<>>)
          \cup (UNION {FieldNameCodes(name) : name \in Keys(fields)})
          \cup (IF b.wire = None THEN {}
                 ELSE CodeIf("INV-WIRE-SUBSET", DOMAIN b.wire.strings = {})
                        \cup EntryCodes(b.wire, input))
          \cup CodeIf("INV-ASSERTION-SHAPE", b.asserted_by = <<>>)
          \cup (UNION {AssertionCodes(x) : x \in Range(asserted)})
          \cup CodeIf("INV-ASSERTION-UNIQUE", Repeated(asserted, AssertionIdentity))

CoverageCodes(c) ==
    LET listed == OrEmpty(c.fully_bound)
        curated == OrEmpty(c.curated)
        wrong == {k \in Range(listed) \cup Keys(curated) : ~Is(k, "kind")}
                   \cup (Range(listed) \cap Keys(curated))
                   \cup {e.value.reason : e \in {e \in Range(curated) : Is(e.value.reason, "empty")}}
    IN  CommentCodes(c.comment, FALSE)
          \cup (UNION {CommentCodes(e.value.comment, FALSE) : e \in Range(curated)})
          \cup CodeIf("INV-COVERAGE-WELLFORMED",
                      \/ c.fully_bound = None /\ c.curated = None
                      \/ c.fully_bound = <<>> \/ c.curated = <<>>
                      \/ wrong # {} \/ ~IsInjective(listed))
          \cup CodeIf("INV-SYMBOL-NONEMPTY",
                      \E e \in Range(curated) : Is(e.value.reason, "control"))

MapCodes(m) ==
    CommentCodes(m.header, FALSE)
      \cup CodeIf("INV-SCHEMA-VERSION", m.schema_version # "1")
      \cup (UNION {BindingCodes(e.value, FALSE) : e \in Range(m.bindings)})
      \cup (IF m.coverage = None THEN {} ELSE CoverageCodes(m.coverage))

FileFindings(file) == ShapeFindings(file) \cup CarrierFindings(file) \cup MapCodes(Map(file))
-----------------------------------------------------------------------------
(***************************************************************************)
(* emitter.emit, as the values the next load parses: what is quoted is a   *)
(* string, what is not is what YAML takes it for.                          *)
(***************************************************************************)
(* Seeded bug: only what the core schema resolves to a non-string, spaces  *)
(* and indicators are looked for.                                          *)
NeedsQuotesCore(t) == Traits[t] \cap {"empty", "space", "flow", "indicator", "core"} # {}

NeedsQuotes(t) == Traits[t] \cap {"empty", "space", "flow", "indicator", "core", "leading"} # {}

Bare(t) == Reads[t]

Written(t) == IF NeedsQuotes(t) THEN String(t) ELSE Bare(t)

(* A key with nothing after it.                                            *)
OrNull(v, empty) == IF empty THEN Null ELSE v

WrittenFlat(x, node) ==
    LET order == KeyOrder[node]
        keys == Chosen(order, {n \in DOMAIN order : order[n] \in DOMAIN x.strings})
    IN  Mapping([n \in DOMAIN keys |-> Pair(String(keys[n]), Written(x.strings[keys[n]]), None)])

WrittenList(s, node) == List([n \in DOMAIN s |-> Item(WrittenFlat(s[n], node), s[n].comment)])

(* The pairs of a mapping as the parser makes it: a merge key is replaced  *)
(* by what its value has, but for the keys that are there.  With a comment *)
(* beside it the file has no anchor for that, and is not read at all.      *)
Merges(p) == p.key.type = "merge" /\ p.note = None

Merged(pairs) ==
    LET own == Chosen(pairs, {n \in DOMAIN pairs : ~Merges(pairs[n])})
        merged == (CHOOSE p \in Range(pairs) : Merges(p)).value.pairs
    IN  IF \A p \in Range(pairs) : ~Merges(p) THEN pairs
        ELSE own \o Chosen(merged, {n \in DOMAIN merged : merged[n].key \notin KeysOf(Mapping(own))})

WrittenField(e, key) == Pair(key, WrittenFlat(e.value, "field_locator"), e.value.comment)

(* Seeded bug: the name of a field is never quoted.                        *)
WrittenFieldsBare(d) == Mapping(Merged([n \in DOMAIN d |-> WrittenField(d[n], Bare(d[n].key))]))

WrittenFields(d) == Mapping(Merged([n \in DOMAIN d |-> WrittenField(d[n], Written(d[n].key))]))

(* The pairs whose object is there.                                        *)
Section(present, k, v) == IF present THEN <<Pair(String(k), v, None)>> ELSE <<>>

WrittenBinding(b) ==
    Mapping(<<Pair(String("locators"), WrittenList(b.locators, "locator"), None)>>
      \o Section(b.compare_via # None, "compare_via", Written(b.compare_via))
      \o Section(b.fields # None, "fields", OrNull(WrittenFields(b.fields), b.fields = <<>>))
      \o Section(b.wire # None, "wire",
                 OrNull(WrittenFlat(b.wire, "wire"), DOMAIN b.wire.strings = {}))
      \o Section(b.asserted_by # None, "asserted_by",
                 OrNull(WrittenList(b.asserted_by, "assertion"), b.asserted_by = <<>>)))

(* Kinds and IDs are never quoted.                                         *)
WrittenCoverage(c) ==
    LET listed == OrEmpty(c.fully_bound)
        curated == OrEmpty(c.curated)
    IN  Mapping(Section(c.fully_bound # None, "fully_bound",
                        List([n \in DOMAIN listed |-> Item(Bare(listed[n]), None)]))
          \o Section(c.curated # None, "curated",
                     OrNull(Mapping([n \in DOMAIN curated |->
                              Pair(Bare(curated[n].key), Written(curated[n].value.reason),
                                   curated[n].value.comment)]), c.curated = <<>>)))

Emit(m) ==
    LET bindings == [n \in DOMAIN m.bindings |->
                       Pair(Bare(m.bindings[n].key), WrittenBinding(m.bindings[n].value),
                            m.bindings[n].value.comment)]
    IN  [header |-> m.header,
         root |-> Mapping(<<Pair(String("schema_version"), Scalar("integer", m.schema_version), None),
                            Pair(String("bindings"), Mapping(bindings), None)>>
                    \o (IF m.coverage = None THEN <<>>
                        ELSE <<Pair(String("coverage"), WrittenCoverage(m.coverage),
                                    m.coverage.comment)>>))]
=============================================================================
