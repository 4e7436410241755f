---------------------------- MODULE Interchange ----------------------------
(***************************************************************************)
(* What goes in and out of an invocation besides the file: the projections *)
(* that `get`, `list` and the writing commands answer with (query.py,      *)
(* coverage.py), the input documents that are made into objects again      *)
(* (from_input), and the published JSON Schema (schema.py).                *)
(***************************************************************************)
EXTENDS Documents

(* A JSON object with these <<key, value>> rows.                           *)
Object(rows) == Mapping([n \in DOMAIN rows |-> Pair(String(rows[n][1]), rows[n][2], None)])

Nullable(text) == IF text = None THEN Null ELSE String(text)

Mapped(s, F(_)) == [n \in DOMAIN s |-> F(s[n])]

(* A list of objects.                                                      *)
ListOut(s, F(_)) == List(Mapped(s, LAMBDA x : Item(F(x), None)))
-----------------------------------------------------------------------------
(***************************************************************************)
(* Projections: every key is there, null when the object has nothing, and  *)
(* a comment is one of the keys.                                           *)
(***************************************************************************)
Columns(x, node) == Mapped(KeyOrder[node], LAMBDA k : <<k, Nullable(StringAt(x, k))>>)

(* Seeded bug: the run of an assertion is left out.                        *)
FlatOutNoRun(x, node) ==
    Object(Append(SelectSeq(Columns(x, node), LAMBDA row : row[1] # "run"),
                  <<"comment", Nullable(x.comment)>>))

FlatOut(x, node) == Object(Append(Columns(x, node), <<"comment", Nullable(x.comment)>>))

LocatorOut(x) == FlatOut(x, "locator")
AssertionOut(x) == FlatOut(x, "assertion")

BindingOut(id, b) ==
    Object(<<
      <<"id", String(id)>>, <<"kind", String(KindOf[id])>>, <<"comment", Nullable(b.comment)>>,
      <<"locators", ListOut(b.locators, LocatorOut)>>,
      <<"compare_via", Nullable(b.compare_via)>>,
      <<"fields", IF b.fields = None THEN Null
                  ELSE Object(Mapped(b.fields, LAMBDA e :
                                       <<e.key, FlatOut(e.value, "field_locator")>>))>>,
      <<"wire", IF b.wire = None THEN Null ELSE Object(Columns(b.wire, "wire"))>>,
      <<"asserted_by", IF b.asserted_by = None THEN Null
                       ELSE ListOut(b.asserted_by, AssertionOut)>> >>)

Commented(x) == x.comment # None
(* Seeded bug: comments of fields are forgotten.                           *)
HasCommentNoFields(b) ==
    Commented(b) \/ \E x \in Range(b.locators) \cup Range(OrEmpty(b.asserted_by)) : Commented(x)

HasComment(b) ==
    \/ Commented(b) \/ \E x \in Range(b.locators) \cup Range(OrEmpty(b.asserted_by)) : Commented(x)
    \/ \E e \in Range(OrEmpty(b.fields)) : Commented(e.value)

Summary(id, b) ==
    [id |-> id, kind |-> KindOf[id], stub |-> b.locators = <<>>, locators |-> Len(b.locators),
     fields |-> Len(OrEmpty(b.fields)), assertions |-> Len(OrEmpty(b.asserted_by)),
     has_comment |-> HasComment(b)]

Selected(m, kinds) ==
    Chosen(m.bindings,
           {n \in DOMAIN m.bindings : kinds = {} \/ KindOf[m.bindings[n].key] \in kinds})

CoverageOut(c) ==
    LET listed == IF c = None THEN <<>> ELSE OrEmpty(c.fully_bound)
        curated == IF c = None THEN <<>> ELSE OrEmpty(c.curated)
    IN  Object(<<
          <<"comment", IF c = None THEN Null ELSE Nullable(c.comment)>>,
          <<"fully_bound", ListOut(listed, String)>>,
          <<"curated", Object(Mapped(curated, LAMBDA e :
              <<e.key, Object(<<<<"reason", String(e.value.reason)>>,
                                <<"comment", Nullable(e.value.comment)>>>>)>>))>> >>)
-----------------------------------------------------------------------------
(***************************************************************************)
(* Input documents.  Null is as good as absent, and a comment is taken out *)
(* before the conversion and put back on the object after it.              *)
(***************************************************************************)
Without(v, Gone(_)) ==
    IF v.type = "mapping" THEN Mapping(Chosen(v.pairs, {n \in DOMAIN v.pairs : ~Gone(v.pairs[n])}))
    ELSE v

IsNull(p) == p.value.type = "null"
NullOrComment(p) == IsNull(p) \/ p.key = String("comment")

Plain(v) == Without(v, NullOrComment)
CommentOf(v) == IF v.type = "mapping" THEN TextAt(v, "comment") ELSE None
CommentFindings(v) ==
    CodeIf("INV-CLOSED-KEYS", v.type = "mapping" /\ Has(v, "comment")
                               /\ At(v, "comment").type \notin {"null", "string"})

FlatInput(v, node) == Flat(Plain(v), node, CommentOf(v))
FlatInputFindings(v, node) == FlatFindings(Plain(v), node) \cup CommentFindings(v)

(* Seeded bug: a wire block loses a `comment` that it cannot have.         *)
StrippedWirePlain(p) ==
    IF p.key.text = "wire" THEN Plain(p.value)
    ELSE IF p.key.text = "locators" /\ p.value.type = "list"
      THEN ListOut(p.value.items, LAMBDA i : Plain(i.value)) ELSE p.value

(* The value of a pair of a binding before the conversion.                 *)
Stripped(p) ==
    LET k == p.key.text
        v == p.value
    IN  IF k \in {"locators", "asserted_by"} /\ v.type = "list"
          THEN ListOut(v.items, LAMBDA i : Plain(i.value))
        ELSE IF k = "fields" /\ v.type = "mapping"
          THEN Mapping(Mapped(v.pairs, LAMBDA q : Pair(q.key, Plain(q.value), None)))
        ELSE IF k = "wire" THEN Without(v, IsNull)
        ELSE v

StrippedBinding(v) ==
    LET Named(p) == p.key \in {String("id"), String("kind")}
        plain == Without(Plain(v), Named)
    IN  Mapping(Mapped(plain.pairs, LAMBDA p : Pair(p.key, Stripped(p), None)))

(* The comments of the items of a list go to the objects that have the     *)
(* same positions, if as many objects were made.                           *)
Comments(v, k) ==
    IF HasA(v, k, "list") THEN Mapped(At(v, k).items, LAMBDA i : CommentOf(i.value)) ELSE <<>>

(* Seeded bug: the first of a list gets no comment.                        *)
ReattachedFromTwo(s, comments) ==
    IF Len(s) # Len(comments) THEN s
    ELSE [n \in DOMAIN s |-> IF n = 1 THEN s[1] ELSE [s[n] EXCEPT !.comment = comments[n]]]

Reattached(s, comments) ==
    IF Len(s) # Len(comments) THEN s
    ELSE [n \in DOMAIN s |-> [s[n] EXCEPT !.comment = comments[n]]]

FieldComment(v, name) == CommentOf(At(At(v, "fields"), name))

BindingInput(v) ==
    IF v.type # "mapping" THEN None
    ELSE LET b == Binding(StrippedBinding(v), CommentOf(v))
         IN  IF b = None THEN None
             ELSE [b EXCEPT
                     !.locators = Reattached(@, Comments(v, "locators")),
                     !.fields = IF @ = None THEN None
                                ELSE Mapped(@, LAMBDA e :
                                       [e EXCEPT !.value.comment = FieldComment(v, e.key)]),
                     !.asserted_by = IF @ = None THEN None
                                     ELSE Reattached(@, Comments(v, "asserted_by"))]

BindingInputFindings(v) ==
    IF v.type # "mapping" THEN {"INV-CLOSED-KEYS"}
    ELSE LET items(k) == IF HasA(v, k, "list") THEN {i.value : i \in Range(At(v, k).items)} ELSE {}
             fields == IF HasA(v, "fields", "mapping")
                         THEN {p.value : p \in Range(At(v, "fields").pairs)} ELSE {}
         IN  BindingFindings(StrippedBinding(v))
               \cup UNION {CommentFindings(x) :
                             x \in {v} \cup items("locators") \cup items("asserted_by") \cup fields}

(* validate_input of a binding, and of an entry that is added to one.      *)
InputFindings(v) ==
    BindingInputFindings(v)
      \cup (IF BindingInput(v) = None THEN {} ELSE BindingCodes(BindingInput(v), TRUE))

(* Seeded bug: the rules are not run on an entry.                          *)
EntryInputFindingsShape(v, node) == FlatInputFindings(v, node)

EntryInputFindings(v, node) ==
    LET x == FlatInput(v, node)
    IN  FlatInputFindings(v, node)
          \cup (IF x = None THEN {} ELSE EntryCodes(x, TRUE))
          \cup (IF x # None /\ node = "assertion" THEN AssertionCodes(x) ELSE {})

(* The JSON parser's documents: every key is a string, and there is no     *)
(* comment but at a key.                                                   *)
Json(S) ==
    {v \in Once(S) : Unnoted(v) /\ (v.type = "mapping" => \A p \in Range(v.pairs) : IsString(p.key))}
InputDocuments == Json(Json(Json(Json({}))))

(* A document that is no object or contradicts the ID it is given with is  *)
(* refused with the command line (_json_document).                         *)
Contradicts(v, k, text) == Has(v, k) /\ At(v, k) \notin {Null, String(text)}
UsageRefuses(id, v) ==
    v.type # "mapping" \/ Contradicts(v, "id", id) \/ Contradicts(v, "kind", KindOf[id])
-----------------------------------------------------------------------------
(***************************************************************************)
(* What the published JSON Schema accepts.  An integer is a number without *)
(* a fraction there, 1.0 as well as 1.  (A `$` of its patterns is taken as *)
(* Python takes it, before a newline at the end too.)                      *)
(***************************************************************************)
AcceptsText(v) == v.type = "string" /\ ~Is(v.text, "empty") /\ ~Is(v.text, "control")

AcceptsScalar(v, spec) ==
    CASE spec.type = "str" -> AcceptsText(v)
      [] spec.type = "enum" -> v.type = "string" /\ v.text \in Roles
      [] spec.type = "int" -> v.type = "integer" \/ (v.type = "float" /\ Is(v.text, "integral"))

(* Seeded bug: additionalProperties is forgotten.                          *)
AcceptsKeysOpen(v, node) == v.type = "mapping" /\ \A k \in Shape[node].required : Has(v, k)

(* type: object, additionalProperties: false, required.                    *)
AcceptsKeys(v, node) ==
    /\ v.type = "mapping"
    /\ KeysOf(v) \subseteq {String(k) : k \in DOMAIN Shape[node].keys}
    /\ \A k \in Shape[node].required : Has(v, k)

AcceptsFlat(v, node) ==
    /\ AcceptsKeys(v, node)
    /\ \A k \in DOMAIN Shape[node].keys : Has(v, k) => AcceptsScalar(At(v, k), Shape[node].keys[k])
    /\ node = "wire" => v.pairs # <<>>

AcceptsList(v, Accepts(_), least) ==
    v.type = "list" /\ Len(v.items) >= least /\ \A i \in Range(v.items) : Accepts(i.value)

(* With propertyNames and minProperties.                                   *)
AcceptsMap(v, AcceptsName(_), Accepts(_), least) ==
    /\ v.type = "mapping" /\ Len(v.pairs) >= least
    /\ \A p \in Range(v.pairs) : AcceptsName(p.key) /\ Accepts(p.value)

IfPresent(v, k, Accepts(_)) == Has(v, k) => Accepts(At(v, k))

AcceptsBinding(v) ==
    /\ AcceptsKeys(v, "binding")
    /\ AcceptsList(At(v, "locators"), LAMBDA x : AcceptsFlat(x, "locator"), 0)
    /\ IfPresent(v, "compare_via", AcceptsText)
    /\ IfPresent(v, "fields", LAMBDA x :
         AcceptsMap(x, AcceptsText, LAMBDA y : AcceptsFlat(y, "field_locator"), 1))
    /\ IfPresent(v, "wire", LAMBDA x : AcceptsFlat(x, "wire"))
    /\ IfPresent(v, "asserted_by", LAMBDA x :
         AcceptsList(x, LAMBDA y : AcceptsFlat(y, "assertion"), 1))

AcceptsCoverage(v) ==
    LET AcceptsKind(x) == x.type = "string" /\ Is(x.text, "kind")
    IN  /\ AcceptsKeys(v, "coverage") /\ v.pairs # <<>>
        /\ IfPresent(v, "fully_bound", LAMBDA x :
             AcceptsList(x, AcceptsKind, 1) /\ IsInjective(Mapped(x.items, LAMBDA i : i.value)))
        /\ IfPresent(v, "curated", LAMBDA x : AcceptsMap(x, AcceptsKind, AcceptsText, 1))

SchemaAccepts(v) ==
    /\ AcceptsKeys(v, "document")
    /\ AcceptsScalar(At(v, "schema_version"), Shape["document"].keys["schema_version"])
    /\ AcceptsMap(At(v, "bindings"), LAMBDA k : k.type = "string" /\ Is(k.text, "id"),
                  AcceptsBinding, 0)
    /\ IfPresent(v, "coverage", AcceptsCoverage)
=============================================================================
