---------------------------- MODULE MCExchange ----------------------------
(***************************************************************************)
(* Exchange on small instances: a file in which one section, or two, are   *)
(* not as usual, for every section and everything the code distinguishes   *)
(* there, and the same sections in the documents that `set` is given.      *)
(***************************************************************************)
EXTENDS Exchange

(* Texts: some that mean what they say, some that YAML would take for      *)
(* something else, and one for each test of the code.                      *)
Words == {"schema_version", "bindings", "coverage", "locators", "compare_via", "fields", "wire",
          "asserted_by", "path", "symbol", "role", "casing", "enums", "dates", "run", "arm", "owed",
          "fully_bound", "curated", "projected", "line", "lines", "id", "kind", "comment", "reason"}

TraitsMC ==
    [w \in Words |-> {}] @@ "p" :> {} @@ "s" :> {} @@ "c" :> {} @@ "d" :> {} @@ "producer" :> {}
      @@ "a b" :> {"space"} @@ "a,b" :> {"flow"} @@ "-x" :> {"indicator"}
      @@ "true" :> {"core"} @@ "None" :> {} @@ "1" :> {"core", "leading"}
      @@ "1_000" :> {"leading"} @@ "2026-09-18" :> {"leading"}
      @@ "1000" :> {"core", "leading"} @@ "2" :> {"core", "leading"}
      @@ "1.0" :> {"core", "leading", "integral"}
      @@ "" :> {"empty"} @@ "x\ty" :> {"control"} @@ "p:1" :> {"flow", "suffix"}
      @@ "/p" :> {"nopath"} @@ "c " :> {"space", "unclean"}
      @@ "DTO-B" :> {"id"} @@ "ENTITY-A" :> {"id"} @@ "ENTITY-1" :> {}
      @@ "DTO" :> {"kind"} @@ "ENTITY" :> {"kind"} @@ "True" :> {"core"}

(* Texts that are not read as they are written, which no quotes protect.   *)
DisputedTraits ==
    TraitsMC @@ "TRUE" :> {"core", "kind"} @@ "DTO\n" :> {"kind", "control"}
      @@ "<<" :> {"resolved"} @@ "=" :> {"resolved"}

ReadsOf(texts) ==
    [t \in texts |->
       CASE t \in {"true", "TRUE", "True"} -> Scalar("boolean", "True")
         [] t = "" -> Null [] t \in {"1", "2", "1000"} -> Scalar("integer", t)
         [] t = "1_000" -> Scalar("integer", "1000") [] t = "1.0" -> Scalar("float", "1.0")
         [] t = "<<" -> Scalar("merge", "<<") [] t = "=" -> Scalar("tagged", "=")
         [] t = "DTO\n" -> String("DTO") [] t = "2026-09-18" -> Scalar("date", "2026-09-18")
         [] OTHER -> String(t)]

ReadsMC == ReadsOf(DOMAIN TraitsMC)
DisputedReads == ReadsOf(DOMAIN DisputedTraits)

KindOfMC == "DTO-B" :> "DTO" @@ "ENTITY-A" :> "ENTITY"
RankMC ==
    "DTO-B" :> 1 @@ "ENTITY-A" :> 2 @@ "DTO" :> 3 @@ "DTO\n" :> 4 @@ "ENTITY" :> 5 @@ "TRUE" :> 6
-----------------------------------------------------------------------------
(* Values.                                                                 *)
One == Scalar("integer", "1")
Strs(rows) == Object(Mapped(rows, LAMBDA r : <<r[1], String(r[2])>>))
Path(p) == Strs(<<<<"path", p>>>>)
Items(values) == List(Mapped(values, LAMBDA v : Item(v, None)))

(* Entries as they are written by hand; the comment beside an entry.       *)
Full == Strs(<<<<"symbol", "s">>, <<"path", "a b">>, <<"role", "producer">>>>)
Site == Strs(<<<<"symbol", "s">>, <<"path", "a b">>>>)
Bound == Strs(<<<<"path", "p">>, <<"symbol", "-x">>, <<"run", "a b">>, <<"arm", "1">>>>)
Owed(ref) == Strs(<<<<"owed", ref>>>>)

LocatorLists ==
    {List(<<Item(Path("p"), None), Item(Full, "c")>>),
     Items(<<>>), Items(<<Path("p"), Path("p")>>), Items(<<Path("p:1")>>), Items(<<Path("/p")>>),
     Items(<<Path("")>>), Items(<<Strs(<<<<"symbol", "s">>>>)>>), Items(<<String("p")>>),
     Items(<<Object(<<<<"path", String("p")>>, <<"line", One>>>>)>>),
     Items(<<Object(<<<<"path", String("p")>>, <<"symbol", One>>>>)>>),
     Items(<<Strs(<<<<"path", "p">>, <<"role", "s">>>>)>>),
     Items(<<Strs(<<<<"path", "p">>, <<"symbol", "x\ty">>>>)>>),
     List(<<Item(Object(<<<<"symbol", Null>>>>), None), Item(Path("p"), "d")>>),
     List(<<Item(Object(<<<<"symbol", Null>>>>), "c"), Item(Path("p"), "d")>>)}

Field(key, value, note) == Pair(key, value, note)
Colliding == Mapping(<<Field(One, Path("p"), None), Field(String("1"), Path("s"), None)>>)
FieldMaps ==
    {Mapping(<<Field(String("1"), Path("1_000"), "c"), Field(String("comment"), Site, None)>>),
     Mapping(<<Field(String("a b"), Path("-x"), None), Field(String("true"), Path("p"), "d")>>),
     Mapping(<<Field(One, Path("p"), "c")>>), Mapping(<<Field(One, Path("p"), None)>>),
     Mapping(<<>>), Null,
     Colliding,
     Mapping(<<Field(String(""), Path("p"), None)>>),
     Mapping(<<Field(String("x\ty"), Path("p"), None)>>),
     Mapping(<<Field(String("s"), Null, None)>>),
     Mapping(<<Field(String("s"), Strs(<<<<"path", "p">>, <<"role", "producer">>>>), None)>>),
     Mapping(<<Field(String("s"), Strs(<<<<"path", "p">>, <<"symbol", "">>>>), "d")>>)}

Wires ==
    {Strs(<<<<"dates", "2026-09-18">>, <<"casing", "true">>>>), Strs(<<<<"enums", "1_000">>>>),
     Object(<<>>), Null, Object(<<<<"dates", One>>>>), Strs(<<<<"casing", "">>>>),
     Strs(<<<<"casing", "s">>, <<"comment", "c">>>>), Object(<<<<"casing", Null>>>>)}

AssertionLists ==
    {List(<<Item(Bound, "c"), Item(Owed("a,b"), None), Item(Owed("1"), "d")>>),
     Items(<<>>), Items(<<Owed("s"), Owed("s")>>), Items(<<Object(<<>>)>>),
     Items(<<Strs(<<<<"path", "p">>, <<"symbol", "s">>>>)>>),
     Items(<<Strs(<<<<"path", "p">>, <<"owed", "s">>>>)>>), Null, Items(<<Owed("")>>)}

CompareVias == {String("1"), String("a,b"), String(""), One}
-----------------------------------------------------------------------------
(* A section is its pair or nothing.                                       *)
Sections(k, values) == {<<>>} \cup {<<Pair(String(k), v, None)>> : v \in values}

Usual ==
  [locators |-> Items(<<Path("p")>>), compare_via |-> <<>>, fields |-> <<>>, wire |-> <<>>,
   asserted_by |-> <<>>, extra |-> <<>>]

BindingOptions ==
  [locators |-> LocatorLists \cup {Null, Path("p")},
   compare_via |-> Sections("compare_via", CompareVias), fields |-> Sections("fields", FieldMaps),
   wire |-> Sections("wire", Wires), asserted_by |-> Sections("asserted_by", AssertionLists),
   extra |-> Sections("lines", {One})]

ValueOf(b) ==
    Mapping(b.compare_via \o b.asserted_by \o <<Pair(String("locators"), b.locators, None)>>
              \o b.wire \o b.fields \o b.extra)

(* One section as in the options and the rest as in b.                     *)
Varied(b) == {[b EXCEPT ![k] = v] : <<k, v>> \in UNION {{k} \X BindingOptions[k] : k \in DOMAIN b}}

(* Every section is there.                                                 *)
Rich ==
  [locators |-> List(<<Item(Full, "c"), Item(Path("p"), None)>>),
   compare_via |-> <<Pair(String("compare_via"), String("1_000"), None)>>,
   fields |-> <<Pair(String("fields"), Mapping(<<Field(String("comment"), Path("p"), None),
                                                 Field(String("1"), Site, "d")>>), None)>>,
   wire |-> <<Pair(String("wire"), Strs(<<<<"enums", "a,b">>>>), None)>>,
   asserted_by |-> <<Pair(String("asserted_by"), List(<<Item(Owed("s"), "c"), Item(Bound, None)>>),
                          None)>>,
   extra |-> <<>>]
-----------------------------------------------------------------------------
(* Files.                                                                  *)
CoverageMC ==
    LET full == Pair(String("fully_bound"), Items(<<String("ENTITY"), String("DTO")>>), None)
        curated(rows) == Pair(String("curated"), Mapping(rows), None)
        dto(reason, note) == Pair(String("DTO"), reason, note)
    IN  {Mapping(<<full>>), Mapping(<<curated(<<dto(String("1"), "c")>>)>>),
         Mapping(<<curated(<<dto(String("a,b"), "d"),
                             Pair(String("ENTITY"), String("true"), None)>>)>>),
         Mapping(<<Pair(String("fully_bound"), Items(<<String("ENTITY")>>), None),
                   curated(<<dto(String("s"), None)>>)>>),
         Mapping(<<full, curated(<<dto(String("s"), None)>>)>>), Mapping(<<>>), Null,
         Mapping(<<curated(<<>>)>>), Mapping(<<curated(<<dto(String(""), None)>>)>>),
         Mapping(<<curated(<<dto(One, None)>>)>>), Mapping(<<curated(<<dto(String("x\ty"), None)>>)>>),
         Mapping(<<Pair(String("fully_bound"), Items(<<>>), None)>>),
         Mapping(<<Pair(String("fully_bound"), Items(<<String("s")>>), None)>>),
         Mapping(<<Pair(String("fully_bound"), Items(<<String("DTO"), String("DTO")>>), None)>>),
         Mapping(<<Pair(String("projected"), Null, None)>>)}

(* Two bindings, the first of them this one, in an order of their own.     *)
File(b, coverage, note) ==
    [header |-> None,
     root |-> Mapping(
       coverage \o
       <<Pair(String("bindings"),
              Mapping(<<Pair(String("ENTITY-A"), ValueOf(b), note),
                        Pair(String("DTO-B"), ValueOf(Usual), None)>>), None),
         Pair(String("schema_version"), One, None)>>)]

Declared(c) == <<Pair(String("coverage"), c, IF c = Null THEN None ELSE "c")>>

(* The file itself is not as usual.                                        *)
Root(rows) == [header |-> "c", root |-> Object(rows)]
Stub == Object(<<<<"locators", Items(<<>>)>>>>)
RootFiles ==
    {Root(<<<<"schema_version", v>>, <<"bindings", Object(<<>>)>>>>) :
       v \in {One, String("1"), Scalar("integer", "2"), Scalar("float", "1.0")}}
      \cup {Root(<<<<"schema_version", One>>>>), Root(<<<<"bindings", Object(<<>>)>>>>),
            Root(<<<<"schema_version", One>>, <<"bindings", Items(<<>>)>>>>),
            Root(<<<<"schema_version", One>>, <<"bindings", Object(<<<<"ENTITY-1", Stub>>>>)>>>>),
            Root(<<<<"schema_version", One>>, <<"bindings", Object(<<<<"ENTITY-A", Null>>>>)>>>>),
            Root(<<<<"schema_version", One>>, <<"bindings", Object(<<<<"ENTITY-A", Stub>>>>)>>,
                   <<"line", Null>>>>)}

(* A comment above, where there is a binding to have it; and some that     *)
(* have nothing to belong to.                                              *)
Above(b) == IF b.locators.type = "list" THEN "d" ELSE None
BindingFiles == {File(b, <<>>, Above(b)) : b \in Varied(Usual) \cup Varied(Rich)}
UnattachedFiles ==
    {File([Usual EXCEPT !.locators = Null], <<>>, "d"),
     File(Usual, <<Pair(String("coverage"), Null, "c")>>, None)}
CoverageFiles == {File(Usual, Declared(c), None) : c \in CoverageMC}
FilesMC == BindingFiles \cup UnattachedFiles \cup CoverageFiles \cup RootFiles
-----------------------------------------------------------------------------
(* Documents for `set`: in JSON every key is a string, and a comment is a  *)
(* key of its entry.                                                       *)
WithNote(v, note) ==
    IF v.type = "mapping" /\ note # None
      THEN Mapping(Append(v.pairs, Pair(String("comment"), String(note), None))) ELSE v

Jsonized(v) ==
    CASE v.type = "list" -> Items(Mapped(v.items, LAMBDA i : WithNote(i.value, i.note)))
      [] v.type = "mapping" ->
           Mapping(Mapped(v.pairs, LAMBDA p : Pair(String(p.key.text), WithNote(p.value, p.note), None)))
      [] OTHER -> v

DocumentOf(b) == Mapping(Mapped(ValueOf(b).pairs, LAMBDA p : Pair(p.key, Jsonized(p.value), None)))

With(doc, rows) == Mapping(Object(rows).pairs \o doc.pairs)

(* No JSON object has a key twice.                                         *)
OfJson == {b \in Varied(Usual) \cup Varied(Rich) :
             \A p \in Range(b.fields) : p.value # Colliding}

DocumentsMC ==
    {DocumentOf(b) : b \in OfJson}
      \cup {Items(<<>>), With(DocumentOf(Rich), <<<<"comment", String("c")>>, <<"kind", Null>>>>)}
      \cup {With(DocumentOf(Usual), rows) :
              rows \in {<<<<"id", String("DTO-B")>>>>, <<<<"kind", String("DTO")>>>>,
                        <<<<"comment", One>>>>, <<<<"comment", String("c ")>>>>,
                        <<<<"comment", String("")>>>>}}
      \cup {DocumentOf([Usual EXCEPT !.locators = List(<<Item(Path("p"), n)>>)]) : n \in {"", "c "}}

InputsMC ==
    [id \in {"ENTITY-A", "DTO-B", "ENTITY-1"} |->
       CASE id = "ENTITY-A" -> DocumentsMC
         [] id = "DTO-B" -> {DocumentOf(Rich), With(DocumentOf(Usual), <<<<"kind", String("DTO")>>>>)}
         [] OTHER -> {DocumentOf(Usual)}]

NoInputs == [id \in {"ENTITY-A"} |-> {}]

Opts(rows) == [k \in {r[1] : r \in Range(rows)} |-> (CHOOSE r \in Range(rows) : r[1] = k)[2]]

AdditionsMC ==
    LET e(rows, comment) == [strings |-> Opts(rows), comment |-> comment]
    IN  [locator |-> {e(<<<<"path", "p">>>>, "c"), e(<<<<"path", "a b">>, <<"symbol", "1">>>>, "d"),
                      e(<<<<"path", "p:1">>>>, None), e(<<<<"path", "p">>, <<"symbol", "s">>>>, "c "),
                      e(<<<<"path", "-x">>, <<"role", "producer">>>>, None),
                      e(<<<<"path", "p">>, <<"role", "s">>>>, None), e(<<<<"symbol", "s">>>>, None)},
         field_locator |-> {e(<<<<"path", "a,b">>>>, None),
                            e(<<<<"path", "p">>, <<"symbol", "true">>>>, "c")},
         assertion |-> {e(<<<<"owed", "s">>, <<"arm", "1">>>>, None),
                        e(<<<<"path", "p">>, <<"symbol", "s">>, <<"run", "-x">>>>, "c"),
                        e(<<<<"path", "p">>, <<"symbol", "s">>>>, None)}]

NotesMC == {None, "c"}
ReasonsMC == {"a b", "true", "x\ty", None}

(* Each of the options, and each of the anchors, with what belongs to it,  *)
(* with something less, and with something more.                           *)
OptionsMC ==
    {<<>>, <<<<"path", "p">>>>, <<<<"path", "a b">>, <<"symbol", "s">>>>,
     <<<<"path", "p">>, <<"symbol", "-x">>, <<"arm", "1">>>>,
     <<<<"path", "p">>, <<"symbol", "-x">>>>, <<<<"owed", "s">>>>, <<<<"owed", "1">>, <<"arm", "1">>>>,
     <<<<"owed", "1">>>>, <<<<"path", "p">>, <<"owed", "s">>>>}

RemovalsMC ==
    {[target |-> "ENTITY-A", flags |-> flags, name |-> name, strings |-> Opts(o)] :
       flags \in {{}, {"locator"}, {"assertion"}}, name \in {None, "comment"}, o \in OptionsMC}
      \cup {[target |-> id, flags |-> {"locator"}, name |-> None, strings |-> Opts(<<<<"path", "p">>>>)] :
              id \in {"DTO-B", "ENTITY-1"}}

RemarksMC ==
    {[anchor |-> a, target |-> t, name |-> None, strings |-> <<>>] :
       a \in {"header", "coverage", "curated", "binding", "field"}, t \in {None, "DTO", "ENTITY-A"}}
      \cup {[anchor |-> a, target |-> "ENTITY-A", name |-> None, strings |-> Opts(o)] :
              a \in {"locator", "assertion"}, o \in OptionsMC}
      \cup {[anchor |-> "field", target |-> "ENTITY-A", name |-> n, strings |-> <<>>] :
              n \in {"1", "comment"}}
-----------------------------------------------------------------------------
(* Files that hold the fields `1` and `"1"`, the field `1` of a binding    *)
(* with a comment, the quoted kind "TRUE", field "<<" or symbol "=", and a *)
(* kind with a newline on the command line.                                *)
ReservedFiles ==
    {File(b, Declared(Mapping(<<Pair(String("fully_bound"), Items(<<String(k)>>), None)>>)), None) :
       b \in {Usual, Rich}, k \in {"ENTITY", "TRUE"}}
ResolvedFiles ==
    {File([Usual EXCEPT !.locators = Items(<<Strs(<<<<"path", "p">>, <<"symbol", "=">>>>)>>)],
          <<>>, None)}
      \cup {File([Usual EXCEPT !.fields = <<Pair(String("fields"),
                                                Mapping(<<Field(String("<<"), Path("p"), n)>>), None)>>],
                 <<>>, None) : n \in {None, "c"}}
DisputedFiles == BindingFiles \cup ReservedFiles \cup ResolvedFiles
DisputedKinds == {"DTO", "DTO\n"}

NoAdditions == <<>>
=============================================================================
