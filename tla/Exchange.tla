----------------------------- MODULE Exchange -----------------------------
(***************************************************************************)
(* A file and the commands that someone gives, each with what it answers,  *)
(* down to single keys and values.  One step is one invocation that nobody *)
(* disturbs (see WritePipeline for the others).  What a command does to    *)
(* entries other than its own is Editing's subject; this module is about   *)
(* the way of the data: file to answer, answer to input, input to file.    *)
(***************************************************************************)
EXTENDS Interchange, Arguments

CONSTANTS
    Files,         \* the files to begin with: [header, root]
    Ids,           \* IDs that commands are given
    Inputs,        \* [IDs -> documents given to `set`]
    Additions,     \* [nodes -> options given to `add-...`]
    FieldNames,    \* names given to `add-field`
    Kinds,         \* kinds given to `coverage` and `list`
    Reasons,       \* reasons given to `coverage curated set`, None if none
    Notes,         \* comments given to it, and to `comment set`; None if none
    Removals,      \* lines given to `remove`
    Remarks,       \* lines given to `comment`
    MaxWrites      \* bound: how often the file is replaced

ASSUME FilesAssumption == Files \subseteq ParsedFiles

(* Arguments are texts, documents are values of the JSON parser.           *)
ASSUME ArgumentsAssumption ==
    /\ Ids \cup FieldNames \cup Kinds \subseteq Texts
    /\ Reasons \cup Notes \subseteq TextOrNone
    /\ \A id \in Ids : Inputs[id] \subseteq InputDocuments
    /\ DOMAIN Additions \subseteq {"locator", "field_locator", "assertion"}
    /\ \A node \in DOMAIN Additions :
         \A x \in Additions[node] :
           /\ DOMAIN x.strings \subseteq DOMAIN Shape[node].keys
           /\ x.strings \in [DOMAIN x.strings -> Texts] /\ x.comment \in TextOrNone
    /\ \A l \in Remarks : l.anchor \in {"header", "coverage", "curated", "binding",
                                         "locator", "field", "assertion"}
    /\ MaxWrites \in Nat

(* The options of a line that have a value have a text.                    *)
ASSUME LinesAssumption ==
    \A l \in Removals \cup Remarks : l.strings \in [DOMAIN l.strings -> Texts]

VARIABLES
    file,          \* what the next load parses
    reply,         \* the last command, its input, and the answer
    writes
vars == <<file, reply, writes>>

Loaded == Map(file)
BindingOf(m, id) == Lookup(m.bindings, id)
WithBinding(m, id, b) == [m EXCEPT !.bindings = Assign(@, Keyed(id, b))]

NoReply == [op |-> "none", id |-> None, doc |-> None, code |-> "ok", out |-> None]

Init == file \in Files /\ reply = NoReply /\ writes = 0
-----------------------------------------------------------------------------
(***************************************************************************)
(* Answers.                                                                *)
(***************************************************************************)
Answer(op, id, doc, code, out) ==
    /\ reply' = [op |-> op, id |-> id, doc |-> doc, code |-> code, out |-> out]
    /\ UNCHANGED <<file, writes>>

(* Seeded bug: a refusal shows the input as if it were the result.         *)
RefuseShowing(op, id, doc, code) == Answer(op, id, doc, code, doc)

Refuse(op, id, doc, code) == Answer(op, id, doc, code, None)
Deny(op, id, code) == Refuse(op, id, None, code)

(* The second validation, the emitter, and the answer.                     *)
Install(op, id, doc, m, out) ==
    IF MapCodes(m) # {} THEN Deny(op, id, "ERR-INTERNAL")
    ELSE /\ file' = Emit(m)
         /\ writes' = writes + 1
         /\ reply' = [op |-> op, id |-> id, doc |-> doc, code |-> "ok", out |-> out]

Readable == Loaded.schema_version = "1"

(* What the loading of the file comes to, for a command that reads and for *)
(* one that writes.  A command has it, as run, before anything else of it  *)
(* but the arguments counts.                                               *)
ReadCode ==
    IF ~Attached(file) THEN "ERR-PARSE" ELSE IF Readable THEN "ok" ELSE "ERR-SCHEMA-VERSION"
WriteCode == IF ReadCode = "ok" /\ FileFindings(file) # {} THEN "ERR-FILE-INVALID" ELSE ReadCode

Load == [map |-> Loaded, read |-> ReadCode, write |-> WriteCode]

Present(run, id) == id \in Keys(run.map.bindings)

(* A writing command that has its target and its input.                    *)
Installs(op, id, doc, m) ==
    Install(op, id, doc, m, BindingOut(id, BindingOf(m, id)))
-----------------------------------------------------------------------------
(***************************************************************************)
(* Reading commands.                                                       *)
(***************************************************************************)
Get(run, id) ==
    IF ~IdAccepted(id) THEN Deny("get", id, "ERR-USAGE")
    ELSE IF run.read # "ok" THEN Deny("get", id, run.read)
    ELSE IF ~Present(run, id) THEN Deny("get", id, "ERR-NOT-FOUND")
    ELSE Answer("get", id, None, "ok", BindingOut(id, BindingOf(run.map, id)))

ListBindings(run, kinds, full) ==
    IF \E kind \in kinds : ~KindAccepted(kind) THEN Deny("list", None, "ERR-USAGE")
    ELSE IF run.read # "ok" THEN Deny("list", None, run.read)
    ELSE Answer(IF full THEN "list --full" ELSE "list", None, kinds, "ok",
                Mapped(Selected(run.map, kinds), LAMBDA e :
                         IF full THEN BindingOut(e.key, e.value) ELSE Summary(e.key, e.value)))
-----------------------------------------------------------------------------
(***************************************************************************)
(* Writing commands.                                                       *)
(***************************************************************************)
Set(run, id, doc) ==
    /\ writes < MaxWrites
    /\ IF ~IdAccepted(id) \/ UsageRefuses(id, doc) THEN Refuse("set", id, doc, "ERR-USAGE")
       ELSE IF run.write # "ok" THEN Deny("set", id, run.write)
       ELSE IF InputFindings(doc) # {} THEN Refuse("set", id, doc, "ERR-INPUT-INVALID")
       ELSE Installs("set", id, doc, WithBinding(run.map, id, BindingInput(doc)))

SetGiven(run, id) == \E doc \in Inputs[id] : Set(run, id, doc)

(* What `get` has answered is given to `set`.                              *)
SetGot(run, id) == reply.op = "get" /\ reply.code = "ok" /\ Set(run, id, reply.out)

(* The binding with an entry more, or None if there is one with its        *)
(* identity.  A field replaces another of its name, and keeps its comment  *)
(* unless one is given.                                                    *)
Added(b, node, name, x) ==
    LET fields == OrEmpty(b.fields)
        asserted == OrEmpty(b.asserted_by)
        kept == IF x.comment = None /\ name \in Keys(fields)
                  THEN [x EXCEPT !.comment = Lookup(fields, name).comment] ELSE x
    IN  CASE node = "locator" ->
               IF \E y \in Range(b.locators) : LocatorIdentity(y) = LocatorIdentity(x) THEN None
               ELSE [b EXCEPT !.locators = Append(@, x)]
          [] node = "assertion" ->
               IF \E y \in Range(asserted) : AssertionIdentity(y) = AssertionIdentity(x) THEN None
               ELSE [b EXCEPT !.asserted_by = Append(asserted, x)]
          [] node = "field_locator" -> [b EXCEPT !.fields = Assign(fields, Keyed(name, kept))]

(* The options of a command are made into a document with the keys of a    *)
(* projection, null for those not given.                                   *)
Add(run, id, node, name, options) ==
    LET doc == FlatOut(options, node)
        x == FlatInput(doc, node)
        named == IF node = "field_locator" THEN FieldNameCodes(name) ELSE {}
        b == Added(BindingOf(run.map, id), node, name, x)
    IN  /\ writes < MaxWrites
        /\ IF ~IdAccepted(id) \/ ~AddAccepted(options, node, name)
             THEN Deny(node, id, "ERR-USAGE")
           ELSE IF run.write # "ok" THEN Deny(node, id, run.write)
           ELSE IF ~Present(run, id) THEN Deny(node, id, "ERR-NOT-FOUND")
           ELSE IF EntryInputFindings(doc, node) \cup named # {}
             THEN Deny(node, id, "ERR-INPUT-INVALID")
           ELSE IF b = None THEN Deny(node, id, "ERR-DUPLICATE")
           ELSE Installs(node, id, doc, WithBinding(run.map, id, b))

AddEntry(run, id) ==
    \E node \in DOMAIN Additions : \E options \in Additions[node] :
      \E name \in IF node = "field_locator" THEN FieldNames ELSE {None} :
        Add(run, id, node, name, options)

RemoveEntry(run, l) ==
    LET id == l.target
        node == RemovalNode(l)
        n == Position(BindingOf(run.map, id), node, l)
    IN  /\ writes < MaxWrites
        /\ IF ~RemoveAccepted(l) THEN Deny("remove", id, "ERR-USAGE")
           ELSE IF run.write # "ok" THEN Deny("remove", id, run.write)
           ELSE IF ~Present(run, id) THEN Deny("remove", id, "ERR-NOT-FOUND")
           ELSE IF node = "binding"
             THEN Install("remove", id, l,
                          [run.map EXCEPT !.bindings = Drop(@, id)], None)
           ELSE IF n = 0 THEN Deny("remove", id, "ERR-NOT-FOUND")
           ELSE Installs("remove", id, l,
                  WithBinding(run.map, id, EntryRemoved(BindingOf(run.map, id), node, n)))

CommentGet(run, l) ==
    LET at == Resolve(run.map, l)
    IN  IF ~AnchorAccepted(l) THEN Deny("comment get", None, "ERR-USAGE")
        ELSE IF run.read # "ok" THEN Deny("comment get", None, run.read)
        ELSE IF at = <<>> \/ TextOf(run.map, at) = None
          THEN Deny("comment get", None, "ERR-NOT-FOUND")
        ELSE Answer("comment get", None, l, "ok", TextOf(run.map, at))

(* `comment set`, or `unset` if the text is None.                          *)
CommentWrite(run, l, text) ==
    LET op == IF text = None THEN "comment unset" ELSE "comment set"
        at == Resolve(run.map, l)
    IN  /\ writes < MaxWrites
        /\ IF ~AnchorAccepted(l) \/ IsEmpty(text) THEN Deny(op, None, "ERR-USAGE")
           ELSE IF run.write # "ok" THEN Deny(op, None, run.write)
           ELSE IF at = <<>> THEN Deny(op, None, "ERR-NOT-FOUND")
           ELSE IF text = None /\ TextOf(run.map, at) = None
             THEN Deny(op, None, "ERR-NOT-FOUND")
           ELSE IF CommentCodes(text, TRUE) # {} THEN Deny(op, None, "ERR-INPUT-INVALID")
           ELSE Install(op, None, l, WithText(run.map, at, text), text)

(* Coverage commands look at the whole map again before the second         *)
(* validation does (_refuse_if_invalid).                                   *)
Covered(m) ==
    IF m.coverage = None THEN [fully_bound |-> None, curated |-> None, comment |-> None]
    ELSE m.coverage

InstallsCoverage(run, op, doc, c) ==
    LET m == [run.map EXCEPT !.coverage = c]
    IN  IF MapCodes(m) # {} THEN Deny(op, None, "ERR-INPUT-INVALID")
        ELSE Install(op, None, doc, m, CoverageOut(c))

FullyBoundAdd(run, kind) ==
    LET c == Covered(run.map)
        listed == OrEmpty(c.fully_bound)
    IN  /\ writes < MaxWrites
        /\ IF ~KindAccepted(kind) THEN Deny("fully-bound", None, "ERR-USAGE")
           ELSE IF run.write # "ok" THEN Deny("fully-bound", None, run.write)
           ELSE IF kind \in Range(listed) THEN Deny("fully-bound", None, "ERR-DUPLICATE")
           ELSE InstallsCoverage(run, "fully-bound", kind,
                                 [c EXCEPT !.fully_bound = Append(listed, kind)])

CuratedSet(run, kind, reason, note) ==
    LET c == Covered(run.map)
        curated == OrEmpty(c.curated)
        kept == IF note = None /\ kind \in Keys(curated)
                  THEN Lookup(curated, kind).comment ELSE note
        entry == Keyed(kind, [reason |-> reason, comment |-> kept])
    IN  /\ writes < MaxWrites
        /\ IF ~CuratedSetAccepted(kind, reason, note)
             THEN Deny("curated", None, "ERR-USAGE")
           ELSE IF run.write # "ok" THEN Deny("curated", None, run.write)
           ELSE IF CommentCodes(note, TRUE) \cup ScalarCodes(reason) # {}
             THEN Deny("curated", None, "ERR-INPUT-INVALID")
           ELSE InstallsCoverage(run, "curated", kind, [c EXCEPT !.curated = Assign(curated, entry)])

(* Bindings, fully_bound and curated, and nothing else (canonicalise).     *)
CanonicalCoverage(c) ==
    [c EXCEPT !.fully_bound = IF @ = None THEN None ELSE SortKinds(@),
              !.curated = IF @ = None THEN None ELSE SortEntries(@)]

Canonical(m) ==
    [m EXCEPT !.bindings = SortEntries(@),
              !.coverage = IF @ = None THEN None ELSE CanonicalCoverage(@)]

Format(run) ==
    /\ writes < MaxWrites
    /\ IF run.write # "ok" THEN Deny("format", None, run.write)
       ELSE Install("format", None, None, Canonical(run.map), None)

(* A command is given when the answer of the one before has been read; an  *)
(* answer of `get` may be kept to be given to `set`.                       *)
AnswerRead == reply # NoReply /\ reply' = NoReply /\ UNCHANGED <<file, writes>>

Command(run) ==
    \/ \E id \in Ids : Get(run, id) \/ SetGiven(run, id) \/ AddEntry(run, id)
    \/ \E kinds \in {{}} \cup {{k} : k \in Kinds}, full \in BOOLEAN : ListBindings(run, kinds, full)
    \/ \E kind \in Kinds : FullyBoundAdd(run, kind)
    \/ \E kind \in Kinds, reason \in Reasons, note \in Notes : CuratedSet(run, kind, reason, note)
    \/ \E l \in Removals : RemoveEntry(run, l)
    \/ \E l \in Remarks : CommentGet(run, l) \/ \E text \in Notes : CommentWrite(run, l, text)
    \/ Format(run)

Next ==
    \/ \E run \in {Load} :
         (reply = NoReply /\ Command(run)) \/ \E id \in Ids : SetGot(run, id)
    \/ AnswerRead

Spec == Init /\ [][Next]_vars
-----------------------------------------------------------------------------
(***************************************************************************)
(* The leaves of a value: the scalars and empty containers in it, each     *)
(* with the keys and positions that lead to it; a note is a leaf "comment".*)
(***************************************************************************)
Depth == 5

AtKey(k) == <<"key", k>>
AtItem(n) == <<"item", n>>
KeyPath(keys) == [n \in DOMAIN keys |-> AtKey(keys[n])]

Noted(path, note) ==
    IF note = None THEN {} ELSE {<<Append(path, AtKey("comment")), String(note)>>}

Below(path, v) ==
    CASE v.type = "list" /\ v.items # <<>> ->
           UNION {LET at == Append(path, AtItem(n))
                  IN  {<<at, v.items[n].value>>} \cup Noted(at, v.items[n].note) :
                    n \in DOMAIN v.items}
      [] v.type = "mapping" /\ v.pairs # <<>> ->
           UNION {LET at == Append(path, AtKey(p.key.text))
                  IN  {<<at, p.value>>} \cup Noted(at, p.note) : p \in Range(v.pairs)}
      [] OTHER -> {<<path, v>>}

Leaves(v) ==
    LET level[n \in 0..Depth] ==
          IF n = 0 THEN {<<<<>>, v>>} ELSE UNION {Below(x[1], x[2]) : x \in level[n - 1]}
    IN  level[Depth]

Contents(f) == Leaves(f.root) \cup Noted(<<>>, f.header)

(* Of a projection or an input document, what is said about the binding.   *)
Said(doc) == {x \in Leaves(doc) : x[1] \notin {KeyPath(<<"id">>), KeyPath(<<"kind">>)} /\ x[2] # Null}

(* Of a file, what it says about a binding.                                *)
SaidOf(id) ==
    LET all == Contents(file)
        here == {x \in all : Len(x[1]) > 2 /\ x[1][1] = AtKey("bindings") /\ x[1][2] = AtKey(id)}
    IN  {<<SubSeq(x[1], 3, Len(x[1])), x[2]>> : x \in here}

Clean == Attached(file) /\ FileFindings(file) = {}

(* What is about the file alone is looked at when no answer is waiting:    *)
(* each file that a command writes is there then as well (AnswerRead).     *)
BetweenCommands == reply = NoReply
Succeeded(op) == reply.op = op /\ reply.code = "ok"

MappingsAt(values, k) ==
    {At(v, k) : v \in {v \in values : v.type = "mapping" /\ HasA(v, k, "mapping")}}

BindingPairs == UNION {Range(m.pairs) : m \in MappingsAt({file.root}, "bindings")}
FieldPairs == {m.pairs : m \in MappingsAt({p.value : p \in BindingPairs}, "fields")}

StringKeys == \A s \in FieldPairs : \A p \in Range(s) : IsString(p.key)

(* What may happen where a field name is no string: two names of a binding *)
(* are one as Python strings, or the comment above a binding is taken for  *)
(* the field's (the loader's and model.py's way with str(name)).           *)
KeysCollide ==
    \E s \in FieldPairs : \E m, n \in DOMAIN s : m # n /\ s[m].key.text = s[n].key.text

CommentMoves ==
    \E p \in BindingPairs :
      LET b == Binding(p.value, p.note) IN b # None /\ Relocates(p.value, b)

NamesConfused == KeysCollide \/ CommentMoves
-----------------------------------------------------------------------------
Codes == {"ok", "ERR-USAGE", "ERR-PARSE", "ERR-SCHEMA-VERSION", "ERR-FILE-INVALID", "ERR-NOT-FOUND",
          "ERR-INPUT-INVALID", "ERR-DUPLICATE", "ERR-INTERNAL"}

(* The file is one that the parser may deliver, and what `get` answers is  *)
(* a document; a refusal shows nothing.                                    *)
TypeOK ==
    /\ file \in FileType
    /\ reply.code \in Codes /\ (reply.code # "ok" => reply.out = None)
    /\ Succeeded("get") => reply.out \in InputDocuments
    /\ writes \in 0..MaxWrites

(* What is loaded without a finding is written again with every value,     *)
(* comment and type it had, quoted or not as it may have been: the map in  *)
(* memory (from_plain) and the quoting of the emitter lose nothing.        *)
NothingLost ==
    BetweenCommands /\ Clean /\ ~NamesConfused => Contents(Emit(Loaded)) = Contents(file)

(* The summaries of `list` count what the file has, and a filter takes     *)
(* exactly the bindings of its kinds, in the file's order.                 *)
SummaryTrue(s) ==
    LET said == SaidOf(s.id)
        entries(k) == {x[1][2] : x \in {x \in said : Len(x[1]) > 2 /\ x[1][1] = AtKey(k)}}
    IN  /\ s.locators = Cardinality(entries("locators")) /\ s.stub = (s.locators = 0)
        /\ s.fields = Cardinality(entries("fields"))
        /\ s.assertions = Cardinality(entries("asserted_by"))
        /\ s.has_comment = \E x \in said : x[1][Len(x[1])] = AtKey("comment")

ListedAsWritten ==
    /\ \A n \in DOMAIN reply.out : SummaryTrue(reply.out[n])
    /\ LET ids == Mapped(At(file.root, "bindings").pairs, LAMBDA p : p.key.text)
       IN  Mapped(reply.out, LAMBDA s : s.id) =
             Chosen(ids, {n \in DOMAIN ids : reply.doc = {} \/ KindOf[ids[n]] \in reply.doc})

(* `get` shows what the file says about a binding, no more, no less, each  *)
(* comment at the entry it belongs to, and `list` agrees with it.          *)
ShownAsWritten ==
    Clean /\ ~NamesConfused =>
      /\ Succeeded("get") => Said(reply.out) = SaidOf(reply.id)
      /\ Succeeded("list") => ListedAsWritten

(* A binding that `get` has answered is accepted by `set`, and neither the *)
(* map nor the answer changes (from_input undoes query.binding).           *)
GetThenSet ==
    [][reply.op = "get" /\ reply'.op = "set" /\ reply'.id = reply.id /\ reply'.doc = reply.out
         /\ Clean => reply'.code = "ok" /\ reply'.out = reply.out /\ file' = Emit(Loaded)]_vars

(* What an accepted document says is what the answer says, and what the    *)
(* answer says is what the file says then: no key, comment or position is  *)
(* lost between --json and the file.                                       *)
SetTakesAll ==
    Succeeded("set") => Said(reply.doc) = Said(reply.out) /\ Said(reply.doc) = SaidOf(reply.id)

(* After a write the file loads without a finding, and a query of it gives *)
(* the answer that the writing command gave.                               *)
ReadOps == {"none", "get", "list", "list --full", "comment get"}

WrittenReadsBack ==
    reply.code = "ok" /\ reply.op \notin ReadOps =>
      /\ Clean
      /\ reply.op \in {"set", "remove"} \cup DOMAIN Additions /\ reply.out # None =>
           reply.out = BindingOut(reply.id, BindingOf(Loaded, reply.id))
      /\ reply.op \in {"fully-bound", "curated"} => reply.out = CoverageOut(Loaded.coverage)

(* An accepted `remove` takes away the one entry that the options describe *)
(* in full, what they leave out included, and nothing beside it (the       *)
(* grammar of parse, the identities of remove and of the map together).    *)
Describes(l, keys, leaves) ==
    \A k \in keys : {x[2] : x \in {x \in leaves : x[1] = KeyPath(<<k>>)}} =
                      IF k \in DOMAIN l.strings THEN {String(l.strings[k])} ELSE {}

IdentityKeys == [locator |-> {"path", "symbol"}, assertion |-> Selecting]
ListOf == [locator |-> "locators", assertion |-> "asserted_by"]

Under(f, path) ==
    {<<SubSeq(x[1], Len(path) + 1, Len(x[1])), x[2]>> : x \in {x \in Contents(f) : IsPrefix(path, x[1])}}

(* The rest of a file, without the containers that may now be empty.       *)
Beside(f, path) ==
    {x \in Contents(f) : ~IsPrefix(path, x[1]) /\ x[1] # SubSeq(path, 1, Len(path) - 1)}

EntryCount(f, path) == Cardinality({x[1][1] : x \in {x \in Under(f, path) : x[1] # <<>>}})
EntriesUnder(f, path) ==
    [n \in 1..EntryCount(f, path) |-> Under(f, Append(path, AtItem(n)))]

RemovedAsDescribed(l) ==
    LET node == RemovalNode(l)
        binding == KeyPath(<<"bindings", l.target>>)
    IN  IF node \in DOMAIN ListOf
          THEN LET path == Append(binding, AtKey(ListOf[node]))
                   before == EntriesUnder(file, path)
               IN  /\ \E n \in DOMAIN before :
                        /\ Describes(l, IdentityKeys[node], before[n])
                        /\ EntriesUnder(file', path) = RemoveAt(before, n)
                   /\ Beside(file, path) = Beside(file', path)
        ELSE LET path == IF node = "field" THEN binding \o KeyPath(<<"fields", l.name>>) ELSE binding
             IN  Under(file, path) # {} /\ Under(file', path) = {}
                   /\ Beside(file, path) = Beside(file', path)

RemovesTheDescribed ==
    [][reply'.op = "remove" /\ reply'.code = "ok" /\ ~NamesConfused =>
         RemovedAsDescribed(reply'.doc)]_vars

(* `comment set` and `comment unset` change one comment, at the place that *)
(* the anchor and the options describe in full, and `comment get` answers  *)
(* the one that is written there.                                          *)
Places(f, l) ==
    LET binding == KeyPath(<<"bindings", l.target>>)
    IN  CASE l.anchor = "header" -> {<<>>} [] l.anchor = "coverage" -> {KeyPath(<<"coverage">>)}
          [] l.anchor = "curated" -> {KeyPath(<<"coverage", "curated", l.target>>)}
          [] l.anchor = "binding" -> {binding}
          [] l.anchor = "field" -> {binding \o KeyPath(<<"fields", l.name>>)}
          [] l.anchor \in DOMAIN ListOf ->
               LET path == Append(binding, AtKey(ListOf[l.anchor]))
               IN  {Append(path, AtItem(n)) : n \in
                      {n \in DOMAIN EntriesUnder(f, path) :
                         Describes(l, IdentityKeys[l.anchor], EntriesUnder(f, path)[n])}}

CommentsThere(f, l) ==
    {x \in Contents(f) : \E place \in Places(f, l) : x[1] = Append(place, AtKey("comment"))}

CommentsTheDescribed ==
    [][reply'.code = "ok" /\ Clean /\ ~NamesConfused =>
         /\ reply'.op = "comment get" =>
              {x[2] : x \in CommentsThere(file, reply'.doc)} = {String(reply'.out)}
         /\ reply'.op \in {"comment set", "comment unset"} =>
              /\ {x[2] : x \in CommentsThere(file', reply'.doc)} =
                   IF reply'.out = None THEN {} ELSE {String(reply'.out)}
              /\ Contents(file) \ CommentsThere(file, reply'.doc) =
                   Contents(file') \ CommentsThere(file', reply'.doc)]_vars

(* `format` changes the order of bindings and of the coverage entries, and *)
(* `coverage fully-bound add` adds a kind; neither touches another key,    *)
(* value or comment, whatever the file and the kind are.                   *)
Listed == KeyPath(<<"coverage", "fully_bound">>)

Unordered(f) ==
    {<<IF IsPrefix(Listed, x[1]) THEN Listed ELSE x[1], x[2]>> : x \in Contents(f)}

KindGiven(r) == IF r.op = "fully-bound" THEN {<<Listed, String(r.doc)>>} ELSE {}

WritesKeepContent ==
    [][reply'.op \in {"format", "fully-bound"} /\ reply'.code = "ok" =>
         Unordered(file') = Unordered(file) \cup KindGiven(reply')]_vars

(* A valid map and a valid input never fail the second validation: the     *)
(* input is validated alone, without the map it goes into.                 *)
InputRulesSuffice == reply.code # "ERR-INTERNAL"

(* The published schema and the validator agree on shape: a file without   *)
(* findings is accepted, and an accepted one has no finding of the rules   *)
(* that the schema expresses, but that it takes 1.0 for a version.  (A     *)
(* file with a comment that has no anchor is not validated.)               *)
ShapeCodes == {"INV-CLOSED-KEYS", "INV-ROLE-VALUES", "INV-ID-GRAMMAR", "INV-FIELD-NAME",
               "INV-WIRE-SUBSET", "INV-SYMBOL-NONEMPTY"}

SchemaAgrees ==
    BetweenCommands /\ StringKeys /\ Attached(file) =>
      /\ Clean => SchemaAccepts(file.root)
      /\ SchemaAccepts(file.root) =>
           FileFindings(file) \cap ShapeCodes = Mistyped(file.root, "schema_version", "integer")
=============================================================================
