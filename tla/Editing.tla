------------------------------ MODULE Editing ------------------------------
(***************************************************************************)
(* A map under a sequence of dbind's writing commands, one invocation      *)
(* after another.  A step is one whole invocation: the map is loaded, the  *)
(* command looks its target up, validates its input, checks identity,      *)
(* changes the map, and the map is written if the second validation passes *)
(* it.  WritePipeline has the steps in between; here they are one, and the *)
(* map is no longer opaque.                                                *)
(*                                                                         *)
(* `done` is the envelope of the last invocation with the request that led *)
(* to it: what was asked for, of which anchor, with which comment.         *)
(***************************************************************************)
EXTENDS BindingMap, FiniteSets

CONSTANTS
    Starts,         \* the maps the story starts from: valid, otherwise arbitrary
    IDs,            \* the IDs commands are called with
    LocatorKeys, FieldKeys, AssertionKeys,  \* identities of entries
    Kinds,          \* kinds commands are called with (all of them well-formed)
    Values,         \* values of entries in requests, malformed ones among them
    Texts,          \* comments in requests: None, proper ones, rejected ones
    Bodies,         \* the bindings `set` is called with, without their ID
    Scalars         \* every identity and every value an entry can have

(* What the loader returns: lists and dicts, each one there or None.       *)
Entries == [key : Scalars, value : Scalars, comment : Texts]
Reasons == [key : Kinds, value : Scalars, comment : Texts]

BodyType ==
    [value : Scalars, comment : Texts, locators : Seq(Entries),
     fields : {None} \cup Seq(Entries), asserted_by : {None} \cup Seq(Entries)]

BindingType ==
    [key : IDs, value : Scalars, comment : Texts, locators : Seq(Entries),
     fields : {None} \cup Seq(Entries), asserted_by : {None} \cup Seq(Entries)]

CoverageType ==
    [comment : Texts, fully_bound : {None} \cup Seq(Kinds), curated : {None} \cup Seq(Reasons)]

MapType ==
    [header : Texts, bindings : Seq(BindingType), coverage : {None} \cup CoverageType]

(* bindings, fields and curated are dicts.                                 *)
Dicts(m) ==
    /\ UniqueKeys(m.bindings)
    /\ \A n \in DOMAIN m.bindings : UniqueKeys(OrEmpty(m.bindings[n].fields))
    /\ m.coverage # None => UniqueKeys(OrEmpty(m.coverage.curated))

(* The loader takes the trailing whitespace off the comments it reads.     *)
Clean(m) == \A fact \in Facts(m) : fact.comment \notin Unclean

(* What a command that writes has before it when it gets past the load.    *)
Good(m) == m \in MapType /\ Dicts(m) /\ MapOK(m) /\ Clean(m)

ASSUME StartAssumption == \A m \in Starts : Good(m)

ASSUME BodyAssumption ==
    \A body \in Bodies : body \in BodyType /\ UniqueKeys(OrEmpty(body.fields))

ASSUME ScalarAssumption ==
    /\ LocatorKeys \cup FieldKeys \cup AssertionKeys \cup Values \subseteq Scalars
    /\ None \notin Scalars \cup IDs \cup Kinds
    /\ None \in Texts \ (Unwritable \cup Unclean)

(* Python's None is no list and no mapping.                                *)
ASSUME NoneAssumption ==
    None \notin Seq(Entries) /\ None \notin Seq(Reasons) /\ None \notin Seq(Kinds)
      /\ None \notin CoverageType

ASSUME KindAssumption == Kinds \cap Malformed = {} /\ None \notin Malformed

ASSUME RankAssumption ==
    \A k, l \in IDs \cup Kinds : Rank[k] \in Nat /\ (Rank[k] = Rank[l] => k = l)

VARIABLES
    map,            \* the map in the file
    done            \* the last invocation: [op, at, comment, code]

vars == <<map, done>>

Inputs(keys) == {Entry(k, v, c) : k \in keys, v \in Values, c \in Texts}

Init ==
    /\ map \in Starts
    /\ done = [op |-> "init", at |-> Anchor("file", None, None), comment |-> None, code |-> "ok"]
-----------------------------------------------------------------------------
(***************************************************************************)
(* Which anchor precedes which in the same list.                           *)
(***************************************************************************)
EntryAnchors(type, id, s) == [n \in DOMAIN s |-> Anchor(type, id, s[n].key)]

InnerLists(m) ==
    UNION {{EntryAnchors("locator", b.key, b.locators),
            EntryAnchors("field", b.key, OrEmpty(b.fields)),
            EntryAnchors("assertion", b.key, OrEmpty(b.asserted_by))} : b \in Range(m.bindings)}

OuterLists(m) ==
    {[n \in DOMAIN m.bindings |-> Anchor("binding", m.bindings[n].key, None)],
     EntryAnchors("curated", None, OrEmpty(CoverageOf(m).curated)),
     LET listed == OrEmpty(CoverageOf(m).fully_bound)
     IN  [n \in DOMAIN listed |-> Anchor("fully_bound", None, listed[n])]}

Precedes(lists) ==
    UNION {{<<s[d[1]], s[d[2]]>> : d \in {e \in (DOMAIN s) \X (DOMAIN s) : e[1] < e[2]}} : s \in lists}
-----------------------------------------------------------------------------
Reply(op, at, comment, code) ==
    done' = [op |-> op, at |-> at, comment |-> comment, code |-> code]

Refuse(op, at, comment, code) == Reply(op, at, comment, code) /\ UNCHANGED map

(* The end of _Run._write: the second validation, then the file.           *)
Install(op, at, comment, m) ==
    IF MapOK(m) THEN map' = m /\ Reply(op, at, comment, "ok")
                ELSE Refuse(op, at, comment, "ERR-INTERNAL")

(* set: no lookup, an unknown ID is a new binding.                         *)
SetBinding(id, body) ==
    LET b == Binding(id, body.value, body.comment, body.locators, body.fields, body.asserted_by)
        at == Anchor("binding", id, None)
    IN  \/ ~InputBindingOK(b) /\ Refuse("set", at, None, "ERR-INPUT-INVALID")
        \/ InputBindingOK(b) /\ Install("set", at, None, Set(map, b))

(* Seeded bug: identity is checked before the input is.                    *)
AddLocatorUnseen(id, e) ==
    LET at == Anchor("locator", id, e.key)
    IN  IF id \notin Ids(map) THEN Refuse("add-locator", at, e.comment, "ERR-NOT-FOUND")
        ELSE IF at \in Anchors(map) THEN Refuse("add-locator", at, e.comment, "ERR-DUPLICATE")
        ELSE IF ~InputOK(e) THEN Refuse("add-locator", at, e.comment, "ERR-INPUT-INVALID")
        ELSE Install("add-locator", at, e.comment, AddLocator(map, id, e))

(* The three add-* commands; only a field may be there already.            *)
AddLocatorEntry(id, e) ==
    LET at == Anchor("locator", id, e.key)
    IN  \/ id \notin Ids(map) /\ Refuse("add-locator", at, e.comment, "ERR-NOT-FOUND")
        \/ /\ id \in Ids(map) /\ ~InputOK(e)
           /\ Refuse("add-locator", at, e.comment, "ERR-INPUT-INVALID")
        \/ /\ id \in Ids(map) /\ InputOK(e) /\ at \in Anchors(map)
           /\ Refuse("add-locator", at, e.comment, "ERR-DUPLICATE")
        \/ /\ id \in Ids(map) /\ InputOK(e) /\ at \notin Anchors(map)
           /\ Install("add-locator", at, e.comment, AddLocator(map, id, e))

AddFieldEntry(id, e) ==
    LET at == Anchor("field", id, e.key)
    IN  \/ id \notin Ids(map) /\ Refuse("add-field", at, e.comment, "ERR-NOT-FOUND")
        \/ /\ id \in Ids(map) /\ ~InputOK(e)
           /\ Refuse("add-field", at, e.comment, "ERR-INPUT-INVALID")
        \/ /\ id \in Ids(map) /\ InputOK(e)
           /\ Install("add-field", at, e.comment, AddField(map, id, e))

(* Seeded bug: no look at the identities already there.                    *)
AddAssertionUnchecked(id, e) ==
    LET at == Anchor("assertion", id, e.key)
    IN  \/ id \notin Ids(map) /\ Refuse("add-assertion", at, e.comment, "ERR-NOT-FOUND")
        \/ /\ id \in Ids(map) /\ ~InputOK(e)
           /\ Refuse("add-assertion", at, e.comment, "ERR-INPUT-INVALID")
        \/ /\ id \in Ids(map) /\ InputOK(e)
           /\ Install("add-assertion", at, e.comment, AddAssertion(map, id, e))

AddAssertionEntry(id, e) ==
    LET at == Anchor("assertion", id, e.key)
    IN  \/ id \notin Ids(map) /\ Refuse("add-assertion", at, e.comment, "ERR-NOT-FOUND")
        \/ /\ id \in Ids(map) /\ ~InputOK(e)
           /\ Refuse("add-assertion", at, e.comment, "ERR-INPUT-INVALID")
        \/ /\ id \in Ids(map) /\ InputOK(e) /\ at \in Anchors(map)
           /\ Refuse("add-assertion", at, e.comment, "ERR-DUPLICATE")
        \/ /\ id \in Ids(map) /\ InputOK(e) /\ at \notin Anchors(map)
           /\ Install("add-assertion", at, e.comment, AddAssertion(map, id, e))

(* remove: the target is the anchor itself.                                *)
RemoveTarget(at) ==
    LET type == at[1]
        id == at[2]
        key == at[3]
    IN  \/ at \notin Anchors(map) /\ Refuse("remove", at, None, "ERR-NOT-FOUND")
        \/ /\ at \in Anchors(map) /\ type = "binding"
           /\ Install("remove", at, None, RemoveBinding(map, id))
        \/ /\ at \in Anchors(map) /\ type = "locator"
           /\ Install("remove", at, None, RemoveLocator(map, id, key))
        \/ /\ at \in Anchors(map) /\ type = "field"
           /\ Install("remove", at, None, RemoveField(map, id, key))
        \/ /\ at \in Anchors(map) /\ type = "assertion"
           /\ Install("remove", at, None, RemoveAssertion(map, id, key))

(* fully-bound add checks identity first, then the whole changed map; a    *)
(* kind that is curated makes it invalid.                                  *)
FullyBound(kind) ==
    LET at == Anchor("fully_bound", None, kind)
    IN  \/ at \in Anchors(map) /\ Refuse("fully-bound add", at, None, "ERR-DUPLICATE")
        \/ /\ at \notin Anchors(map) /\ ~MapOK(FullyBoundAdd(map, kind))
           /\ Refuse("fully-bound add", at, None, "ERR-INPUT-INVALID")
        \/ /\ at \notin Anchors(map) /\ MapOK(FullyBoundAdd(map, kind))
           /\ Install("fully-bound add", at, None, FullyBoundAdd(map, kind))

FullyUnbound(kind) ==
    LET at == Anchor("fully_bound", None, kind)
    IN  \/ at \notin Anchors(map) /\ Refuse("fully-bound remove", at, None, "ERR-NOT-FOUND")
        \/ /\ at \in Anchors(map)
           /\ Install("fully-bound remove", at, None, FullyBoundRemove(map, kind))

Curate(e) ==
    LET at == Anchor("curated", None, e.key)
    IN  \/ /\ ~InputOK(e) \/ ~MapOK(CuratedSet(map, e))
           /\ Refuse("curated set", at, e.comment, "ERR-INPUT-INVALID")
        \/ /\ InputOK(e) /\ MapOK(CuratedSet(map, e))
           /\ Install("curated set", at, e.comment, CuratedSet(map, e))

Uncurate(kind) ==
    LET at == Anchor("curated", None, kind)
    IN  \/ at \notin Anchors(map) /\ Refuse("curated unset", at, None, "ERR-NOT-FOUND")
        \/ /\ at \in Anchors(map)
           /\ Install("curated unset", at, None, CuratedUnset(map, kind))

(* Seeded bug: the text of a comment is taken as it comes.                 *)
CommentSetUnchecked(at, text) ==
    /\ at \in Anchors(map)
    /\ Install("comment set", at, text, SetComment(map, at, text))

CommentSet(at, text) ==
    \/ at \notin Anchors(map) /\ Refuse("comment set", at, text, "ERR-NOT-FOUND")
    \/ /\ at \in Anchors(map) /\ text \in Unwritable \cup Unclean
       /\ Refuse("comment set", at, text, "ERR-INPUT-INVALID")
    \/ /\ at \in Anchors(map) /\ text \notin Unwritable \cup Unclean
       /\ Install("comment set", at, text, SetComment(map, at, text))

CommentUnset(at) ==
    \/ /\ at \in Anchors(map) => CommentAt(map, at) = None
       /\ Refuse("comment unset", at, None, "ERR-NOT-FOUND")
    \/ /\ at \in Anchors(map) /\ CommentAt(map, at) # None
       /\ Install("comment unset", at, None, SetComment(map, at, None))

Format == Install("format", Anchor("file", None, None), None, Canonicalise(map))

EntryTargets ==
    {Anchor("locator", id, k) : id \in IDs, k \in LocatorKeys}
      \cup {Anchor("field", id, k) : id \in IDs, k \in FieldKeys}
      \cup {Anchor("assertion", id, k) : id \in IDs, k \in AssertionKeys}
      \cup {Anchor("binding", id, None) : id \in IDs}

Carriers ==
    EntryTargets \cup {Anchor("header", None, None), Anchor("coverage", None, None)}
      \cup {Anchor("curated", None, k) : k \in Kinds}

Next ==
    \/ \E id \in IDs :
         \/ \E body \in Bodies : SetBinding(id, body)
         \/ \E e \in Inputs(LocatorKeys) : AddLocatorEntry(id, e)
         \/ \E e \in Inputs(FieldKeys) : AddFieldEntry(id, e)
         \/ \E e \in Inputs(AssertionKeys) : AddAssertionEntry(id, e)
    \/ \E at \in EntryTargets : RemoveTarget(at)
    \/ \E kind \in Kinds : FullyBound(kind) \/ FullyUnbound(kind) \/ Uncurate(kind)
    \/ \E e \in Inputs(Kinds) : Curate(e)
    \/ \E at \in Carriers : CommentUnset(at) \/ \E text \in Texts \ {None} : CommentSet(at, text)
    \/ Format

Spec == Init /\ [][Next]_vars
-----------------------------------------------------------------------------
(***************************************************************************)
(* Properties.                                                             *)
(***************************************************************************)
Codes == {"ok", "ERR-NOT-FOUND", "ERR-INPUT-INVALID", "ERR-DUPLICATE", "ERR-INTERNAL"}

TypeOK == map \in MapType /\ Dicts(map) /\ done.code \in Codes /\ done.comment \in Texts

(* A valid map and valid input yield a valid map: the second validation of *)
(* _Run._write, marked as unreachable in cli.py, never refuses.            *)
ValidInValidOut == done.code # "ERR-INTERNAL"

(* The inductive strengthening of the three invariants around it.          *)
GoodAlways == Good(map) /\ done.code \in Codes \ {"ERR-INTERNAL"} /\ done.comment \in Texts

(* No write leaves a comment that the next load would change: trailing     *)
(* whitespace is refused at each of the ways in.                           *)
CommentsClean == Clean(map)

(* INV-ORDER-PRESERVED: but for format, what was before something else     *)
(* still is, and what is new is last in its list.  (set replaces the whole *)
(* of its binding, order included.)                                        *)
OrderPreserved ==
    [][done'.op # "format" =>
         LET before == Precedes(InnerLists(map) \cup OuterLists(map))
             after == Precedes(InnerLists(map') \cup OuterLists(map'))
             free == {a \in Anchors(map') : done'.op = "set" /\ a[2] = done'.at[2] /\ a[3] # None}
         IN  \A d \in after : d[1] \in free \/ d[2] \notin Anchors(map) \/ d \in before]_vars

(* A command changes what it names and nothing else: every other value,    *)
(* comment and anchor of the file survives the rewriting of the whole file.*)
OnlyAddressed ==
    [][\A fact \in (Facts(map) \ Facts(map')) \cup (Facts(map') \ Facts(map)) :
         \/ fact.anchor = done'.at
         \/ done'.op \in {"set", "remove"} /\ done'.at[3] = None /\ fact.anchor[2] = done'.at[2]
         \/ /\ fact.anchor = Anchor("coverage", None, None)
            /\ done'.at[1] \in {"fully_bound", "curated"}
            /\ Cardinality({f \in Facts(map) \cup Facts(map') :
                              f.anchor[1] \in {"fully_bound", "curated"}}) = 1]_vars

(* A comment changes only to a comment the command was given (or is        *)
(* unset), and never by replacing the field or the reason it belongs to.   *)
CommentsKept ==
    [][\A old \in Facts(map), new \in Facts(map') :
         old.anchor = new.anchor /\ old.comment # new.comment =>
           \/ done'.op = "set" /\ old.anchor[2] = done'.at[2]
           \/ done'.op = "comment unset" /\ old.anchor = done'.at /\ new.comment = None
           \/ old.anchor = done'.at /\ done'.comment # None /\ new.comment = done'.comment]_vars

(* format moves bindings and coverage entries into byte order and nothing  *)
(* else: every value and comment stays, and so does the order of locators, *)
(* fields and assertions; and it is idempotent (INV-CANONICAL-FIXPOINT).   *)
FormatOnlySorts ==
    [][done'.op = "format" =>
         /\ Facts(map') = Facts(map)
         /\ Precedes(InnerLists(map')) = Precedes(InnerLists(map))
         /\ \A d \in Precedes(OuterLists(map')) :
              IF d[1][1] = "binding" THEN Rank[d[1][2]] < Rank[d[2][2]]
                                     ELSE Rank[d[1][3]] < Rank[d[2][3]]
         /\ Canonicalise(map') = map']_vars

(* A refusal names the first of the problems in the documented order:      *)
(* a command that answers ERR-INPUT-INVALID or ERR-DUPLICATE has found its *)
(* target, and every refusal leaves the file as it was.                    *)
RefusalInOrder ==
    [][done'.code # "ok" =>
         /\ UNCHANGED map
         /\ done'.code # "ERR-NOT-FOUND" /\ done'.op \in {"add-locator", "add-field", "add-assertion"}
              => Anchor("binding", done'.at[2], None) \in Anchors(map)
         /\ done'.code = "ERR-DUPLICATE" =>
              /\ done'.at \in Anchors(map)
              /\ done'.comment \notin Unclean \cup Unwritable]_vars

(* Adding an entry and removing it again gives back the map there was: no  *)
(* empty block, and no coverage block, is left behind.                     *)
AddThenRemove ==
    /\ \A id \in Ids(map) :
         /\ \A k \in LocatorKeys \ Keys(BindingOf(map, id).locators) :
              RemoveLocator(AddLocator(map, id, Entry(k, None, None)), id, k) = map
         /\ \A k \in FieldKeys \ Keys(OrEmpty(BindingOf(map, id).fields)) :
              RemoveField(AddField(map, id, Entry(k, None, None)), id, k) = map
         /\ \A k \in AssertionKeys \ Keys(OrEmpty(BindingOf(map, id).asserted_by)) :
              RemoveAssertion(AddAssertion(map, id, Entry(k, None, None)), id, k) = map
    /\ \A k \in Kinds :
         /\ k \notin Range(OrEmpty(CoverageOf(map).fully_bound)) =>
              FullyBoundRemove(FullyBoundAdd(map, k), k) = map
         /\ k \notin Keys(OrEmpty(CoverageOf(map).curated)) =>
              CuratedUnset(CuratedSet(map, Entry(k, None, None)), k) = map
=============================================================================
