----------------------------- MODULE BindingMap -----------------------------
(***************************************************************************)
(* The map of bindings as dbind holds it in memory, the rules an error-    *)
(* level finding comes from, and what each command makes of a map.         *)
(*                                                                         *)
(* Everything in a map that can carry a comment is an entry with a key: a  *)
(* binding (its ID), a locator (path and symbol), a field (its name), an   *)
(* assertion (path, symbol and arm, or owed and arm), a curated kind.  The *)
(* rest of an entry is its value.  Lists and dicts alike are sequences of  *)
(* entries: a Python dict keeps its insertion order, and assigning to a    *)
(* key it has keeps the key's place.                                       *)
(***************************************************************************)
EXTENDS Lists

CONSTANTS
    Malformed,     \* keys and values some rule on scalars, paths or shapes rejects
    Unwritable,    \* comments rejected anywhere: empty, or with a control character
    Unclean        \* comments rejected as input only: trailing whitespace

Entry(key, value, comment) == [key |-> key, value |-> value, comment |-> comment]

Binding(key, value, comment, locators, fields, assertedBy) ==
    [key |-> key, value |-> value, comment |-> comment,
     locators |-> locators, fields |-> fields, asserted_by |-> assertedBy]

EmptyMap == [header |-> None, bindings |-> <<>>, coverage |-> None]
EmptyCoverage == [comment |-> None, fully_bound |-> None, curated |-> None]
-----------------------------------------------------------------------------
(***************************************************************************)
(* Keyed sequences.                                                        *)
(***************************************************************************)
At(s, key) == s[IndexOf(s, key)]

(* Seeded bugs: a list where there should be a dict; a key that moves when *)
(* it is assigned to.                                                      *)
PutAgain(s, e) == Append(s, e)
PutLast(s, e) == Append(SelectSeq(s, LAMBDA d : d.key # e.key), e)

(* d[key] = e.                                                             *)
Put(s, e) == IF e.key \in Keys(s) THEN [s EXCEPT ![IndexOf(s, e.key)] = e] ELSE Append(s, e)

(* [y for y in s if y != x].                                               *)
Without(s, x) == Chosen(s, {n \in DOMAIN s : s[n] # x})
-----------------------------------------------------------------------------
(***************************************************************************)
(* The rules whose findings are errors (validator._Rules).                 *)
(***************************************************************************)
CommentOK(c) == c \notin Unwritable
EntryOK(e) == e.key \notin Malformed /\ e.value \notin Malformed /\ CommentOK(e.comment)
EntriesOK(s) == \A n \in DOMAIN s : EntryOK(s[n])

BindingOK(b) ==
    /\ b.value \notin Malformed /\ CommentOK(b.comment)
    /\ EntriesOK(b.locators) /\ UniqueKeys(b.locators)
    /\ b.fields # <<>> /\ EntriesOK(OrEmpty(b.fields))
    /\ b.asserted_by # <<>> /\ EntriesOK(OrEmpty(b.asserted_by))
    /\ UniqueKeys(OrEmpty(b.asserted_by))

CoverageOK(c) ==
    LET listed == OrEmpty(c.fully_bound)
        curated == OrEmpty(c.curated)
    IN  /\ CommentOK(c.comment)
        /\ c.fully_bound # None \/ c.curated # None
        /\ c.fully_bound # <<>> /\ c.curated # <<>>
        /\ \A n \in DOMAIN listed : listed[n] \notin Malformed
        /\ IsInjective(listed)
        /\ EntriesOK(curated)
        /\ Range(listed) \cap Keys(curated) = {}

MapOK(m) ==
    /\ CommentOK(m.header)
    /\ \A n \in DOMAIN m.bindings : BindingOK(m.bindings[n])
    /\ m.coverage # None => CoverageOK(m.coverage)

(* An input document is held to the same rules, and its comments to one    *)
(* more (validate_input).                                                  *)
CleanIn(s) == \A n \in DOMAIN s : s[n].comment \notin Unclean
InputOK(e) == EntryOK(e) /\ e.comment \notin Unclean
InputBindingOK(b) ==
    /\ BindingOK(b) /\ b.comment \notin Unclean
    /\ CleanIn(b.locators) /\ CleanIn(OrEmpty(b.fields)) /\ CleanIn(OrEmpty(b.asserted_by))
-----------------------------------------------------------------------------
(***************************************************************************)
(* What is where: an anchor, and its value and comment, for everything in  *)
(* a map.                                                                  *)
(***************************************************************************)
Anchor(type, id, key) == <<type, id, key>>

Fact(anchor, value, comment) == [anchor |-> anchor, value |-> value, comment |-> comment]

FactsIn(type, id, s) ==
    {Fact(Anchor(type, id, s[n].key), s[n].value, s[n].comment) : n \in DOMAIN s}

FactsOfBinding(b) ==
    {Fact(Anchor("binding", b.key, None), b.value, b.comment)}
      \cup FactsIn("locator", b.key, b.locators)
      \cup FactsIn("field", b.key, OrEmpty(b.fields))
      \cup FactsIn("assertion", b.key, OrEmpty(b.asserted_by))

Facts(m) ==
    {Fact(Anchor("header", None, None), None, m.header)}
      \cup (UNION {FactsOfBinding(m.bindings[n]) : n \in DOMAIN m.bindings})
      \cup (IF m.coverage = None THEN {}
            ELSE {Fact(Anchor("coverage", None, None), None, m.coverage.comment)}
                   \cup {Fact(Anchor("fully_bound", None, k), None, None) :
                           k \in Range(OrEmpty(m.coverage.fully_bound))}
                   \cup FactsIn("curated", None, OrEmpty(m.coverage.curated)))

Anchors(m) == {fact.anchor : fact \in Facts(m)}

CommentAt(m, at) == (CHOOSE fact \in Facts(m) : fact.anchor = at).comment
-----------------------------------------------------------------------------
(***************************************************************************)
(* What the commands make of a map in which they have found their target.  *)
(***************************************************************************)
Ids(m) == Keys(m.bindings)
BindingOf(m, id) == At(m.bindings, id)
WithBinding(m, b) == [m EXCEPT !.bindings = Put(@, b)]

(* set.                                                                    *)
Set(m, b) == WithBinding(m, b)

(* add-locator, and remove --locator, which leaves a stub.                 *)
AddLocator(m, id, e) ==
    WithBinding(m, [BindingOf(m, id) EXCEPT !.locators = Append(@, e)])
RemoveLocator(m, id, key) ==
    WithBinding(m, [BindingOf(m, id) EXCEPT !.locators = Drop(@, key)])

(* Seeded bug: an entry that replaces another one loses its comment.       *)
KeptNot(s, e) == e

(* Replacing an entry in place keeps its comment unless one was given.     *)
Kept(s, e) ==
    IF e.key \in Keys(s) /\ e.comment = None
      THEN [e EXCEPT !.comment = At(s, e.key).comment] ELSE e

AddField(m, id, e) ==
    LET fields == OrEmpty(BindingOf(m, id).fields)
    IN  WithBinding(m, [BindingOf(m, id) EXCEPT !.fields = Put(fields, Kept(fields, e))])

(* Seeded bug: the last field leaves an empty `fields`.                    *)
RemoveFieldOnly(m, id, key) ==
    WithBinding(m, [BindingOf(m, id) EXCEPT !.fields = Drop(@, key)])

RemoveField(m, id, key) ==
    WithBinding(m, [BindingOf(m, id) EXCEPT !.fields = OrNone(Drop(@, key))])

(* Seeded bug: an assertion is added in front of the others.                *)
AddAssertionFirst(m, id, e) ==
    WithBinding(m, [BindingOf(m, id) EXCEPT !.asserted_by = <<e>> \o OrEmpty(@)])

AddAssertion(m, id, e) ==
    WithBinding(m, [BindingOf(m, id) EXCEPT !.asserted_by = Append(OrEmpty(@), e)])

(* Seeded bug: the whole list goes with one of its assertions.             *)
RemoveAssertions(m, id, key) ==
    WithBinding(m, [BindingOf(m, id) EXCEPT !.asserted_by = None])

RemoveAssertion(m, id, key) ==
    WithBinding(m, [BindingOf(m, id) EXCEPT !.asserted_by = OrNone(Drop(@, key))])

RemoveBinding(m, id) == [m EXCEPT !.bindings = Drop(@, id)]
-----------------------------------------------------------------------------
(***************************************************************************)
(* The coverage block appears with its first entry and goes with its last, *)
(* its comment with it.                                                    *)
(***************************************************************************)
CoverageOf(m) == IF m.coverage = None THEN EmptyCoverage ELSE m.coverage

(* Seeded bug: the block stays when both lists are gone.                   *)
PruneNot(c) == c

Prune(c) == IF c.fully_bound = None /\ c.curated = None THEN None ELSE c

FullyBoundAdd(m, kind) ==
    [m EXCEPT !.coverage =
       [CoverageOf(m) EXCEPT !.fully_bound = Append(OrEmpty(@), kind)]]

(* Seeded bug: the last kind leaves an empty list.                         *)
FullyBoundRemoveOnly(m, kind) ==
    [m EXCEPT !.coverage = Prune([@ EXCEPT !.fully_bound = Without(@, kind)])]

FullyBoundRemove(m, kind) ==
    LET left == OrNone(Without(m.coverage.fully_bound, kind))
    IN  [m EXCEPT !.coverage = Prune([@ EXCEPT !.fully_bound = left])]

CuratedSet(m, e) ==
    LET curated == OrEmpty(CoverageOf(m).curated)
    IN  [m EXCEPT !.coverage =
           [CoverageOf(m) EXCEPT !.curated = Put(curated, Kept(curated, e))]]

(* Seeded bug: the whole dict goes with one of its kinds.                  *)
CuratedCleared(m, kind) ==
    [m EXCEPT !.coverage = Prune([@ EXCEPT !.curated = None])]

CuratedUnset(m, kind) ==
    LET left == OrNone(Drop(m.coverage.curated, kind))
    IN  [m EXCEPT !.coverage = Prune([@ EXCEPT !.curated = left])]
-----------------------------------------------------------------------------
(***************************************************************************)
(* comment set and comment unset write the comment of the carrier that an  *)
(* anchor <<type, id, key>> leads to.                                      *)
(***************************************************************************)
WithComment(s, key, text) == [s EXCEPT ![IndexOf(s, key)].comment = text]

SetComment(m, anchor, text) ==
    LET type == anchor[1]
        id == anchor[2]
        key == anchor[3]
        b == BindingOf(m, id)
    IN  CASE type = "header" -> [m EXCEPT !.header = text]
          [] type = "coverage" -> [m EXCEPT !.coverage.comment = text]
          [] type = "curated" ->
               [m EXCEPT !.coverage.curated = WithComment(@, key, text)]
          [] type = "binding" -> WithBinding(m, [b EXCEPT !.comment = text])
          [] type = "locator" ->
               WithBinding(m, [b EXCEPT !.locators = WithComment(@, key, text)])
          [] type = "field" ->
               WithBinding(m, [b EXCEPT !.fields = WithComment(@, key, text)])
          [] type = "assertion" ->
               WithBinding(m, [b EXCEPT !.asserted_by = WithComment(@, key, text)])
-----------------------------------------------------------------------------
(***************************************************************************)
(* format: bindings, fully_bound and curated in byte order, the rest in    *)
(* the author's.                                                           *)
(***************************************************************************)
(* Seeded bug: the assertions are sorted as well.                          *)
CanonicaliseAll(m) ==
    [m EXCEPT !.bindings = [n \in DOMAIN @ |->
        LET b == SortEntries(@)[n]
        IN  [b EXCEPT !.asserted_by = IF @ = None THEN None ELSE SortEntries(@)]]]

(* Seeded bug: only the bindings are sorted.                              *)
CanonicaliseBindings(m) == [m EXCEPT !.bindings = SortEntries(@)]

CanonicalCoverage(c) ==
    [c EXCEPT !.fully_bound = IF @ = None THEN None ELSE SortKinds(@),
              !.curated = IF @ = None THEN None ELSE SortEntries(@)]

Canonicalise(m) ==
    [m EXCEPT !.bindings = SortEntries(@),
              !.coverage = IF @ = None THEN None ELSE CanonicalCoverage(@)]
=============================================================================
