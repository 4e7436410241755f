----------------------------- MODULE Arguments -----------------------------
(***************************************************************************)
(* Which command lines are commands: the checks of cli.parse and what is   *)
(* made of the options.  A line is a record with what stands before the    *)
(* options (None if it is missing) and `strings`, the options that were    *)
(* given a text.                                                           *)
(***************************************************************************)
EXTENDS Documents

Given(l, names) == DOMAIN l.strings \cap names

IsEmpty(t) == t # None /\ Is(t, "empty")
HasEmpty(l, others) == \E t \in Range(l.strings) \cup others : IsEmpty(t)

(* Seeded bug: an option too many goes unnoticed.                          *)
AssertionShapedLoose(l, bound) ==
    IF "owed" \in DOMAIN l.strings THEN TRUE ELSE bound \subseteq DOMAIN l.strings

(* Bound or owed: all of the one or only the other.                        *)
AssertionShaped(l, bound) ==
    Given(l, bound) = IF "owed" \in DOMAIN l.strings THEN {} ELSE bound

IdAccepted(id) == Is(id, "id")
KindAccepted(kind) == Is(kind, "kind")

AddAccepted(l, node, name) ==
    /\ ~HasEmpty(l, {l.comment, name})
    /\ node \in {"locator", "field_locator"} => "path" \in DOMAIN l.strings
    /\ "role" \in DOMAIN l.strings => l.strings["role"] \in Roles
    /\ node = "assertion" => AssertionShaped(l, {"path", "symbol", "run"})

CuratedSetAccepted(kind, reason, note) ==
    KindAccepted(kind) /\ reason # None /\ ~IsEmpty(reason) /\ ~IsEmpty(note)

(* The options that say which locator or which assertion.                  *)
Selecting == {"path", "symbol", "owed", "arm"}

(* `remove` ID, where `flags` are --locator and --assertion, and `name` is *)
(* that of --field.                                                        *)
RemoveAccepted(l) ==
    /\ IdAccepted(l.target) /\ ~HasEmpty(l, {l.name})
    /\ Cardinality(l.flags) + (IF l.name = None THEN 0 ELSE 1) <= 1
    /\ "locator" \in l.flags => "path" \in DOMAIN l.strings
    /\ "assertion" \in l.flags => AssertionShaped(l, {"path", "symbol"})
    /\ l.flags = {} => Given(l, Selecting) = {}

(* What an accepted `remove` takes away.                                   *)
RemovalNode(l) ==
    CASE "locator" \in l.flags -> "locator" [] "assertion" \in l.flags -> "assertion"
      [] l.name # None -> "field" [] OTHER -> "binding"

(* The anchor of a `comment` command.                                      *)
AnchorAccepted(l) ==
    /\ ~HasEmpty(l, {l.target, l.name})
    /\ (l.target = None) = (l.anchor \in {"header", "coverage"})
    /\ l.target # None => Is(l.target, IF l.anchor = "curated" THEN "kind" ELSE "id")
    /\ (l.name # None) = (l.anchor = "field")
    /\ CASE l.anchor = "locator" -> "path" \in Given(l, Selecting)
                                      /\ Given(l, Selecting) \subseteq {"path", "symbol"}
         [] l.anchor = "assertion" -> AssertionShaped(l, {"path", "symbol"})
         [] OTHER -> Given(l, Selecting) = {}

(* The identity that the options give.                                     *)
LocatorGiven(l) == <<StringAt(l, "path"), StringAt(l, "symbol")>>

(* Seeded bug: --arm is not part of it.                                    *)
AssertionGivenArmless(l) ==
    IF "owed" \in DOMAIN l.strings THEN <<"owed", StringAt(l, "owed"), None, None>>
    ELSE <<"bound", StringAt(l, "path"), StringAt(l, "symbol"), None>>

AssertionGiven(l) ==
    IF "owed" \in DOMAIN l.strings
      THEN <<"owed", StringAt(l, "owed"), None, StringAt(l, "arm")>>
      ELSE <<"bound", StringAt(l, "path"), StringAt(l, "symbol"), StringAt(l, "arm")>>

(* Where among the entries of a binding it is, 0 if nowhere.  The first    *)
(* counts: a file that `comment get` reads may have it twice.              *)
Position(b, node, l) ==
    CASE node = "locator" ->
           SelectInSeq(b.locators, LAMBDA x : LocatorIdentity(x) = LocatorGiven(l))
      [] node = "assertion" ->
           SelectInSeq(OrEmpty(b.asserted_by), LAMBDA x : AssertionIdentity(x) = AssertionGiven(l))
      [] node = "field" -> SelectInSeq(OrEmpty(b.fields), LAMBDA e : e.key = l.name)
-----------------------------------------------------------------------------
(* A binding without the entry at a position: without the last locator it  *)
(* is a stub, and a list or mapping that would be empty goes.              *)
EntryRemoved(b, node, n) ==
    CASE node = "locator" -> [b EXCEPT !.locators = RemoveAt(@, n)]
      [] node = "assertion" -> [b EXCEPT !.asserted_by = OrNone(RemoveAt(@, n))]
      [] node = "field" -> [b EXCEPT !.fields = OrNone(RemoveAt(@, n))]

(* The carrier of a comment (Target): <<>> if there is none, or which      *)
(* object of the map it is, by the positions that lead to it.              *)
Resolve(m, l) ==
    LET n == SelectInSeq(m.bindings, LAMBDA e : e.key = l.target)
        curated == IF m.coverage = None THEN <<>> ELSE OrEmpty(m.coverage.curated)
        k == SelectInSeq(curated, LAMBDA e : e.key = l.target)
    IN  CASE l.anchor = "header" -> <<"header">>
          [] l.anchor = "coverage" -> IF m.coverage = None THEN <<>> ELSE <<"coverage">>
          [] l.anchor = "curated" -> IF k = 0 THEN <<>> ELSE <<"curated", k>>
          [] l.anchor \notin {"header", "coverage", "curated"} /\ n = 0 -> <<>>
          [] l.anchor = "binding" /\ n # 0 -> <<"binding", n>>
          [] l.anchor \in {"locator", "field", "assertion"} /\ n # 0 ->
               LET at == Position(m.bindings[n].value, l.anchor, l)
               IN  IF at = 0 THEN <<>> ELSE <<l.anchor, n, at>>

TextOf(m, at) ==
    CASE at[1] = "header" -> m.header
      [] at[1] = "coverage" -> m.coverage.comment
      [] at[1] = "curated" -> m.coverage.curated[at[2]].value.comment
      [] at[1] = "binding" -> m.bindings[at[2]].value.comment
      [] at[1] = "locator" -> m.bindings[at[2]].value.locators[at[3]].comment
      [] at[1] = "field" -> m.bindings[at[2]].value.fields[at[3]].value.comment
      [] at[1] = "assertion" -> m.bindings[at[2]].value.asserted_by[at[3]].comment

WithText(m, at, text) ==
    CASE at[1] = "header" -> [m EXCEPT !.header = text]
      [] at[1] = "coverage" -> [m EXCEPT !.coverage.comment = text]
      [] at[1] = "curated" -> [m EXCEPT !.coverage.curated[at[2]].value.comment = text]
      [] at[1] = "binding" -> [m EXCEPT !.bindings[at[2]].value.comment = text]
      [] at[1] = "locator" -> [m EXCEPT !.bindings[at[2]].value.locators[at[3]].comment = text]
      [] at[1] = "field" -> [m EXCEPT !.bindings[at[2]].value.fields[at[3]].value.comment = text]
      [] at[1] = "assertion" ->
           [m EXCEPT !.bindings[at[2]].value.asserted_by[at[3]].comment = text]
=============================================================================
