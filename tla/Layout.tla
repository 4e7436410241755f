------------------------------- MODULE Layout -------------------------------
(***************************************************************************)
(* A map file as lines: how the loader finds out, from line adjacency      *)
(* alone, which comment belongs to what, and how the emitter lays a map    *)
(* out again.  Between two commands people edit the comments of the file   *)
(* by hand.                                                                *)
(*                                                                         *)
(* What a line says is left out but for what it stands for: the things of  *)
(* the map whose text is on it, and which of them the parser reports as    *)
(* starting and ending there.  A comment is a sequence of lines; of a line *)
(* of a comment only its text and whether it ends in whitespace count.     *)
(***************************************************************************)
EXTENDS BindingMap, FiniteSets

CONSTANTS
    IDs, Kinds,    \* keys of bindings and of coverage entries
    Scalars,       \* other keys, and the values of entries
    Starts,        \* files to start from: [map |-> a map without comments, file |-> lines]
    Bodies,        \* what people write after the # of a line
    Spaced,        \* what is left of a line "# " when its leader is taken off: nothing
    Trim,          \* a line of a comment -> the line without trailing whitespace
    Texts,         \* comments given to `comment set`
    MaxEdits       \* how many edits there are, by hand and of comments by command

VARIABLES
    map,           \* the map in the file, without its comments
    file,          \* the lines of the file
    edits,         \* edits so far
    done           \* the last step: [op, at, comment, code]

vars == <<map, file, edits, done>>

Header == Anchor("header", None, None)
FileAnchor == Anchor("file", None, None)
-----------------------------------------------------------------------------
(***************************************************************************)
(* Lines.  of: what has its text on the line; starts, ends: what the model *)
(* records as starting and ending there, in the order of the map (shared   *)
(* flow-style lines and aliases make these more than one); comment: of a   *)
(* comment line its body, of another a trailing comment or None.           *)
(***************************************************************************)
Line(kind, of, starts, ends, comment) ==
    [kind |-> kind, of |-> of, starts |-> starts, ends |-> ends, comment |-> comment]

TextLine(starts, ends) == Line("text", Range(starts) \cup Range(ends), starts, ends, None)
AnchorLine(a) == TextLine(<<a>>, <<a>>)
KeyLine == TextLine(<<>>, <<>>)
CommentLine(body) == Line("comment", {}, <<>>, <<>>, body)
BlankLine == Line("blank", {}, <<>>, <<>>, None)
Marker == Line("marker", {}, <<>>, <<>>, None)
-----------------------------------------------------------------------------
(***************************************************************************)
(* Types.  A map is as the loader makes it, its comments in C; the lines   *)
(* of a file that stand for something of it stand for each thing once.     *)
(***************************************************************************)
Bodied == DOMAIN Trim
Trimmed == {body \in Bodied : Trim[body] = body}
Comments == Seq(Trimmed) \ {<<>>}

EntryType(C) == [key : Scalars, value : Scalars, comment : C]

BindingType(C) ==
    [key : IDs, value : Scalars, comment : C, locators : Seq(EntryType(C)),
     fields : {None} \cup Seq(EntryType(C)), asserted_by : {None} \cup Seq(EntryType(C))]

ReasonType(C) == [key : Kinds, value : Scalars, comment : C]

CoverageType(C) ==
    [comment : C, fully_bound : {None} \cup Seq(Kinds), curated : {None} \cup Seq(ReasonType(C))]

MapType(C) ==
    [header : C, bindings : Seq(BindingType(C)), coverage : {None} \cup CoverageType(C)]

Dicts(m) ==
    /\ UniqueKeys(m.bindings)
    /\ \A n \in DOMAIN m.bindings : UniqueKeys(OrEmpty(m.bindings[n].fields))
    /\ m.coverage # None => UniqueKeys(OrEmpty(m.coverage.curated))

CarrierTypes == {"header", "binding", "locator", "field", "assertion", "coverage", "curated"}

(* What has a line of its own, and what a comment can be given to.         *)
LineAnchors(m) == {a \in Anchors(m) : a[1] \in CarrierTypes \ {"header"}}
CarrierAnchors(m) == LineAnchors(m) \cup {Header}

LineType(anchors) ==
    [kind : {"text"}, of : SUBSET anchors, starts : Seq(anchors), ends : Seq(anchors),
     comment : {None} \cup Bodied]
      \cup [kind : {"marker"}, of : {{}}, starts : {<<>>}, ends : {<<>>},
            comment : {None} \cup Bodied]
      \cup {BlankLine} \cup {CommentLine(body) : body \in Bodied}

(* Everything in the map that can carry a comment starts on one line of    *)
(* the file and ends on one, not before it.                                *)
Fits(m, f) ==
    /\ f \in Seq(LineType(LineAnchors(m))) /\ \E n \in DOMAIN f : f[n].kind = "text"
    /\ \A a \in LineAnchors(m) :
         \E first, last \in DOMAIN f :
           /\ first <= last
           /\ {n \in DOMAIN f : a \in Range(f[n].starts)} = {first}
           /\ {n \in DOMAIN f : a \in Range(f[n].ends)} = {last}

ASSUME StartAssumption ==
    \A s \in Starts : s.map \in MapType({None}) /\ Dicts(s.map) /\ MapOK(s.map) /\ Fits(s.map, s.file)

ASSUME TrimAssumption ==
    /\ Bodies \subseteq DOMAIN Trim
    /\ \A text \in Texts : Range(text) \subseteq DOMAIN Trim
    /\ \A body \in DOMAIN Trim : Trim[body] \in DOMAIN Trim /\ Trim[Trim[body]] = Trim[body]

ASSUME BoundAssumption == MaxEdits \in Nat

(* What the rules on inputs let through is a comment.                      *)
ASSUME TextAssumption == Texts \ (Unwritable \cup Unclean) \subseteq Comments

ASSUME RankAssumption ==
    \A k, l \in IDs \cup Kinds : Rank[k] \in Nat /\ (Rank[k] = Rank[l] => k = l)

(* Python's None is no string, no list, no mapping and no place.           *)
ASSUME NoneAssumption ==
    /\ None \notin Bodied \cup Unwritable \cup Seq(Bodied)
    /\ None \notin Seq(EntryType({None} \cup Comments)) \cup Seq(Kinds)
                     \cup Seq(ReasonType({None} \cup Comments))
    /\ None \notin CoverageType({None} \cup Comments)
    /\ None \notin CarrierTypes \X ({None} \cup IDs) \X ({None} \cup Scalars \cup Kinds)
-----------------------------------------------------------------------------
(***************************************************************************)
(* emitter.emit.                                                           *)
(***************************************************************************)
CommentBlock(c) == IF c = None THEN <<>> ELSE [n \in DOMAIN c |-> CommentLine(c[n])]

Headed(a, c) == Append(CommentBlock(c), AnchorLine(a))

(* Seeded bug: the block of an entry is written under it.                  *)
EntryLinesUnder(a, c) ==
    IF c # None /\ Len(c) > 1 THEN <<AnchorLine(a)>> \o CommentBlock(c)
    ELSE <<[AnchorLine(a) EXCEPT !.comment = IF c = None THEN None ELSE c[1]]>>

(* Locators, fields and assertions: one line of comment is written after   *)
(* the entry, more above it.                                               *)
EntryLines(a, c) ==
    IF c # None /\ Len(c) > 1 THEN Headed(a, c)
    ELSE <<[AnchorLine(a) EXCEPT !.comment = IF c = None THEN None ELSE c[1]]>>

Entries(type, id, s) ==
    FlattenSeq([n \in DOMAIN s |-> EntryLines(Anchor(type, id, s[n].key), s[n].comment)])

Section(type, id, s) == IF s = None THEN <<>> ELSE <<KeyLine>> \o Entries(type, id, s)

BindingLines(b) ==
    Headed(Anchor("binding", b.key, None), b.comment)
      \o Section("locator", b.key, b.locators)
      \o Section("field", b.key, b.fields)
      \o Section("assertion", b.key, b.asserted_by)

CuratedLines(s) ==
    IF s = None THEN <<>>
    ELSE <<KeyLine>> \o FlattenSeq([n \in DOMAIN s |->
                          Headed(Anchor("curated", None, s[n].key), s[n].comment)])

(* Seeded bug: one list or the other.                                      *)
CoverageLinesEither(c) ==
    Headed(Anchor("coverage", None, None), c.comment)
      \o (IF c.fully_bound = None THEN CuratedLines(c.curated) ELSE <<KeyLine>>)

CoverageLines(c) ==
    Headed(Anchor("coverage", None, None), c.comment)
      \o (IF c.fully_bound = None THEN <<>> ELSE <<KeyLine>>)
      \o CuratedLines(c.curated)

Emit(m) ==
    CommentBlock(m.header) \o <<KeyLine, BlankLine, KeyLine>>
      \o FlattenSeq([n \in DOMAIN m.bindings |-> <<BlankLine>> \o BindingLines(m.bindings[n])])
      \o (IF m.coverage = None THEN <<>> ELSE <<BlankLine>> \o CoverageLines(m.coverage))
-----------------------------------------------------------------------------
(***************************************************************************)
(* loader.attach_comments.                                                 *)
(***************************************************************************)
IsComment(f, n) == n \in DOMAIN f /\ f[n].kind = "comment"

(* The last lines of the blocks, the first line of one, and the line after *)
(* one, to which a document marker is transparent.                         *)
BlockEnds(f) == {e \in DOMAIN f : IsComment(f, e) /\ ~IsComment(f, e + 1)}
BlockStart(f, e) == Max({n \in 1..e : ~IsComment(f, n - 1)})
LineAfter(f, e) == Min({n \in (e + 1)..(Len(f) + 1) : n \notin DOMAIN f \/ f[n].kind # "marker"})

(* Trailing whitespace after the #, and after the # and a space.           *)
UntrimmedRaw(f, n) == Trim[f[n].comment] # f[n].comment
Untrimmed(f, n) == UntrimmedRaw(f, n) /\ f[n].comment # Spaced

FirstContent(f) == Min({n \in DOMAIN f : f[n].kind = "text"})

(* The tables of _Anchors: what the map has later takes a line over.       *)
StartAt(f, n) == IF n \in DOMAIN f /\ f[n].starts # <<>> THEN Last(f[n].starts) ELSE None
EndAt(f, n) == IF f[n].ends # <<>> THEN Last(f[n].ends) ELSE None

Carrier(at, form, line, text, warned) ==
    [at |-> at, form |-> form, line |-> line, text |-> text, warned |-> warned]

(* Seeded bug: trailing whitespace is kept.                                *)
TrailingCarrierRaw(f, n) ==
    Carrier(EndAt(f, n), "trailing", n, <<f[n].comment>>, Untrimmed(f, n))

TrailingCarrier(f, n) ==
    Carrier(EndAt(f, n), "trailing", n, <<Trim[f[n].comment]>>, Untrimmed(f, n))

(* The body of a block is stripped, and so warned about, as a whole: only  *)
(* its last line counts.  The header is looked at line by line, with the   *)
(* leaders.                                                                *)
BlockCarrier(f, e) ==
    LET first == BlockStart(f, e)
        text == [n \in 1..(e - first + 1) |-> Trim[f[first + n - 1].comment]]
        next == LineAfter(f, e)
    IN  IF next = FirstContent(f)
          THEN Carrier(Header, "block", first, text, \E n \in first..e : UntrimmedRaw(f, n))
          ELSE Carrier(StartAt(f, next), "block", first, text, Untrimmed(f, e))

Carriers(f) ==
    {TrailingCarrier(f, n) : n \in {k \in DOMAIN f : f[k].comment # None /\ f[k].kind # "comment"}}
      \cup {BlockCarrier(f, e) : e \in BlockEnds(f)}

Unattachable(f) == \E c \in Carriers(f) : c.at = None

(* Seeded bug: of two carriers one is taken and the other forgotten.       *)
DoubledNever(f) == FALSE

Doubled(f) ==
    LET carriers == Carriers(f) IN \E c, d \in carriers : c.at = d.at /\ c # d

(* The block above goes before the trailing comment.                       *)
TextOf(carriers, a) ==
    LET here == {c \in carriers : c.at = a}
        blocks == {c \in here : c.form = "block"}
    IN  IF here = {} THEN None
        ELSE (CHOOSE c \in (IF blocks = {} THEN here ELSE blocks) : TRUE).text

TextAt(f, a) == TextOf(Carriers(f), a)

CommentedEntries(carriers, type, id, s) ==
    IF s = None THEN None
    ELSE [n \in DOMAIN s |->
            [s[n] EXCEPT !.comment = TextOf(carriers, Anchor(type, id, s[n].key))]]

CommentedBinding(carriers, b) ==
    Binding(b.key, b.value, TextOf(carriers, Anchor("binding", b.key, None)),
            CommentedEntries(carriers, "locator", b.key, b.locators),
            CommentedEntries(carriers, "field", b.key, b.fields),
            CommentedEntries(carriers, "assertion", b.key, b.asserted_by))

CommentedCoverage(carriers, c) ==
    [comment |-> TextOf(carriers, Anchor("coverage", None, None)), fully_bound |-> c.fully_bound,
     curated |-> CommentedEntries(carriers, "curated", None, c.curated)]

Commented(m, carriers) ==
    [header |-> TextOf(carriers, Header),
     bindings |-> [n \in DOMAIN m.bindings |-> CommentedBinding(carriers, m.bindings[n])],
     coverage |-> IF m.coverage = None THEN None ELSE CommentedCoverage(carriers, m.coverage)]

Loaded(m, f) == LET carriers == Carriers(f) IN Commented(m, carriers)
Bare(m) == Commented(m, {})

(* An error-level INV-COMMENT-TEXT is reported at the line of its anchor   *)
(* (line 1 for the header) and goes unreported when the loader's warning   *)
(* of the same code at the same anchor sorts before it (finalize).         *)
RuleLine(f, a) == IF a = Header THEN 1 ELSE Min({n \in DOMAIN f : a \in Range(f[n].starts)})

Masked(f, a) == \E c \in Carriers(f) : c.at = a /\ c.warned /\ c.line <= RuleLine(f, a)

HasErrors(f) ==
    \/ Doubled(f)
    \/ \E c \in Carriers(f) : ~CommentOK(c.text) /\ ~Masked(f, c.at)
-----------------------------------------------------------------------------
Reply(op, at, comment, code) ==
    done' = [op |-> op, at |-> at, comment |-> comment, code |-> code]

Refuse(op, at, comment, code) ==
    Reply(op, at, comment, code) /\ UNCHANGED <<map, file, edits>>

(* The loading and the refusals that come before any command's own.        *)
Loads(op, at, comment) ==
    \/ Unattachable(file) /\ Refuse(op, at, comment, "ERR-PARSE")
    \/ ~Unattachable(file) /\ HasErrors(file) /\ Refuse(op, at, comment, "ERR-FILE-INVALID")

Accepted == ~Unattachable(file) /\ ~HasErrors(file)

Write(op, at, comment, m) ==
    IF MapOK(m)
      THEN /\ file' = Emit(m) /\ map' = Bare(m)
           /\ edits' = edits + (IF op = "format" THEN 0 ELSE 1)
           /\ Reply(op, at, comment, "ok")
      ELSE Refuse(op, at, comment, "ERR-INTERNAL")

Format ==
    \/ Loads("format", FileAnchor, None)
    \/ Accepted /\ Write("format", FileAnchor, None, Canonicalise(Loaded(map, file)))

CommentSet(at, text) ==
    \/ Loads("comment set", at, text)
    \/ /\ Accepted /\ text \in Unwritable \cup Unclean
       /\ Refuse("comment set", at, text, "ERR-INPUT-INVALID")
    \/ /\ Accepted /\ text \notin Unwritable \cup Unclean
       /\ Write("comment set", at, text, SetComment(Loaded(map, file), at, text))

CommentUnset(at) ==
    \/ Loads("comment unset", at, None)
    \/ /\ Accepted /\ TextAt(file, at) = None
       /\ Refuse("comment unset", at, None, "ERR-NOT-FOUND")
    \/ /\ Accepted /\ TextAt(file, at) # None
       /\ Write("comment unset", at, None, SetComment(Loaded(map, file), at, None))

(* People add comments after or between lines, and take lines apart.       *)
ByHand(lines) ==
    /\ edits < MaxEdits /\ edits' = edits + 1
    /\ file' = lines
    /\ Reply("by hand", FileAnchor, None, "ok")
    /\ UNCHANGED map

InsertLine(n, line) == ByHand(InsertAt(file, n, line))

CommentOnLine(n, body) ==
    /\ file[n].kind \in {"text", "marker"} /\ file[n].comment = None
    /\ ByHand([file EXCEPT ![n].comment = body])

Init ==
    /\ \E s \in Starts : map = s.map /\ file = s.file
    /\ edits = 0
    /\ done = [op |-> "by hand", at |-> FileAnchor, comment |-> None, code |-> "ok"]

Next ==
    \/ Format
    \/ /\ edits < MaxEdits
       /\ \E at \in CarrierAnchors(map) :
            CommentUnset(at) \/ \E text \in Texts : CommentSet(at, text)
    \/ \E n \in 1..(Len(file) + 1) : \E body \in Bodies : InsertLine(n, CommentLine(body))
    \/ \E n \in 1..(Len(file) + 1) : InsertLine(n, BlankLine)
    \/ \E n \in 1..FirstContent(file) : InsertLine(n, Marker)
    \/ \E n \in DOMAIN file, body \in Bodies : CommentOnLine(n, body)

Spec == Init /\ [][Next]_vars
-----------------------------------------------------------------------------
(***************************************************************************)
(* Properties.                                                             *)
(***************************************************************************)
Written == done.op # "by hand" /\ done.code = "ok"

(* The map is a valid one, and the file has a line for all of it: what     *)
(* people do by hand and what the tool writes leaves neither without it.   *)
TypeOK ==
    /\ map \in MapType({None}) /\ Dicts(map) /\ MapOK(map)
    /\ Fits(map, file) /\ edits \in 0..MaxEdits

(* INV-CANONICAL-FIXPOINT: a file the tool has just written loads with     *)
(* no finding, and writing the map it loads as gives the same file.        *)
CanonicalFixpoint ==
    Written =>
      /\ Accepted /\ \A c \in Carriers(file) : ~c.warned
      /\ Emit(Loaded(map, file)) = file

Copies(f, body) ==
    Cardinality({n \in DOMAIN f : f[n].comment # None /\ Trim[f[n].comment] = body})
LinesIn(c, body) == IF c = None THEN 0 ELSE Cardinality({n \in DOMAIN c : c[n] = body})

(* A write loses no comment and invents none: the lines of comment in the  *)
(* file afterwards are those before (without trailing whitespace), but for *)
(* the comment that was set or unset.                                      *)
NoCommentLost ==
    [][Written' =>
         LET replaced == TextAt(file, done'.at)
         IN  \A body \in Range(Trim) :
               Copies(file', body) + LinesIn(replaced, body)
                 = Copies(file, body) + LinesIn(done'.comment, body)]_vars

(* A write leaves every comment but the addressed one with the entry it    *)
(* was attached to, whatever order and form the entries end up in.         *)
CommentsStay ==
    [][Written' =>
         LET before == Carriers(file)
             after == Carriers(file')
         IN  /\ TextOf(after, done'.at) = done'.comment
             /\ \A a \in CarrierAnchors(map) \ {done'.at} : TextOf(after, a) = TextOf(before, a)]_vars
-----------------------------------------------------------------------------
(***************************************************************************)
(* Statements of the documentation that the code does not keep in every    *)
(* case; each has a run that shows how.                                    *)
(***************************************************************************)

(* "A post-validation error is a tool bug by construction": none occurs.   *)
NoInternalError == done.code # "ERR-INTERNAL"

(* "The Loader never relocates a comment": what was written on the line of *)
(* something, or right above it, is a comment of something on that line    *)
(* after a format.                                                         *)
NeverRelocated ==
    [][Written' /\ done'.op = "format" =>
         \A c \in Carriers(file) :
           LET line == IF c.form = "trailing" THEN c.line
                       ELSE LineAfter(file, c.line + Len(c.text) - 1)
           IN  c.at # Header => \E a \in file[line].of : TextAt(file', a) = c.text]_vars
=============================================================================
