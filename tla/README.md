# dictum-binder in TLA+

`dbind` (dictum-binder) keeps a Dictum project's `bindings.yaml`: it reads,
edits, validates and formats one YAML file whose comments belong to its
entries. Each invocation is a short-lived, single-threaded process that loads
the file, validates it, changes the map in memory, validates it again and
replaces the file. There is no daemon and no lock; the hard parts are what
happens *around* an invocation (other invocations, editors, crashes, failing
system calls), and whether a file that is rewritten whole on every edit still
says what its author wrote.

This directory holds the TLA+ models of that program, the TLC configurations
that check them, and the theorems about them that the TLA+ proof system has
checked. Paths of the form `cli.py:744` are in `src/src/dbind/`.
`PROJECT.json` maps every definition to the lines it models.

## 1. The system

| Component | State | Operations | What makes it correct |
|---|---|---|---|
| **Command pipeline**: `cli.py` (`main`, `_Run`) | the loaded document, the findings of two validations, the target path, the answer | `_load`, `_write`, `init`, `format`, dispatch, `_fail` | only validated maps are written; what is answered is what happened; every failure is an error envelope; every invocation ends |
| **Emitter, atomic replace**: `emitter.py:144` `write` | the target, the temporary sibling, permission bits | `mkstemp`, `write`, `flush`, `fsync`, `chmod`, `replace`, `finally` | a reader never finds a partial file, not even after a power loss; the temporary file is removed; 0600 does not leak to the target |
| **Emitter, layout**: `emitter.py:30`–`143` | none | `emit` of a map as lines | canonical form; a comment is written where the loader will find it again |
| **Loader, file access**: `loader.py:26`–`46`, `331` | none | `resolve_target`, `read_bytes` | missing, oversized and unreadable files are told apart |
| **Loader, comments**: `loader.py:157`–`328` | lines of the file, tables from lines to entries | `find_comments`, `_Anchors`, `attach_comments` | every comment is attached to exactly one entry, or the file is refused |
| **Validator**: `validator.py` | findings | `validate`, `validate_input`, `finalize` | no error is lost; a valid map and valid input give a valid map |
| **Commands**: `commands/*.py` | the map being changed | `set`, `add-*`, `remove`, `fully-bound`, `curated`, `comment`, `format` | only what is named changes; order is kept; refusals come in the documented order |
| **Model**: `model.py` | map, bindings, entries, anchors | constructors, identities, conversion from plain values and from input documents | identities are unique; conversion loses nothing |
| **Queries**: `commands/query.py`, `validate.py` | none | `get`, `list`, `comment get`, `validate` | nothing is written; what is shown is what the file says, and `set` takes it back |
| **Argument grammar**: `cli.py` `parse` and its helpers | the parsed options | IDs, kinds, selectors, anchors, the `--json` document | a command reaches the entry that its options describe, or none |
| **Schema**: `schema.py` | none | the JSON Schema generated from the table `SHAPE` | it accepts what the validator accepts |
| **Render**: `render.py` | none | text of an envelope | |

How they interact: `main` dispatches to one method of `_Run`. A reading
command goes load → judge → reply; a writing one load → pre-validate → look up →
validate input → mutate → post-validate → emit → replace → reply. The
components call each other only through `_Run`, by ordinary calls; the only
shared state is the file system. `format` reads the target twice (once for the
bytes it compares with, once for the map), and an edit resolves the `--file`
link twice (once to read, once to replace).

Where it is hard: two invocations, or an invocation and an editor, on one
file; a file that vanishes between `stat` and `open`; a link that is changed;
a system call that fails at each of eight places of a write; Ctrl-C at any
point, including within the clean-up; `kill -9` and power loss between any two
system calls; a reply that cannot be printed after the file was replaced;
sequences of edits that empty a block and refill it; comments that hang on
line adjacency while people edit the lines by hand; a file, an answer, an input
document and a command line that are four notations of one thing, each with a
conversion of its own, and a quoting rule that must agree with what a YAML
parser makes of the unquoted. `PROJECT.json` lists each
of these as a hazard with its line and the properties that cover it.

## 2. Modules

| Module | Models | |
|---|---|---|
| `AtomicTarget` | what an invocation promises, without mechanism: one look at one file, then one atomic installation or none | abstract specification |
| `WritePipeline` | every system call of `_Run` and `emitter.write`, and everything that can happen between two of them | implements `AtomicTarget` |
| `Lists` | Python's lists and dicts: `sorted`, `del`, list comprehensions, `or []` | used by the next ones |
| `BindingMap` | the map in memory, the error-level rules, what each command makes of a map | used by the next two |
| `Editing` | a map under a sequence of writing commands | one step is one invocation |
| `Layout` | a file as lines: emitting, anchoring comments, edits by hand | one step is one invocation or one edit |
| `Documents` | parsed values, the conversion of a file into a map (`_Converter`, `SHAPE`), the rules code by code, and the values a written map is parsed as | no state; used by the next ones |
| `Interchange` | projections, input documents, the JSON Schema | no state |
| `Arguments` | which command lines are accepted, and which entry they reach | no state |
| `Exchange` | a file and the commands given one after another, with their answers | composes the three; one step is one invocation |
| `MC...` | instances for TLC | |
| `WritePipeline_proofs` | theorems about `WritePipeline` | 10 theorems |
| `Editing_proofs` | theorems about `Editing`: what one map must be and stay, then what one command may change (the lemmas on the operators of `BindingMap` come first) | 10 theorems |
| `Layout_proofs` | theorems about `Layout` | 4 theorems |
| `Exchange_proofs` | theorems about `Exchange`: what one command does to the file and answers (the lemmas on emitting then loading, answering then taking in, come first) | 4 theorems |
| `Content_proofs` | theorems about `Exchange`: what a whole file says, leaf by leaf, and what the schema says of it | 2 theorems |
| `Answers_proofs` | theorems about `Exchange`: what the file says of a binding, against answers and documents, and of all else when a line reaches one entry | 4 theorems |
| `Lists_proofs` | lemmas on lists, dicts, sorting and concatenation | |
| `Documents_proofs` | lemmas on conversion, rules and quoting | |

The modules cut the system along three questions. *When* things happen is
`WritePipeline`'s: there a document is opaque and constants (`LoadVerdict`,
`Verdict`, `Effect`, `Canon`, `PostOK`) say how the load judges it and what the
command makes of it. *What* a command makes of a map is `Editing`'s and
`Layout`'s: there an invocation is one step. What becomes of single *keys and
values* between file, answer, input and command line is `Exchange`'s, where an
invocation is one step too. The cut is sound because an
invocation acts on one snapshot of the file, which is what `PipelineIsAtomic`
(below) proves.

### 2.1 WritePipeline

One step is one system call, or a stretch of computation between two. `pc[p]`
is the step invocation `p` takes next; the local variables of the code are
`src` (the target resolved by `load`), `dest` (the target that is written),
`original` (the bytes `format` compares with), `doc` (the bytes loaded), `out`
(the bytes to write) and `code` (how it ends).

| Action | Code |
|---|---|
| `InitResolve`, `InitExists` | `_Run.init`: resolve, refuse an existing target |
| `FormatResolve`, `StatOriginal`, `ReadOriginal` | `_Run.format`: the bytes to compare with |
| `LoadResolve`, `Stat`, `Read`, `Judge` | `loader.load`, `_Run._load` and the refusals that follow |
| `Mutate`, `Post`, `ResolveDest`, `Compare` | `_Run._write`, the command, the second validation |
| `Mkstemp` … `Replace`, `Cleanup` | `emitter.write` |
| `Unencodable` | `emit` raises: a lone surrogate has no UTF-8 |
| `Reply` | printing the envelope |
| `IOFault`, `ReplyFault`, `Interrupt`, `Kill` | a failing call, a failing print, Ctrl-C, SIGKILL |
| `Edit`, `Retarget`, `TouchPath`, `Sync`, `PowerLoss` | editors, the link, the source tree, write-back, a crash of the machine |

Details worth knowing when reading it:

- `tmp` is bound only after `mkstemp` returns, so an interrupt at `"bind"`
  leaves the file behind, as in the code; so does a failing `unlink` in the
  `finally` block, whose `OSError` becomes `ERR-INTERNAL`.
- `onDisk[t]` is the set of documents a power loss may leave at `t`. A rename
  adds the new document; `Sync` is the system's write-back. If the temporary
  file was not synced before the rename, `Torn` is added too: that is what
  `fsync` is for.
- Errors are printed in `main`'s `except` clauses, outside its `try`; a failure
  there leaves `main` as an exception (`code = "traceback"`).
- `Garbled` and `GarbledDocs` say which invocations and documents hold a lone
  surrogate (an argument that is no UTF-8, a JSON or YAML escape). `emit` encodes
  outside the `try` of `emitter.write`, and in `format` before the comparison
  (`Unencodable`); an answer that has one fails to be printed of itself
  (`ReplyFault`, without spending the budget).

### 2.2 BindingMap and Editing

Everything that can carry a comment is an entry with a key, a value and a
comment. Lists and dicts are both sequences of entries: a Python dict keeps
insertion order and assignment keeps a key's place (`Put`). `Lists` has the
operations of Python that have no operator of their own: `Ordered` is `sorted`
of elements of different rank, `Chosen` a list comprehension over places, `Drop`
is `del`. Strings are model values; `Malformed`, `Unwritable` and `Unclean` say which keys, values and
comments the rules of `validator.py` reject, so that a request can be bad in
each of the ways the code distinguishes. `MapOK` is the conjunction of the rules
whose findings are errors, `InputOK` and `InputBindingOK` those of
`validate_input`. `Editing` has one action per command, with its lookup,
refusals in their order, and the second validation at the end (`Install`).
`Good` says what a map is that a writing command gets past its load: typed, its
dicts without a key twice, valid, and its comments without the whitespace that
the loader takes off. The files to begin with (`Starts`) are such maps.

### 2.3 Layout

A file is a sequence of lines. Of a line only matters what has its text there,
what the model records as starting and ending there (`_Anchors`' tables, in map
order, so that shared flow-style lines and aliases are represented), and its
comment. `Emit` is `emitter.emit`; `Carriers` is `find_comments` and
`attach_comments`: header, block above the next line (document markers are
transparent), or trailing. Trailing whitespace is looked for in the text without
its leader (`Untrimmed`), in a header with it, so that `# ` alone counts there
(`UntrimmedRaw`). `Unattachable` and `Doubled` are the two refusals,
`Masked` is what `finalize` does when the loader's warning and the validator's
error have the same code and anchor. `Format`, `CommentSet` and `CommentUnset`
are whole invocations; `InsertLine` and `CommentOnLine` are people.

`MapType` and `Dicts` say what a map is that the loader makes of a file, and
`Fits` which files are files of a map: everything that can carry a comment starts
on one line and ends on one, not before it. Lines may be shared, between things
or (aliases) between bindings, as long as each thing has its own place in the
tables. A file to begin with (`Starts`) is one that fits its map, which is valid.

### 2.4 Documents, Interchange, Arguments and Exchange

A parsed value is a scalar with its type, a list, or a mapping (a sequence of
pairs, whose keys are scalars again, so that `1` and `"1"` are two keys). A
comment is a note on the pair or item it stands at, as the emitter would put one
of one line: above a binding, a kind or the coverage block, beside an entry. The
lines themselves are `Layout`'s subject. Of a text two things are known: its
`Traits`, one for each test that the code makes of a string (empty, a space, a
flow character, an indicator, a leading digit, a word of the core schema, a
control character, a line number at its end, no path, trailing whitespace, an ID,
a kind), one for the numbers without a fraction (JSON Schema has them as
integers), and one for what needs no quotes by the code but is no string for
ruamel's resolver (`resolved`: `<<` and `=`); and `Reads`, the scalar that YAML
takes it for when it stands there without quotes.

A key `<<` without quotes is a merge: `Merged` says what becomes of the fields
that are written under it. In the files to begin with there is none.

A dict that is built from pairs has each key where it first came, with the value
that came last (`Dict`). `FileType` has every value of the right depth.
`ParsedFiles` are those that the parser delivers, having no key twice in a mapping
(`DuplicateKeyError`). `Attached` are those of them whose comments all stand where
something is that can carry them: at an object that the conversion makes.
`attach_comments` refuses the others, and every command answers `ERR-PARSE`
(`ReadCode`). `InputDocuments` are those of the JSON parser.

A field is looked up among the parser's positions by `str(name)`. Where the name is
no string there is none, and the field is taken to stand on its binding's line
(`Strays`): the comment above the binding goes to the last such field
(`Relocated`), and if that has a comment too, the file has a finding
(`CarrierFindings`).

`Documents` has the table `SHAPE`, `_Converter` twice (`Map` and its parts are
what is made of a value, `ShapeFindings` and its parts what is reported of it),
the rules of `_Rules` as sets of codes (`MapCodes`), and `Emit`, the value that
the next load parses: a text that `NeedsQuotes` is a string, any other is what
`Reads` says. `Interchange` has `BindingOut` and the other projections,
`BindingInput` (null keys and comments taken off, the rest converted, the comments
put back by position), and `SchemaAccepts`. `Arguments` has the checks of `parse`,
the identity that options give (`LocatorGiven`, `AssertionGiven`) and the entry
or comment carrier that is found for it (`Position`, `Resolve`).

`Exchange` is a file and someone who gives commands. Its variables are the file
as parsed, the last command with its input and answer, and the number of writes. Every command takes the
outcome of its load as an argument (`Load`: the map, and the code that a reader
and a writer would refuse with), as the methods of `_Run` take it from `_load`:

| Action | Code |
|---|---|
| `Get`, `ListBindings`, `CommentGet` | the queries |
| `SetGiven`, `SetGot` | `_Run.set`, with a document of one's own, or with what `get` has just answered |
| `AddEntry` | `add-locator`, `add-field`, `add-assertion`: options to a document (`FlatOut`), `_input`, the mutation |
| `RemoveEntry` | `remove` with its selectors |
| `CommentWrite` | `comment set` and `comment unset` |
| `FullyBoundAdd`, `CuratedSet` | the coverage commands that take an input |
| `Format` | `format` |
| `AnswerRead` | the answer is put away and the next command comes |

Each writing action goes through usage errors, the schema version, the
pre-validation, the target, the input and the identity in the code's order, and
ends in `Install`: second validation, `Emit`, answer. (`coverage fully-bound
remove` and `curated unset` take nothing in but a kind; they are in `Editing`.)
The properties compare *leaves*: a scalar with the keys and positions that lead
to it, in a file (`Contents`), in a projection (`Said`) and in what a file says
of a binding (`SaidOf`).

## 3. What is checked

Runs that pass:

| Run | Properties | Instance and why it is enough |
|---|---|---|
| `pipeline_faults` | `TypeOK`, `TargetWhole`, `ReplyMatchesEffect`, `TempRemoved`, `FailuresExplained` | one edit, two targets, `--check-paths`, a document with a lone surrogate; one edit by hand, one retargeting, one change of the source tree, two failing calls, two failing prints, one signal, one power loss in any order. Two failing calls and two failing prints, because the second of each hits the handler of the first. 6.1 M states. |
| `pipeline_concurrent` | `InstalledOnlyValidated`, `NeverPrivate`, `ImplementsAtomicTarget`, `EveryInvocationEnds` | `init`, an edit and a format on one path, interleaved at every system call, with a failing call, a signal and a power loss: each writing command once, so every pair of writers races. 0.2 M states. |
| `pipeline_readers` | `FormatTellsTruth`, `OnlyWritersReplace` | `format`, `format --check`, a query and `validate` over documents with each verdict of the load (good, unsorted, unparsable, wrong version, invalid, too large), with two failing calls. 0.56 M states. |
| `edit_lists` | `TypeOK`, `ValidInValidOut`, `AddThenRemove`, `OrderPreserved`, `OnlyAddressed`, `CommentsKept`, `FormatOnlySorts` | two bindings and two kinds, from an empty map or an unsorted one with a header. Two of each are enough for order, for "last one out" and for a kind in both lists. |
| `edit_entries` | the same but `TypeOK`, and `CommentsClean`, `RefusalInOrder` | one binding, with a locator, two fields and an assertion to add and remove, and bodies for `set` that have each defect (duplicate identity, empty block, unclean comment). |
| `layout` | `TypeOK`, `CanonicalFixpoint`, `NoCommentLost`, `CommentsStay` | a file in the tool's own form, one with bindings out of order, and one written by hand (marker, an entry on two lines, a flow-style line shared by two anchors). Two edits, by hand at any line or by command, with any number of formats between them. Two are needed to make a block of two lines, a block with a marker or blank line after it, or two carriers for one anchor. |
| `documents` | `TypeOK`, `NothingLost`, `ShownAsWritten`, `GetThenSet`, `SetTakesAll`, `WrittenReadsBack`, `RemovesTheDescribed`, `CommentsTheDescribed`, `InputRulesSuffice`, `SchemaAgrees` | files with two bindings of which one section (locators, compare_via, fields, wire, asserted_by, coverage, the root) deviates from a plain or from a rich binding in each way the code tells apart: wrong type, null, missing, unknown, empty, duplicate, malformed, reserved word, comment; the same sections as input documents; options for each selector and anchor with something missing and something too much. One deviation at a time, because the conversions and rules look at sections independently; the rich binding has every section and its comments, so that a deviation meets the others. One write, because what is written is loaded again by the commands that follow. 33 k states. |

What they show, in short: a target is always whole (`TargetWhole`); what is
installed was validated and made from one snapshot
(`InstalledOnlyValidated`); answers and effects agree (`ReplyMatchesEffect`,
`FormatTellsTruth`); temporary files are removed and their bits do not leak; the
pipeline is an implementation of an atomic replacement; no sequence of commands
makes a valid map invalid or touches what it did not name; writing a file and
reading it back gives the same map, and comments neither get lost nor move.
`documents` adds: every value of a file that loads without a finding survives
the conversion and the quoting (`NothingLost`); `get` shows all of it, `list` counts it, and what
`get` shows `set` accepts and leaves the map as it was (`ShownAsWritten`,
`GetThenSet`); what a document says is what the file says afterwards
(`SetTakesAll`); the options of `remove` and `comment` reach the one entry they
describe in full (`RemovesTheDescribed`, `CommentsTheDescribed`); validating an
input without its map is enough (`InputRulesSuffice`); the published schema
accepts a file without findings, and none with a finding of shape but for one of
its version (`SchemaAgrees`). `FailuresExplained` says what
`ERR-INTERNAL` and a traceback can come from: a failing print or removal, a
changed source tree under `--check-paths`, a comment error hidden by a warning,
a lone surrogate; of what can be wrong with an input, nothing but that last.

`MCExchange` has two sets of texts. The `documents` run leaves out the four that
`writes_change` is about: a kind that is a word of YAML, a kind with a line break
at its end, `<<` and `=` (`DisputedTraits`, `DisputedReads`, `DisputedKinds`).
What it shows of reading back is therefore that quoting and resolver agree over
the other texts.

Some of these are stated with a proviso. `NothingLost`, `ShownAsWritten`,
`RemovesTheDescribed` and `CommentsTheDescribed` leave out files in which a field
name that is no string does something (`NamesConfused`): it is one with another as
a string (`KeysCollide`), or the comment of its binding is taken for its own
(`CommentMoves`). What happens then is `writes_change`'s subject. `SchemaAgrees`
leaves out files whose field names are not all strings, since JSON has no others,
and files with a comment that has no anchor, which are not validated; and it has
the one thing that the schema accepts and the validator does not, a
`schema_version` written `1.0`, in its statement. `NothingLost` and `SchemaAgrees`
are about the file alone and are looked at between two commands, where every file
that occurs is found (`BetweenCommands`).

Each property has a seeded bug in the modules (comments beginning "Seeded bug")
that violates it under the run's own configuration: a skipped `fsync`, a
`chmod` after the rename, a forgotten clean-up, an unchecked identity, a comment
written under its entry.

**Deadlock** is checked everywhere. When all invocations of `WritePipeline` are
over, `AllEnded` stutters; in `Editing` and `Layout` `format` is always possible,
and in `Exchange` a query.

**Bounds.** `Budget` limits how often each kind of disturbance happens,
`MaxEdits` how many edits a file sees, and `MaxWrites` how often it is replaced
in `Exchange`; nothing else is cut off. Documents, IDs,
kinds and comments are finite sets.

**Fairness.** `FairSpec` has weak fairness of `Step(p)` for each invocation: an
invocation is one thread, takes no locks, retries nothing, and its system calls
return. Nothing is assumed of people, of write-back, or of failures.

### Where code and documents disagree

Five runs check a sentence of the documentation and end in a counterexample:

| Run | Sentence | What the code does |
|---|---|---|
| `error_masked` | a post-validation error is a tool bug by construction (`docs/architecture.md:119`) | `finalize` keeps the first finding of a code and anchor. For a comment of nothing but spaces the loader's *warning* hides the validator's *error*: the first validation passes, the second refuses: `format`, and every edit that gets that far and leaves the comment, answers `ERR-INTERNAL`. `comment set` and `comment unset` at that anchor repair the file. |
| `alias_relocates` | the loader never relocates a comment (`docs/domain-and-data.md:123`) | aliased lists share line numbers; the later binding takes the comments over, and the next write moves them. |
| `reply_fails` | on any failure the target is untouched (`docs/architecture.md:120`) | the result is printed after the replacement; when printing fails, the answer is `ERR-INTERNAL` although the file changed. |
| `retargeted` | the final target is always what is read and replaced (`docs/security-and-privacy.md:53`) | the link is resolved twice. |
| `writes_change` | content and order are never touched by a write (`docs/domain-and-data.md:124`); nothing dropped can be persisted (`docs/architecture.md:106`); a kind matches `[A-Z][A-Z0-9]+` (`:185`) | five cases, each of which violates `WritesKeepContent` when the run is restricted to it. The kinds `TRUE`, `FALSE` and `NULL` are well-formed and written without quotes, and load as no string (`emitter.py:126`). The quoted field name `<<` and the quoted symbol `=` lose their quotes, since `needs_quotes` has no test for them, and load as a merge key and as a tagged scalar (`emitter.py:30`; `:120` of the document says that what resolves to a non-string is quoted). The field names `1` and `"1"` of one binding become one, and the former is dropped without a finding (`model.py:523`). The comment above a binding with a field `1` is taken for the field's and is moved there by the next write (`model.py:447`; `:123` says that the loader never relocates a comment). `$` in `KIND_PATTERN` matches before a final newline, so that `fully-bound add` accepts `DTO\n`, says it has added it, and writes `DTO` (`model.py:24`; `ID_PATTERN` ends the same way). |

Six more are in the models without a run of their own. `remove --locator`
ignores `--owed` and `--arm` (`RemoveAccepted`), which
`docs/interfaces-and-contracts.md:150` has for `--assertion` only. With `--check-paths`, a
source path deleted between the two validations makes the second one fail, with
`ERR-INTERNAL` (`PathError`, `Post`). An error envelope that cannot be printed
leaves `main` as a traceback (`ReplyFault`), while `docs/architecture.md:118`
says a traceback never reaches the user. Trailing whitespace on any but the last
line of a block gives no warning (`BlockCarrier`), while
`docs/domain-and-data.md:211` announces one. A lone surrogate in an argument or an
input passes the rules and cannot be encoded, so that the answer is `ERR-INTERNAL`
(`Unencodable`), while `docs/architecture.md:121` has exit code 2 for what the
environment must change. The schema accepts `schema_version: 1.0`, which the
validator refuses (`AcceptsScalar`), while both are generated from one table by
`docs/architecture.md:112`.

## 4. What is proved

All theorems hold for every value of the constants that the named assumptions
allow, so for any number of invocations, entries, documents and commands. TLC
evaluates every assumption on the instances.

### 4.1 WritePipeline

For any set of invocations, targets and documents, any assignment of commands,
and any budget of disturbances:

| Theorem | States |
|---|---|
| `TypeCorrect` | `TypeOK`, and that everything written is a whole document |
| `AtomicReplace` | `TargetWhole` |
| `ModeKept` | `NeverPrivate` |
| `ValidatedWrites` | `InstalledOnlyValidated` |
| `HonestReply` | `ReplyMatchesEffect` |
| `NoTempLeft` | `TempRemoved` |
| `FailuresHaveCauses` | `FailuresExplained` |
| `OnlyWriters` | `OnlyWritersReplace` |
| `HonestFormat` | `FormatTellsTruth` |
| `PipelineIsAtomic` | `ImplementsAtomicTarget` |

**Assumptions**: `DocumentAssumption` (no file and a torn file are not documents;
the empty map is one and is valid; the verdicts are the codes the load can give),
`CommandAssumption` (commands are functions from documents to verdicts and
documents), `NamingAssumption` (what a command makes names the source paths of
the map it was given and of its input, no others), `ModeAssumption` (0600 is not
the default mode), `BudgetAssumption`.

**The inductive invariant** is `TypeOK` with six conjuncts at the end of
`WritePipeline`, each of which says what is known of an invocation at each of
its steps:

- `DataInv`: from the load on `doc` is a document, from the mutation on `out` is
  one; after the flush the temporary file holds `out`, and after the `fsync` it
  is synced. `TargetWhole` alone is not inductive: the step to worry about is
  `Replace`, and without this nothing is known of what it renames.
- `ModeInv`: at the rename the temporary file has lost its private bits.
- `OriginInv`: `out` is the product of the command on `doc`, which the first
  validation accepted; past the second validation it is valid. It carries what
  was known at one `pc` to the `pc` where it is needed.
- `ReplyInv`: there is no answer before the invocation is about to reply or
  clean up, and no replacement before an answer.
- `TempInv`: there is no temporary file before `mkstemp` and none after an
  answer that is not `ERR-INTERNAL`.
- `CauseInv`: what of the budget must have been spent for an invocation to be
  where it is. `FailuresExplained` speaks of the end; a cause and its effect are
  steps apart, so the invariant has to say of each step in between which
  disturbance has already happened, and that as long as no path was touched, the
  paths that the first validation found are still there at the second.

`TypeOK` and `DataInv` are proved together (the type of a target depends on what
is renamed over it); `ModeInv` follows from them; `OriginInv`, `ReplyInv` and
`TempInv` are proved as one, and `CauseInv` on top of them. Most steps concern
one invocation, so the lemma `OthersKeep` (the others' state is unchanged)
reduces preservation to the one that moves.

**The refinement** maps `content` to `file`, `seen` to `doc`, and `fate` to
"installed" for whoever has replaced a target, "declined" for whoever has ended
without, "open" otherwise. `Read` is the abstract look, `Replace` the
installation, the last step of an unsuccessful invocation the decline; every
other step of the program stutters. Printing the reply after a replacement is a
stutter too, whatever comes of it.

### 4.2 Editing

For any good maps to begin with, any IDs, kinds, keys, comments and bodies, and
any sequence of commands. Every property of `Editing` that a run checks is a
theorem:

| Theorem | States |
|---|---|
| `AlwaysGood` | `GoodAlways`, the inductive invariant |
| `TypeCorrect` | `TypeOK` |
| `ValidityPreserved` | `ValidInValidOut` |
| `CommentsStayClean` | `CommentsClean` |
| `RefusalsInOrder` | `RefusalInOrder` |
| `AddingIsUndone` | `AddThenRemove` |
| `OnlyAddressedChanges` | `OnlyAddressed` |
| `CommentsAreKept` | `CommentsKept` |
| `FormatSortsOnly` | `FormatOnlySorts` |
| `OrderIsPreserved` | `OrderPreserved` |

**Assumptions**: `StartAssumption` (the first map is `Good`: a writing command
refuses any other file before it changes anything), `BodyAssumption` (the body
given to `set` has each field name once, as a JSON object has),
`ScalarAssumption` (keys and values are scalars, no comment is a comment),
`NoneAssumption` (Python's `None` is no list and no mapping), `KindAssumption`
(the kinds that commands are given are well-formed: the grammar refuses others),
`RankAssumption` (no two keys have the same place in the byte order).

**The inductive invariant** `GoodAlways` is `Good(map)`, a reply that is not
`ERR-INTERNAL`, and a typed comment. `MapOK` alone is not inductive: `Drop` and
`Put` act on the first entry of a key, so without unique keys a removed identity
may still be there; and without the type, nothing is known of what sorting
yields.

**The argument.** `GoodTests` splits `Good` into one condition for each list
(`ListGood`, `BlockGood`, `CoverageGood`), and a lemma for each operator of
`BindingMap` says which of them it keeps. `Classified` says that every step is a
refusal or a write (`Refused`, `Written`), in which the new map comes from one of
those operators; `WrittenGood` puts the two together. What a command may change
is stated on *facts* (an anchor, its value, its comment): lemmas say for each
operator which facts go and which come, and that at most one anchor is touched
(`OneFact`), which gives `OnlyAddressed` and `CommentsKept`. Order is the relation
"stands before in the same list", and `Follows` says that a list keeps it but for
what goes and has what comes at its end. `format` is apart: it keeps the set of
facts, and sorting a sorted list changes nothing.

### 4.3 Layout

For maps of any size, comments of any length, any lines that people insert
anywhere and any number of commands. Every property of `Layout` that a passing
run checks is a theorem:

| Theorem | States |
|---|---|
| `LayoutTypes` | `TypeOK` |
| `WrittenIsCanonical` | `CanonicalFixpoint` |
| `CommentsStayInPlace` | `CommentsStay` |
| `NoCommentIsLost` | `NoCommentLost` |

**Assumptions**: `StartAssumption` (the first map is typed, valid and without
comments yet, and the file fits it), `TrimAssumption` (taking trailing whitespace
off gives a body and is idempotent), `TextAssumption` (a text that the rules on
inputs let through is a comment: one line or more, none with whitespace at its
end), `RankAssumption` (no two keys have the same place in the byte order),
`NoneAssumption` (Python's `None` is no string, list, mapping or place),
`BoundAssumption`. Nothing is assumed of where lines are shared: the theorems
include flow-style files and aliases. Only `alias_relocates` tells the two apart,
since what it refutes is about the lines people see, not about the tables.

**The inductive invariant** is `TypeOK` with `CanonicalFixpoint`. The part of
`TypeOK` that matters is `Fits(map, file)`: the loader's tables are total and
unambiguous on the file, so that a comment has at most one place to go, and
people can insert lines without breaking it, but not in the middle of what it
says. Both conjuncts are re-established by every write (`Writes`) and kept, or
made void, by every edit by hand (`InsertFits`, `CommentFits`).

**The argument** has three parts.

*What is written can be read.* `Says(f, R)` says of a sequence of lines `f` that
each pair in `R`, of a place and its comment, has exactly one line, and that the
comment can be read from there and from the lines right above. It is closed
under concatenation (`Joined`), and each part of `emit`, from an entry to the
whole body, says the pairs of its part of the map (`EntryLine`, `SectionSaid`,
`BindingSaid`, `CoverageSaid`, `BodySaid`). `Heads` adds the header, which is
set off by a blank line. `WrittenCarriers` then computes what `attach_comments`
finds in such a file: one carrier for each comment, at its place, and none with
a finding. So loading gives each place the comment that the map had there
(`EmittedTexts`), and putting the comments back into the bare map gives the map
(`Recommented...`): the file loads as what was written, and the next `emit`
gives the same lines.

*What a command makes of a map.* `CanonicaliseIs`: `format` has the same places
and the same comments at them. `SetCommentIs`: `comment set` and `unset` reset
the comment of exactly one place. So a write makes a file with the comments of
the one it replaces, but for one (`Writes`); `CommentsStay` follows, whatever
file, and whoever wrote it, was there before.

*No line is dropped on the way.* In a file that the loader accepts, every
comment line is a line of some carrier (`CarriersCover`) and of one only
(`CarriersApart`), so the lines of comment of a file are in bijection with the
lines of the comments of its map (`CopiesAre`), and so are those of the file that
is written. What a write adds or takes away is then what the command was given
and what it replaces (`NoneLost`). This is where the two refusals of the loader
are needed: without `Doubled` a comment would lose to another at the same place,
without `Unattachable` one would belong to nothing.

`emit` joins lists of lines of any length. What concatenation does is proved by
well-founded induction along the numbers, for the one statement at hand
(`Induction`, `Concatenates`, `Flattened` in `Lists_proofs`).

### 4.4 Exchange

For any files, texts and traits, any inputs, options and lines:

| Theorem | States |
|---|---|
| `AnswersTyped` | `TypeOK` |
| `SecondValidationPasses` | `InputRulesSuffice` |
| `WritesReadBack` | `WrittenReadsBack`, if `TextsReadBack` |
| `GetTakenBack` | `GetThenSet` |
| `SchemaAndRulesAgree` | `SchemaAgrees`, if `TextsReadBack` |
| `LoadAndEmitKeepAll` | `NothingLost`, if `TextsReadBack` |
| `SetLosesNothing` | `SetTakesAll`, if `TextsReadBack` |
| `AnswersShowTheFile` | `ShownAsWritten`, if `TextsReadBack` |
| `RemoveTakesTheDescribed` | `RemovesTheDescribed`, if `TextsReadBack` |
| `CommentStaysWithTheDescribed` | `CommentsTheDescribed`, if `TextsReadBack` |

**Assumptions**: `ReadsAssumption` (YAML reads an unquoted text as a scalar, and
as that text if it has none of the traits that mean something to YAML, `resolved`
among them),
`TraitAssumption` (the words of the code are texts, the roles have no control
characters, `None` and `1` are no IDs and no kinds), `KindAssumption` (an ID has a kind), `RankAssumption`, `NoneAssumption`,
`FilesAssumption` and `ArgumentsAssumption` (files are `ParsedFiles`, inputs what
the JSON parser delivers, options are texts), `LinesAssumption` (so are those of
`remove` and `comment`: `argparse` gives an option that has a value a string).

`TextsReadBack` is the hypothesis of seven theorems: that an ID or a kind without
quotes is read as it stands, and that no text is `resolved`, so that what
`NeedsQuotes` has nothing against is the string it looks like. The code relies on
both (`emitter.py:126` does not quote kinds, `emitter.py:30` has no test for `<<`
and `=`), and they hold of all texts of the `documents` run. It is *not* an
assumption of the module, since it is false: for the kinds `TRUE`, `FALSE` and
`NULL`, for a kind with a line break at its end, for `<<` and for `=`.
`writes_change` shows what happens then. The theorems say that this is all that
can go wrong, as far as the model tells texts apart (section 5). (`SchemaAgrees`,
`NothingLost`, `ShownAsWritten` and the last two need it since they hold of the files that commands leave as well as
of those there are to begin with; that such a file is one the parser
delivers is `FileParsed`.)

**The argument.** A map is good if it is typed and no rule finds anything in it
(`Documents_proofs` shows, rule by rule, that "finds nothing" is the conjunction
`MapRules`). A writing command has a good map before it, having refused others.
`EveryOutcome` says that every command refuses, answers without writing, or
replaces the file by `Emit` of a good map and shows that map; for it, each way to
put an accepted input into a good map is shown to keep it good. `MapBack` says
that `Map(Emit(m)) = m` for a good map, level by level from the texts
(`NeedsQuotes` against `Reads`) over locators, fields, assertions and coverage to
the root. `AnswerTakenBack` says that `BindingInput` of `BindingOut` is the
binding again, without a finding: nulls and comments that the projection puts in
are those that the input takes off. For `GetThenSet`, which spans two commands,
the invariant `AnswerTrue` keeps what is known of an answer until it is used: it
is what the file says of that binding.

`Content_proofs` relates values and objects instead of computing one from the
other. A value *spells* an object (`Spells`, `SpellsBinding`, up to `SpellsMap`)
if its pairs are exactly the object's keys, texts and comments. A file that the
rules accept spells the map that is loaded from it (`LoadedSpelled`: here it
counts that the converter drops nothing silently, for whatever it drops it
reports), and `Emit` of a good map spells that map (`MapSpells`). Two files that
spell one map have the same leaves (`LeavesCovered`): the five levels of `Leaves`
are unfolded, and on each of them every value of one file is found at the same
path in the other, spelling the same part. With `NamesConfused`, two keys that
are one as strings or a comment that goes to another object than the one it stands
at, this would fail, which is what `NothingLost` excludes. For
`SchemaAgrees`, what the schema asks of a value is rewritten, node by node, into
what it asks of the texts of the object that the value spells (`BindingAccepts`,
`CoverageAccepts`, `MapAccepts`), and that is compared with the rules. In the other
direction the file need not be clean, so it is shown first that a file the schema
accepts has no finding of shape but for its version (`SchemaFile`) and therefore spells its map too.

`Answers_proofs` brings documents and answers to the same measure. Of a binding
there is one thing to be said, `BindingSaid`: a leaf for each of its strings and
comments, at its place. A value *tells* a binding (`TellsBinding`) if its pairs
are those of the binding, but for null and the headings `id` and `kind`; then its
leaves are `BindingSaid` (`BindingDeep`). This is looser than to spell it: a
comment may be a key or a note, and null may stand anywhere. A binding of the
file tells it (`BindingTells`, and `FileSays` for its place under `bindings`,
from where `EachMoves` moves the leaves), so does an answer (`AnswerSays`), and
so does an accepted document of the binding it is made into (`DocumentTells`):
this is the part of `from_input` in which comments are taken off, entries
converted and comments put back by position. For `SetTakesAll` the invariant
`SetTaken` keeps what is known of an answer of `set`; for `ShownAsWritten`,
`ListTrue` does so for `list`, and `EntriesCounted` and `CommentsSeen` show that
counting the objects is counting what is written.

For `remove` and `comment` the measure is that of the whole file. `MapSaid` is
what there is to be said of a map, and the leaves of a file that spells a good map
are that (`ContentsSaid`). A command that changes the map is then a change of this
set. Its parts lie under different paths (`BindingParts`, `AroundApart`), so a
binding can be looked at alone (`MapAround`), a section of it alone, and an entry
of a list alone; what is beside it is the same set before and after. For `remove`,
the entries that are found under the path of a list are the list
(`ListUnderIs`), and the section without one of them is the list without that item,
or nothing at all if it was the last (`LocatorGone`, `AssertionGone`, `FieldGone`).
For `comment`, the two files say the same but for one leaf (`Swaps`), the comment
of the object, and this is carried outwards from the object to its list, its
section, its binding and the file (`ListSwap`, `SectionSwap`, `BindingSwap`, and
`KindsSwap`, `CoverageSwap`, `HeaderSwap` for what is no binding). That the place
is the one that is *described* is the comparison of two identities: the commands
look for `LocatorGiven` among `LocatorIdentity`, `AssertionGiven` among
`AssertionIdentity`, the property asks which entries of the file have, key by key, what the options
say, and nothing where they say nothing (`LocatorMatches`,
`AssertionMatches`). They agree since the grammar lets only complete assertions
pass, and one entry at most is found since the rules forbid two of an identity.

## 5. What is only model-checked, and what is not modelled

*Only model-checked*: `EveryInvocationEnds`, since liveness under fairness is out
of the prover's reach. Every other property of the runs that pass is a theorem.

*Abstracted*: which strings are malformed IDs, paths or symbols, which comments
have control characters, and which texts YAML reads as something else are
parameters. Of texts that YAML treats specially and the code has no test for, `<<`
and `=` have a trait; single characters (U+2028, U+FFFE, lone surrogates) have
none, so `Exchange` says nothing of them. What a lone surrogate does to an
invocation is in `WritePipeline`. The `$` at the end of a pattern of the published
schema is read as Python reads it. Advisory findings do not
affect control and are left out but for the loader's `INV-COMMENT-TEXT`, which
can hide an error. What the YAML parser reports as starting and ending on a line
is given with the file.

*External*: the operating system's rename, sync and permission semantics, and
people editing files, are modelled as the code relies on them.

*Not modelled*: `render` (it words an envelope that is complete when it gets it),
what `argparse` refuses by itself, `--help` and the wording of usage errors (all
precede any file access), the titles and the checksum of the schema, the advisory
rules, tools, tests and the vendored standard.

## 6. Plan

Most important behaviour first; all of it is done.

1. `AtomicTarget`, `WritePipeline` and their runs.
2. `WritePipeline_proofs`.
3. `BindingMap`, `Editing`: commands over maps.
4. `Layout`: comments and lines.
5. `Documents`, `Interchange`: shape, rules, quoting, projections, inputs, schema.
6. `Arguments`, `Exchange`: command lines, and the way of the data through them.
7. `FailuresExplained` as a theorem, with `CauseInv` in the invariant.
8. `Editing_proofs`: every property of `Editing`.
9. `Exchange_proofs`: types, the second validation, reading back and taking back.
   `Content_proofs`: the whole file against the schema and against what is loaded
   from it. `Answers_proofs`: a binding of the file against an answer and an input,
   and the entry of it that the options of `remove` and `comment` describe.
10. `Layout_proofs`: a written file has one carrier per comment, and formatting it
    changes nothing.
