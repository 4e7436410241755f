--------------------------- MODULE WritePipeline ---------------------------
(***************************************************************************)
(* Invocations of `dbind` on map files: each one resolves its --file,      *)
(* loads the file, validates it, and, when its command is a write, mutates *)
(* the map, validates again and replaces the file through a temporary      *)
(* sibling.  One step of this module is one system call, or one stretch of *)
(* computation between two system calls, so that other invocations, the    *)
(* people editing the files, failing calls, Ctrl-C, kill -9 and power loss *)
(* fall between any two of them.                                           *)
(*                                                                         *)
(* A document is the bytes of a file, seen through what the program makes  *)
(* of them: the constants below say how the load judges it, what the       *)
(* command would make of it and what it looks like once formatted.         *)
(***************************************************************************)
EXTENDS Naturals, FiniteSets

CONSTANTS
    Procs,         \* the invocations
    Command,       \* [Procs -> Commands]
    CheckPaths,    \* the invocations given --check-paths
    NoLimit,       \* the invocations given --no-size-limit
    NamesInput,    \* the invocations whose input names the watched source path
    Garbled,       \* the invocations whose arguments or input hold a lone surrogate
    Targets,       \* the final paths the --file symlink can lead to
    Docs,          \* the complete contents of a map file
    Absent,        \* no file
    Torn,          \* a file that holds part of what is being written to it
    EmptyMap,      \* the document `init` writes
    Oversize,      \* the documents longer than the size cap
    Naming,        \* the documents that name the watched source path
    GarbledDocs,   \* the documents that hold a lone surrogate, as an escape
    LoadVerdict,   \* [Docs -> {"ok", "ERR-PARSE", ...}]: decode to pre-validation
    Verdict,       \* [Procs -> [Docs -> {"ok", "ERR-NOT-FOUND", ...}]]: mutate
    Effect,        \* [Procs -> [Docs -> Docs]]: emit of the mutated map
    Canon,         \* [Docs -> Docs]: emit of the canonicalised map
    PostOK,        \* the emitted documents whose map has no error-level finding
    Modes,         \* permission bits of a file
    Private,       \* 0600, the bits mkstemp creates with
    Default,       \* 0666 & ~umask
    Budget         \* [Disturbances -> Nat]: how often each may still happen

Writers == {"init", "edit", "format"}
Commands == Writers \cup {"check", "query", "validate"}
Formats == {"format", "check"}

MutateCodes == {"ERR-NOT-FOUND", "ERR-INPUT-INVALID", "ERR-DUPLICATE"}
LoadCodes == {"ERR-PARSE", "ERR-SCHEMA-VERSION", "ERR-FILE-INVALID"}
FileCodes == {"ERR-FILE-MISSING", "ERR-FILE-TOO-LARGE", "ERR-FILE-EXISTS", "ERR-IO"}
ErrorCodes == MutateCodes \cup LoadCodes \cup FileCodes \cup {"ERR-INTERNAL"}

(* "interrupt" is exit 130 without a reply, "traceback" an exception that  *)
(* left main, "none" an invocation that has not decided yet.               *)
Codes == ErrorCodes \cup {"ok", "interrupt", "traceback", "none"}

Disturbances == {"edit", "retarget", "path", "fault", "reply", "signal", "power"}

ASSUME DocumentAssumption ==
    /\ Absent \notin Docs /\ Torn \notin Docs /\ Absent # Torn
    /\ EmptyMap \in Docs /\ EmptyMap \in PostOK
    /\ Oversize \subseteq Docs /\ Naming \subseteq Docs /\ PostOK \subseteq Docs
    /\ GarbledDocs \subseteq Docs
    /\ LoadVerdict \in [Docs -> LoadCodes \cup {"ok"}]

ASSUME CommandAssumption ==
    /\ Command \in [Procs -> Commands]
    /\ Verdict \in [Procs -> [Docs -> MutateCodes \cup {"ok"}]]
    /\ Effect \in [Procs -> [Docs -> Docs]]
    /\ Canon \in [Docs -> Docs]

(* What is written names the paths of the map that was loaded and of the   *)
(* input, no others.                                                       *)
ASSUME NamingAssumption ==
    \A d \in Docs :
      /\ Canon[d] \in Naming => d \in Naming
      /\ \A p \in Procs : Command[p] = "edit" /\ Effect[p][d] \in Naming =>
                          d \in Naming \/ p \in NamesInput

ASSUME ModeAssumption == Private \in Modes /\ Default \in Modes /\ Private # Default

ASSUME BudgetAssumption == Budget \in [Disturbances -> Nat]
-----------------------------------------------------------------------------
VARIABLES
    link,          \* where the --file path leads at this moment
    present,       \* whether the watched source path exists
    file,          \* file[t]: what a reader of t finds
    mode,          \* mode[t]: the permission bits of t
    onDisk,        \* onDisk[t]: what a power loss may leave at t
    temp,          \* temp[p]: the temporary file of p
    pc,            \* pc[p]: the step p takes next
    src,           \* src[p]: the target p loads
    dest,          \* dest[p]: the target p replaces
    original,      \* original[p]: the bytes `format` compares with
    doc,           \* doc[p]: the bytes p loaded
    out,           \* out[p]: the bytes p writes
    code,          \* code[p]: how p ends
    installed,     \* the invocations that have replaced a file
    left           \* left[k]: how many disturbances of kind k may still happen

environment == <<link, present>>
disk == <<file, mode, onDisk>>
locals == <<src, dest, original, doc, out>>
vars == <<environment, disk, temp, pc, locals, code, installed, left>>

Contents == Docs \cup {Absent}
Steps == {"start", "exists", "stat original", "read original", "resolve", "stat", "read",
          "judge", "mutate", "post", "resolve dest", "compare", "mkstemp", "bind",
          "write", "flush", "fsync", "chmod", "replace", "cleanup", "reply"}
Ended == {"done", "killed"}

(* The steps inside emitter.write's try block, after `tmp` is bound.       *)
Holding == {"write", "flush", "fsync", "chmod", "replace"}

TempFile(body, bits, synced) == [body |-> body, mode |-> bits, synced |-> synced]
NoTemp == TempFile(Absent, Private, FALSE)

DiskType ==
    /\ link \in Targets /\ present \in BOOLEAN
    /\ file \in [Targets -> Contents \cup {Torn}]
    /\ mode \in [Targets -> Modes]
    /\ onDisk \in [Targets -> SUBSET (Contents \cup {Torn})]

TempType ==
    temp \in [Procs -> [body : Contents \cup {Torn}, mode : Modes, synced : BOOLEAN]]

LocalType ==
    /\ src \in [Procs -> Targets] /\ dest \in [Procs -> Targets]
    /\ original \in [Procs -> Contents] /\ doc \in [Procs -> Contents]
    /\ out \in [Procs -> Contents]

ControlType ==
    /\ pc \in [Procs -> Steps \cup Ended] /\ code \in [Procs -> Codes]
    /\ installed \subseteq Procs
    /\ left \in [Disturbances -> Nat]

TypeOK == DiskType /\ TempType /\ LocalType /\ ControlType

Init ==
    /\ link \in Targets /\ present \in BOOLEAN
    /\ file \in [Targets -> Contents]
    /\ mode \in [Targets -> Modes \ {Private}]
    /\ onDisk = [t \in Targets |-> {file[t]}]
    /\ temp = [p \in Procs |-> NoTemp]
    /\ pc = [p \in Procs |-> "start"]
    /\ src = [p \in Procs |-> link] /\ dest = [p \in Procs |-> link]
    /\ original = [p \in Procs |-> Absent] /\ doc = [p \in Procs |-> Absent]
    /\ out = [p \in Procs |-> Absent]
    /\ code = [p \in Procs |-> "none"]
    /\ installed = {}
    /\ left = Budget
-----------------------------------------------------------------------------
Goto(p, step) == pc' = [pc EXCEPT ![p] = step]

(* p has its answer and has only to print it.                              *)
Answer(p, c) == Goto(p, "reply") /\ code' = [code EXCEPT ![p] = c]

Spend(k) == left[k] > 0 /\ left' = [left EXCEPT ![k] = @ - 1]

(***************************************************************************)
(* init: resolve, refuse an existing target, validate the empty map.       *)
(***************************************************************************)
InitResolve(p) ==
    /\ pc[p] = "start" /\ Command[p] = "init"
    /\ dest' = [dest EXCEPT ![p] = link]
    /\ Goto(p, "exists")
    /\ UNCHANGED <<environment, disk, temp, src, original, doc, out, code, installed, left>>

InitExists(p) ==
    /\ pc[p] = "exists"
    /\ IF file[dest[p]] # Absent
         THEN Answer(p, "ERR-FILE-EXISTS") /\ UNCHANGED out
         ELSE /\ out' = [out EXCEPT ![p] = EmptyMap]
              /\ Goto(p, "post") /\ UNCHANGED code
    /\ UNCHANGED <<environment, disk, temp, src, dest, original, doc, installed, left>>

(***************************************************************************)
(* Loading.  `format` first resolves and reads the target for the bytes it *)
(* compares with and will replace; then, like every other command, it      *)
(* resolves --file and reads the file for the map.  The file can change,   *)
(* or vanish, between the stat and the open, and between the two readings. *)
(***************************************************************************)
FormatResolve(p) ==
    /\ pc[p] = "start" /\ Command[p] \in Formats
    /\ dest' = [dest EXCEPT ![p] = link]
    /\ Goto(p, "stat original")
    /\ UNCHANGED <<environment, disk, temp, src, original, doc, out, code, installed, left>>

LoadResolve(p) ==
    /\ \/ pc[p] = "resolve"
       \/ pc[p] = "start" /\ Command[p] \notin Formats \cup {"init"}
    /\ src' = [src EXCEPT ![p] = link]
    /\ Goto(p, "stat")
    /\ UNCHANGED <<environment, disk, temp, dest, original, doc, out, code, installed, left>>

(* Seeded bug: the errno of the stat is not translated.                    *)
StatOfUntranslated(p, t, next) ==
    /\ IF file[t] = Absent THEN Answer(p, "ENOENT") ELSE Goto(p, next) /\ UNCHANGED code
    /\ UNCHANGED <<environment, disk, temp, locals, installed, left>>

(* Seeded bug: wait for a missing file to appear.                          *)
StatOfPolls(p, t, next) ==
    /\ Goto(p, IF file[t] = Absent THEN pc[p] ELSE next)
    /\ UNCHANGED <<environment, disk, temp, locals, code, installed, left>>

(* The stat of read_bytes on target t: absent, too long, or go on.         *)
StatOf(p, t, next) ==
    /\ IF file[t] = Absent THEN Answer(p, "ERR-FILE-MISSING")
       ELSE IF p \notin NoLimit /\ file[t] \in Oversize THEN Answer(p, "ERR-FILE-TOO-LARGE")
       ELSE Goto(p, next) /\ UNCHANGED code
    /\ UNCHANGED <<environment, disk, temp, locals, installed, left>>

StatOriginal(p) == pc[p] = "stat original" /\ StatOf(p, dest[p], "read original")
Stat(p) == pc[p] = "stat" /\ StatOf(p, src[p], "read")

ReadOriginal(p) ==
    /\ pc[p] = "read original"
    /\ IF file[dest[p]] = Absent
         THEN Answer(p, "ERR-IO") /\ UNCHANGED original
         ELSE /\ original' = [original EXCEPT ![p] = file[dest[p]]]
              /\ Goto(p, "resolve") /\ UNCHANGED code
    /\ UNCHANGED <<environment, disk, temp, src, dest, doc, out, installed, left>>

Read(p) ==
    /\ pc[p] = "read"
    /\ IF file[src[p]] = Absent
         THEN Answer(p, "ERR-IO") /\ UNCHANGED doc
         ELSE /\ doc' = [doc EXCEPT ![p] = file[src[p]]]
              /\ Goto(p, "judge") /\ UNCHANGED code
    /\ UNCHANGED <<environment, disk, temp, src, dest, original, out, installed, left>>

(* --check-paths stats the paths a map names each time the map is          *)
(* validated.                                                              *)
PathError(p, d) == p \in CheckPaths /\ d \in Naming /\ ~present

(* _load and the refusal that follows it: parse errors refuse every        *)
(* command, another schema version all but `validate`, and findings of     *)
(* error level only those that write, `format --check` among them.         *)
Judge(p) ==
    LET verdict == IF LoadVerdict[doc[p]] = "ok" /\ PathError(p, doc[p])
                     THEN "ERR-FILE-INVALID" ELSE LoadVerdict[doc[p]]
        reads == Command[p] \in {"query", "validate"}
        refused == \/ verdict = "ERR-PARSE"
                   \/ verdict = "ERR-SCHEMA-VERSION" /\ Command[p] # "validate"
                   \/ verdict = "ERR-FILE-INVALID" /\ ~reads
    IN  /\ pc[p] = "judge"
        /\ \/ refused /\ Answer(p, verdict) /\ UNCHANGED out
           \/ ~refused /\ reads /\ UNCHANGED out
              /\ \/ Answer(p, "ok")
                 \/ Command[p] = "query" /\ Answer(p, "ERR-NOT-FOUND")
           \/ ~refused /\ Command[p] = "edit" /\ Goto(p, "mutate") /\ UNCHANGED <<code, out>>
           \/ /\ ~refused /\ Command[p] \in Formats
              /\ out' = [out EXCEPT ![p] = Canon[doc[p]]]
              /\ Goto(p, "post") /\ UNCHANGED code
        /\ UNCHANGED <<environment, disk, temp, src, dest, original, doc, installed, left>>

(* Seeded bug: the paths of the input are left to the second validation.   *)
InputPathUnchecked(p) == FALSE

InputPathMissing(p) == p \in CheckPaths \cap NamesInput /\ ~present

(* The mutation of _write: target lookup, then the input (with its paths   *)
(* under --check-paths), then identity.                                    *)
Mutate(p) ==
    LET verdict == IF Verdict[p][doc[p]] # "ERR-NOT-FOUND" /\ InputPathMissing(p)
                     THEN "ERR-INPUT-INVALID" ELSE Verdict[p][doc[p]]
    IN  /\ pc[p] = "mutate"
        /\ IF verdict # "ok"
             THEN Answer(p, verdict) /\ UNCHANGED out
             ELSE /\ out' = [out EXCEPT ![p] = Effect[p][doc[p]]]
                  /\ Goto(p, "post") /\ UNCHANGED code
        /\ UNCHANGED <<environment, disk, temp, src, dest, original, doc, installed, left>>

(* Seeded bug: edits, too, are compared with the original bytes.           *)
AfterPostCompares(p) == IF Command[p] = "init" THEN "mkstemp" ELSE "compare"

AfterPost(p) == IF Command[p] = "init" THEN "mkstemp"
                ELSE IF Command[p] = "edit" THEN "resolve dest" ELSE "compare"

(* Seeded bug: only the paths are looked at again.                         *)
PostFailsOnPaths(p) == PathError(p, out[p])

(* Post-validation; `init` validates without --check-paths.                *)
PostFails(p) == out[p] \notin PostOK \/ (Command[p] # "init" /\ PathError(p, out[p]))

Post(p) ==
    /\ pc[p] = "post"
    /\ IF PostFails(p) THEN Answer(p, "ERR-INTERNAL")
                       ELSE Goto(p, AfterPost(p)) /\ UNCHANGED code
    /\ UNCHANGED <<environment, disk, temp, locals, installed, left>>

ResolveDest(p) ==
    /\ pc[p] = "resolve dest"
    /\ dest' = [dest EXCEPT ![p] = link]
    /\ Goto(p, "mkstemp")
    /\ UNCHANGED <<environment, disk, temp, src, original, doc, out, code, installed, left>>

(* Seeded bugs: format writes what is canonical already; --check is        *)
(* forgotten.                                                              *)
RewritesCanonical(p) == Command[p] = "format"
RewritesUnderCheck(p) == out[p] # original[p]

(* `format` writes only what differs, and `format --check` nothing.        *)
Rewrites(p) == out[p] # original[p] /\ Command[p] = "format"

Compare(p) ==
    /\ pc[p] = "compare"
    /\ IF Rewrites(p)
         THEN Goto(p, "mkstemp") /\ UNCHANGED code
         ELSE Answer(p, "ok")
    /\ UNCHANGED <<environment, disk, temp, locals, installed, left>>

(* What p is to write or to print may hold a lone surrogate: one of an     *)
(* argument that is no UTF-8, or of an escape in its input or in the map.  *)
MayGarble(p) == p \in Garbled \/ doc[p] \in GarbledDocs

(* UTF-8 has no bytes for it.  emit is called before emitter.write's try   *)
(* block, by `format` already for the comparison: main's catch-all answers.*)
Unencodable(p) ==
    /\ pc[p] = "compare" \/ (pc[p] = "mkstemp" /\ Command[p] = "edit")
    /\ MayGarble(p)
    /\ Answer(p, "ERR-INTERNAL")
    /\ UNCHANGED <<environment, disk, temp, locals, installed, left>>

(***************************************************************************)
(* emitter.write.  mkstemp creates an empty private file beside the target *)
(* before its name is bound to `tmp`; the data reaches the file in two     *)
(* parts (write may spill, flush writes the rest), is synced, the bits are *)
(* copied from the target, and the temporary file is renamed over it.      *)
(***************************************************************************)
Mkstemp(p) ==
    /\ pc[p] = "mkstemp"
    /\ temp' = [temp EXCEPT ![p] = TempFile(Torn, Private, FALSE)]
    /\ Goto(p, "bind")
    /\ UNCHANGED <<environment, disk, locals, code, installed, left>>

Bind(p) ==
    /\ pc[p] = "bind" /\ Goto(p, "write")
    /\ UNCHANGED <<environment, disk, temp, locals, code, installed, left>>

Write(p) ==
    /\ pc[p] = "write" /\ Goto(p, "flush")
    /\ UNCHANGED <<environment, disk, temp, locals, code, installed, left>>

(* Seeded bug: what is still buffered is not flushed.                      *)
FlushPart(p) ==
    /\ pc[p] = "flush" /\ Goto(p, "fsync")
    /\ UNCHANGED <<environment, disk, temp, locals, code, installed, left>>

Flush(p) ==
    /\ pc[p] = "flush"
    /\ temp' = [temp EXCEPT ![p] = TempFile(out[p], temp[p].mode, FALSE)]
    /\ Goto(p, "fsync")
    /\ UNCHANGED <<environment, disk, locals, code, installed, left>>

(* Seeded bug: no fsync before the rename.                                 *)
FsyncSkipped(p) ==
    /\ pc[p] = "fsync" /\ Goto(p, "chmod")
    /\ UNCHANGED <<environment, disk, temp, locals, code, installed, left>>

Fsync(p) ==
    /\ pc[p] = "fsync"
    /\ temp' = [temp EXCEPT ![p] = TempFile(temp[p].body, temp[p].mode, TRUE)]
    /\ Goto(p, "chmod")
    /\ UNCHANGED <<environment, disk, locals, code, installed, left>>

(* Seeded bug: a new file keeps the bits mkstemp gave it.                  *)
BitsKept(p) == IF Command[p] = "init" THEN temp[p].mode ELSE mode[dest[p]]

Bits(p) == IF Command[p] = "init" THEN Default ELSE mode[dest[p]]

(* The stat of a target that has been deleted fails.                       *)
Chmod(p) ==
    /\ pc[p] = "chmod"
    /\ IF Command[p] # "init" /\ file[dest[p]] = Absent
         THEN /\ Goto(p, "cleanup") /\ code' = [code EXCEPT ![p] = "ERR-IO"]
              /\ UNCHANGED temp
         ELSE /\ temp' = [temp EXCEPT ![p] = TempFile(temp[p].body, Bits(p), temp[p].synced)]
              /\ Goto(p, "replace") /\ UNCHANGED code
    /\ UNCHANGED <<environment, disk, locals, installed, left>>

(* rename: the target is the whole temporary file from here on.  Should    *)
(* power fail, the directory may still lead to an earlier document, and a  *)
(* file whose data was never synced may come back in part.                 *)
Replace(p) ==
    LET t == dest[p]
        landed == IF temp[p].synced THEN temp[p].body ELSE Torn
    IN  /\ pc[p] = "replace"
        /\ file' = [file EXCEPT ![t] = temp[p].body]
        /\ mode' = [mode EXCEPT ![t] = temp[p].mode]
        /\ onDisk' = [onDisk EXCEPT ![t] = @ \cup {landed}]
        /\ temp' = [temp EXCEPT ![p] = NoTemp]
        /\ installed' = installed \cup {p}
        /\ Answer(p, "ok")
        /\ UNCHANGED <<environment, locals, left>>

(* Seeded bug: the finally block forgets the temporary file.               *)
CleanupForgets(p) ==
    /\ pc[p] = "cleanup" /\ Goto(p, IF code[p] = "interrupt" THEN "done" ELSE "reply")
    /\ UNCHANGED <<environment, disk, temp, locals, code, installed, left>>

(* The finally block of a write that failed or was interrupted.            *)
Cleanup(p) ==
    /\ pc[p] = "cleanup"
    /\ temp' = [temp EXCEPT ![p] = NoTemp]
    /\ Goto(p, IF code[p] = "interrupt" THEN "done" ELSE "reply")
    /\ UNCHANGED <<environment, disk, locals, code, installed, left>>

Reply(p) ==
    /\ pc[p] = "reply" /\ Goto(p, "done")
    /\ UNCHANGED <<environment, disk, temp, locals, code, installed, left>>

Step(p) ==
    \/ InitResolve(p) \/ InitExists(p)
    \/ FormatResolve(p) \/ LoadResolve(p)
    \/ StatOriginal(p) \/ ReadOriginal(p) \/ Stat(p) \/ Read(p)
    \/ Judge(p) \/ Mutate(p) \/ Post(p) \/ ResolveDest(p) \/ Compare(p) \/ Unencodable(p)
    \/ Mkstemp(p) \/ Bind(p) \/ Write(p) \/ Flush(p) \/ Fsync(p) \/ Chmod(p) \/ Replace(p)
    \/ Cleanup(p) \/ Reply(p)
-----------------------------------------------------------------------------
(***************************************************************************)
(* What can go wrong in or around a running invocation.                    *)
(***************************************************************************)

(* A system call of p fails.  Before there is a temporary file that is the *)
(* end; inside the try block the finally block runs first; and when the    *)
(* removal in the finally block fails, its OSError takes the place of the  *)
(* one being handled and ends in main's catch-all.                         *)
IOFault(p) ==
    /\ Spend("fault")
    /\ \/ /\ pc[p] \in {"stat original", "read original", "stat", "read", "mkstemp"}
          /\ Answer(p, "ERR-IO")
       \/ /\ pc[p] \in Holding
          /\ Goto(p, "cleanup") /\ code' = [code EXCEPT ![p] = "ERR-IO"]
       \/ pc[p] = "cleanup" /\ Answer(p, "ERR-INTERNAL")
    /\ UNCHANGED <<environment, disk, temp, locals, installed>>

(* Seeded bug: results, too, are printed outside the try block.            *)
ReplyFaultLeaves(p) ==
    /\ Spend("reply") /\ pc[p] = "reply"
    /\ Goto(p, "done") /\ code' = [code EXCEPT ![p] = "traceback"]
    /\ UNCHANGED <<environment, disk, temp, locals, installed>>

(* The reply cannot be printed, or not be encoded.  A result's failure     *)
(* reaches main's catch-all, which answers ERR-INTERNAL; a failure in the  *)
(* answer to an error is raised from the except clause and leaves main.    *)
ReplyFault(p) ==
    /\ pc[p] = "reply"
    /\ Spend("reply") \/ (MayGarble(p) /\ UNCHANGED left)
    /\ IF code[p] = "ok"
         THEN Answer(p, "ERR-INTERNAL")
         ELSE Goto(p, "done") /\ code' = [code EXCEPT ![p] = "traceback"]
    /\ UNCHANGED <<environment, disk, temp, locals, installed>>

(* Ctrl-C.  The finally block removes the temporary file only when `tmp`   *)
(* is bound and it is not itself what was interrupted; an answer to an     *)
(* error is printed outside main's try block.                              *)
Interrupt(p) ==
    /\ Spend("signal") /\ pc[p] \in Steps
    /\ Goto(p, IF pc[p] \in Holding THEN "cleanup" ELSE "done")
    /\ code' = [code EXCEPT ![p] = IF pc[p] = "reply" /\ @ # "ok" THEN "traceback"
                                                                  ELSE "interrupt"]
    /\ UNCHANGED <<environment, disk, temp, locals, installed>>

(* kill -9: p stops where it is.                                           *)
Kill(p) ==
    /\ Spend("signal") /\ pc[p] \in Steps
    /\ Goto(p, "killed")
    /\ UNCHANGED <<environment, disk, temp, locals, code, installed>>

(* An editor saves, or somebody deletes, the file at t.                    *)
Edit(t) ==
    /\ Spend("edit")
    /\ \E c \in Contents \ {file[t]} :
         /\ file' = [file EXCEPT ![t] = c]
         /\ onDisk' = [onDisk EXCEPT ![t] = @ \cup {c}]
    /\ UNCHANGED <<environment, mode, temp, pc, locals, code, installed>>

(* The --file symlink is pointed at another file.                          *)
Retarget ==
    /\ Spend("retarget")
    /\ link' \in Targets \ {link}
    /\ UNCHANGED <<present, disk, temp, pc, locals, code, installed>>

(* The watched source path is created or deleted.                          *)
TouchPath ==
    /\ Spend("path")
    /\ present' = ~present
    /\ UNCHANGED <<link, disk, temp, pc, locals, code, installed>>

(* The operating system has written t back.                                *)
Sync(t) ==
    /\ onDisk[t] # {file[t]}
    /\ onDisk' = [onDisk EXCEPT ![t] = {file[t]}]
    /\ UNCHANGED <<environment, file, mode, temp, pc, locals, code, installed, left>>

PowerLoss ==
    /\ Spend("power")
    /\ file' \in [Targets -> UNION {onDisk[t] : t \in Targets}]
    /\ \A t \in Targets : file'[t] \in onDisk[t]
    /\ onDisk' = [t \in Targets |-> {file'[t]}]
    /\ pc' = [p \in Procs |-> IF pc[p] \in Steps THEN "killed" ELSE pc[p]]
    /\ UNCHANGED <<environment, mode, temp, locals, code, installed>>

(* All invocations are over: nothing is left for the program to do.        *)
AllEnded == (\A p \in Procs : pc[p] \in Ended) /\ UNCHANGED vars

Next ==
    \/ \E p \in Procs : Step(p) \/ IOFault(p) \/ ReplyFault(p) \/ Interrupt(p) \/ Kill(p)
    \/ \E t \in Targets : Edit(t) \/ Sync(t)
    \/ Retarget \/ TouchPath \/ PowerLoss
    \/ AllEnded

Spec == Init /\ [][Next]_vars

(* An invocation is one thread whose system calls return: while it has a   *)
(* step to take it takes one.                                              *)
FairSpec == Spec /\ \A p \in Procs : WF_vars(Step(p))
-----------------------------------------------------------------------------
(***************************************************************************)
(* Properties.                                                             *)
(***************************************************************************)

(* Whatever fails and whenever the machine stops, a reader of a target,    *)
(* before or after a power loss, finds no file or a complete document:     *)
(* INV-ATOMIC-WRITE of emitter.write.                                      *)
TargetWhole ==
    \A t \in Targets : file[t] \in Contents /\ onDisk[t] \subseteq Contents

(* A document p installed passed the second validation, was made by p's    *)
(* command from the one document p loaded, and p's command is one that     *)
(* may write that document: the refusals of _Run._write, format and init.  *)
InstalledOnlyValidated ==
    \A p \in installed :
      /\ out[p] \in PostOK
      /\ Command[p] \in Writers
      /\ Command[p] # "init" => doc[p] \in Docs /\ LoadVerdict[doc[p]] = "ok"
      /\ Command[p] = "edit" => Verdict[p][doc[p]] = "ok" /\ out[p] = Effect[p][doc[p]]
      /\ Command[p] = "format" => out[p] = Canon[doc[p]]

(* Results and what happened to the file go together: a write that reports *)
(* ok has replaced its target (or was a format with nothing to change), and*)
(* one that reports an error other than a failed reply has replaced        *)
(* nothing.                                                                *)
ReplyMatchesEffect ==
    \A p \in Procs : pc[p] = "done" =>
      /\ code[p] = "ok" /\ Command[p] \in {"init", "edit"} => p \in installed
      /\ code[p] = "ok" /\ Command[p] = "format" => p \in installed \/ out[p] = original[p]
      /\ code[p] \in ErrorCodes \ {"ERR-INTERNAL"} => p \notin installed

(* An invocation that ends with a result, or with any error but            *)
(* ERR-INTERNAL, has removed its temporary file: the finally block of      *)
(* emitter.write.  (An interrupt while the file is being created or        *)
(* removed, a failing removal and a kill do leave it.)                     *)
TempRemoved ==
    \A p \in Procs :
      pc[p] = "done" /\ code[p] \in (ErrorCodes \cup {"ok"}) \ {"ERR-INTERNAL"}
        => temp[p] = NoTemp

(* The 0600 bits of the temporary file never become those of a target:     *)
(* the chmod before the rename.                                            *)
NeverPrivate == \A t \in Targets : mode[t] # Private

(* Only a write, `init` among them, changes a file or its bits, and a step *)
(* of an invocation changes at most one target: the footprint of           *)
(* `get`, `list`, `validate` and `format --check` is empty.                *)
OnlyWritersReplace ==
    [][\A p \in Procs : Step(p) /\ <<file, mode>>' # <<file, mode>>
         => /\ Command[p] \in Writers /\ p \notin installed
            /\ \A t \in Targets \ {dest[p]} : file'[t] = file[t] /\ mode'[t] = mode[t]]_vars

(* When its two readings found the same bytes, a format that ends with a   *)
(* result has replaced the target exactly if those bytes were not          *)
(* canonical, and format --check has compared with the canonical form of   *)
(* what it loaded.  (An edit between the readings voids this.)             *)
FormatTellsTruth ==
    \A p \in Procs :
      pc[p] = "done" /\ code[p] = "ok" /\ Command[p] \in Formats /\ original[p] = doc[p] =>
        /\ out[p] = Canon[doc[p]]
        /\ Command[p] = "format" => (p \in installed <=> Canon[doc[p]] # doc[p])

(* ERR-INTERNAL has one of four causes: a reply or a removal that failed,  *)
(* a path that came or went under --check-paths, an error that the         *)
(* loader's warning at the same anchor hid, or a lone surrogate in what    *)
(* the command was given or has read (emit and _write_stdout encode        *)
(* outside every check of the input).  Everything else that the caller can *)
(* fix, a missing path of the input among it, is refused with a code of    *)
(* its own before the second validation (_input before the end of _write). *)
Spent(k) == Budget[k] - left[k]

InternalErrorExplained ==
    \A p \in Procs : pc[p] = "done" /\ code[p] = "ERR-INTERNAL" =>
      \/ Spent("reply") + Spent("fault") > 0
      \/ out[p] \in Docs \ PostOK
      \/ p \in CheckPaths /\ Spent("path") > 0
      \/ MayGarble(p)

(* No exception leaves main unless printing the answer to an error failed  *)
(* or was interrupted, and none after the target has been replaced unless  *)
(* two things went wrong: the catch-all answers the first (main, _fail).   *)
(* Only an answer with a lone surrogate fails of itself.                   *)
TracebackExplained ==
    \A p \in Procs : code[p] = "traceback" =>
      \/ Spent("reply") + Spent("signal") >= IF p \in installed THEN 2 ELSE 1
      \/ MayGarble(p)

(* ERR-INTERNAL and exceptions that leave main come from outside the       *)
(* command, but for lone surrogates.                                       *)
FailuresExplained == InternalErrorExplained /\ TracebackExplained

(* Nothing an invocation meets makes it wait: each one ends.               *)
EveryInvocationEnds == \A p \in Procs : <>(pc[p] \in Ended)
-----------------------------------------------------------------------------
(***************************************************************************)
(* The inductive strengthening of the invariants above: what is known of   *)
(* an invocation at each of its steps.                                     *)
(***************************************************************************)
Loaded == {"judge", "mutate"}
Built == {"post", "resolve dest", "compare", "mkstemp", "bind", "write", "flush", "fsync",
          "chmod", "replace"}
PastPost == Built \ {"post"}
Writing == {"mkstemp", "bind"} \cup Holding
BeforeLoad == {"start", "exists", "stat original", "read original", "resolve", "stat", "read"}
Deciding == Loaded \cup {"post", "resolve dest", "compare", "mkstemp"} \cup BeforeLoad

(* A load has put a whole document in doc, and everything written is the   *)
(* document in out.                                                        *)
DataAt(p) ==
    /\ pc[p] \in Loaded => doc[p] \in Docs
    /\ pc[p] \in Built => out[p] \in Docs
    /\ pc[p] \in {"fsync", "chmod", "replace"} => temp[p].body = out[p]
    /\ pc[p] \in {"chmod", "replace"} => temp[p].synced

DataInv == TargetWhole /\ \A p \in Procs : DataAt(p)

ModeInv ==
    NeverPrivate /\ \A p \in Procs : pc[p] = "replace" => temp[p].mode # Private

(* What p is about to write, or has written, is what its command makes of  *)
(* the snapshot it loaded; init has loaded none.                           *)
Made(p) ==
    /\ Command[p] \in Writers \cup {"check"}
    /\ Command[p] = "init" => doc[p] = Absent /\ out[p] = EmptyMap
    /\ Command[p] # "init" => doc[p] \in Docs /\ LoadVerdict[doc[p]] = "ok"
    /\ Command[p] = "edit" => Verdict[p][doc[p]] = "ok" /\ out[p] = Effect[p][doc[p]]
    /\ Command[p] \in Formats => out[p] = Canon[doc[p]]

Differs(p) == Command[p] = "format" => out[p] # original[p]

OriginAt(p) ==
    /\ pc[p] = "exists" => Command[p] = "init"
    /\ pc[p] \in {"stat original", "read original", "resolve"} => Command[p] \in Formats
    /\ pc[p] \in {"stat", "read"} \cup Loaded => Command[p] # "init"
    /\ pc[p] = "mutate" => Command[p] = "edit" /\ LoadVerdict[doc[p]] = "ok"
    /\ pc[p] \in BeforeLoad => doc[p] = Absent
    /\ pc[p] \in Built => Made(p)
    /\ pc[p] \in PastPost => out[p] \in PostOK
    /\ pc[p] = "compare" => Command[p] \in Formats
    /\ pc[p] = "resolve dest" => Command[p] = "edit"
    /\ pc[p] \in Writing => Command[p] \in Writers /\ Differs(p)
    /\ p \in installed => out[p] \in PostOK /\ Command[p] \in Writers /\ Made(p) /\ Differs(p)
    /\ pc[p] \in {"reply", "done"} /\ code[p] = "ok" /\ Command[p] \in Formats => Made(p)

OriginInv == \A p \in Procs : OriginAt(p)

(* The answer of p is settled when, and only when, it is about to reply or *)
(* to clean up, and agrees with what it did.                               *)
ReplyAt(p) ==
    /\ pc[p] \in Steps \ {"cleanup", "reply"} => code[p] = "none" /\ p \notin installed
    /\ pc[p] = "cleanup" => code[p] \in {"ERR-IO", "interrupt"} /\ p \notin installed
    /\ pc[p] \in {"reply", "done"} =>
         /\ code[p] # "none"
         /\ code[p] = "ok" /\ Command[p] \in {"init", "edit"} => p \in installed
         /\ code[p] = "ok" /\ Command[p] = "format" => p \in installed \/ out[p] = original[p]
         /\ code[p] \in ErrorCodes \ {"ERR-INTERNAL"} => p \notin installed

ReplyInv == \A p \in Procs : ReplyAt(p)

TempAt(p) ==
    /\ pc[p] \in Deciding => temp[p] = NoTemp
    /\ /\ pc[p] \in {"reply", "done"}
       /\ code[p] \in (ErrorCodes \cup {"ok"}) \ {"ERR-INTERNAL"}
       => temp[p] = NoTemp

TempInv == \A p \in Procs : TempAt(p)

(* Disturbances are spent, never earned.  As long as the watched path has  *)
(* not been touched, what the first validation accepts names no missing    *)
(* path, and neither does what is made of it; and whoever has replaced a   *)
(* file and is to reply with an error has failed to reply once, or had a   *)
(* surrogate to print.                                                     *)
SpentInv == \A k \in Disturbances : Spent(k) >= 0

CauseAt(p) ==
    /\ Spent("path") = 0 =>
         /\ pc[p] = "mutate" => ~PathError(p, doc[p])
         /\ pc[p] = "post" /\ Command[p] # "init" => ~PathError(p, out[p])
    /\ code[p] = "ERR-INTERNAL" =>
         \/ Spent("reply") + Spent("fault") > 0
         \/ out[p] \in Docs \ PostOK
         \/ p \in CheckPaths /\ Spent("path") > 0
         \/ MayGarble(p)
    /\ p \in installed /\ pc[p] = "reply" =>
         code[p] = "ok" \/ Spent("reply") + Spent("signal") > 0 \/ MayGarble(p)
    /\ code[p] = "traceback" =>
         /\ pc[p] = "done"
         /\ \/ Spent("reply") + Spent("signal") >= IF p \in installed THEN 2 ELSE 1
            \/ MayGarble(p)

CauseInv == SpentInv /\ \A p \in Procs : CauseAt(p)
-----------------------------------------------------------------------------
(***************************************************************************)
(* Statements of the documentation that the code does not keep in every    *)
(* environment; each has a run that shows how.                             *)
(***************************************************************************)

(* "On any failure the target is untouched": an error reply means that     *)
(* the invocation replaced nothing.                                        *)
ErrorMeansUntouched ==
    \A p \in Procs : pc[p] = "done" /\ code[p] \in ErrorCodes => p \notin installed

(* "The final target is always what is read and replaced".                 *)
ReadTargetIsReplaced ==
    \A p \in installed : Command[p] # "init" => src[p] = dest[p]
-----------------------------------------------------------------------------
(***************************************************************************)
(* The atomic promise this pipeline implements.  An invocation is open     *)
(* until it replaces its target or can no longer do so.                    *)
(***************************************************************************)
ProductOf(p, d) ==
    IF Command[p] = "init" /\ d = Absent THEN EmptyMap
    ELSE IF Command[p] = "edit" /\ d \in Docs THEN Effect[p][d]
    ELSE IF Command[p] = "format" /\ d \in Docs THEN Canon[d]
    ELSE Absent

Product == [p \in Procs |-> [d \in Contents |-> ProductOf(p, d)]]

Fate(p) == IF p \in installed THEN "installed"
           ELSE IF pc[p] \in Ended THEN "declined" ELSE "open"

fate == [p \in Procs |-> Fate(p)]

Atomic == INSTANCE AtomicTarget
            WITH content <- file, seen <- doc

ImplementsAtomicTarget == Atomic!Spec
=============================================================================
