------------------------ MODULE WritePipeline_proofs ------------------------
(***************************************************************************)
(* Theorems about WritePipeline, for every set of invocations, commands,   *)
(* documents and targets and every budget of disturbances.                 *)
(***************************************************************************)
EXTENDS WritePipeline, Integers, TLAPS

(***************************************************************************)
(* How the helpers of the actions move pc, code and left.                  *)
(***************************************************************************)
LEMMA StepNames ==
  /\ {"start", "exists", "stat original", "read original", "resolve", "stat", "read",
      "judge", "mutate", "post", "resolve dest", "compare", "mkstemp", "bind", "write",
      "flush", "fsync", "chmod", "replace", "cleanup", "reply"} = Steps
  /\ {"done", "killed"} = Ended
  BY DEF Steps, Ended

LEMMA CodeNames ==
  /\ ErrorCodes \subseteq Codes /\ MutateCodes \subseteq Codes /\ LoadCodes \subseteq Codes
  /\ {"ok", "interrupt", "traceback", "none"} \subseteq Codes
  /\ {"ERR-IO", "ERR-FILE-MISSING", "ERR-FILE-TOO-LARGE", "ERR-FILE-EXISTS", "ERR-INTERNAL",
      "ERR-NOT-FOUND", "ERR-FILE-INVALID", "ERR-INPUT-INVALID"} \subseteq ErrorCodes
  BY DEF Codes, ErrorCodes, MutateCodes, LoadCodes, FileCodes

LEMMA GotoType ==
  ASSUME ControlType, NEW p \in Procs, NEW step \in Steps \cup Ended, Goto(p, step)
  PROVE  pc' \in [Procs -> Steps \cup Ended]
  BY DEF Goto, ControlType

LEMMA CodeType ==
  ASSUME ControlType, NEW p \in Procs, NEW c \in Codes, code' = [code EXCEPT ![p] = c]
  PROVE  code' \in [Procs -> Codes]
  BY DEF ControlType

LEMMA AnswerType ==
  ASSUME ControlType, NEW p \in Procs, NEW c \in Codes, Answer(p, c)
  PROVE  pc' \in [Procs -> Steps \cup Ended] /\ code' \in [Procs -> Codes]
  BY GotoType, CodeType, StepNames DEF Answer

LEMMA SpendType ==
  ASSUME ControlType, NEW k \in Disturbances, Spend(k)
  PROVE  left' \in [Disturbances -> Nat]
  BY DEF Spend, ControlType

LEMMA VerdictType ==
  ASSUME NEW p \in Procs, NEW d \in Docs
  PROVE  Verdict[p][d] \in MutateCodes \cup {"ok"}
  <1>1. Verdict \in [Procs -> [Docs -> MutateCodes \cup {"ok"}]]
    BY CommandAssumption
  <1>2. Verdict[p] \in [Docs -> MutateCodes \cup {"ok"}]
    BY <1>1
  <1> QED
    BY <1>2

(***************************************************************************)
(* Every variable keeps its type.                                          *)
(***************************************************************************)
LEMMA TypeInit == Init => TypeOK
  <1> SUFFICES ASSUME Init PROVE TypeOK
    OBVIOUS
  <1>1. DiskType
    BY DEF Init, DiskType
  <1>2. TempType
    BY ModeAssumption DEF Init, TempType, Contents, NoTemp, TempFile
  <1>3. LocalType
    BY DEF Init, LocalType, Contents
  <1>4. ControlType
    BY BudgetAssumption, StepNames, CodeNames DEF Init, ControlType
  <1> QED
    BY <1>1, <1>2, <1>3, <1>4 DEF TypeOK

(* A step of an invocation leaves the links and, but for Replace, the      *)
(* files alone.                                                            *)
LEMMA DiskTypeStep ==
  ASSUME TypeOK, NEW p \in Procs, Step(p)
  PROVE  DiskType'
  <1>1. CASE Replace(p)
    <2>1. dest[p] \in Targets /\ temp[p].body \in Contents \cup {Torn} /\ temp[p].mode \in Modes
      BY DEF TypeOK, LocalType, TempType
    <2> QED
      BY <1>1, <2>1 DEF Replace, TypeOK, DiskType, environment
  <1>2. CASE ~Replace(p)
    <2>1. UNCHANGED <<environment, disk>>
      BY <1>2 DEF Step, InitResolve, InitExists, FormatResolve, LoadResolve, StatOriginal,
        ReadOriginal, Stat, Read, StatOf, Judge, Mutate, Post, ResolveDest, Compare,
        Unencodable, Mkstemp,
        Bind, Write, Flush, Fsync, Chmod, Cleanup, Reply
    <2> QED
      BY <2>1 DEF TypeOK, DiskType, environment, disk
  <1> QED
    BY <1>1, <1>2

LEMMA TempTypeStep ==
  ASSUME TypeOK, DataInv, NEW p \in Procs, Step(p)
  PROVE  TempType'
  <1> USE DEF TypeOK, TempType
  <1>1. \A q \in Procs : temp[q] = TempFile(temp[q].body, temp[q].mode, temp[q].synced)
    BY DEF TempFile
  <1>2. CASE Mkstemp(p)
    BY <1>2, ModeAssumption DEF Mkstemp, TempFile
  <1>3. CASE Flush(p)
    <2>1. out[p] \in Contents /\ temp[p].mode \in Modes
      BY DEF LocalType
    <2> QED
      BY <1>3, <2>1 DEF Flush, TempFile
  <1>4. CASE Fsync(p)
    BY <1>4 DEF Fsync, TempFile
  <1>5. CASE Chmod(p)
    <2>1. Bits(p) \in Modes
      BY ModeAssumption DEF LocalType, DiskType, Bits
    <2> QED
      BY <1>5, <2>1 DEF Chmod, TempFile
  <1>6. CASE Replace(p) \/ Cleanup(p)
    <2>1. temp' = [temp EXCEPT ![p] = NoTemp]
      BY <1>6 DEF Replace, Cleanup
    <2>2. NoTemp \in [body : Contents \cup {Torn}, mode : Modes, synced : BOOLEAN]
      BY ModeAssumption DEF NoTemp, TempFile, Contents
    <2> QED
      BY <2>1, <2>2
  <1>7. CASE ~(Mkstemp(p) \/ Flush(p) \/ Fsync(p) \/ Chmod(p) \/ Replace(p) \/ Cleanup(p))
    <2>1. UNCHANGED temp
      BY <1>7 DEF Step, InitResolve, InitExists, FormatResolve, LoadResolve, StatOriginal,
        ReadOriginal, Stat, Read, StatOf, Judge, Mutate, Post, ResolveDest, Compare,
        Unencodable, Bind,
        Write, Reply
    <2> QED
      BY <2>1
  <1> QED
    BY <1>2, <1>3, <1>4, <1>5, <1>6, <1>7

LEMMA LocalTypeStep ==
  ASSUME TypeOK, DataInv, NEW p \in Procs, Step(p)
  PROVE  LocalType'
  <1> USE DEF TypeOK, LocalType
  <1>1. CASE InitResolve(p) \/ FormatResolve(p) \/ LoadResolve(p) \/ ResolveDest(p)
    BY <1>1 DEF InitResolve, FormatResolve, LoadResolve, ResolveDest, DiskType
  <1>2. CASE InitExists(p)
    BY <1>2, DocumentAssumption DEF InitExists, Contents
  <1>3. CASE ReadOriginal(p)
    <2>1. file[dest[p]] \in Contents
      BY DEF DataInv, TargetWhole
    <2> QED
      BY <1>3, <2>1 DEF ReadOriginal
  <1>4. CASE Read(p)
    <2>1. file[src[p]] \in Contents
      BY DEF DataInv, TargetWhole
    <2> QED
      BY <1>4, <2>1 DEF Read
  <1>5. CASE Judge(p)
    <2>1. Canon[doc[p]] \in Docs
      BY <1>5, CommandAssumption DEF DataInv, DataAt, Loaded, Judge
    <2>2. UNCHANGED out \/ out' = [out EXCEPT ![p] = Canon[doc[p]]]
      BY <1>5 DEF Judge
    <2>3. UNCHANGED <<src, dest, original, doc>>
      BY <1>5 DEF Judge
    <2> QED
      BY <2>1, <2>2, <2>3 DEF Contents
  <1>6. CASE Mutate(p)
    <2>1. Effect[p][doc[p]] \in Docs
      BY <1>6, CommandAssumption DEF DataInv, DataAt, Loaded, Mutate
    <2>2. UNCHANGED out \/ out' = [out EXCEPT ![p] = Effect[p][doc[p]]]
      BY <1>6 DEF Mutate
    <2>3. UNCHANGED <<src, dest, original, doc>>
      BY <1>6 DEF Mutate
    <2> QED
      BY <2>1, <2>2, <2>3 DEF Contents
  <1>7. CASE StatOriginal(p) \/ Stat(p) \/ Post(p) \/ Compare(p) \/ Unencodable(p)
             \/ Mkstemp(p) \/ Bind(p) \/ Write(p) \/ Flush(p) \/ Fsync(p) \/ Chmod(p)
             \/ Replace(p) \/ Cleanup(p)
             \/ Reply(p)
    <2>1. UNCHANGED locals
      BY <1>7 DEF StatOriginal, Stat, StatOf, Post, Compare, Unencodable, Mkstemp, Bind,
        Write, Flush,
        Fsync, Chmod, Replace, Cleanup, Reply
    <2> QED
      BY <2>1 DEF locals
  <1> QED
    BY <1>1, <1>2, <1>3, <1>4, <1>5, <1>6, <1>7 DEF Step

(* Every step moves pc within the steps and decides on a known code.       *)
LEMMA ControlTypeStep ==
  ASSUME TypeOK, DataInv, NEW p \in Procs, Step(p)
  PROVE  ControlType'
  <1>1. \/ \E step \in Steps \cup Ended : Goto(p, step) /\ UNCHANGED code
        \/ \E c \in Codes : Answer(p, c)
        \/ Goto(p, "cleanup") /\ code' = [code EXCEPT ![p] = "ERR-IO"]
    <2> USE StepNames, CodeNames
    <2>1. CASE InitResolve(p) \/ FormatResolve(p) \/ LoadResolve(p) \/ ResolveDest(p)
               \/ Mkstemp(p) \/ Bind(p) \/ Write(p) \/ Flush(p) \/ Fsync(p) \/ Cleanup(p)
               \/ Reply(p)
      BY <2>1 DEF InitResolve, FormatResolve, LoadResolve, ResolveDest, Mkstemp, Bind, Write,
        Flush, Fsync, Cleanup, Reply
    <2>2. CASE InitExists(p) \/ StatOriginal(p) \/ ReadOriginal(p) \/ Stat(p) \/ Read(p)
      BY <2>2 DEF InitExists, StatOriginal, ReadOriginal, Stat, StatOf, Read
    <2>3. CASE Judge(p)
      <3>1. LoadVerdict[doc[p]] \in Codes
        BY <2>3, DocumentAssumption DEF DataInv, DataAt, Loaded, Judge
      <3> QED
        BY <2>3, <3>1 DEF Judge
    <2>4. CASE Mutate(p)
      <3>1. doc[p] \in Docs
        BY <2>4 DEF DataInv, DataAt, Loaded, Mutate
      <3>2. Verdict[p][doc[p]] \in MutateCodes \cup {"ok"}
        BY <3>1, VerdictType
      <3>3. Verdict[p][doc[p]] \in Codes
        BY <3>2
      <3> QED
        BY <2>4, <3>3 DEF Mutate
    <2>5. CASE Post(p) \/ Compare(p) \/ Unencodable(p) \/ Chmod(p) \/ Replace(p)
      BY <2>5 DEF Post, AfterPost, Compare, Unencodable, Chmod, Replace
    <2> QED
      BY <2>1, <2>2, <2>3, <2>4, <2>5 DEF Step
  <1>2. pc' \in [Procs -> Steps \cup Ended] /\ code' \in [Procs -> Codes]
    BY <1>1, GotoType, AnswerType, CodeType, StepNames, CodeNames DEF TypeOK, ControlType
  <1>3. UNCHANGED left /\ installed' \subseteq Procs
    BY DEF TypeOK, ControlType, Step, InitResolve, InitExists, FormatResolve, LoadResolve,
      StatOriginal, ReadOriginal, Stat, Read, StatOf, Judge, Mutate, Post, ResolveDest,
      Compare, Unencodable,
      Mkstemp, Bind, Write, Flush, Fsync, Chmod, Replace, Cleanup, Reply
  <1> QED
    BY <1>2, <1>3 DEF TypeOK, ControlType

(* What happens around the invocations keeps the types too.                *)
LEMMA TypeFault ==
  ASSUME TypeOK, NEW p \in Procs, IOFault(p) \/ ReplyFault(p) \/ Interrupt(p) \/ Kill(p)
  PROVE  TypeOK'
  <1>1. DiskType' /\ TempType' /\ LocalType' /\ installed' = installed
    BY DEF TypeOK, DiskType, TempType, LocalType, IOFault, ReplyFault, Interrupt, Kill,
      environment, disk, locals
  <1>2. left' \in [Disturbances -> Nat]
    BY SpendType DEF TypeOK, ControlType, Disturbances, IOFault, ReplyFault, Interrupt, Kill
  <1>3. \E step \in Steps \cup Ended : Goto(p, step)
    BY StepNames DEF IOFault, ReplyFault, Interrupt, Kill, Answer
  <1>4. \/ UNCHANGED code
        \/ \E c \in Codes : code' = [code EXCEPT ![p] = c]
    BY CodeNames DEF IOFault, ReplyFault, Interrupt, Kill, Answer
  <1>5. pc' \in [Procs -> Steps \cup Ended] /\ code' \in [Procs -> Codes]
    BY <1>3, <1>4, GotoType, CodeType DEF TypeOK, ControlType
  <1> QED
    BY <1>1, <1>2, <1>5 DEF TypeOK, ControlType

LEMMA TypeAround ==
  ASSUME TypeOK, DataInv,
         \/ \E t \in Targets : Edit(t) \/ Sync(t)
         \/ Retarget \/ TouchPath \/ PowerLoss \/ AllEnded
  PROVE  TypeOK'
  <1>1. TempType' /\ LocalType'
    BY DEF TypeOK, TempType, LocalType, Edit, Sync, Retarget, TouchPath, PowerLoss, AllEnded,
      vars, locals
  <1>2. left' \in [Disturbances -> Nat]
    BY SpendType DEF TypeOK, ControlType, Disturbances, Edit, Sync, Retarget, TouchPath,
      PowerLoss, AllEnded, vars
  <1>3. pc' \in [Procs -> Steps \cup Ended] /\ UNCHANGED <<code, installed>>
    BY StepNames DEF TypeOK, ControlType, Edit, Sync, Retarget, TouchPath, PowerLoss, AllEnded,
      vars
  <1>4. DiskType'
    <2> USE DEF TypeOK, DiskType
    <2>1. CASE \E t \in Targets : Edit(t) \/ Sync(t)
      BY <2>1 DEF Edit, Sync, environment
    <2>2. CASE Retarget \/ TouchPath \/ AllEnded
      BY <2>2 DEF Retarget, TouchPath, AllEnded, disk, vars, environment
    <2>3. CASE PowerLoss
      <3>1. file' \in [Targets -> Contents \cup {Torn}]
        BY <2>3 DEF PowerLoss
      <3> QED
        BY <2>3, <3>1 DEF PowerLoss, environment
    <2> QED
      BY <2>1, <2>2, <2>3
  <1> QED
    BY <1>1, <1>2, <1>3, <1>4 DEF TypeOK, ControlType

(***************************************************************************)
(* A step, or a fault, of p leaves the rest of the invocations where they  *)
(* are.                                                                    *)
(***************************************************************************)
Same(q) ==
    /\ pc'[q] = pc[q] /\ code'[q] = code[q] /\ temp'[q] = temp[q]
    /\ src'[q] = src[q] /\ dest'[q] = dest[q] /\ original'[q] = original[q]
    /\ doc'[q] = doc[q] /\ out'[q] = out[q]
    /\ q \in installed' <=> q \in installed

LEMMA OthersKeep ==
  ASSUME TypeOK, NEW p \in Procs, NEW q \in Procs, q # p,
         Step(p) \/ IOFault(p) \/ ReplyFault(p) \/ Interrupt(p) \/ Kill(p)
  PROVE  Same(q)
  <1> USE DEF Same, TypeOK, ControlType, LocalType, TempType, Goto, Answer, locals
  <1>1. CASE InitResolve(p) \/ InitExists(p) \/ FormatResolve(p) \/ LoadResolve(p)
             \/ ResolveDest(p) \/ ReadOriginal(p) \/ Read(p)
    BY <1>1 DEF InitResolve, InitExists, FormatResolve, LoadResolve, ResolveDest, ReadOriginal,
      Read
  <1>2. CASE StatOriginal(p) \/ Stat(p) \/ Post(p) \/ Compare(p) \/ Unencodable(p)
             \/ Bind(p) \/ Write(p) \/ Reply(p)
    BY <1>2 DEF StatOriginal, Stat, StatOf, Post, Compare, Unencodable, Bind, Write, Reply
  <1>3. CASE Judge(p)
    BY <1>3 DEF Judge
  <1>4. CASE Mutate(p)
    BY <1>4 DEF Mutate
  <1>5. CASE Mkstemp(p) \/ Flush(p) \/ Fsync(p) \/ Chmod(p) \/ Cleanup(p)
    BY <1>5 DEF Mkstemp, Flush, Fsync, Chmod, Cleanup
  <1>6. CASE Replace(p)
    BY <1>6 DEF Replace
  <1>7. CASE IOFault(p) \/ ReplyFault(p) \/ Interrupt(p) \/ Kill(p)
    BY <1>7 DEF IOFault, ReplyFault, Interrupt, Kill
  <1> QED
    BY <1>1, <1>2, <1>3, <1>4, <1>5, <1>6, <1>7 DEF Step

(* Nothing around the invocations touches one, but for the power loss that *)
(* ends those that run.                                                    *)
LEMMA AroundKeeps ==
  ASSUME TypeOK, NEW q \in Procs,
         \/ \E t \in Targets : Edit(t) \/ Sync(t)
         \/ Retarget \/ TouchPath \/ PowerLoss \/ AllEnded
  PROVE  Same(q) \/ (/\ pc'[q] = "killed"
                     /\ UNCHANGED <<temp, locals, code, installed>>)
  BY DEF Same, TypeOK, ControlType, Edit, Sync, Retarget, TouchPath, PowerLoss, AllEnded, vars,
    locals

(***************************************************************************)
(* INV-ATOMIC-WRITE: a target is always whole.                             *)
(***************************************************************************)
LEMMA DataInit == Init => DataInv
  BY DEF Init, DataInv, TargetWhole, DataAt, Loaded, Built

LEMMA DataAtStep ==
  ASSUME TypeOK, DataInv, NEW p \in Procs, Step(p)
  PROVE  DataAt(p)'
  <1> USE DEF TypeOK, ControlType, LocalType, TempType, DataAt, Goto, Answer, Loaded, Built
  <1>1. DataAt(p)
    BY DEF DataInv
  <1>2. CASE InitResolve(p) \/ FormatResolve(p) \/ LoadResolve(p) \/ StatOriginal(p)
             \/ ReadOriginal(p) \/ Stat(p) \/ Cleanup(p) \/ Reply(p) \/ Replace(p)
    BY <1>2 DEF InitResolve, FormatResolve, LoadResolve, StatOriginal, ReadOriginal, Stat,
      StatOf, Cleanup, Reply, Replace
  <1>3. CASE InitExists(p)
    BY <1>3, DocumentAssumption DEF InitExists
  <1>4. CASE Read(p)
    <2>1. file[src[p]] # Absent => file[src[p]] \in Docs
      BY DEF DataInv, TargetWhole, Contents
    <2>2. \/ doc'[p] \in Docs /\ pc'[p] = "judge"
          \/ pc'[p] = "reply"
      BY <1>4, <2>1 DEF Read
    <2> QED
      BY <2>2
  <1>5. CASE Judge(p)
    <2>1. doc[p] \in Docs /\ Canon[doc[p]] \in Docs
      BY <1>1, <1>5, CommandAssumption DEF Judge
    <2> QED
      BY <1>5, <2>1 DEF Judge
  <1>6. CASE Mutate(p)
    <2>1. doc[p] \in Docs /\ Effect[p][doc[p]] \in Docs
      BY <1>1, <1>6, CommandAssumption DEF Mutate
    <2> QED
      BY <1>6, <2>1 DEF Mutate
  <1>7. CASE Post(p) \/ ResolveDest(p) \/ Compare(p) \/ Unencodable(p)
             \/ Mkstemp(p) \/ Bind(p) \/ Write(p)
    BY <1>1, <1>7 DEF Post, AfterPost, ResolveDest, Compare, Unencodable, Mkstemp, Bind,
      Write, locals
  <1>8. CASE Flush(p)
    BY <1>1, <1>8 DEF Flush, TempFile, locals
  <1>9. CASE Fsync(p)
    BY <1>1, <1>9 DEF Fsync, TempFile, locals
  <1>10. CASE Chmod(p)
    <2>1. \/ pc'[p] = "replace" /\ temp'[p].body = temp[p].body
             /\ temp'[p].synced = temp[p].synced
          \/ pc'[p] = "cleanup"
      BY <1>10 DEF Chmod, TempFile
    <2>2. out'[p] = out[p] /\ pc[p] = "chmod"
      BY <1>10 DEF Chmod, locals
    <2> QED
      BY <1>1, <2>1, <2>2
  <1> QED
    BY <1>2, <1>3, <1>4, <1>5, <1>6, <1>7, <1>8, <1>9, <1>10 DEF Step

LEMMA DataAtFault ==
  ASSUME TypeOK, DataInv, NEW p \in Procs,
         IOFault(p) \/ ReplyFault(p) \/ Interrupt(p) \/ Kill(p)
  PROVE  DataAt(p)'
  BY DEF TypeOK, ControlType, DataInv, DataAt, Goto, Answer, Loaded, Built, IOFault,
    ReplyFault, Interrupt, Kill

LEMMA DataAtSame ==
  ASSUME NEW q \in Procs, DataAt(q), Same(q)
  PROVE  DataAt(q)'
  BY DEF DataAt, Same

(* The one step that changes a file puts a whole and synced document there.*)
LEMMA WholeStep ==
  ASSUME TypeOK, DataInv, NEW p \in Procs, Step(p)
  PROVE  TargetWhole'
  <1>1. CASE Replace(p)
    <2>1. temp[p].body \in Docs /\ temp[p].synced /\ dest[p] \in Targets
      BY <1>1 DEF Replace, DataInv, DataAt, Built, TypeOK, LocalType
    <2> QED
      BY <1>1, <2>1 DEF Replace, TypeOK, DiskType, DataInv, TargetWhole, Contents
  <1>2. CASE ~Replace(p)
    <2>1. UNCHANGED disk
      BY <1>2 DEF Step, InitResolve, InitExists, FormatResolve, LoadResolve, StatOriginal,
        ReadOriginal, Stat, Read, StatOf, Judge, Mutate, Post, ResolveDest, Compare,
        Unencodable, Mkstemp,
        Bind, Write, Flush, Fsync, Chmod, Cleanup, Reply
    <2> QED
      BY <2>1 DEF disk, DataInv, TargetWhole
  <1> QED
    BY <1>1, <1>2

LEMMA WholeAround ==
  ASSUME TypeOK, DataInv,
         \/ \E t \in Targets : Edit(t) \/ Sync(t)
         \/ Retarget \/ TouchPath \/ PowerLoss \/ AllEnded
  PROVE  TargetWhole'
  <1> USE DEF TypeOK, DiskType, DataInv, TargetWhole
  <1>1. CASE \E t \in Targets : Edit(t) \/ Sync(t)
    BY <1>1 DEF Edit, Sync
  <1>2. CASE Retarget \/ TouchPath \/ AllEnded
    BY <1>2 DEF Retarget, TouchPath, AllEnded, disk, vars
  <1>3. CASE PowerLoss
    BY <1>3 DEF PowerLoss
  <1> QED
    BY <1>1, <1>2, <1>3

LEMMA TypeAndDataStep == TypeOK /\ DataInv /\ [Next]_vars => TypeOK' /\ DataInv'
  <1> SUFFICES ASSUME TypeOK, DataInv, [Next]_vars
               PROVE  TypeOK' /\ DataInv'
    OBVIOUS
  <1>1. ASSUME NEW p \in Procs, Step(p)
        PROVE  TypeOK' /\ DataInv'
    <2>1. TypeOK'
      BY <1>1, DiskTypeStep, TempTypeStep, LocalTypeStep, ControlTypeStep DEF TypeOK
    <2>2. ASSUME NEW q \in Procs PROVE DataAt(q)'
      BY <1>1, DataAtStep, OthersKeep, DataAtSame DEF DataInv
    <2> QED
      BY <1>1, <2>1, <2>2, WholeStep DEF DataInv
  <1>2. ASSUME NEW p \in Procs, IOFault(p) \/ ReplyFault(p) \/ Interrupt(p) \/ Kill(p)
        PROVE  TypeOK' /\ DataInv'
    <2>1. ASSUME NEW q \in Procs PROVE DataAt(q)'
      BY <1>2, DataAtFault, OthersKeep, DataAtSame DEF DataInv
    <2>2. TargetWhole'
      BY <1>2 DEF DataInv, TargetWhole, IOFault, ReplyFault, Interrupt, Kill, disk
    <2> QED
      BY <1>2, <2>1, <2>2, TypeFault DEF DataInv
  <1>3. ASSUME \/ \E t \in Targets : Edit(t) \/ Sync(t)
               \/ Retarget \/ TouchPath \/ PowerLoss \/ AllEnded
        PROVE  TypeOK' /\ DataInv'
    <2>1. ASSUME NEW q \in Procs PROVE DataAt(q)'
      <3>1. DataAt(q)
        BY DEF DataInv
      <3>2. CASE Same(q)
        BY <3>1, <3>2, DataAtSame
      <3>3. CASE pc'[q] = "killed"
        BY <3>3 DEF DataAt, Loaded, Built
      <3> QED
        BY <1>3, <3>2, <3>3, AroundKeeps
    <2> QED
      BY <1>3, <2>1, TypeAround, WholeAround DEF DataInv
  <1>4. CASE UNCHANGED vars
    <2>1. AllEnded \/ ~AllEnded
      OBVIOUS
    <2> QED
      BY <1>4 DEF vars, environment, disk, locals, TypeOK, DiskType, TempType, LocalType,
        ControlType, DataInv, DataAt, TargetWhole
  <1> QED
    BY <1>1, <1>2, <1>3, <1>4 DEF Next

(* TypeOK and DataInv together are inductive.                              *)
THEOREM TypeCorrect == Spec => [](TypeOK /\ DataInv)
  BY TypeInit, DataInit, TypeAndDataStep, PTL DEF Spec

(* A reader of a target finds no file or a complete document, at any time  *)
(* and after a power loss at any time.                                     *)
THEOREM AtomicReplace == Spec => []TargetWhole
  <1>1. DataInv => TargetWhole
    BY DEF DataInv
  <1> QED
    BY TypeCorrect, <1>1, PTL

(***************************************************************************)
(* The bits of the temporary file.                                         *)
(***************************************************************************)
ModeAt(p) == pc[p] = "replace" => temp[p].mode # Private

LEMMA ModeInvStep == TypeOK /\ ModeInv /\ [Next]_vars => ModeInv'
  <1> SUFFICES ASSUME TypeOK, ModeInv, [Next]_vars
               PROVE  ModeInv'
    OBVIOUS
  <1> USE DEF ModeInv, NeverPrivate
  <1>1. ASSUME NEW p \in Procs, Step(p)
        PROVE  ModeInv'
    <2>1. ModeAt(p)'
      <3>1. CASE Chmod(p)
        <4>1. Bits(p) # Private
          BY ModeAssumption DEF TypeOK, LocalType, Bits
        <4> QED
          BY <3>1, <4>1 DEF Chmod, ModeAt, TempFile, Goto, TypeOK, TempType, ControlType
      <3>2. CASE ~Chmod(p)
        <4>1. pc'[p] # "replace"
          BY <1>1, <3>2 DEF Step, InitResolve, InitExists, FormatResolve, LoadResolve,
            StatOriginal, ReadOriginal, Stat, Read, StatOf, Judge, Mutate, Post, AfterPost,
            ResolveDest, Compare, Unencodable, Mkstemp, Bind, Write, Flush, Fsync, Replace,
            Cleanup, Reply,
            Goto, Answer, TypeOK, ControlType
        <4> QED
          BY <4>1 DEF ModeAt
      <3> QED
        BY <3>1, <3>2
    <2>2. ASSUME NEW q \in Procs PROVE ModeAt(q)'
      BY <1>1, <2>1, OthersKeep DEF ModeAt, Same
    <2>3. NeverPrivate'
      <3>1. CASE Replace(p)
        <4>1. dest[p] \in Targets /\ temp[p].mode # Private
          BY <3>1 DEF Replace, TypeOK, LocalType
        <4> QED
          BY <3>1, <4>1 DEF Replace, TypeOK, DiskType
      <3>2. CASE ~Replace(p)
        <4>1. UNCHANGED mode
          BY <1>1, <3>2 DEF Step, InitResolve, InitExists, FormatResolve, LoadResolve,
            StatOriginal, ReadOriginal, Stat, Read, StatOf, Judge, Mutate, Post, ResolveDest,
            Compare, Unencodable, Mkstemp, Bind, Write, Flush, Fsync, Chmod, Cleanup,
            Reply, disk
        <4> QED
          BY <4>1
      <3> QED
        BY <3>1, <3>2
    <2> QED
      BY <2>2, <2>3 DEF ModeAt
  <1>2. ASSUME NEW p \in Procs, IOFault(p) \/ ReplyFault(p) \/ Interrupt(p) \/ Kill(p)
        PROVE  ModeInv'
    <2>1. UNCHANGED <<mode, temp>> /\ pc'[p] # "replace"
      BY <1>2 DEF IOFault, ReplyFault, Interrupt, Kill, Goto, Answer, disk, TypeOK, ControlType
    <2> QED
      BY <1>2, <2>1, OthersKeep DEF Same
  <1>3. ASSUME \/ \E t \in Targets : Edit(t) \/ Sync(t)
               \/ Retarget \/ TouchPath \/ PowerLoss \/ AllEnded
        PROVE  ModeInv'
    <2>1. UNCHANGED <<mode, temp>>
      BY <1>3 DEF Edit, Sync, Retarget, TouchPath, PowerLoss, AllEnded, disk, vars
    <2>2. \A q \in Procs : pc'[q] = pc[q] \/ pc'[q] = "killed"
      BY <1>3, AroundKeeps DEF Same
    <2> QED
      BY <2>1, <2>2
  <1>4. CASE UNCHANGED vars
    BY <1>4 DEF vars, disk
  <1> QED
    BY <1>1, <1>2, <1>3, <1>4 DEF Next

(* mkstemp's 0600 never becomes the mode of a target.                      *)
THEOREM ModeKept == Spec => []NeverPrivate
  <1>1. Init => ModeInv
    BY DEF Init, ModeInv, NeverPrivate
  <1>2. ModeInv => NeverPrivate
    BY DEF ModeInv
  <1> QED
    BY <1>1, <1>2, ModeInvStep, TypeCorrect, PTL DEF Spec

(***************************************************************************)
(* Where an installed document comes from.                                 *)
(***************************************************************************)
LEMMA OriginAtStep ==
  ASSUME TypeOK, DataInv, OriginInv, ReplyInv, NEW p \in Procs, Step(p)
  PROVE  OriginAt(p)'
  <1> USE DEF TypeOK, ControlType, LocalType, Goto, Answer, locals
  <1>1. OriginAt(p) /\ ReplyAt(p) /\ Command[p] \in Commands
    BY CommandAssumption DEF OriginInv, ReplyInv
  <1>2. p \notin installed \/ Reply(p)
    BY <1>1 DEF ReplyAt, Steps, Step, InitResolve, InitExists, FormatResolve, LoadResolve,
      StatOriginal, ReadOriginal, Stat, Read, StatOf, Judge, Mutate, Post, ResolveDest,
      Compare, Unencodable,
      Mkstemp, Bind, Write, Flush, Fsync, Chmod, Cleanup, Replace
  <1> USE DEF OriginAt, BeforeLoad, Loaded, Built, PastPost, Writing, Holding, Formats, Writers,
    Commands, Made, Differs
  <1>3. CASE InitResolve(p)
    BY <1>1, <1>2, <1>3 DEF InitResolve, Reply
  <1>4. CASE InitExists(p)
    BY <1>1, <1>2, <1>4 DEF InitExists, Reply
  <1>5. CASE FormatResolve(p)
    BY <1>1, <1>2, <1>5 DEF FormatResolve, Reply
  <1>6. CASE LoadResolve(p)
    BY <1>1, <1>2, <1>6 DEF LoadResolve, Reply
  <1>7. CASE StatOriginal(p) \/ Stat(p)
    BY <1>1, <1>2, <1>7, ZenonT(60) DEF StatOriginal, Stat, StatOf, Reply
  <1>8. CASE ReadOriginal(p)
    BY <1>1, <1>2, <1>8 DEF ReadOriginal, Reply
  <1>9. CASE Read(p)
    BY <1>1, <1>2, <1>9, ZenonT(60) DEF Read, Reply
  <1>10. CASE Judge(p)
    <2>1. pc[p] = "judge" /\ p \notin installed /\ Command[p] # "init" /\ doc[p] \in Docs
      BY <1>1, <1>2, <1>10 DEF Judge, Reply, DataInv, DataAt
    <2>2. LoadVerdict[doc[p]] \in LoadCodes \cup {"ok"}
      BY <2>1, DocumentAssumption
    <2>3. UNCHANGED <<doc, original, installed>>
      BY <1>10 DEF Judge
    <2>4. \/ /\ pc'[p] = "reply"
             /\ (code'[p] # "ok" \/ Command[p] \in {"query", "validate"})
          \/ /\ pc'[p] = "mutate" /\ Command[p] = "edit"
             /\ LoadVerdict[doc[p]] = "ok"
          \/ /\ pc'[p] = "post" /\ Command[p] \in Formats
             /\ out'[p] = Canon[doc[p]] /\ LoadVerdict[doc[p]] = "ok"
      BY <1>10, <2>1, <2>2 DEF Judge, LoadCodes
    <2> QED
      BY <2>1, <2>3, <2>4
  <1>11. CASE Mutate(p)
    <2>1. pc[p] = "mutate" /\ p \notin installed /\ Command[p] = "edit" /\ doc[p] \in Docs
          /\ LoadVerdict[doc[p]] = "ok"
      BY <1>1, <1>2, <1>11 DEF Mutate, Reply, DataInv, DataAt
    <2>2. UNCHANGED <<doc, original, installed>>
      BY <1>11 DEF Mutate
    <2>3. \/ pc'[p] = "reply"
          \/ /\ pc'[p] = "post" /\ Verdict[p][doc[p]] = "ok"
             /\ out'[p] = Effect[p][doc[p]]
      BY <1>11 DEF Mutate
    <2> QED
      BY <2>1, <2>2, <2>3
  <1>12. CASE Post(p)
    BY <1>1, <1>2, <1>12, ZenonT(60) DEF Post, AfterPost, PostFails, Reply
  <1>13. CASE ResolveDest(p)
    BY <1>1, <1>2, <1>13 DEF ResolveDest, Reply
  <1>14. CASE Compare(p)
    BY <1>1, <1>2, <1>14, ZenonT(60) DEF Compare, Rewrites, Reply
  <1>20. CASE Unencodable(p)
    BY <1>1, <1>2, <1>20 DEF Unencodable, Reply
  <1>15. CASE Mkstemp(p) \/ Bind(p) \/ Write(p) \/ Flush(p) \/ Fsync(p)
    BY <1>1, <1>2, <1>15 DEF Mkstemp, Bind, Write, Flush, Fsync, Reply
  <1>16. CASE Chmod(p)
    BY <1>1, <1>2, <1>16 DEF Chmod, Reply
  <1>17. CASE Replace(p)
    BY <1>1, <1>17 DEF Replace
  <1>18. CASE Cleanup(p)
    BY <1>1, <1>2, <1>18 DEF Cleanup, Reply, ReplyAt
  <1>19. CASE Reply(p)
    BY <1>1, <1>19 DEF Reply
  <1> QED
    BY <1>3, <1>4, <1>5, <1>6, <1>7, <1>8, <1>9, <1>10, <1>11, <1>12, <1>13, <1>14, <1>15,
       <1>16, <1>17, <1>18, <1>19, <1>20 DEF Step

LEMMA OriginAtFault ==
  ASSUME TypeOK, OriginInv, NEW p \in Procs,
         IOFault(p) \/ ReplyFault(p) \/ Interrupt(p) \/ Kill(p)
  PROVE  OriginAt(p)'
  <1>1. OriginAt(p)
    BY DEF OriginInv
  <1>2. UNCHANGED <<locals, installed>>
    BY DEF IOFault, ReplyFault, Interrupt, Kill
  <1>3. /\ pc'[p] \in {"reply", "cleanup", "done", "killed"}
        /\ code'[p] # "ok" \/ pc'[p] = "killed"
    BY DEF TypeOK, ControlType, Goto, Answer, IOFault, ReplyFault, Interrupt, Kill, Holding
  <1> QED
    BY <1>1, <1>2, <1>3 DEF OriginAt, Loaded, BeforeLoad, Built, PastPost, Writing,
      Holding, Made,
      Differs, locals

LEMMA OriginAtSame ==
  ASSUME NEW q \in Procs, OriginAt(q), Same(q)
  PROVE  OriginAt(q)'
  BY DEF OriginAt, Made, Differs, Same

LEMMA OriginAtKilled ==
  ASSUME NEW q \in Procs, OriginAt(q), pc'[q] = "killed", UNCHANGED <<locals, code, installed>>
  PROVE  OriginAt(q)'
  BY DEF OriginAt, Loaded, BeforeLoad, Built, PastPost, Writing, Holding, Made, Differs, locals

(***************************************************************************)
(* The answer and what was done.                                           *)
(***************************************************************************)
LEMMA ReplyAtStep ==
  ASSUME TypeOK, DataInv, ReplyInv, OriginInv, NEW p \in Procs, Step(p)
  PROVE  ReplyAt(p)'
  <1> USE DEF TypeOK, ControlType, LocalType, Goto, Answer, locals
  <1>1. ReplyAt(p) /\ OriginAt(p) /\ Command[p] \in Commands
    BY CommandAssumption DEF ReplyInv, OriginInv
  <1> USE DEF ReplyAt, Steps
  <1>2. CASE InitResolve(p) \/ FormatResolve(p) \/ LoadResolve(p) \/ ResolveDest(p)
             \/ Mkstemp(p) \/ Bind(p) \/ Write(p) \/ Flush(p) \/ Fsync(p)
    BY <1>1, <1>2 DEF InitResolve, FormatResolve, LoadResolve, ResolveDest, Mkstemp, Bind,
      Write,
      Flush, Fsync
  <1>3. CASE InitExists(p) \/ ReadOriginal(p) \/ Read(p)
    BY <1>1, <1>3 DEF InitExists, ReadOriginal, Read
  <1>4. CASE StatOriginal(p) \/ Stat(p)
    BY <1>1, <1>4 DEF StatOriginal, Stat, StatOf
  <1>5. CASE Judge(p)
    <2>1. pc[p] = "judge" /\ p \notin installed /\ code[p] = "none" /\ doc[p] \in Docs
      BY <1>1, <1>5 DEF Judge, DataInv, DataAt, Loaded
    <2>2. LoadVerdict[doc[p]] \in LoadCodes \cup {"ok"} /\ UNCHANGED installed
      BY <1>5, <2>1, DocumentAssumption DEF Judge
    <2>3. \/ /\ pc'[p] = "reply" /\ code'[p] # "none"
             /\ (code'[p] # "ok" \/ Command[p] \in {"query", "validate"})
          \/ pc'[p] \in {"mutate", "post"} /\ code'[p] = "none"
      BY <1>5, <2>1, <2>2 DEF Judge, LoadCodes
    <2>4. p \notin installed'
      BY <2>1, <2>2
    <2> QED
      BY <2>3, <2>4
  <1>6. CASE Mutate(p)
    <2>1. pc[p] = "mutate" /\ p \notin installed /\ code[p] = "none" /\ doc[p] \in Docs
      BY <1>1, <1>6 DEF Mutate, DataInv, DataAt, Loaded
    <2>2. Verdict[p][doc[p]] \in MutateCodes \cup {"ok"}
      BY <2>1, VerdictType
    <2>3. \/ pc'[p] = "reply" /\ code'[p] \notin {"none", "ok"}
          \/ pc'[p] = "post" /\ code'[p] = "none"
      BY <1>6, <2>1, <2>2 DEF Mutate, MutateCodes
    <2>4. p \notin installed'
      BY <1>6, <2>1 DEF Mutate
    <2> QED
      BY <2>3, <2>4
  <1>7. CASE Post(p)
    BY <1>1, <1>7 DEF Post, AfterPost
  <1>8. CASE Compare(p)
    BY <1>1, <1>8 DEF Compare, Rewrites, OriginAt, Formats
  <1>13. CASE Unencodable(p)
    BY <1>1, <1>13 DEF Unencodable, ErrorCodes, MutateCodes, LoadCodes, FileCodes
  <1>9. CASE Chmod(p)
    BY <1>1, <1>9 DEF Chmod
  <1>10. CASE Replace(p)
    BY <1>1, <1>10 DEF Replace, ErrorCodes, MutateCodes, LoadCodes, FileCodes
  <1>11. CASE Cleanup(p)
    BY <1>1, <1>11 DEF Cleanup
  <1>12. CASE Reply(p)
    BY <1>1, <1>12 DEF Reply
  <1> QED
    BY <1>2, <1>3, <1>4, <1>5, <1>6, <1>7, <1>8, <1>9, <1>10, <1>11, <1>12, <1>13 DEF Step

LEMMA ReplyAtFault ==
  ASSUME TypeOK, ReplyInv, NEW p \in Procs,
         IOFault(p) \/ ReplyFault(p) \/ Interrupt(p) \/ Kill(p)
  PROVE  ReplyAt(p)'
  <1> USE DEF TypeOK, ControlType, Goto, Answer, ReplyAt, Steps, Holding, locals
  <1>1. ReplyAt(p)
    BY DEF ReplyInv
  <1>2. CASE IOFault(p)
    BY <1>1, <1>2 DEF IOFault
  <1>3. CASE ReplyFault(p)
    BY <1>1, <1>3 DEF ReplyFault, ErrorCodes, MutateCodes, LoadCodes, FileCodes
  <1>4. CASE Interrupt(p)
    BY <1>1, <1>4 DEF Interrupt, ErrorCodes, MutateCodes, LoadCodes, FileCodes
  <1>5. CASE Kill(p)
    BY <1>1, <1>5 DEF Kill
  <1> QED
    BY <1>2, <1>3, <1>4, <1>5

LEMMA ReplyAtSame ==
  ASSUME NEW q \in Procs, ReplyAt(q), Same(q)
  PROVE  ReplyAt(q)'
  BY DEF ReplyAt, Same
LEMMA ReplyAtKilled ==
  ASSUME TypeOK, NEW q \in Procs, ReplyAt(q), pc'[q] = "killed"
  PROVE  ReplyAt(q)'
  BY DEF ReplyAt, Steps

(***************************************************************************)
(* The temporary file.                                                     *)
(***************************************************************************)
LEMMA TempAtStep ==
  ASSUME TypeOK, ReplyInv, TempInv, NEW p \in Procs, Step(p)
  PROVE  TempAt(p)'
  <1> USE DEF TypeOK, ControlType, LocalType, TempType, Goto, Answer, locals
  <1>1. TempAt(p) /\ ReplyAt(p)
    BY DEF TempInv, ReplyInv
  <1> USE DEF TempAt, Deciding, Loaded, BeforeLoad
  <1>2. CASE InitResolve(p) \/ InitExists(p) \/ FormatResolve(p) \/ LoadResolve(p)
             \/ ResolveDest(p) \/ ReadOriginal(p) \/ Read(p)
    BY <1>1, <1>2 DEF InitResolve, InitExists, FormatResolve, LoadResolve, ResolveDest,
      ReadOriginal, Read
  <1>3. CASE StatOriginal(p) \/ Stat(p)
    BY <1>1, <1>3 DEF StatOriginal, Stat, StatOf
  <1>4. CASE Judge(p)
    <2>1. pc[p] = "judge" /\ UNCHANGED temp
      BY <1>4 DEF Judge
    <2> QED
      BY <1>1, <1>4, <2>1 DEF Judge
  <1>5. CASE Mutate(p)
    <2>1. pc[p] = "mutate" /\ UNCHANGED temp
      BY <1>5 DEF Mutate
    <2> QED
      BY <1>1, <2>1
  <1>6. CASE Post(p) \/ Compare(p) \/ Unencodable(p)
    BY <1>1, <1>6 DEF Post, AfterPost, Compare, Unencodable
  <1>7. CASE Mkstemp(p) \/ Bind(p) \/ Write(p) \/ Flush(p) \/ Fsync(p)
    BY <1>7 DEF Mkstemp, Bind, Write, Flush, Fsync
  <1>8. CASE Chmod(p)
    BY <1>8 DEF Chmod
  <1>9. CASE Replace(p) \/ Cleanup(p)
    BY <1>9 DEF Replace, Cleanup
  <1>10. CASE Reply(p)
    BY <1>1, <1>10 DEF Reply
  <1> QED
    BY <1>2, <1>3, <1>4, <1>5, <1>6, <1>7, <1>8, <1>9, <1>10 DEF Step

LEMMA TempAtFault ==
  ASSUME TypeOK, TempInv, NEW p \in Procs,
         IOFault(p) \/ ReplyFault(p) \/ Interrupt(p) \/ Kill(p)
  PROVE  TempAt(p)'
  <1> USE DEF TypeOK, ControlType, Goto, Answer, TempAt, Deciding, Loaded, BeforeLoad, Holding,
    ErrorCodes, MutateCodes, LoadCodes, FileCodes
  <1>1. TempAt(p)
    BY DEF TempInv
  <1>2. CASE IOFault(p)
    BY <1>1, <1>2 DEF IOFault
  <1>3. CASE ReplyFault(p)
    BY <1>1, <1>3 DEF ReplyFault
  <1>4. CASE Interrupt(p)
    BY <1>1, <1>4 DEF Interrupt
  <1>5. CASE Kill(p)
    BY <1>1, <1>5 DEF Kill
  <1> QED
    BY <1>2, <1>3, <1>4, <1>5

LEMMA TempAtSame ==
  ASSUME NEW q \in Procs, TempAt(q), Same(q)
  PROVE  TempAt(q)'
  BY DEF TempAt, Same

(***************************************************************************)
(* The three parts are kept by every step.                                 *)
(***************************************************************************)
Known(p) == OriginAt(p) /\ ReplyAt(p) /\ TempAt(p)
KnownInv == \A p \in Procs : Known(p)

LEMMA KnownSame ==
  ASSUME NEW q \in Procs, Known(q), Same(q)
  PROVE  Known(q)'
  BY OriginAtSame, ReplyAtSame, TempAtSame DEF Known

LEMMA KnownStep == TypeOK /\ DataInv /\ KnownInv /\ [Next]_vars => KnownInv'
  <1> SUFFICES ASSUME TypeOK, DataInv, KnownInv, [Next]_vars, NEW q \in Procs
               PROVE  Known(q)'
    BY DEF KnownInv
  <1>1. OriginInv /\ ReplyInv /\ TempInv /\ Known(q)
    BY DEF KnownInv, Known, OriginInv, ReplyInv, TempInv
  <1>2. ASSUME NEW p \in Procs, Step(p)
        PROVE  Known(q)'
    <2>1. CASE q = p
      BY <1>1, <1>2, <2>1, OriginAtStep, ReplyAtStep, TempAtStep DEF Known
    <2>2. CASE q # p
      BY <1>1, <1>2, <2>2, OthersKeep, KnownSame
    <2> QED
      BY <2>1, <2>2
  <1>3. ASSUME NEW p \in Procs, IOFault(p) \/ ReplyFault(p) \/ Interrupt(p) \/ Kill(p)
        PROVE  Known(q)'
    <2>1. CASE q = p
      BY <1>1, <1>3, <2>1, OriginAtFault, ReplyAtFault, TempAtFault DEF Known
    <2>2. CASE q # p
      BY <1>1, <1>3, <2>2, OthersKeep, KnownSame
    <2> QED
      BY <2>1, <2>2
  <1>4. ASSUME \/ \E t \in Targets : Edit(t) \/ Sync(t)
               \/ Retarget \/ TouchPath \/ PowerLoss \/ AllEnded
        PROVE  Known(q)'
    <2>1. CASE Same(q)
      BY <1>1, <2>1, KnownSame
    <2>2. CASE pc'[q] = "killed" /\ UNCHANGED <<temp, locals, code, installed>>
      <3>1. TempAt(q)'
        BY <2>2 DEF TempAt, Deciding, Loaded, BeforeLoad
      <3> QED
        BY <1>1, <2>2, <3>1, OriginAtKilled, ReplyAtKilled DEF Known
    <2> QED
      BY <1>4, <2>1, <2>2, AroundKeeps
  <1>5. CASE UNCHANGED vars
    <2>1. Same(q)
      BY <1>5 DEF vars, locals, Same
    <2> QED
      BY <1>1, <2>1, KnownSame
  <1> QED
    BY <1>2, <1>3, <1>4, <1>5 DEF Next

LEMMA KnownInit == Init => KnownInv
  <1> SUFFICES ASSUME Init, NEW q \in Procs
               PROVE  Known(q)
    BY DEF KnownInv
  <1>1. pc[q] = "start" /\ code[q] = "none" /\ doc[q] = Absent /\ installed = {}
        /\ temp[q] = NoTemp
    BY DEF Init
  <1>2. OriginAt(q)
    BY <1>1 DEF OriginAt, BeforeLoad, Loaded, Built, PastPost, Writing, Holding
  <1>3. ReplyAt(q) /\ TempAt(q)
    BY <1>1 DEF ReplyAt, TempAt
  <1> QED
    BY <1>2, <1>3 DEF Known

LEMMA KnownAlways == Spec => []KnownInv
  BY KnownInit, KnownStep, TypeCorrect, PTL DEF Spec

(* Only a document that passed the second validation, made by a writing    *)
(* command from the one snapshot it loaded, is ever installed.             *)
THEOREM ValidatedWrites == Spec => []InstalledOnlyValidated
  <1>1. TypeOK /\ KnownInv => InstalledOnlyValidated
    BY DEF TypeOK, ControlType, KnownInv, Known, OriginAt, Made, InstalledOnlyValidated, Formats
  <1> QED
    BY <1>1, TypeCorrect, KnownAlways, PTL

(* What an invocation answers is what it did to its target.                *)
THEOREM HonestReply == Spec => []ReplyMatchesEffect
  <1>1. KnownInv => ReplyMatchesEffect
    BY DEF KnownInv, Known, ReplyAt, ReplyMatchesEffect
  <1> QED
    BY <1>1, KnownAlways, PTL

(* A result, or any error but ERR-INTERNAL, leaves no temporary file.      *)
THEOREM NoTempLeft == Spec => []TempRemoved
  <1>1. KnownInv => TempRemoved
    BY DEF KnownInv, Known, TempAt, TempRemoved
  <1> QED
    BY <1>1, KnownAlways, PTL

(* Only a writing command changes a file, once, and no other target.       *)
THEOREM OnlyWriters == Spec => OnlyWritersReplace
  <1> DEFINE Footprint(p) ==
        Step(p) /\ <<file, mode>>' # <<file, mode>>
          => /\ Command[p] \in Writers /\ p \notin installed
             /\ \A t \in Targets \ {dest[p]} : file'[t] = file[t] /\ mode'[t] = mode[t]
  <1>1. ASSUME TypeOK, KnownInv, NEW p \in Procs, Step(p), <<file, mode>>' # <<file, mode>>
        PROVE  Footprint(p)
    <2>1. Replace(p)
      BY <1>1 DEF Step, InitResolve, InitExists, FormatResolve, LoadResolve, StatOriginal,
        ReadOriginal, Stat, Read, StatOf, Judge, Mutate, Post, ResolveDest, Compare,
        Unencodable, Mkstemp,
        Bind, Write, Flush, Fsync, Chmod, Cleanup, Reply, disk
    <2>2. Command[p] \in Writers /\ p \notin installed
      BY <1>1, <2>1 DEF Replace, KnownInv, Known, OriginAt, ReplyAt, Writing, Holding, Steps
    <2> QED
      BY <1>1, <2>1, <2>2 DEF Replace, TypeOK, DiskType
  <1>2. TypeOK /\ KnownInv /\ [Next]_vars => [\A p \in Procs : Footprint(p)]_vars
    BY <1>1
  <1> QED
    BY <1>2, TypeCorrect, KnownAlways, PTL DEF Spec, OnlyWritersReplace

(* An ok from format or format --check agrees with the bytes compared.     *)
THEOREM HonestFormat == Spec => []FormatTellsTruth
  <1>1. KnownInv => FormatTellsTruth
    <2> SUFFICES ASSUME KnownInv, NEW p \in Procs, pc[p] = "done",
                        code[p] = "ok", Command[p] \in Formats, original[p] = doc[p]
                 PROVE  /\ out[p] = Canon[doc[p]]
                        /\ Command[p] = "format" => (p \in installed <=> Canon[doc[p]] # doc[p])
      BY DEF FormatTellsTruth
    <2>1. OriginAt(p) /\ ReplyAt(p)
      BY DEF KnownInv, Known
    <2>2. out[p] = Canon[doc[p]]
      BY <2>1 DEF OriginAt, Made
    <2>3. ASSUME Command[p] = "format"
          PROVE  p \in installed <=> Canon[doc[p]] # doc[p]
      BY <2>1, <2>2, <2>3 DEF OriginAt, ReplyAt, Differs
    <2> QED
      BY <2>2, <2>3
  <1> QED
    BY <1>1, KnownAlways, PTL
(***************************************************************************)
(* Failures and what caused them.                                          *)
(***************************************************************************)
LEMMA SpentKeeps ==
  ASSUME TypeOK, SpentInv, [Next]_vars
  PROVE  /\ SpentInv'
         /\ \A k \in Disturbances : Spent(k) \in Int /\ Spent(k)' \in Int /\ Spent(k)' >= Spent(k)
  <1> USE DEF TypeOK, ControlType
  <1>1. UNCHANGED left \/ \E k \in Disturbances : Spend(k)
    <2> USE DEF Disturbances
    <2>1. ASSUME NEW p \in Procs, Step(p)
          PROVE  UNCHANGED left
      BY <2>1 DEF Step, InitResolve, InitExists, FormatResolve, LoadResolve, StatOriginal,
        ReadOriginal, Stat, Read, StatOf, Judge, Mutate, Post, ResolveDest, Compare,
        Unencodable, Mkstemp,
        Bind, Write, Flush, Fsync, Chmod, Replace, Cleanup, Reply
    <2>2. ASSUME NEW p \in Procs, IOFault(p) \/ ReplyFault(p) \/ Interrupt(p) \/ Kill(p)
          PROVE  UNCHANGED left \/ \E k \in Disturbances : Spend(k)
      BY <2>2 DEF IOFault, ReplyFault, Interrupt, Kill
    <2>3. ASSUME \/ \E t \in Targets : Edit(t) \/ Sync(t)
                 \/ Retarget \/ TouchPath \/ PowerLoss \/ AllEnded
          PROVE  UNCHANGED left \/ \E k \in Disturbances : Spend(k)
      BY <2>3 DEF Edit, Sync, Retarget, TouchPath, PowerLoss, AllEnded, vars
    <2> QED
      BY <2>1, <2>2, <2>3 DEF Next, vars
  <1>2. \A k \in Disturbances : left'[k] \in Int /\ left[k] \in Int /\ left'[k] <= left[k]
    BY <1>1 DEF Spend
  <1>3. Budget \in [Disturbances -> Nat]
    BY BudgetAssumption
  <1> QED
    BY <1>2, <1>3 DEF Spent, SpentInv

(* The path stays as it is unless its disturbance is spent.                *)
LEMMA PathKeeps ==
  ASSUME TypeOK, SpentInv, [Next]_vars, Spent("path")' = 0
  PROVE  Spent("path") = 0 /\ UNCHANGED present
  <1> "path" \in Disturbances
    BY DEF Disturbances
  <1>1. Spent("path") = 0
    BY SpentKeeps DEF SpentInv
  <1>2. ~TouchPath
    BY <1>1, BudgetAssumption DEF TouchPath, Spend, Spent, TypeOK, ControlType
  <1>3. ASSUME NEW p \in Procs, Step(p)
        PROVE  UNCHANGED present
    BY <1>3 DEF Step, InitResolve, InitExists, FormatResolve, LoadResolve, StatOriginal,
      ReadOriginal, Stat, Read, StatOf, Judge, Mutate, Post, ResolveDest, Compare,
      Unencodable, Mkstemp,
      Bind, Write, Flush, Fsync, Chmod, Replace, Cleanup, Reply, environment
  <1>4. ASSUME NEW p \in Procs, IOFault(p) \/ ReplyFault(p) \/ Interrupt(p) \/ Kill(p)
        PROVE  UNCHANGED present
    BY <1>4 DEF IOFault, ReplyFault, Interrupt, Kill, environment
  <1>5. ASSUME (\E t \in Targets : Edit(t) \/ Sync(t)) \/ Retarget \/ PowerLoss \/ AllEnded
        PROVE  UNCHANGED present
    BY <1>5 DEF Edit, Sync, Retarget, PowerLoss, AllEnded, vars, environment
  <1>6. CASE UNCHANGED vars
    BY <1>1, <1>6 DEF vars, environment
  <1> QED
    BY <1>1, <1>2, <1>3, <1>4, <1>5, <1>6 DEF Next

(* What is known of an invocation that a step leaves where it is.          *)
LEMMA CauseAtSame ==
  ASSUME TypeOK, SpentInv, [Next]_vars, NEW q \in Procs, CauseAt(q),
         \/ Same(q)
         \/ pc'[q] = "killed" /\ UNCHANGED <<locals, code, installed>> /\ pc[q] # "done"
  PROVE  CauseAt(q)'
  <1>1. {"path", "reply", "fault", "signal"} \subseteq Disturbances
    BY DEF Disturbances
  <1>2. \A k \in Disturbances : Spent(k) \in Int /\ Spent(k)' \in Int /\ Spent(k)' >= Spent(k)
                                  /\ Spent(k) >= 0
    BY SpentKeeps DEF SpentInv
  <1>3. Spent("path")' = 0 => Spent("path") = 0 /\ UNCHANGED present
    BY PathKeeps
  <1> HIDE DEF Spent
  <1> QED
    BY <1>1, <1>2, <1>3 DEF CauseAt, MayGarble, Same, PathError, locals

(* Either the watched path has been touched or it has not.                *)
LEMMA ZeroOrMore ==
  ASSUME NEW n \in Int, n >= 0
  PROVE  n = 0 \/ n > 0
  OBVIOUS

LEMMA CauseAtStep ==
  ASSUME TypeOK, DataInv, KnownInv, CauseInv, NEW p \in Procs, Step(p)
  PROVE  CauseAt(p)'
  <1> USE DEF TypeOK, ControlType, LocalType, Goto, Answer, locals, environment
  <1>1. OriginAt(p) /\ ReplyAt(p) /\ CauseAt(p) /\ Command[p] \in Commands
    BY CommandAssumption DEF KnownInv, Known, CauseInv
  <1>2. \A k \in Disturbances : Spent(k)' = Spent(k) /\ Spent(k) \in Int /\ Spent(k) >= 0
    <2>1. [Next]_vars /\ UNCHANGED left
      BY DEF Next, Step, InitResolve, InitExists, FormatResolve, LoadResolve, StatOriginal,
        ReadOriginal, Stat, Read, StatOf, Judge, Mutate, Post, ResolveDest, Compare,
        Unencodable, Mkstemp,
        Bind, Write, Flush, Fsync, Chmod, Replace, Cleanup, Reply
    <2> QED
      BY <2>1, SpentKeeps DEF CauseInv, SpentInv, Spent
  <1>3. {"path", "reply", "fault", "signal"} \subseteq Disturbances
    BY DEF Disturbances
  <1>4. UNCHANGED present
    BY DEF Step, InitResolve, InitExists, FormatResolve, LoadResolve, StatOriginal,
      ReadOriginal, Stat, Read, StatOf, Judge, Mutate, Post, ResolveDest, Compare,
      Unencodable, Mkstemp,
      Bind, Write, Flush, Fsync, Chmod, Replace, Cleanup, Reply
  <1> USE DEF CauseAt, ReplyAt, Steps
  <1>5. CASE InitResolve(p) \/ FormatResolve(p) \/ LoadResolve(p) \/ ResolveDest(p)
             \/ Mkstemp(p) \/ Bind(p) \/ Write(p) \/ Flush(p) \/ Fsync(p)
    BY <1>1, <1>2, <1>3, <1>5 DEF InitResolve, FormatResolve, LoadResolve, ResolveDest, Mkstemp,
      Bind, Write, Flush, Fsync
  <1>6. CASE InitExists(p) \/ ReadOriginal(p) \/ Read(p)
    BY <1>1, <1>2, <1>3, <1>6 DEF InitExists, ReadOriginal, Read, OriginAt
  <1>7. CASE StatOriginal(p) \/ Stat(p)
    BY <1>1, <1>2, <1>3, <1>7 DEF StatOriginal, Stat, StatOf
  <1>8. CASE Judge(p)
    <2>1. /\ pc[p] = "judge" /\ p \notin installed /\ code[p] = "none" /\ doc[p] \in Docs
          /\ Command[p] # "init"
      BY <1>1, <1>8 DEF Judge, DataInv, DataAt, Loaded, OriginAt
    <2>2. LoadVerdict[doc[p]] \in LoadCodes \cup {"ok"} /\ UNCHANGED <<doc, installed>>
      BY <1>8, <2>1, DocumentAssumption DEF Judge
    <2>3. \/ pc'[p] = "reply" /\ code'[p] \in {"ok", "ERR-NOT-FOUND"} \cup LoadCodes
          \/ pc'[p] = "mutate" /\ code'[p] = "none" /\ ~PathError(p, doc[p])
          \/ pc'[p] = "post" /\ code'[p] = "none" /\ ~PathError(p, doc[p])
             /\ out'[p] = Canon[doc[p]]
      BY <1>8, <2>1, <2>2 DEF Judge, LoadCodes, Formats
    <2>4. Canon[doc[p]] \in Naming => doc[p] \in Naming
      BY <2>1, NamingAssumption
    <2>5. p \notin installed'
      BY <2>1, <2>2
    <2> QED
      BY <1>4, <2>2, <2>3, <2>4, <2>5 DEF PathError, LoadCodes
  <1>9. CASE Mutate(p)
    <2>1. /\ pc[p] = "mutate" /\ p \notin installed /\ code[p] = "none" /\ doc[p] \in Docs
          /\ Command[p] = "edit"
      BY <1>1, <1>9 DEF Mutate, DataInv, DataAt, Loaded, OriginAt
    <2>2. Verdict[p][doc[p]] \in MutateCodes \cup {"ok"} /\ UNCHANGED <<doc, installed>>
      BY <1>9, <2>1, VerdictType DEF Mutate
    <2>3. \/ pc'[p] = "reply" /\ code'[p] \in MutateCodes
          \/ pc'[p] = "post" /\ code'[p] = "none" /\ ~InputPathMissing(p)
             /\ out'[p] = Effect[p][doc[p]]
      BY <1>9, <2>1, <2>2 DEF Mutate, MutateCodes
    <2>4. Effect[p][doc[p]] \in Naming => doc[p] \in Naming \/ p \in NamesInput
      BY <2>1, NamingAssumption
    <2>5. Spent("path")' = 0 => ~PathError(p, doc[p])
      BY <1>1, <1>2, <1>3, <2>1
    <2>6. p \notin installed'
      BY <2>1, <2>2
    <2> QED
      BY <1>4, <2>2, <2>3, <2>4, <2>5, <2>6 DEF PathError, InputPathMissing, MutateCodes
  <1>10. CASE Post(p)
    <2>1. pc[p] = "post" /\ p \notin installed /\ code[p] = "none" /\ out[p] \in Docs
      BY <1>1, <1>10 DEF Post, DataInv, DataAt, Built
    <2>2. UNCHANGED <<out, installed>>
      BY <1>10 DEF Post
    <2>3. \/ pc'[p] = "reply" /\ code'[p] = "ERR-INTERNAL" /\ PostFails(p)
          \/ pc'[p] \in {"mkstemp", "resolve dest", "compare"} /\ code'[p] = "none"
      BY <1>10, <2>1 DEF Post, AfterPost
    <2>4. PostFails(p) => out[p] \notin PostOK \/ (p \in CheckPaths /\ Spent("path") > 0)
      <3>1. Spent("path") = 0 \/ Spent("path") > 0
        BY <1>2, <1>3, ZeroOrMore
      <3>2. Spent("path") = 0 => Command[p] = "init" \/ ~PathError(p, out[p])
        BY <1>1, <2>1
      <3>3. PathError(p, out[p]) => p \in CheckPaths
        BY DEF PathError
      <3> QED
        BY <3>1, <3>2, <3>3 DEF PostFails
    <2>5. p \notin installed'
      BY <2>1, <2>2
    <2> QED
      BY <1>2, <1>3, <2>1, <2>2, <2>3, <2>4, <2>5
  <1>11. CASE Compare(p)
    BY <1>1, <1>2, <1>3, <1>11 DEF Compare, Rewrites
  <1>16. CASE Unencodable(p)
    <2>1. pc[p] \in {"compare", "mkstemp"} /\ p \notin installed /\ MayGarble(p)
      BY <1>1, <1>16 DEF Unencodable
    <2>2. UNCHANGED <<doc, installed>> /\ pc'[p] = "reply" /\ code'[p] = "ERR-INTERNAL"
      BY <1>16 DEF Unencodable
    <2>3. MayGarble(p)' /\ p \notin installed'
      BY <2>1, <2>2 DEF MayGarble
    <2> QED
      BY <2>2, <2>3
  <1>12. CASE Chmod(p)
    BY <1>1, <1>2, <1>3, <1>12 DEF Chmod
  <1>13. CASE Replace(p)
    BY <1>1, <1>2, <1>3, <1>13 DEF Replace
  <1>14. CASE Cleanup(p)
    BY <1>1, <1>2, <1>3, <1>14 DEF Cleanup
  <1>15. CASE Reply(p)
    <2>1. pc'[p] = "done" /\ pc[p] = "reply" /\ UNCHANGED <<doc, out, code, installed>>
      BY <1>15 DEF Reply
    <2>2. code[p] # "traceback" /\ (MayGarble(p)' <=> MayGarble(p))
      BY <1>1, <2>1 DEF MayGarble
    <2> QED
      BY <1>1, <1>2, <1>3, <2>1, <2>2
  <1> QED
    BY <1>5, <1>6, <1>7, <1>8, <1>9, <1>10, <1>11, <1>12, <1>13, <1>14, <1>15, <1>16 DEF Step

LEMMA CauseAtFault ==
  ASSUME TypeOK, KnownInv, CauseInv, NEW p \in Procs,
         IOFault(p) \/ ReplyFault(p) \/ Interrupt(p) \/ Kill(p)
  PROVE  CauseAt(p)'
  <1>1. ReplyAt(p) /\ CauseAt(p)
    BY DEF KnownInv, Known, CauseInv
  <1>2. {"path", "reply", "fault", "signal"} \subseteq Disturbances
    BY DEF Disturbances
  <1>3. \A k \in Disturbances : Spent(k) \in Int /\ Spent(k)' \in Int /\ Spent(k)' >= Spent(k)
                                  /\ Spent(k) >= 0
    BY SpentKeeps DEF Next, CauseInv, SpentInv
  <1>4. \A k \in Disturbances : Spend(k) => Spent(k)' = Spent(k) + 1
    BY BudgetAssumption DEF Spend, Spent, TypeOK, ControlType
  <1>5. UNCHANGED <<installed, doc, out>>
    BY DEF IOFault, ReplyFault, Interrupt, Kill, locals
  <1>17. MayGarble(p)' <=> MayGarble(p)
    BY <1>5 DEF MayGarble
  <1>6. pc \in [Procs -> Steps \cup Ended] /\ code \in [Procs -> Codes]
    BY DEF TypeOK, ControlType
  (* The step, as far as it concerns the answer of p.                      *)
  <1>7. \/ Spend("fault") /\ code'[p] = "ERR-IO" /\ p \notin installed
           /\ pc'[p] \in {"reply", "cleanup"}
        \/ Spend("fault") /\ code'[p] = "ERR-INTERNAL" /\ p \notin installed /\ pc'[p] = "reply"
        \/ (Spend("reply") \/ MayGarble(p)) /\ code'[p] = "ERR-INTERNAL" /\ pc'[p] = "reply"
        \/ (Spend("reply") \/ MayGarble(p)) /\ code'[p] = "traceback" /\ pc'[p] = "done"
           /\ pc[p] = "reply" /\ code[p] # "ok"
        \/ Spend("signal") /\ code'[p] = "traceback" /\ pc'[p] = "done"
           /\ pc[p] = "reply" /\ code[p] # "ok"
        \/ Spend("signal") /\ code'[p] = "interrupt" /\ pc'[p] \in {"cleanup", "done"}
        \/ Spend("signal") /\ code'[p] = code[p] /\ pc'[p] = "killed" /\ code[p] # "traceback"
    <2>1. CASE IOFault(p)
      BY <1>1, <1>6, <2>1 DEF IOFault, Goto, Answer, ReplyAt, Holding, Steps
    <2>2. CASE ReplyFault(p)
      BY <1>1, <1>6, <2>2 DEF ReplyFault, Goto, Answer
    <2>3. CASE Interrupt(p)
      <3>1. code'[p] = IF pc[p] = "reply" /\ code[p] # "ok" THEN "traceback" ELSE "interrupt"
        BY <1>6, <2>3 DEF Interrupt
      <3>2. pc'[p] = IF pc[p] \in Holding THEN "cleanup" ELSE "done"
        BY <1>6, <2>3 DEF Interrupt, Goto
      <3> QED
        BY <2>3, <3>1, <3>2 DEF Interrupt, Holding
    <2>4. CASE Kill(p)
      BY <1>1, <1>6, <2>4 DEF Kill, Goto, CauseAt, Steps
    <2> QED
      BY <2>1, <2>2, <2>3, <2>4
  <1>8. Spend("fault") => Spent("reply")' + Spent("fault")' > 0
    BY <1>2, <1>3, <1>4
  <1>9. Spend("reply") => Spent("reply")' + Spent("fault")' > 0
    BY <1>2, <1>3, <1>4
  <1>10. Spend("reply") \/ Spend("signal") =>
           Spent("reply")' + Spent("signal")' >= Spent("reply") + Spent("signal") + 1
    BY <1>2, <1>3, <1>4
  <1>11. Spent("reply") + Spent("signal") \in Nat /\ Spent("reply")' + Spent("signal")' \in Nat
    BY <1>2, <1>3
  <1>12. pc'[p] \notin {"mutate", "post"}
    BY <1>7
  <1>13. code'[p] = "ERR-INTERNAL" =>
           \/ Spent("reply")' + Spent("fault")' > 0
           \/ p \in CheckPaths /\ Spent("path")' > 0
           \/ out'[p] \in Docs \ PostOK
           \/ MayGarble(p)'
    <2>1. CASE code[p] = "ERR-INTERNAL" /\ Spent("reply") + Spent("fault") > 0
      <3>1. Spent("reply")' + Spent("fault")' > 0
        BY <1>2, <1>3, <2>1
      <3> QED
        BY <3>1
    <2>2. CASE code[p] = "ERR-INTERNAL" /\ p \in CheckPaths /\ Spent("path") > 0
      <3>1. Spent("path")' > 0
        BY <1>2, <1>3, <2>2
      <3> QED
        BY <2>2, <3>1
    <2> QED
      BY <1>1, <1>5, <1>7, <1>8, <1>9, <1>17, <2>1, <2>2 DEF CauseAt
  <1>14. p \in installed' /\ pc'[p] = "reply" =>
           code'[p] = "ok" \/ Spent("reply")' + Spent("signal")' > 0 \/ MayGarble(p)'
    BY <1>5, <1>7, <1>10, <1>11, <1>17
  <1>15. code'[p] = "traceback" =>
           \/ Spent("reply")' + Spent("signal")' >= IF p \in installed' THEN 2 ELSE 1
           \/ MayGarble(p)'
    <2>1. code'[p] = "traceback" =>
            \/ MayGarble(p)
            \/ /\ Spend("reply") \/ Spend("signal")
               /\ pc[p] = "reply" /\ code[p] # "ok"
      BY <1>7
    <2>2. pc[p] = "reply" /\ code[p] # "ok" /\ p \in installed =>
            Spent("reply") + Spent("signal") > 0 \/ MayGarble(p)
      BY <1>1 DEF CauseAt
    <2> QED
      BY <1>5, <1>10, <1>11, <1>17, <2>1, <2>2
  <1>16. code'[p] = "traceback" => pc'[p] = "done"
    BY <1>7
  <1> QED
    BY <1>12, <1>13, <1>14, <1>15, <1>16 DEF CauseAt

LEMMA CauseStep == TypeOK /\ DataInv /\ KnownInv /\ CauseInv /\ [Next]_vars => CauseInv'
  <1> SUFFICES ASSUME TypeOK, DataInv, KnownInv, CauseInv, [Next]_vars, NEW q \in Procs
               PROVE  CauseAt(q)'
    BY SpentKeeps DEF CauseInv
  <1>1. SpentInv /\ CauseAt(q)
    BY DEF CauseInv
  <1>2. ASSUME NEW p \in Procs,
               Step(p) \/ IOFault(p) \/ ReplyFault(p) \/ Interrupt(p) \/ Kill(p)
        PROVE  CauseAt(q)'
    <2>1. CASE q = p
      BY <1>2, <2>1, CauseAtStep, CauseAtFault
    <2>2. CASE q # p
      BY <1>1, <1>2, <2>2, OthersKeep, CauseAtSame
    <2> QED
      BY <2>1, <2>2
  <1>3. ASSUME \/ \E t \in Targets : Edit(t) \/ Sync(t)
               \/ Retarget \/ TouchPath \/ PowerLoss \/ AllEnded
        PROVE  CauseAt(q)'
    <2>1. Same(q) \/ /\ pc'[q] = "killed" /\ UNCHANGED <<locals, code, installed>>
                     /\ pc[q] # "done"
      BY <1>3, AroundKeeps DEF Same, TypeOK, ControlType, Edit, Sync, Retarget, TouchPath,
        PowerLoss, AllEnded, vars, locals, Steps
    <2> QED
      BY <1>1, <2>1, CauseAtSame
  <1>4. CASE UNCHANGED vars
    <2>1. Same(q)
      BY <1>4 DEF vars, locals, Same
    <2> QED
      BY <1>1, <2>1, CauseAtSame
  <1> QED
    BY <1>2, <1>3, <1>4 DEF Next

LEMMA CauseInit == Init => CauseInv
  <1> SUFFICES ASSUME Init
               PROVE  CauseInv
    OBVIOUS
  <1>1. \A k \in Disturbances : Spent(k) = 0
    BY BudgetAssumption DEF Init, Spent
  <1>2. \A q \in Procs : pc[q] = "start" /\ code[q] = "none" /\ q \notin installed
    BY DEF Init
  <1> QED
    BY <1>1, <1>2 DEF CauseInv, SpentInv, CauseAt

(* ERR-INTERNAL and tracebacks come from a reply or a removal that failed, *)
(* a path that came or went, an error that the load did not report, or a   *)
(* lone surrogate, which nothing refuses before it has to be encoded.      *)
THEOREM FailuresHaveCauses == Spec => []FailuresExplained
  <1>1. CauseInv => FailuresExplained
    BY DEF CauseInv, CauseAt, FailuresExplained, InternalErrorExplained, TracebackExplained
  <1> QED
    BY <1>1, CauseInit, CauseStep, TypeCorrect, KnownAlways, PTL DEF Spec

(***************************************************************************)
(* The pipeline implements AtomicTarget: reading is Look, the rename is    *)
(* Install, an end without one is Decline, and everything else a stutter.  *)
(***************************************************************************)
LEMMA ImplementsInit == Init => Atomic!Init
  <1> SUFFICES ASSUME Init PROVE Atomic!Init
    OBVIOUS
  <1>1. fate = [p \in Procs |-> "open"]
    BY DEF Init, fate, Fate, Ended
  <1> QED
    BY <1>1 DEF Init, Atomic!Init, Contents, Atomic!Contents

(* The fates after a step of p.                                            *)
LEMMA FateOf ==
  ASSUME NEW p \in Procs, \A q \in Procs \ {p} : Same(q)
  PROVE  fate' = [fate EXCEPT ![p] = Fate(p)']
  BY DEF fate, Fate, Same

LEMMA ProductType ==
  ASSUME NEW p \in Procs, NEW d \in Contents
  PROVE  Product[p][d] = ProductOf(p, d)
  BY DEF Product

LEMMA ImplementsStep ==
  ASSUME TypeOK, DataInv, KnownInv, NEW p \in Procs, Step(p)
  PROVE  [Atomic!Next]_(Atomic!vars)
  <1>1. fate' = [fate EXCEPT ![p] = Fate(p)']
    BY FateOf, OthersKeep
  <1>2. DataAt(p) /\ OriginAt(p) /\ ReplyAt(p)
    BY DEF DataInv, KnownInv, Known
  <1>3. fate[p] = Fate(p) /\ fate \in [Procs -> {"installed", "declined", "open"}]
    BY DEF fate, Fate
  <1>4. CASE Replace(p)
    <2>1. /\ pc[p] = "replace" /\ dest[p] \in Targets /\ doc[p] \in Contents
          /\ temp[p].body = out[p] /\ temp[p].synced /\ out[p] \in Docs
          /\ Made(p) /\ Command[p] \in Writers /\ p \notin installed
      BY <1>2, <1>4 DEF Replace, DataAt, OriginAt, ReplyAt, Built, Writing, Holding, Steps,
        TypeOK, LocalType
    <2>2. Product[p][doc[p]] = out[p]
      <3>1. ProductOf(p, doc[p]) = out[p]
        BY <2>1, DocumentAssumption DEF Made, Writers, ProductOf, Formats
      <3> QED
        BY <2>1, <3>1, ProductType
    <2>3. fate[p] = "open" /\ fate' = [fate EXCEPT ![p] = "installed"]
      <3>1. Fate(p) = "open"
        BY <2>1 DEF Fate, Ended
      <3>2. Fate(p)' = "installed"
        BY <1>4 DEF Fate, Replace
      <3> QED
        BY <1>1, <1>3, <3>1, <3>2
    <2>4. /\ file' = [file EXCEPT ![dest[p]] = out[p]]
          /\ onDisk' = [onDisk EXCEPT ![dest[p]] = @ \cup {out[p]}]
          /\ UNCHANGED doc
      BY <1>4, <2>1 DEF Replace, locals
    <2>5. Atomic!Install(p)
      BY <2>1, <2>2, <2>3, <2>4 DEF Atomic!Install
    <2> QED
      BY <2>5 DEF Atomic!Next
  <1>5. CASE Read(p)
    <2>1. pc[p] = "read" /\ doc[p] = Absent /\ p \notin installed /\ src[p] \in Targets
      BY <1>2, <1>5 DEF Read, OriginAt, BeforeLoad, ReplyAt, Steps, TypeOK, LocalType
    <2>2. pc'[p] \in {"reply", "judge"} /\ UNCHANGED <<installed, file, onDisk>>
      BY <1>5 DEF Read, Goto, Answer, disk, TypeOK, ControlType
    <2>3. Fate(p) = "open" /\ Fate(p)' = "open"
      BY <2>1, <2>2 DEF Fate, Ended
    <2>4. UNCHANGED fate /\ fate[p] = "open"
      BY <1>1, <1>3, <2>3
    <2>5. CASE file[src[p]] = Absent
      BY <1>5, <2>2, <2>4, <2>5 DEF Read, Atomic!vars
    <2>6. CASE file[src[p]] # Absent
      <3>1. file[src[p]] \in Docs
        BY <2>1, <2>6 DEF DataInv, TargetWhole, Contents
      <3>2. doc' = [doc EXCEPT ![p] = file[src[p]]]
        BY <1>5, <2>6 DEF Read
      <3>3. Atomic!Look(p)
        BY <2>1, <2>2, <2>4, <3>1, <3>2 DEF Atomic!Look
      <3> QED
        BY <3>3 DEF Atomic!Next
    <2> QED
      BY <2>5, <2>6
  <1>6. CASE ~Replace(p) /\ ~Read(p)
    <2>1. UNCHANGED <<file, onDisk, doc, installed>> /\ pc[p] \in Steps
      BY <1>6 DEF Steps, disk, locals, Step, InitResolve, InitExists, FormatResolve,
        LoadResolve,
        StatOriginal, ReadOriginal, Stat, StatOf, Judge, Mutate, Post, ResolveDest,
        Compare, Unencodable,
        Mkstemp, Bind, Write, Flush, Fsync, Chmod, Cleanup, Reply
    <2>2. Fate(p) \in {"installed", "open"}
      BY <2>1 DEF Fate, Steps, Ended
    <2>3. Fate(p)' = Fate(p) \/ (Fate(p) = "open" /\ Fate(p)' = "declined")
      BY <2>1, <2>2 DEF Fate
    <2>4. CASE Fate(p)' = Fate(p)
      <3>1. UNCHANGED fate
        BY <1>1, <1>3, <2>4
      <3> QED
        BY <2>1, <3>1 DEF Atomic!vars
    <2>5. CASE Fate(p) = "open" /\ Fate(p)' = "declined"
      BY <1>1, <1>3, <2>1, <2>5 DEF Atomic!Decline, Atomic!Next
    <2> QED
      BY <2>3, <2>4, <2>5
  <1> QED
    BY <1>4, <1>5, <1>6

LEMMA ImplementsFault ==
  ASSUME TypeOK, NEW p \in Procs, IOFault(p) \/ ReplyFault(p) \/ Interrupt(p) \/ Kill(p)
  PROVE  [Atomic!Next]_(Atomic!vars)
  <1>1. fate' = [fate EXCEPT ![p] = Fate(p)']
    BY FateOf, OthersKeep
  <1>2. fate[p] = Fate(p) /\ fate \in [Procs -> {"installed", "declined", "open"}]
    BY DEF fate, Fate
  <1>3. UNCHANGED <<file, onDisk, doc, installed>> /\ pc[p] \notin Ended
    BY DEF IOFault, ReplyFault, Interrupt, Kill, disk, locals, Holding, Steps, Ended
  <1>4. Fate(p)' = Fate(p) \/ (Fate(p) = "open" /\ Fate(p)' = "declined")
    BY <1>3 DEF Fate
  <1>5. CASE Fate(p)' = Fate(p)
    <2>1. UNCHANGED fate
      BY <1>1, <1>2, <1>5
    <2> QED
      BY <1>3, <2>1 DEF Atomic!vars
  <1>6. CASE Fate(p) = "open" /\ Fate(p)' = "declined"
    BY <1>1, <1>2, <1>3, <1>6 DEF Atomic!Decline, Atomic!Next
  <1> QED
    BY <1>4, <1>5, <1>6

LEMMA ImplementsAround ==
  ASSUME TypeOK, DataInv,
         \/ \E t \in Targets : Edit(t) \/ Sync(t)
         \/ Retarget \/ TouchPath \/ PowerLoss \/ AllEnded \/ UNCHANGED vars
  PROVE  [Atomic!Next]_(Atomic!vars)
  <1>1. CASE Retarget \/ TouchPath \/ AllEnded \/ UNCHANGED vars
    <2>1. UNCHANGED <<file, onDisk, doc, pc, installed>>
      BY <1>1 DEF Retarget, TouchPath, AllEnded, vars, disk, locals
    <2>2. UNCHANGED fate
      BY <2>1 DEF fate, Fate
    <2> QED
      BY <2>1, <2>2 DEF Atomic!vars
  <1>2. CASE \E t \in Targets : Edit(t) \/ Sync(t)
    <2>1. PICK t \in Targets : Edit(t) \/ Sync(t)
      BY <1>2
    <2>2. UNCHANGED <<doc, pc, installed>>
      BY <2>1 DEF Edit, Sync, locals
    <2>3. UNCHANGED fate
      BY <2>2 DEF fate, Fate
    <2>4. Atomic!Edit(t) \/ Atomic!Sync(t)
      BY <2>1, <2>2, <2>3 DEF Edit, Sync, Atomic!Edit, Atomic!Sync, Contents, Atomic!Contents
    <2> QED
      BY <2>4 DEF Atomic!Next
  <1>3. CASE PowerLoss
    <2>1. file' \in [Targets -> Atomic!Contents]
      <3>1. \A t \in Targets : file'[t] \in Contents
        BY <1>3 DEF PowerLoss, DataInv, TargetWhole
      <3>2. file' \in [Targets -> UNION {onDisk[t] : t \in Targets}]
        BY <1>3 DEF PowerLoss
      <3> QED
        BY <3>1, <3>2 DEF Contents, Atomic!Contents
    <2>2. fate' = [p \in Procs |-> IF fate[p] = "open" THEN "declined" ELSE fate[p]]
      <3>1. UNCHANGED installed
        BY <1>3 DEF PowerLoss
      <3>2. \A p \in Procs : pc'[p] \in Ended
        BY <1>3 DEF PowerLoss, TypeOK, ControlType, Ended
      <3> QED
        BY <3>1, <3>2 DEF fate, Fate
    <2>3. Atomic!PowerLoss
      BY <1>3, <2>1, <2>2 DEF PowerLoss, Atomic!PowerLoss, locals
    <2> QED
      BY <2>3 DEF Atomic!Next
  <1> QED
    BY <1>1, <1>2, <1>3

LEMMA ImplementsNext ==
  TypeOK /\ DataInv /\ KnownInv /\ [Next]_vars => [Atomic!Next]_(Atomic!vars)
  BY ImplementsStep, ImplementsFault, ImplementsAround DEF Next

(* Every behaviour of the pipeline is one of AtomicTarget: each invocation *)
(* installs the whole product of one snapshot in one step, or nothing.     *)
THEOREM PipelineIsAtomic == Spec => ImplementsAtomicTarget
  BY ImplementsInit, ImplementsNext, TypeCorrect, KnownAlways, PTL
  DEF Spec, ImplementsAtomicTarget, Atomic!Spec
=============================================================================
