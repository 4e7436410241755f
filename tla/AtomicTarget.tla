---------------------------- MODULE AtomicTarget ----------------------------
(***************************************************************************)
(* What `dbind` promises about the map files it works on, with none of the *)
(* mechanism: an invocation looks at one snapshot of one file and then, in *)
(* a single step, either installs the whole of what its command makes of   *)
(* that snapshot, or ends and leaves every file alone.  The people and     *)
(* editors around the tool may put any document in a file at any time, and *)
(* a power loss may bring back a document the file held since it was last  *)
(* known to be on disk, never a mixture.                                   *)
(*                                                                         *)
(* WritePipeline implements this specification (AtomicTarget there is an   *)
(* INSTANCE of this module).                                               *)
(***************************************************************************)

CONSTANTS
    Procs,            \* invocations of the program
    Targets,          \* final paths a map can be at
    Docs,             \* the complete contents of a file
    Absent,           \* no file at the path; also: nothing read, nothing produced
    Product           \* Product[p][d]: what p installs having read d, or Absent

VARIABLES
    content,          \* content[t]: what a reader of t finds
    onDisk,           \* onDisk[t]: what a power loss may leave at t
    seen,             \* seen[p]: the snapshot p acts on
    fate              \* fate[p]: "open", "installed" or "declined"

vars == <<content, onDisk, seen, fate>>

Contents == Docs \cup {Absent}

Init ==
    /\ content \in [Targets -> Contents]
    /\ onDisk = [t \in Targets |-> {content[t]}]
    /\ seen = [p \in Procs |-> Absent]
    /\ fate = [p \in Procs |-> "open"]

(* p reads the whole of one file that exists.                              *)
Look(p) ==
    /\ fate[p] = "open" /\ seen[p] = Absent
    /\ \E t \in Targets : content[t] \in Docs /\ seen' = [seen EXCEPT ![p] = content[t]]
    /\ UNCHANGED <<content, onDisk, fate>>

(* p replaces one file by everything its command makes of the snapshot.    *)
Install(p) ==
    /\ fate[p] = "open"
    /\ Product[p][seen[p]] \in Docs
    /\ \E t \in Targets :
         /\ content' = [content EXCEPT ![t] = Product[p][seen[p]]]
         /\ onDisk' = [onDisk EXCEPT ![t] = @ \cup {Product[p][seen[p]]}]
    /\ fate' = [fate EXCEPT ![p] = "installed"]
    /\ UNCHANGED seen

(* p ends, by itself or because it was stopped, having written nothing.    *)
Decline(p) ==
    /\ fate[p] = "open"
    /\ fate' = [fate EXCEPT ![p] = "declined"]
    /\ UNCHANGED <<content, onDisk, seen>>

(* Somebody else puts a document at t, or deletes the one there.           *)
Edit(t) ==
    /\ \E c \in Contents :
         /\ content' = [content EXCEPT ![t] = c]
         /\ onDisk' = [onDisk EXCEPT ![t] = @ \cup {c}]
    /\ UNCHANGED <<seen, fate>>

(* The operating system finishes writing t back.                           *)
Sync(t) ==
    /\ onDisk' = [onDisk EXCEPT ![t] = {content[t]}]
    /\ UNCHANGED <<content, seen, fate>>

(* Power is lost: every open invocation is over, and each file is one of   *)
(* the complete documents it may have on disk.                             *)
PowerLoss ==
    /\ content' \in [Targets -> Contents]
    /\ \A t \in Targets : content'[t] \in onDisk[t]
    /\ onDisk' = [t \in Targets |-> {content'[t]}]
    /\ fate' = [p \in Procs |-> IF fate[p] = "open" THEN "declined" ELSE fate[p]]
    /\ UNCHANGED seen

Next ==
    \/ \E p \in Procs : Look(p) \/ Install(p) \/ Decline(p)
    \/ \E t \in Targets : Edit(t) \/ Sync(t)
    \/ PowerLoss

Spec == Init /\ [][Next]_vars
=============================================================================
