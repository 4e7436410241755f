-------------------------- MODULE MCWritePipeline --------------------------
(***************************************************************************)
(* WritePipeline on small instances: two bindings, a and b, and the        *)
(* documents that tell the branches of the load apart.  "ba" is the map    *)
(* with both in insertion order, "ab" the same map formatted; "masked" is  *)
(* a map whose only error is hidden by the loader's warning at the same    *)
(* anchor (it is accepted before a mutation and refused after it);         *)
(* "maskedA" the same map with a added; "odd" holds a lone surrogate.      *)
(***************************************************************************)
EXTENDS WritePipeline, TLC

CONSTANTS i, w, f, c, q, v

Valid == Docs \cap {"empty", "a", "b", "ab", "ba", "huge", "odd"}

LoadVerdictMC == [d \in Docs |->
    CASE d = "bad" -> "ERR-PARSE"
      [] d = "old" -> "ERR-SCHEMA-VERSION"
      [] d = "sick" -> "ERR-FILE-INVALID"
      [] OTHER -> "ok"]

(* What `dbind add-locator ... a` makes of each document.                  *)
AddA == [d \in Docs |-> CASE d = "empty" -> "a" [] d = "b" -> "ba"
                          [] d = "masked" -> "maskedA" [] OTHER -> d]
VerdictA == [d \in Docs |-> IF d \in {"a", "ab", "ba", "maskedA"} THEN "ERR-DUPLICATE"
                            ELSE IF d = "huge" THEN "ERR-NOT-FOUND" ELSE "ok"]

CanonMC == [d \in Docs |-> IF d = "ba" THEN "ab" ELSE d]

CommandMC == [p \in Procs |->
    CASE p = i -> "init" [] p = w -> "edit" [] p = f -> "format"
      [] p = c -> "check" [] p = q -> "query" [] p = v -> "validate"]
EffectMC == [p \in Procs |-> AddA]
VerdictMC == [p \in Procs |-> VerdictA]

Budgets(edit, retarget, path, fault, reply, signal, power) ==
    [k \in Disturbances |->
       CASE k = "edit" -> edit [] k = "retarget" -> retarget [] k = "path" -> path
         [] k = "fault" -> fault [] k = "reply" -> reply [] k = "signal" -> signal
         [] k = "power" -> power]

Everything == Budgets(1, 1, 1, 2, 2, 1, 1)   \* one invocation, all disturbances
Crashes == Budgets(0, 0, 0, 1, 0, 1, 1)      \* several invocations, stopped anywhere
Faults == Budgets(0, 0, 0, 2, 0, 0, 0)
Replies == Budgets(0, 0, 0, 0, 2, 0, 0)
Retargets == Budgets(0, 1, 0, 0, 0, 0, 0)
=============================================================================
