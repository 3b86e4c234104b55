---------------------------- MODULE DurableWrites ----------------------------
(***************************************************************************)
(* What MeDB promises about Set, Update, Delete and Drop, without the      *)
(* goroutine, the queue, the log or the snapshots: changes take effect in  *)
(* memory one after another, become durable in that order, and a call      *)
(* succeeds only for a durable change.  After a storage failure nothing    *)
(* more becomes durable and waiting calls may fail.  A Close that reports  *)
(* no error has made everything durable.  GroupCommit implements it.       *)
(***************************************************************************)
EXTENDS Integers

CONSTANTS
  Writers,    \* goroutines that call the database
  MaxRecs     \* bound: changes made in a behaviour

VARIABLES
  applied,   \* number of changes made in memory
  durable,   \* changes 1..durable survive a power loss
  failed,    \* storage has failed
  change,    \* the last change of each writer, 0 for none
  outcome,   \* "none" before the first call, "wait", "ok" or "fail"
  phase      \* "open", "closing", then Close's result: "clean" or "error"

vars == <<applied, durable, failed, change, outcome, phase>>

Init ==
  /\ applied = 0 /\ durable = 0 /\ failed = FALSE
  /\ change = [w \in Writers |-> 0]
  /\ outcome = [w \in Writers |-> "none"]
  /\ phase = "open"

Submit(w) ==
  /\ phase = "open" /\ outcome[w] # "wait" /\ applied < MaxRecs
  /\ applied' = applied + 1
  /\ change' = [change EXCEPT ![w] = applied + 1]
  /\ outcome' = [outcome EXCEPT ![w] = "wait"]
  /\ UNCHANGED <<durable, failed, phase>>

\* A call on a closed database changes nothing.
Refuse(w) ==
  /\ phase # "open" /\ outcome[w] # "wait"
  /\ change' = [change EXCEPT ![w] = 0]
  /\ outcome' = [outcome EXCEPT ![w] = "none"]
  /\ UNCHANGED <<applied, durable, failed, phase>>

Succeed(w) ==
  /\ outcome[w] = "wait" /\ change[w] <= durable
  /\ outcome' = [outcome EXCEPT ![w] = "ok"]
  /\ UNCHANGED <<applied, durable, failed, change, phase>>

\* A failed call does not say that its change is lost.
Fail(w) ==
  /\ outcome[w] = "wait" /\ failed
  /\ outcome' = [outcome EXCEPT ![w] = "fail"]
  /\ UNCHANGED <<applied, durable, failed, change, phase>>

Harden ==
  /\ ~failed
  /\ durable' \in (durable + 1)..applied
  /\ UNCHANGED <<applied, failed, change, outcome, phase>>

Break ==
  /\ failed' = TRUE
  /\ UNCHANGED <<applied, durable, change, outcome, phase>>

BeginClose ==
  /\ phase = "open"
  /\ phase' = "closing"
  /\ UNCHANGED <<applied, durable, failed, change, outcome>>

EndClose ==
  /\ phase = "closing"
  /\ \/ phase' = "clean" /\ ~failed /\ durable = applied
     \/ phase' = "error"
  /\ UNCHANGED <<applied, durable, failed, change, outcome>>

Next ==
  \/ \E w \in Writers : Submit(w) \/ Refuse(w) \/ Succeed(w) \/ Fail(w)
  \/ Harden \/ Break \/ BeginClose \/ EndClose

Spec == Init /\ [][Next]_vars
=============================================================================
