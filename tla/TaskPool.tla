------------------------------ MODULE TaskPool ------------------------------
(***************************************************************************)
(* What dukkha promises of one execution of a task, whatever the hooks and *)
(* the goroutines behind it do: the entries of the task's matrix are       *)
(* executed at most `limit` at a time, the execution returns only when no  *)
(* entry is being executed, it is a failure exactly when an entry or a     *)
(* step of the task itself failed, and nothing starts once it returned.    *)
(* Not every entry need be executed: an interrupt or fail-fast may stop    *)
(* the execution early.                                                    *)
(***************************************************************************)
EXTENDS Naturals, FiniteSets

CONSTANTS Entries,    \* the matrix entries the task may have
          Limits      \* the worker limits to choose from

VARIABLES limit,      \* the worker limit of this execution
          status,     \* what became of each entry
          fault,      \* a step of the task itself failed
          result      \* what the execution returned

vars == <<limit, status, fault, result>>

Statuses == {"waiting", "running", "ok", "failed"}

With(s) == {e \in Entries : status[e] = s}

Init ==
  /\ limit \in Limits
  /\ status = [e \in Entries |-> "waiting"]
  /\ fault = FALSE
  /\ result = "none"

(* A worker takes an entry up.                                             *)
Begin(e) ==
  /\ result = "none"
  /\ status[e] = "waiting"
  /\ Cardinality(With("running")) < limit
  /\ status' = [status EXCEPT ![e] = "running"]
  /\ UNCHANGED <<limit, fault, result>>

(* A worker is done with an entry.                                         *)
Finish(e) ==
  /\ status[e] = "running"
  /\ \E s \in {"ok", "failed"} : status' = [status EXCEPT ![e] = s]
  /\ UNCHANGED <<limit, fault, result>>

(* An entry fails before a worker could take it up.                        *)
Reject(e) ==
  /\ result = "none"
  /\ status[e] = "waiting"
  /\ status' = [status EXCEPT ![e] = "failed"]
  /\ UNCHANGED <<limit, fault, result>>

(* A step of the task itself (the matrix, a hook) fails.                   *)
Fail ==
  /\ result = "none"
  /\ fault' = TRUE
  /\ UNCHANGED <<limit, status, result>>

(* The execution returns; its last step may still fail.                    *)
Return ==
  /\ result = "none"
  /\ With("running") = {}
  /\ fault' \in {fault, TRUE}
  /\ result' = IF fault' \/ With("failed") # {} THEN "failure" ELSE "success"
  /\ UNCHANGED <<limit, status>>

Next ==
  \/ \E e \in Entries : Begin(e) \/ Finish(e) \/ Reject(e)
  \/ Fail
  \/ Return

Spec == Init /\ [][Next]_vars

=============================================================================
