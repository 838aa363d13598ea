----------------------------- MODULE MCRunTask -----------------------------
(***************************************************************************)
(* RunTask on small instances, and statements of the documentation that    *)
(* the code does not keep.                                                 *)
(***************************************************************************)
EXTENDS RunTask

(* "AfterSuccess runs after a successful task execution / requires all     *)
(* matrix executions are successful" (pkg/tools/hook.go:44-45).            *)
AfterSuccessRequiresAll ==
  pc = "hookAfterSuccess" =>
    \A e \in 1..n : epc[e] \in {"release", "exited"} /\ e \notin faults

(* "after:matrix:failure: run actions when task matrix run failed"         *)
(* (docs/tasks.md:39), be it that what it is to do cannot be generated.    *)
FailureHookRuns ==
  [][\A e \in Entries :
       epc[e] \in {"genSpecs", "run"} /\ e \in faults' \ faults =>
         epc'[e] = "hookAfterMatrixFailure"]_vars

=============================================================================
