------------------------------ MODULE RunTask ------------------------------
(***************************************************************************)
(* One execution of RunTask (pkg/tools/run_task.go): the goroutine of the  *)
(* caller resolves the tool's env, runs the hook `before`, generates the   *)
(* matrix and starts one goroutine per matrix entry, as many at a time as  *)
(* the channel waitCh holds tokens; it waits for them, runs                *)
(* `after:failure` or `after:success`, and always `after`.  Each goroutine *)
(* runs the entry's hooks around the entry's own exec specs.               *)
(*                                                                         *)
(* A hook (generate its specs, run them), the resolution of a field and a  *)
(* doRun are one step each that succeeds or fails: their inside is the     *)
(* subject of ActionChain.  A goroutine that is AT "hookAfterMatrix" is    *)
(* executing that hook, so two executions overlap when both pcs are there. *)
(***************************************************************************)
EXTENDS Integers, FiniteSets

CONSTANTS MaxEntries,       \* bound on the matrix entries a task may have
          WorkerOptions,    \* the values of --workers to consider
          FailFastOptions   \* the values of --fail-fast to consider

ASSUME OptionsAssumption ==
  /\ MaxEntries \in Nat
  /\ WorkerOptions \subseteq Nat
  /\ FailFastOptions \subseteq BOOLEAN

Entries == 1..MaxEntries
Task == 0                    \* owner of the errors of the task itself
Owners == {Task} \cup Entries

VARIABLES
  workers, failFast,  \* RuntimeOptions, fixed when the command starts
  pc,                 \* what the caller's goroutine is doing
  n,                  \* len(matrixSpecs)
  cur,                \* the matrix entry the loop is at
  seq,                \* opts.seq of CreateTaskExecOptions
  err,                \* the named result is not nil
  cancelled,          \* req.Context is done
  interrupted,        \* ... for a reason outside this RunTask
  waitCh,             \* tokens in the channel
  wg,                 \* counter of the WaitGroup
  epc,                \* what the goroutine of an entry is doing
  eseq,               \* Seq() of the entry's options
  err3,               \* the goroutine's err3 is not nil
  errCollection,      \* owners of the errors collected
  faults              \* history: owners of the steps that failed

opts  == <<workers, failFast>>
main  == <<pc, n, cur, seq, err>>
ctx   == <<cancelled, interrupted>>
pool  == <<waitCh, wg>>
gor   == <<epc, eseq, err3>>
log   == <<errCollection, faults>>
vars  == <<opts, main, ctx, pool, gor, log>>

MainStages == {"resolveToolEnv", "hookBefore", "matrix", "createContext",
               "select", "wait", "hookAfterFailure", "hookAfterSuccess",
               "hookAfter", "returned"}

EntryStages == {"pending", "hookBeforeMatrix", "genSpecs", "run",
                "hookAfterMatrixFailure", "hookAfterMatrixSuccess",
                "deferred", "hookAfterMatrix", "wgDone", "release", "exited"}

(* Entries between wg.Add and wg.Done: what wg.Wait waits for.             *)
Active == {e \in Entries : epc[e] \notin {"pending", "release", "exited"}}

(* Entries whose goroutine took a token from waitCh and still owes it.     *)
Holding == {e \in Entries : epc[e] \notin {"pending", "exited"}}

(* Entries a goroutine was started for.                                    *)
Started == {e \in Entries : epc[e] # "pending"}

(***************************************************************************)
(* Helpers.  The definitions called Mut... are not part of the model: each *)
(* is the definition below it with a plausible slip, kept to show that a   *)
(* property notices the slip.                                              *)
(***************************************************************************)
MutClaimWorkers(k) == k
ClaimWorkers(k) == IF workers > k THEN k ELSE workers

(* appendErrorResult(owner, err), where the step before it failed.         *)
Collect(owner, ok) ==
  /\ faults' = IF ok THEN faults ELSE faults \cup {owner}
  /\ errCollection' = IF ok THEN errCollection ELSE errCollection \cup {owner}

(* if failed && FailFast() { req.Context.Cancel() }                        *)
MutCancelNever(failed) == UNCHANGED ctx
CancelIfFailFast(failed) ==
  /\ cancelled' = (cancelled \/ (failed /\ failFast))
  /\ UNCHANGED interrupted

(* The goroutine's last select: the token goes back into the channel, or   *)
(* is dropped when the context is done (either, when both are possible).   *)
MutReturnToken == UNCHANGED waitCh
ReturnToken ==
  \/ waitCh' = waitCh + 1
  \/ cancelled /\ UNCHANGED waitCh

At(stage, next) == pc = stage /\ pc' = next

Goto(e, stage, next) == epc[e] = stage /\ epc' = [epc EXCEPT ![e] = next]

(***************************************************************************)
(* The caller's goroutine                                                  *)
(***************************************************************************)
Init ==
  /\ workers \in WorkerOptions /\ failFast \in FailFastOptions
  /\ pc = "resolveToolEnv"
  /\ n = 0 /\ cur = 1 /\ seq = -1 /\ err = FALSE
  /\ cancelled = FALSE /\ interrupted = FALSE
  /\ waitCh = 0 /\ wg = 0
  /\ epc = [e \in Entries |-> "pending"]
  /\ eseq = [e \in Entries |-> -1]
  /\ err3 = [e \in Entries |-> FALSE]
  /\ errCollection = {} /\ faults = {}

(* A failure here returns before `after` is deferred.                      *)
ResolveToolEnv ==
  /\ \E ok \in BOOLEAN :
       /\ At("resolveToolEnv", IF ok THEN "hookBefore" ELSE "returned")
       /\ err' = ~ok
       /\ faults' = IF ok THEN faults ELSE faults \cup {Task}
  /\ UNCHANGED <<opts, n, cur, seq, ctx, pool, gor, errCollection>>

(* A failure of `before` returns: the deferred `after` is next.            *)
HookBefore ==
  /\ \E ok \in BOOLEAN :
       /\ At("hookBefore", IF ok THEN "matrix" ELSE "hookAfter")
       /\ err' = ~ok
       /\ faults' = IF ok THEN faults ELSE faults \cup {Task}
  /\ UNCHANGED <<opts, n, cur, seq, ctx, pool, gor, errCollection>>

(* GetMatrixSpecs fails, selects nothing, or gives k entries.              *)
GenerateMatrix ==
  /\ \/ /\ At("matrix", "hookAfter")
        /\ err' = TRUE
        /\ faults' = faults \cup {Task}
        /\ UNCHANGED <<n, waitCh>>
     \/ /\ At("matrix", "createContext")
        /\ n' \in Entries
        /\ waitCh' = ClaimWorkers(n')
        /\ UNCHANGED <<err, faults>>
  /\ UNCHANGED <<opts, cur, seq, ctx, wg, gor, errCollection>>

(* CreateTaskMatrixContext resolves the tool for the next entry.  The      *)
(* sequence number is taken only when that succeeds.                       *)
MutCreateMatrixContext ==
  /\ pc = "createContext" /\ cur <= n
  /\ \E ok \in BOOLEAN :
       /\ Collect(cur, ok)
       /\ CancelIfFailFast(~ok)
       /\ pc' = IF ok THEN "select" ELSE IF failFast THEN "wait" ELSE "createContext"
       /\ cur' = IF ok \/ failFast THEN cur ELSE cur + 1
       /\ seq' = seq + 1
  /\ UNCHANGED <<opts, n, err, pool, gor>>
CreateMatrixContext ==
  /\ pc = "createContext" /\ cur <= n
  /\ \E ok \in BOOLEAN :
       /\ Collect(cur, ok)
       /\ CancelIfFailFast(~ok)
       /\ pc' = IF ok THEN "select" ELSE IF failFast THEN "wait" ELSE "createContext"
       /\ cur' = IF ok \/ failFast THEN cur ELSE cur + 1
       /\ seq' = IF ok THEN seq + 1 ELSE seq
  /\ UNCHANGED <<opts, n, err, pool, gor>>

NoMoreEntries ==
  /\ At("createContext", "wait")
  /\ cur > n
  /\ UNCHANGED <<opts, n, cur, seq, err, ctx, pool, gor, log>>

(* select: a token is received and the entry's goroutine starts ...        *)
MutStartEntry ==
  /\ At("select", "createContext")
  /\ waitCh > 0 /\ waitCh' = waitCh - 1
  /\ epc' = [epc EXCEPT ![cur] = "hookBeforeMatrix"]
  /\ eseq' = [eseq EXCEPT ![cur] = seq]
  /\ cur' = cur + 1
  /\ UNCHANGED <<opts, n, seq, err, ctx, wg, err3, log>>
StartEntry ==
  /\ At("select", "createContext")
  /\ waitCh > 0 /\ waitCh' = waitCh - 1
  /\ wg' = wg + 1
  /\ epc' = [epc EXCEPT ![cur] = "hookBeforeMatrix"]
  /\ eseq' = [eseq EXCEPT ![cur] = seq]
  /\ cur' = cur + 1
  /\ UNCHANGED <<opts, n, seq, err, ctx, err3, log>>

(* ... or the context is done.  When both hold, Go picks either at random. *)
(* Mut: the context is looked at only after a token was received.          *)
MutStopStarting ==
  /\ At("select", "wait")
  /\ cancelled /\ waitCh > 0
  /\ UNCHANGED <<opts, n, cur, seq, err, ctx, pool, gor, log>>
StopStarting ==
  /\ At("select", "wait")
  /\ cancelled
  /\ UNCHANGED <<opts, n, cur, seq, err, ctx, pool, gor, log>>

(* wg.Wait(), and the choice between the two hooks after it.               *)
WaitEntries ==
  /\ wg = 0
  /\ At("wait", IF errCollection # {} THEN "hookAfterFailure" ELSE "hookAfterSuccess")
  /\ UNCHANGED <<opts, n, cur, seq, err, ctx, pool, gor, log>>

HookAfterFailure ==
  /\ At("hookAfterFailure", "hookAfter")
  /\ \E ok \in BOOLEAN : Collect(Task, ok)
  /\ UNCHANGED <<opts, n, cur, seq, err, ctx, pool, gor>>

HookAfterSuccess ==
  /\ At("hookAfterSuccess", "hookAfter")
  /\ \E ok \in BOOLEAN : Collect(Task, ok) /\ err' = ~ok
  /\ UNCHANGED <<opts, n, cur, seq, ctx, pool, gor>>

(* The deferred function: `after`, then the collected errors join err.     *)
MutHookAfter ==
  /\ At("hookAfter", "returned")
  /\ \E ok \in BOOLEAN : Collect(Task, ok)
  /\ err' = (err \/ errCollection # {})
  /\ UNCHANGED <<opts, n, cur, seq, ctx, pool, gor>>
HookAfter ==
  /\ At("hookAfter", "returned")
  /\ \E ok \in BOOLEAN : Collect(Task, ok)
  /\ err' = (err \/ errCollection' # {})
  /\ UNCHANGED <<opts, n, cur, seq, ctx, pool, gor>>

Caller ==
  \/ ResolveToolEnv \/ HookBefore \/ GenerateMatrix
  \/ CreateMatrixContext \/ NoMoreEntries \/ StartEntry \/ StopStarting
  \/ WaitEntries \/ HookAfterFailure \/ HookAfterSuccess \/ HookAfter

(***************************************************************************)
(* The goroutine of entry e                                                *)
(***************************************************************************)

(* A step whose failure ends the body of the goroutine: err3 is set, the   *)
(* error collected, and the deferred function is next.                     *)
BodyStep(e, stage, next) ==
  /\ \E ok \in BOOLEAN :
       /\ Goto(e, stage, IF ok THEN next ELSE "deferred")
       /\ err3' = [err3 EXCEPT ![e] = ~ok]
       /\ Collect(e, ok)
  /\ UNCHANGED <<opts, main, ctx, pool, eseq>>

HookBeforeMatrix(e) == BodyStep(e, "hookBeforeMatrix", "genSpecs")

GetExecSpecs(e) == BodyStep(e, "genSpecs", "run")

(* doRun with the entry's cancellable context.  The cancellation and the   *)
(* error of a failure come before any step of the failure hook.            *)
RunSpecs(e) ==
  /\ \E ok \in BOOLEAN :
       /\ Goto(e, "run", IF ok THEN "hookAfterMatrixSuccess" ELSE "hookAfterMatrixFailure")
       /\ err3' = [err3 EXCEPT ![e] = ~ok]
       /\ CancelIfFailFast(~ok)
       /\ Collect(e, ok)
  /\ UNCHANGED <<opts, main, pool, eseq>>

HookAfterMatrixFailure(e) ==
  /\ Goto(e, "hookAfterMatrixFailure", "deferred")
  /\ \E ok \in BOOLEAN : Collect(e, ok)
  /\ UNCHANGED <<opts, main, ctx, pool, eseq, err3>>

HookAfterMatrixSuccess(e) == BodyStep(e, "hookAfterMatrixSuccess", "deferred")

(* The deferred function: cancel, hook `after:matrix`, wg.Done, token.     *)
DeferredCancel(e) ==
  /\ Goto(e, "deferred", "hookAfterMatrix")
  /\ CancelIfFailFast(err3[e])
  /\ UNCHANGED <<opts, main, pool, eseq, err3, log>>

MutHookAfterMatrix(e) ==
  /\ Goto(e, "hookAfterMatrix", "wgDone")
  /\ \E ok \in BOOLEAN : faults' = IF ok THEN faults ELSE faults \cup {e}
  /\ UNCHANGED <<opts, main, ctx, pool, eseq, err3, errCollection>>
HookAfterMatrix(e) ==
  /\ Goto(e, "hookAfterMatrix", "wgDone")
  /\ \E ok \in BOOLEAN : Collect(e, ok)
  /\ UNCHANGED <<opts, main, ctx, pool, eseq, err3>>

WgDone(e) ==
  /\ Goto(e, "wgDone", "release")
  /\ wg' = wg - 1
  /\ UNCHANGED <<opts, main, ctx, waitCh, eseq, err3, log>>

Release(e) ==
  /\ Goto(e, "release", "exited")
  /\ ReturnToken
  /\ UNCHANGED <<opts, main, ctx, wg, eseq, err3, log>>

Goroutine(e) ==
  \/ HookBeforeMatrix(e) \/ GetExecSpecs(e) \/ RunSpecs(e)
  \/ HookAfterMatrixFailure(e) \/ HookAfterMatrixSuccess(e)
  \/ DeferredCancel(e) \/ HookAfterMatrix(e) \/ WgDone(e) \/ Release(e)

(***************************************************************************)
(* The environment                                                         *)
(***************************************************************************)

(* req.Context's parent is cancelled: an os.Interrupt cancels the app's    *)
(* base context, a RunTask that runs this one as an action its own.        *)
Interrupt ==
  /\ pc # "returned" /\ ~interrupted
  /\ cancelled' = TRUE /\ interrupted' = TRUE
  /\ UNCHANGED <<opts, main, pool, gor, log>>

(* Nothing is left to do.                                                  *)
Terminated ==
  /\ pc = "returned" /\ Holding = {}
  /\ UNCHANGED vars

Next == Caller \/ (\E e \in Entries : Goroutine(e)) \/ Interrupt \/ Terminated

Spec == Init /\ [][Next]_vars

(* The Go scheduler runs every goroutine that can run, and every hook and  *)
(* command ends; nothing obliges an interrupt to come.                     *)
FairSpec ==
  /\ Spec
  /\ WF_vars(Caller)
  /\ \A e \in Entries : WF_vars(Goroutine(e))

(***************************************************************************)
(* Properties                                                              *)
(***************************************************************************)

(* Stages of the caller after wg.Wait() or with no entry ever started.     *)
AfterStages == {"hookAfterFailure", "hookAfterSuccess", "hookAfter", "returned"}

(* Every variable holds a value the code can give it.                      *)
TypeOK ==
  /\ workers \in WorkerOptions /\ failFast \in FailFastOptions
  /\ pc \in MainStages
  /\ n \in 0..MaxEntries /\ cur \in 1..(MaxEntries + 1)
  /\ seq \in -1..(MaxEntries - 1) /\ err \in BOOLEAN
  /\ cancelled \in BOOLEAN /\ interrupted \in BOOLEAN
  /\ waitCh \in Nat /\ wg \in Nat
  /\ epc \in [Entries -> EntryStages]
  /\ eseq \in [Entries -> -1..(MaxEntries - 1)]
  /\ err3 \in [Entries -> BOOLEAN]
  /\ errCollection \subseteq Owners /\ faults \subseteq Owners

(* --workers is a limit: no more matrix entries than that are executing,   *)
(* hooks included, whatever is cancelled in the meantime.                  *)
WorkerLimit == Cardinality(Active) <= workers

(* Tokens are neither lost nor duplicated: those in the channel and those  *)
(* held by goroutines make up its capacity, so a goroutine never blocks    *)
(* giving its token back; only a cancelled context lets one be dropped.    *)
TokensAccounted ==
  /\ waitCh + Cardinality(Holding) <= ClaimWorkers(n)
  /\ ~cancelled => waitCh + Cardinality(Holding) = ClaimWorkers(n)

(* The hooks of the whole task that come after the matrix, and the return  *)
(* of RunTask, find no entry executing: not its specs, not its hooks.      *)
HooksAfterEntries == pc \in AfterStages => Active = {}

(* RunTask returns an error exactly when some step of it failed, be it a   *)
(* hook, an entry, or the resolution of a field in any goroutine.          *)
ErrorsReported == pc = "returned" => (err <=> faults # {})

(* Unless someone outside interrupts it, `after:success` runs only when    *)
(* every matrix entry was executed and it and its hooks succeeded.         *)
AfterSuccessSound ==
  pc = "hookAfterSuccess" /\ ~interrupted =>
    \A e \in 1..n : epc[e] \in {"release", "exited"} /\ e \notin faults

(* Without fail-fast the failure of an entry keeps no other from running:  *)
(* each was started, unless its own context could not be created.          *)
NoEntrySkipped ==
  ~failFast /\ ~interrupted /\ pc \in AfterStages =>
    \A e \in 1..n : e \in Started \cup errCollection

(* With fail-fast, by the time the last hook of a failed entry runs the    *)
(* context of the others is cancelled; and it is never cancelled without   *)
(* fail-fast and a failed entry, or an interrupt.                          *)
FailFastCancels ==
  /\ \A e \in Entries :
       /\ failFast /\ err3[e]
       /\ epc[e] \in EntryStages \ {"pending", "deferred"}
       => cancelled
  /\ cancelled => interrupted \/ (failFast /\ faults \cap Entries # {})

(* IsLast() holds for the last matrix entry, when every entry before it    *)
(* got its context, and for no other (buildah publishes manifests on it).  *)
LastIsLast ==
  \A e \in Started : eseq[e] = n - 1 <=> e = n /\ 1..n \subseteq Started

(* RunTask returns when it has a worker at all, and without one once the   *)
(* context is cancelled.                                                   *)
Returns == workers > 0 \/ cancelled ~> pc = "returned"

(* RunTask is an implementation of TaskPool.                               *)
EntryStatus(e) ==
  IF epc[e] = "pending" THEN IF e \in errCollection THEN "failed" ELSE "waiting"
  ELSE IF e \in Active THEN "running"
  ELSE IF e \in errCollection THEN "failed" ELSE "ok"

Pool == INSTANCE TaskPool WITH
  Limits <- WorkerOptions,
  limit  <- workers,
  status <- [e \in Entries |-> EntryStatus(e)],
  fault  <- Task \in errCollection \/ err,
  result <- IF pc # "returned" THEN "none" ELSE IF err THEN "failure" ELSE "success"

(* Seen from outside, an execution is one of TaskPool's: the entries run   *)
(* under the limit, and the result says whether a step failed.             *)
ImplementsTaskPool == Pool!Spec

=============================================================================
