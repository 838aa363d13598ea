---------------------------- MODULE RunTaskProofs ----------------------------
(***************************************************************************)
(* Proofs about RunTask, for any bound on the entries, any set of worker   *)
(* limits and either fail-fast setting.                                    *)
(*                                                                         *)
(* The invariants the runs check are not inductive by themselves: that     *)
(* `after` finds no entry executing rests on the WaitGroup counting the    *)
(* entries exactly (WgCounts), the worker limit on every executing entry   *)
(* owing a token, and that `after:success` means success on what the loop  *)
(* has left behind it (LoopDone) and on the reasons a context has to be    *)
(* done (CancelCause).  IInv joins them; each of its parts has a lemma.    *)
(*                                                                         *)
(* The second part is that RunTask implements TaskPool.                    *)
(***************************************************************************)
EXTENDS RunTask, TLAPS, FiniteSetTheorems

Early == {"resolveToolEnv", "hookBefore", "matrix"}

(* Before the matrix is generated nothing has begun; the goroutines that   *)
(* were started are those of entries the loop has passed.                  *)
Placed ==
  /\ pc \in Early => n = 0 /\ cur = 1 /\ seq = -1 /\ waitCh = 0 /\ wg = 0 /\ Started = {}
  /\ cur <= n + 1
  /\ pc = "select" => cur <= n
  /\ seq <= cur - 1
  /\ pc = "createContext" => seq <= cur - 2
  /\ \A e \in Started : e < cur

(* The WaitGroup counts the entries being executed.                        *)
WgCounts == wg = Cardinality(Active)

(* Where the errors are kept until RunTask returns them.                   *)
ErrorsKept ==
  /\ pc \notin {"hookAfter", "returned"} => ~err
  /\ (err \/ errCollection # {}) <=> faults # {}
  /\ pc = "returned" /\ errCollection # {} => err
  /\ \A e \in Entries : e \in faults <=> e \in errCollection
  /\ \A e \in Entries : err3[e] => e \in errCollection

(* Why a context may be done, and which entries' failures made it so.      *)
CancelCause ==
  /\ cancelled => interrupted \/ (failFast /\ faults \cap Entries # {})
  /\ \A e \in Entries : failFast /\ err3[e] /\ epc[e] # "deferred" => cancelled

(* What the loop has left behind: every entry it passed was started or has *)
(* reported an error; it stops early only with a cause.                    *)
LoopDone ==
  /\ \A e \in 1..(cur - 1) : e \in Started \cup errCollection
  /\ pc \in {"wait"} \cup AfterStages =>
       cur > n \/ cancelled \/ (failFast /\ errCollection \cap Entries # {})
  /\ pc = "hookAfterSuccess" => errCollection = {}

(* A sequence number is one less than the entry exactly as long as every   *)
(* entry up to it was started.                                             *)
Sequence ==
  /\ pc = "createContext" => (seq = cur - 2 <=> 1..(cur - 1) \subseteq Started)
  /\ pc = "select" => (seq = cur - 1 <=> 1..(cur - 1) \subseteq Started)
  /\ \A e \in Started : eseq[e] <= e - 1 /\ (eseq[e] = e - 1 <=> 1..e \subseteq Started)

IInv ==
  /\ TypeOK /\ Placed /\ WgCounts /\ TokensAccounted /\ HooksAfterEntries
  /\ ErrorsKept /\ CancelCause /\ LoopDone /\ Sequence

-----------------------------------------------------------------------------

(* What a step of an entry's goroutine does to the rest: it is that of a   *)
(* started entry, it moves nothing but that entry, and leaves the caller's *)
(* goroutine and what was decided about the entries as they are.           *)
LEMMA EntryFrame ==
  ASSUME TypeOK, NEW e \in Entries, Goroutine(e)
  PROVE  /\ UNCHANGED <<opts, main, interrupted, eseq>>
         /\ e \in Started /\ epc[e] # "exited"
         /\ \E s \in EntryStages \ {"pending"} : epc' = [epc EXCEPT ![e] = s]
         /\ Started' = Started
         /\ cancelled => cancelled'
<1> USE DEF TypeOK, EntryStages, opts, main, ctx, pool, gor, log, Goto, Started
<1>1. CASE HookBeforeMatrix(e)
  BY <1>1 DEF HookBeforeMatrix, BodyStep
<1>2. CASE GetExecSpecs(e)
  BY <1>2 DEF GetExecSpecs, BodyStep
<1>3. CASE RunSpecs(e)
  BY <1>3 DEF RunSpecs, CancelIfFailFast
<1>4. CASE HookAfterMatrixFailure(e)
  BY <1>4 DEF HookAfterMatrixFailure
<1>5. CASE HookAfterMatrixSuccess(e)
  BY <1>5 DEF HookAfterMatrixSuccess, BodyStep
<1>6. CASE DeferredCancel(e)
  BY <1>6 DEF DeferredCancel, CancelIfFailFast
<1>7. CASE HookAfterMatrix(e)
  BY <1>7 DEF HookAfterMatrix
<1>8. CASE WgDone(e)
  BY <1>8 DEF WgDone
<1>9. CASE Release(e)
  BY <1>9 DEF Release
<1> QED
  BY <1>1, <1>2, <1>3, <1>4, <1>5, <1>6, <1>7, <1>8, <1>9 DEF Goroutine

(* The two ways an entry's goroutine treats the errors: a step collects    *)
(* its failure or does not fail; only an executing entry collects one.     *)
LEMMA EntryErrors ==
  ASSUME TypeOK, NEW e \in Entries, Goroutine(e)
  PROVE  /\ \E ok \in BOOLEAN : Collect(e, ok)
         /\ UNCHANGED log \/ e \in Active
<1> USE DEF TypeOK, EntryStages, log, Goto, Active, Collect
<1>1. CASE HookBeforeMatrix(e)
  BY <1>1 DEF HookBeforeMatrix, BodyStep
<1>2. CASE GetExecSpecs(e)
  BY <1>2 DEF GetExecSpecs, BodyStep
<1>3. CASE RunSpecs(e)
  BY <1>3 DEF RunSpecs
<1>4. CASE HookAfterMatrixFailure(e)
  BY <1>4 DEF HookAfterMatrixFailure
<1>5. CASE HookAfterMatrixSuccess(e)
  BY <1>5 DEF HookAfterMatrixSuccess, BodyStep
<1>6. CASE DeferredCancel(e)
  BY <1>6 DEF DeferredCancel
<1>7. CASE HookAfterMatrix(e)
  BY <1>7 DEF HookAfterMatrix
<1>8. CASE WgDone(e)
  BY <1>8 DEF WgDone
<1>9. CASE Release(e)
  BY <1>9 DEF Release
<1> QED
  BY <1>1, <1>2, <1>3, <1>4, <1>5, <1>6, <1>7, <1>8, <1>9 DEF Goroutine

(* The same for the flag err3: what sets it collects the error, and what   *)
(* clears it does so before any failure of the goroutine.                  *)
LEMMA EntryFlag ==
  ASSUME TypeOK, NEW e \in Entries, Goroutine(e)
  PROVE  \E b \in BOOLEAN :
           /\ err3' = [err3 EXCEPT ![e] = b]
           /\ b => err3[e] \/ e \in errCollection'
           /\ failFast /\ b /\ epc'[e] # "deferred" =>
                cancelled' \/ (err3[e] /\ epc[e] # "deferred")
           /\ cancelled' => cancelled \/ (failFast /\ (err3[e] \/ e \in faults'))
<1> USE DEF TypeOK, EntryStages, ctx, gor, Goto, Collect, CancelIfFailFast
<1>1. CASE HookBeforeMatrix(e)
  BY <1>1 DEF HookBeforeMatrix, BodyStep
<1>2. CASE GetExecSpecs(e)
  BY <1>2 DEF GetExecSpecs, BodyStep
<1>3. CASE RunSpecs(e)
  BY <1>3 DEF RunSpecs
<1>4. CASE HookAfterMatrixFailure(e)
  BY <1>4 DEF HookAfterMatrixFailure
<1>5. CASE HookAfterMatrixSuccess(e)
  BY <1>5 DEF HookAfterMatrixSuccess, BodyStep
<1>6. CASE DeferredCancel(e)
  BY <1>6 DEF DeferredCancel
<1>7. CASE HookAfterMatrix(e)
  BY <1>7 DEF HookAfterMatrix
<1>8. CASE WgDone(e)
  BY <1>8 DEF WgDone
<1>9. CASE Release(e)
  BY <1>9 DEF Release
<1> QED
  BY <1>1, <1>2, <1>3, <1>4, <1>5, <1>6, <1>7, <1>8, <1>9 DEF Goroutine

(* Sets of entries are finite.                                             *)
LEMMA FiniteEntries ==
  /\ IsFiniteSet(Entries) /\ IsFiniteSet(Active) /\ IsFiniteSet(Holding)
  /\ Cardinality(Active) \in Nat /\ Cardinality(Holding) \in Nat
<1>1. IsFiniteSet(Entries)
  BY OptionsAssumption, FS_Interval DEF Entries
<1>2. Active \subseteq Entries /\ Holding \subseteq Entries
  BY DEF Active, Holding
<1>3. IsFiniteSet(Active) /\ IsFiniteSet(Holding)
  BY <1>1, <1>2, FS_Subset
<1> QED
  BY <1>1, <1>3, FS_CardinalityType

(* What it does to the pool: wgDone takes the entry out of those that      *)
(* execute, release its token from those owed, and nothing else does.      *)
LEMMA EntryPool ==
  ASSUME TypeOK, NEW e \in Entries, Goroutine(e)
  PROVE  \/ /\ e \in Active /\ Active' = Active \ {e} /\ wg' = wg - 1
            /\ Holding' = Holding /\ waitCh' = waitCh
         \/ /\ e \in Holding /\ Holding' = Holding \ {e} /\ ReturnToken
            /\ Active' = Active /\ wg' = wg
         \/ /\ Active' = Active /\ wg' = wg
            /\ Holding' = Holding /\ waitCh' = waitCh
<1> USE DEF TypeOK, EntryStages, pool, Goto, Active, Holding
<1>1. CASE HookBeforeMatrix(e)
  BY <1>1 DEF HookBeforeMatrix, BodyStep
<1>2. CASE GetExecSpecs(e)
  BY <1>2 DEF GetExecSpecs, BodyStep
<1>3. CASE RunSpecs(e)
  BY <1>3 DEF RunSpecs
<1>4. CASE HookAfterMatrixFailure(e)
  BY <1>4 DEF HookAfterMatrixFailure
<1>5. CASE HookAfterMatrixSuccess(e)
  BY <1>5 DEF HookAfterMatrixSuccess, BodyStep
<1>6. CASE DeferredCancel(e)
  BY <1>6 DEF DeferredCancel
<1>7. CASE HookAfterMatrix(e)
  BY <1>7 DEF HookAfterMatrix
<1>8. CASE WgDone(e)
  BY <1>8 DEF WgDone
<1>9. CASE Release(e)
  BY <1>9 DEF Release
<1> QED
  BY <1>1, <1>2, <1>3, <1>4, <1>5, <1>6, <1>7, <1>8, <1>9 DEF Goroutine

(* A step of the caller's goroutine other than the start of an entry       *)
(* leaves the goroutines alone, and the WaitGroup too.                     *)
LEMMA CallerFrame ==
  ASSUME Caller, ~StartEntry
  PROVE  /\ UNCHANGED <<opts, interrupted, epc, eseq, err3, wg>>
         /\ Active' = Active /\ Holding' = Holding /\ Started' = Started
         /\ waitCh' # waitCh => GenerateMatrix
         /\ cancelled => cancelled'
         /\ cancelled' => cancelled \/ CreateMatrixContext
<1> USE DEF opts, main, ctx, pool, gor, CancelIfFailFast
<1>1. /\ UNCHANGED <<opts, interrupted, epc, eseq, err3, wg>>
      /\ waitCh' # waitCh => GenerateMatrix
      /\ cancelled => cancelled'
      /\ cancelled' => cancelled \/ CreateMatrixContext
  <2>1. CASE ResolveToolEnv \/ HookBefore \/ GenerateMatrix
    BY <2>1 DEF ResolveToolEnv, HookBefore, GenerateMatrix
  <2>2. CASE CreateMatrixContext
    BY <2>2 DEF CreateMatrixContext
  <2>3. CASE NoMoreEntries \/ StopStarting \/ WaitEntries
    BY <2>3 DEF NoMoreEntries, StopStarting, WaitEntries
  <2>4. CASE HookAfterFailure \/ HookAfterSuccess \/ HookAfter
    BY <2>4 DEF HookAfterFailure, HookAfterSuccess, HookAfter
  <2> QED
    BY <2>1, <2>2, <2>3, <2>4 DEF Caller
<1> QED
  BY <1>1 DEF Active, Holding, Started

(* The start of an entry: it executes, and it owes the token it took.      *)
LEMMA StartFrame ==
  ASSUME TypeOK, Placed, StartEntry
  PROVE  /\ cur \in Entries /\ cur \notin Started
         /\ Started' = Started \cup {cur}
         /\ cur \notin Active /\ Active' = Active \cup {cur}
         /\ cur \notin Holding /\ Holding' = Holding \cup {cur}
<1>1. cur \in Entries /\ cur \notin Started
  BY OptionsAssumption DEF StartEntry, At, Placed, TypeOK, Entries
<1> QED
  BY <1>1 DEF StartEntry, TypeOK, Active, Holding, Started

-----------------------------------------------------------------------------

(* Every initial state satisfies the invariant.                            *)
LEMMA InitIInv == Init => IInv
<1> SUFFICES ASSUME Init PROVE IInv
  OBVIOUS
<1> USE OptionsAssumption DEF Init
<1>1. TypeOK
  <2>1. epc \in [Entries -> EntryStages] /\ eseq \in [Entries -> -1..(MaxEntries - 1)]
    BY DEF EntryStages
  <2>2. err3 \in [Entries -> BOOLEAN]
    OBVIOUS
  <2>3. n \in 0..MaxEntries /\ cur \in 1..(MaxEntries + 1) /\ seq \in -1..(MaxEntries - 1)
    OBVIOUS
  <2> QED
    BY <2>1, <2>2, <2>3 DEF TypeOK, MainStages
<1>2. Active = {} /\ Holding = {} /\ Started = {}
  BY DEF Active, Holding, Started
<1>3. Cardinality(Active) = 0 /\ Cardinality(Holding) = 0
  BY <1>2, FS_EmptySet
<1>4. Placed
  BY <1>2 DEF Placed
<1>5. WgCounts
  BY <1>3 DEF WgCounts
<1>6. TokensAccounted
  BY <1>3 DEF TokensAccounted, ClaimWorkers
<1>7. HooksAfterEntries
  BY <1>2 DEF HooksAfterEntries
<1>8. ErrorsKept /\ CancelCause
  BY DEF ErrorsKept, CancelCause
<1>9. LoopDone /\ Sequence
  BY <1>2 DEF LoopDone, Sequence, AfterStages
<1> QED
  BY <1>1, <1>4, <1>5, <1>6, <1>7, <1>8, <1>9 DEF IInv

(* Every step keeps the types.                                             *)
LEMMA TypeStep == TypeOK /\ Placed /\ WgCounts /\ [Next]_vars => TypeOK'
<1> SUFFICES ASSUME TypeOK, Placed, WgCounts, [Next]_vars PROVE TypeOK'
  OBVIOUS
<1> USE OptionsAssumption
        DEF opts, main, ctx, pool, gor, log, At, Collect, CancelIfFailFast
<1>1. CASE ResolveToolEnv
  BY <1>1 DEF ResolveToolEnv, TypeOK, MainStages, Owners, Task
<1>2. CASE HookBefore
  BY <1>2 DEF HookBefore, TypeOK, MainStages, Owners, Task
<1>3. CASE GenerateMatrix
  <2>1. n' \in 0..MaxEntries /\ waitCh' \in Nat
    BY <1>3 DEF GenerateMatrix, ClaimWorkers, TypeOK, Entries
  <2>2. Task \in Owners
    BY DEF Owners
  <2> QED
    BY <1>3, <2>1, <2>2 DEF GenerateMatrix, TypeOK, MainStages
<1>4. CASE CreateMatrixContext
  <2>1. cur' \in 1..(MaxEntries + 1) /\ seq' \in -1..(MaxEntries - 1)
    BY <1>4 DEF CreateMatrixContext, Placed, TypeOK
  <2>2. cur \in Owners
    BY <1>4 DEF CreateMatrixContext, TypeOK, Owners, Entries
  <2> QED
    BY <1>4, <2>1, <2>2 DEF CreateMatrixContext, TypeOK, MainStages
<1>5. CASE NoMoreEntries
  BY <1>5 DEF NoMoreEntries, TypeOK, MainStages
<1>6. CASE StartEntry
  <2>1. cur' \in 1..(MaxEntries + 1) /\ waitCh' \in Nat /\ wg' \in Nat
    BY <1>6 DEF StartEntry, Placed, TypeOK
  <2>2. epc' \in [Entries -> EntryStages]
    BY <1>6 DEF StartEntry, TypeOK, EntryStages
  <2>3. eseq' \in [Entries -> -1..(MaxEntries - 1)]
    BY <1>6 DEF StartEntry, TypeOK
  <2> QED
    BY <1>6, <2>1, <2>2, <2>3 DEF StartEntry, TypeOK, MainStages
<1>7. CASE StopStarting
  BY <1>7 DEF StopStarting, TypeOK, MainStages
<1>8. CASE WaitEntries
  BY <1>8 DEF WaitEntries, TypeOK, MainStages
<1>9. CASE HookAfterFailure \/ HookAfterSuccess \/ HookAfter
  BY <1>9 DEF HookAfterFailure, HookAfterSuccess, HookAfter, TypeOK, MainStages, Owners, Task
<1>10. ASSUME NEW e \in Entries, Goroutine(e) PROVE TypeOK'
  <2>1. epc' \in [Entries -> EntryStages]
    BY <1>10, EntryFrame DEF TypeOK
  <2>2. err3' \in [Entries -> BOOLEAN] /\ cancelled' \in BOOLEAN
    <3>1. err3' \in [Entries -> BOOLEAN]
      BY <1>10, EntryFlag DEF TypeOK
    <3>2. cancelled' \in BOOLEAN
      BY <1>10 DEF Goroutine, HookBeforeMatrix, GetExecSpecs, RunSpecs,
         HookAfterMatrixFailure, HookAfterMatrixSuccess, DeferredCancel,
         HookAfterMatrix, WgDone, Release, BodyStep, TypeOK
    <3> QED
      BY <3>1, <3>2
  <2>3. errCollection' \subseteq Owners /\ faults' \subseteq Owners
    BY <1>10, EntryErrors DEF TypeOK, Owners
  <2>4. wg' \in Nat /\ waitCh' \in Nat
    <3>1. e \in Active => wg - 1 \in Nat
      BY FiniteEntries, FS_EmptySet DEF WgCounts
    <3> QED
      BY <1>10, <3>1, EntryPool DEF TypeOK, ReturnToken
  <2> QED
    BY <1>10, <2>1, <2>2, <2>3, <2>4, EntryFrame DEF TypeOK
<1>11. CASE Interrupt
  BY <1>11 DEF Interrupt, TypeOK
<1>12. CASE UNCHANGED vars
  BY <1>12 DEF vars, TypeOK
<1> QED
  BY <1>1, <1>2, <1>3, <1>4, <1>5, <1>6, <1>7, <1>8, <1>9, <1>10, <1>11, <1>12
  DEF Next, Caller, Terminated

(* Where the goroutines are follows where the loop is.                     *)
LEMMA PlacedStep == TypeOK /\ Placed /\ [Next]_vars => Placed'
<1> SUFFICES ASSUME TypeOK, Placed, [Next]_vars PROVE Placed'
  OBVIOUS
<1> USE DEF opts, main, ctx, pool, gor, log, At, Placed, Early
<1>1. CASE Caller /\ ~StartEntry
  <2>1. UNCHANGED wg /\ Started' = Started
    BY <1>1, CallerFrame
  <2>2. CASE ResolveToolEnv \/ HookBefore
    BY <2>1, <2>2 DEF ResolveToolEnv, HookBefore, TypeOK
  <2>3. CASE GenerateMatrix
    <3>1. seq' <= cur' - 1 /\ seq' <= cur' - 2 /\ Started' = {}
      BY <2>1, <2>3 DEF GenerateMatrix
    <3>2. pc' \in {"hookAfter", "createContext"}
      BY <2>3 DEF GenerateMatrix
    <3>3. cur' <= n' + 1
      BY <2>3, OptionsAssumption DEF GenerateMatrix, Entries
    <3> QED
      BY <3>1, <3>2, <3>3
  <2>4. CASE CreateMatrixContext
    <3>1. pc' \in {"select", "wait", "createContext"} /\ UNCHANGED n
      BY <2>4 DEF CreateMatrixContext
    <3>2. cur' <= n + 1 /\ (pc' = "select" => cur' <= n)
      BY <2>4 DEF CreateMatrixContext, TypeOK
    <3>3. seq' <= cur' - 1 /\ (pc' = "createContext" => seq' <= cur' - 2)
      BY <2>4 DEF CreateMatrixContext, TypeOK
    <3>4. \A e \in Started' : e < cur'
      BY <2>1, <2>4 DEF CreateMatrixContext, TypeOK, Started, Entries
    <3> QED
      BY <3>1, <3>2, <3>3, <3>4
  <2>5. CASE NoMoreEntries \/ StopStarting \/ WaitEntries
    BY <2>1, <2>5 DEF NoMoreEntries, StopStarting, WaitEntries, TypeOK
  <2>6. CASE HookAfterFailure \/ HookAfterSuccess \/ HookAfter
    BY <2>1, <2>6 DEF HookAfterFailure, HookAfterSuccess, HookAfter, TypeOK
  <2> QED
    BY <1>1, <2>2, <2>3, <2>4, <2>5, <2>6 DEF Caller
<1>2. CASE StartEntry
  <2>1. Started' = Started \cup {cur}
    BY <1>2, StartFrame
  <2>2. \A e \in Started' : e < cur'
    BY <1>2, <2>1 DEF StartEntry, TypeOK, Started, Entries
  <2> QED
    BY <1>2, <2>2 DEF StartEntry, TypeOK
<1>3. ASSUME NEW e \in Entries, Goroutine(e) PROVE Placed'
  <2>1. UNCHANGED main /\ Started' = Started /\ pc \notin Early
    BY <1>3, EntryFrame
  <2> QED
    BY <2>1
<1>4. CASE Interrupt \/ UNCHANGED vars
  BY <1>4 DEF Interrupt, vars, Started
<1> QED
  BY <1>1, <1>2, <1>3, <1>4 DEF Next, Terminated

(* The WaitGroup goes on counting the entries being executed.              *)
LEMMA WgCountsStep == TypeOK /\ Placed /\ WgCounts /\ [Next]_vars => WgCounts'
<1> SUFFICES ASSUME TypeOK, Placed, WgCounts, [Next]_vars PROVE WgCounts'
  OBVIOUS
<1> USE FiniteEntries DEF WgCounts
<1>1. CASE Caller /\ ~StartEntry
  BY <1>1, CallerFrame
<1>2. CASE StartEntry
  BY <1>2, StartFrame, FS_AddElement DEF StartEntry
<1>3. ASSUME NEW e \in Entries, Goroutine(e) PROVE WgCounts'
  BY <1>3, EntryPool, FS_RemoveElement
<1>4. CASE Interrupt \/ UNCHANGED vars
  BY <1>4 DEF Interrupt, vars, gor, pool, Active
<1> QED
  BY <1>1, <1>2, <1>3, <1>4 DEF Next, Terminated

(* Every token goes from the channel to a goroutine and back.              *)
LEMMA TokensStep == TypeOK /\ Placed /\ TokensAccounted /\ [Next]_vars => TokensAccounted'
<1> SUFFICES ASSUME TypeOK, Placed, TokensAccounted, [Next]_vars PROVE TokensAccounted'
  OBVIOUS
<1> USE FiniteEntries DEF TokensAccounted, ClaimWorkers, opts, main, ctx, pool, gor, log, At
<1>1. CASE GenerateMatrix
  <2>1. Holding = {} /\ Holding' = {}
    BY <1>1 DEF GenerateMatrix, Placed, Early, Holding, Started
  <2>2. Cardinality(Holding') = 0
    BY <2>1, FS_EmptySet
  <2>3. n' \in Nat /\ (waitCh' = ClaimWorkers(n') \/ (n' = 0 /\ waitCh' = 0))
    <3>1. n = 0 /\ waitCh = 0
      BY <1>1 DEF GenerateMatrix, Placed, Early
    <3> QED
      BY <1>1, <3>1, OptionsAssumption DEF GenerateMatrix, Entries
  <2>4. workers \in Nat /\ UNCHANGED workers
    BY <1>1, OptionsAssumption DEF GenerateMatrix, TypeOK
  <2> QED
    BY <2>2, <2>3, <2>4
<1>2. CASE Caller /\ ~StartEntry /\ ~GenerateMatrix
  <2>1. UNCHANGED <<workers, waitCh>> /\ Holding' = Holding /\ (cancelled => cancelled')
    BY <1>2, CallerFrame
  <2>2. UNCHANGED n
    BY <1>2 DEF Caller, ResolveToolEnv, HookBefore, CreateMatrixContext, NoMoreEntries,
       StopStarting, WaitEntries, HookAfterFailure, HookAfterSuccess, HookAfter
  <2> QED
    BY <2>1, <2>2
<1>3. CASE StartEntry
  <2>1. Cardinality(Holding') = Cardinality(Holding) + 1
    BY <1>3, StartFrame, FS_AddElement
  <2>2. UNCHANGED <<workers, n, cancelled>> /\ waitCh' = waitCh - 1
    BY <1>3 DEF StartEntry
  <2> QED
    BY <2>1, <2>2 DEF TypeOK
<1>4. ASSUME NEW e \in Entries, Goroutine(e) PROVE TokensAccounted'
  <2>1. UNCHANGED <<workers, n>> /\ (cancelled => cancelled')
    BY <1>4, EntryFrame
  <2>2. CASE Holding' = Holding /\ waitCh' = waitCh
    BY <2>1, <2>2
  <2>3. CASE e \in Holding /\ Holding' = Holding \ {e} /\ ReturnToken
    <3>1. Cardinality(Holding') = Cardinality(Holding) - 1
      BY <2>3, FS_RemoveElement
    <3>2. waitCh' = waitCh + 1 \/ (cancelled' /\ waitCh' = waitCh)
      BY <2>1, <2>3 DEF ReturnToken
    <3>3. workers \in Nat /\ n \in Nat /\ waitCh \in Nat
      BY OptionsAssumption DEF TypeOK
    <3> QED
      BY <2>1, <3>1, <3>2, <3>3
  <2> QED
    BY <1>4, <2>2, <2>3, EntryPool
<1>5. CASE Interrupt \/ UNCHANGED vars
  BY <1>5 DEF Interrupt, vars, Holding
<1> QED
  BY <1>1, <1>2, <1>3, <1>4, <1>5 DEF Next, Terminated, Caller

(* The hooks after the matrix wait for the WaitGroup, which counts; from   *)
(* then on the loop is over and starts no entry.                           *)
LEMMA HooksStep ==
  TypeOK /\ Placed /\ WgCounts /\ HooksAfterEntries /\ [Next]_vars => HooksAfterEntries'
<1> SUFFICES ASSUME TypeOK, Placed, WgCounts, HooksAfterEntries, [Next]_vars,
                    pc' \in AfterStages
             PROVE  Active' = {}
  BY DEF HooksAfterEntries
<1> USE DEF opts, main, ctx, pool, gor, log, At, AfterStages, HooksAfterEntries
<1>1. CASE Caller /\ ~StartEntry
  <2>1. Active' = Active
    BY <1>1, CallerFrame
  <2>2. CASE ResolveToolEnv \/ HookBefore \/ GenerateMatrix
    BY <2>1, <2>2 DEF ResolveToolEnv, HookBefore, GenerateMatrix, Placed, Early, Active, Started
  <2>3. CASE CreateMatrixContext \/ NoMoreEntries \/ StopStarting
    BY <2>3 DEF CreateMatrixContext, NoMoreEntries, StopStarting
  <2>4. CASE WaitEntries
    BY <2>1, <2>4, FiniteEntries, FS_EmptySet DEF WaitEntries, WgCounts
  <2>5. CASE HookAfterFailure \/ HookAfterSuccess \/ HookAfter
    BY <2>1, <2>5 DEF HookAfterFailure, HookAfterSuccess, HookAfter
  <2> QED
    BY <1>1, <2>2, <2>3, <2>4, <2>5 DEF Caller
<1>2. CASE StartEntry
  BY <1>2 DEF StartEntry
<1>3. ASSUME NEW e \in Entries, Goroutine(e) PROVE Active' = {}
  BY <1>3, EntryFrame, EntryPool
<1>4. CASE Interrupt \/ UNCHANGED vars
  BY <1>4 DEF Interrupt, vars, Active
<1> QED
  BY <1>1, <1>2, <1>3, <1>4 DEF Next, Terminated

(* No failure is lost on its way to the error that RunTask returns: none   *)
(* comes after `after`, when the collected errors are looked at.           *)
LEMMA ErrorsStep ==
  TypeOK /\ HooksAfterEntries /\ ErrorsKept /\ [Next]_vars => ErrorsKept'
<1> SUFFICES ASSUME TypeOK, HooksAfterEntries, ErrorsKept, [Next]_vars PROVE ErrorsKept'
  OBVIOUS
<1> USE DEF opts, main, ctx, pool, gor, log, At, ErrorsKept
<1>0. Task \notin Entries
  BY OptionsAssumption DEF Task, Entries
<1>1. CASE ResolveToolEnv \/ HookBefore
  BY <1>0, <1>1 DEF ResolveToolEnv, HookBefore
<1>2. CASE GenerateMatrix
  BY <1>0, <1>2 DEF GenerateMatrix
<1>3. CASE CreateMatrixContext
  BY <1>3 DEF CreateMatrixContext, Collect
<1>4. CASE NoMoreEntries \/ StartEntry \/ StopStarting \/ WaitEntries
  BY <1>4 DEF NoMoreEntries, StartEntry, StopStarting, WaitEntries
<1>5. CASE HookAfterFailure
  BY <1>0, <1>5 DEF HookAfterFailure, Collect
<1>6. CASE HookAfterSuccess
  BY <1>0, <1>6 DEF HookAfterSuccess, Collect
<1>7. CASE HookAfter
  BY <1>0, <1>7 DEF HookAfter, Collect, TypeOK
<1>8. ASSUME NEW e \in Entries, Goroutine(e) PROVE ErrorsKept'
  <2>1. UNCHANGED <<pc, err>>
    BY <1>8, EntryFrame
  <2>2. PICK ok \in BOOLEAN : Collect(e, ok)
    BY <1>8, EntryErrors
  <2>3. UNCHANGED log \/ pc \notin AfterStages
    BY <1>8, EntryErrors DEF HooksAfterEntries
  <2>4. \A d \in Entries : err3'[d] => d \in errCollection'
    <3>1. PICK b \in BOOLEAN :
            /\ err3' = [err3 EXCEPT ![e] = b]
            /\ b => err3[e] \/ e \in errCollection'
      BY <1>8, EntryFlag
    <3> QED
      BY <2>2, <3>1 DEF Collect, TypeOK
  <2>5. pc \in AfterStages => UNCHANGED <<errCollection, faults>>
    BY <2>3
  <2>6. (err \/ errCollection' # {}) <=> faults' # {}
    BY <2>2 DEF Collect
  <2>7. \A d \in Entries : d \in faults' <=> d \in errCollection'
    BY <2>2 DEF Collect
  <2> QED
    BY <2>1, <2>4, <2>5, <2>6, <2>7 DEF AfterStages
<1>9. CASE Interrupt \/ UNCHANGED vars
  BY <1>9 DEF Interrupt, vars
<1> QED
  BY <1>1, <1>2, <1>3, <1>4, <1>5, <1>6, <1>7, <1>8, <1>9 DEF Next, Terminated, Caller

(* A context is cancelled for a reason, and a failed entry that fail-fast  *)
(* lets cancel has done so but for its last chance.                        *)
LEMMA CancelStep ==
  TypeOK /\ Placed /\ ErrorsKept /\ CancelCause /\ [Next]_vars => CancelCause'
<1> SUFFICES ASSUME TypeOK, Placed, ErrorsKept, CancelCause, [Next]_vars PROVE CancelCause'
  OBVIOUS
<1> USE DEF opts, main, ctx, pool, gor, log, At, CancelCause
<1>1. CASE Caller /\ ~StartEntry
  <2>1. UNCHANGED <<failFast, interrupted, epc, err3>> /\ (cancelled => cancelled')
    BY <1>1, CallerFrame
  <2>2. faults \subseteq faults'
    BY <1>1 DEF Caller, ResolveToolEnv, HookBefore, GenerateMatrix, CreateMatrixContext,
       NoMoreEntries, StopStarting, WaitEntries, HookAfterFailure, HookAfterSuccess,
       HookAfter, Collect
  <2>3. CASE ~CreateMatrixContext
    BY <1>1, <2>1, <2>2, <2>3, CallerFrame
  <2>4. CASE CreateMatrixContext
    <3>1. cur \in Entries
      BY <2>4, OptionsAssumption DEF CreateMatrixContext, TypeOK, Entries
    <3>2. cancelled' => cancelled \/ (failFast /\ cur \in faults')
      BY <2>4 DEF CreateMatrixContext, CancelIfFailFast, Collect
    <3> QED
      BY <2>1, <2>2, <3>1, <3>2
  <2> QED
    BY <2>3, <2>4
<1>2. CASE StartEntry
  <2>1. UNCHANGED <<failFast, ctx, err3, faults>>
    BY <1>2 DEF StartEntry
  <2>2. \A e \in Entries : epc[e] = "deferred" => epc'[e] = "deferred"
    BY <1>2, StartFrame DEF StartEntry, TypeOK, Started
  <2> QED
    BY <2>1, <2>2
<1>3. ASSUME NEW e \in Entries, Goroutine(e) PROVE CancelCause'
  <2>1. UNCHANGED <<failFast, interrupted>> /\ (cancelled => cancelled')
    BY <1>3, EntryFrame
  <2>2. PICK s \in EntryStages : epc' = [epc EXCEPT ![e] = s]
    BY <1>3, EntryFrame
  <2>3. faults \subseteq faults'
    BY <1>3, EntryErrors DEF Collect
  <2>4. PICK b \in BOOLEAN :
          /\ err3' = [err3 EXCEPT ![e] = b]
          /\ failFast /\ b /\ epc'[e] # "deferred" =>
               cancelled' \/ (err3[e] /\ epc[e] # "deferred")
          /\ cancelled' => cancelled \/ (failFast /\ (err3[e] \/ e \in faults'))
    BY <1>3, EntryFlag
  <2>5. err3[e] => e \in faults'
    BY <2>3 DEF ErrorsKept
  <2>6. cancelled' => interrupted' \/ (failFast' /\ faults' \cap Entries # {})
    BY <2>1, <2>3, <2>4, <2>5
  <2>7. \A d \in Entries : failFast' /\ err3'[d] /\ epc'[d] # "deferred" => cancelled'
    BY <2>1, <2>2, <2>4 DEF TypeOK
  <2> QED
    BY <2>6, <2>7
<1>4. CASE Interrupt \/ UNCHANGED vars
  BY <1>4 DEF Interrupt, vars
<1> QED
  BY <1>1, <1>2, <1>3, <1>4 DEF Next, Terminated

(* The loop passes no entry over, and stops only with a cause.             *)
LEMMA LoopStep ==
  TypeOK /\ Placed /\ HooksAfterEntries /\ ErrorsKept /\ LoopDone /\ [Next]_vars => LoopDone'
<1> SUFFICES ASSUME TypeOK, Placed, HooksAfterEntries, ErrorsKept, LoopDone, [Next]_vars
             PROVE  LoopDone'
  OBVIOUS
<1> USE DEF opts, main, ctx, pool, gor, log, At, LoopDone, AfterStages
<1>1. CASE Caller /\ ~StartEntry
  <2>1. UNCHANGED failFast /\ Started' = Started /\ (cancelled => cancelled')
    BY <1>1, CallerFrame
  <2>2. CASE ResolveToolEnv \/ HookBefore \/ GenerateMatrix
    <3>1. cur = 1 /\ UNCHANGED cur /\ n = 0
      BY <2>2 DEF ResolveToolEnv, HookBefore, GenerateMatrix, Placed, Early
    <3>2. pc' = "createContext" \/ (pc' # "hookAfterSuccess" /\ n' = 0) \/ pc' \in Early
      BY <2>2, <3>1 DEF ResolveToolEnv, HookBefore, GenerateMatrix, Early
    <3> QED
      BY <3>1, <3>2 DEF Early
  <2>3. CASE CreateMatrixContext
    <3>1. cur \in Entries /\ UNCHANGED n
      BY <2>3, OptionsAssumption DEF CreateMatrixContext, TypeOK, Entries
    <3>2. PICK ok \in BOOLEAN :
            /\ Collect(cur, ok)
            /\ pc' = IF ok THEN "select" ELSE IF failFast THEN "wait" ELSE "createContext"
            /\ cur' = IF ok \/ failFast THEN cur ELSE cur + 1
      BY <2>3 DEF CreateMatrixContext
    <3>3. \A e \in 1..(cur' - 1) : e \in Started' \cup errCollection'
      BY <2>1, <3>2 DEF Collect, TypeOK
    <3>4. pc' = "wait" => failFast /\ cur \in errCollection'
      BY <3>2 DEF Collect
    <3> QED
      BY <2>1, <3>1, <3>2, <3>3, <3>4
  <2>4. CASE NoMoreEntries \/ StopStarting
    BY <2>1, <2>4 DEF NoMoreEntries, StopStarting, TypeOK
  <2>5. CASE WaitEntries
    BY <2>1, <2>5 DEF WaitEntries
  <2>6. CASE HookAfterFailure \/ HookAfterSuccess \/ HookAfter
    BY <2>1, <2>6 DEF HookAfterFailure, HookAfterSuccess, HookAfter, Collect
  <2> QED
    BY <1>1, <2>2, <2>3, <2>4, <2>5, <2>6 DEF Caller
<1>2. CASE StartEntry
  <2>1. Started' = Started \cup {cur} /\ cur' = cur + 1 /\ UNCHANGED errCollection
    BY <1>2, StartFrame DEF StartEntry
  <2>2. \A e \in 1..(cur' - 1) : e \in Started' \cup errCollection'
    BY <2>1 DEF TypeOK
  <2> QED
    BY <1>2, <2>2 DEF StartEntry
<1>3. ASSUME NEW e \in Entries, Goroutine(e) PROVE LoopDone'
  <2>1. UNCHANGED <<opts, main>> /\ Started' = Started /\ (cancelled => cancelled')
    BY <1>3, EntryFrame
  <2>2. errCollection \subseteq errCollection'
    BY <1>3, EntryErrors DEF Collect
  <2>3. pc \in AfterStages => UNCHANGED errCollection
    BY <1>3, EntryErrors DEF HooksAfterEntries
  <2> QED
    BY <2>1, <2>2, <2>3
<1>4. CASE Interrupt \/ UNCHANGED vars
  BY <1>4 DEF Interrupt, vars, Started
<1> QED
  BY <1>1, <1>2, <1>3, <1>4 DEF Next, Terminated

(* A sequence number lags behind as soon as an entry was passed over.      *)
LEMMA SequenceStep == TypeOK /\ Placed /\ Sequence /\ [Next]_vars => Sequence'
<1> SUFFICES ASSUME TypeOK, Placed, Sequence, [Next]_vars PROVE Sequence'
  OBVIOUS
<1> USE DEF opts, main, ctx, pool, gor, log, At, Sequence
<1>1. CASE Caller /\ ~StartEntry
  <2>1. UNCHANGED eseq /\ Started' = Started
    BY <1>1, CallerFrame
  <2>2. CASE GenerateMatrix
    BY <2>1, <2>2 DEF GenerateMatrix, Placed, Early
  <2>3. CASE CreateMatrixContext
    <3>1. cur \notin Started /\ cur \in 1..cur
      BY <2>3 DEF CreateMatrixContext, Placed, TypeOK
    <3>2. PICK ok \in BOOLEAN :
            /\ pc' = IF ok THEN "select" ELSE IF failFast THEN "wait" ELSE "createContext"
            /\ cur' = IF ok \/ failFast THEN cur ELSE cur + 1
            /\ seq' = IF ok THEN seq + 1 ELSE seq
      BY <2>3 DEF CreateMatrixContext
    <3>3. pc = "createContext"
      BY <2>3 DEF CreateMatrixContext
    <3>4. CASE ok
      BY <2>1, <3>2, <3>3, <3>4 DEF TypeOK
    <3>5. CASE ~ok
      <4>1. ~(1..cur \subseteq Started)
        BY <3>1
      <4>2. seq # cur - 1
        BY <3>3 DEF Placed, TypeOK
      <4>3. cur' = cur + 1 => cur' - 1 = cur /\ cur' - 2 = cur - 1
        BY DEF TypeOK
      <4> QED
        BY <2>1, <3>2, <3>5, <4>1, <4>2, <4>3
    <3> QED
      BY <3>4, <3>5
  <2>4. CASE ResolveToolEnv \/ HookBefore \/ NoMoreEntries \/ StopStarting \/ WaitEntries
             \/ HookAfterFailure \/ HookAfterSuccess \/ HookAfter
    BY <2>1, <2>4 DEF ResolveToolEnv, HookBefore, NoMoreEntries, StopStarting, WaitEntries,
       HookAfterFailure, HookAfterSuccess, HookAfter
  <2> QED
    BY <1>1, <2>2, <2>3, <2>4 DEF Caller
<1>2. CASE StartEntry
  <2>1. Started' = Started \cup {cur} /\ cur \notin Started /\ cur \in Entries
    BY <1>2, StartFrame
  <2>2. pc = "select" /\ pc' = "createContext" /\ cur' = cur + 1 /\ seq' = seq
    BY <1>2 DEF StartEntry
  <2>3. eseq' = [eseq EXCEPT ![cur] = seq]
    BY <1>2 DEF StartEntry
  <2>4. 1..cur \subseteq Started' <=> 1..(cur - 1) \subseteq Started
    BY <2>1 DEF TypeOK
  <2>5. ASSUME NEW e \in Started PROVE 1..e \subseteq Started' <=> 1..e \subseteq Started
    <3>1. e \in Int /\ e < cur /\ cur \in Int
      BY DEF TypeOK, Placed, Started, Entries
    <3>2. cur \notin 1..e
      BY <3>1
    <3> QED
      BY <2>1, <3>2
  <2>6. \A e \in Started : eseq'[e] = eseq[e]
    BY <2>1, <2>3 DEF TypeOK, Started
  <2>7. eseq'[cur] = seq
    BY <2>1, <2>3 DEF TypeOK
  <2>8. seq <= cur - 1 /\ (seq = cur - 1 <=> 1..cur \subseteq Started')
    BY <2>2, <2>4 DEF Placed
  <2>9. cur' - 1 = cur /\ cur' - 2 = cur - 1
    BY <2>2 DEF TypeOK
  <2> QED
    BY <2>1, <2>2, <2>5, <2>6, <2>7, <2>8, <2>9
<1>3. ASSUME NEW e \in Entries, Goroutine(e) PROVE Sequence'
  <2>1. UNCHANGED <<main, eseq>> /\ Started' = Started
    BY <1>3, EntryFrame
  <2> QED
    BY <2>1
<1>4. CASE Interrupt \/ UNCHANGED vars
  BY <1>4 DEF Interrupt, vars, Started
<1> QED
  BY <1>1, <1>2, <1>3, <1>4 DEF Next, Terminated

-----------------------------------------------------------------------------

(* IInv is an inductive invariant of RunTask.                              *)
THEOREM RunTaskInvariant == Spec => []IInv
<1>1. IInv /\ [Next]_vars => IInv'
  BY TypeStep, PlacedStep, WgCountsStep, TokensStep, HooksStep, ErrorsStep, CancelStep,
     LoopStep, SequenceStep DEF IInv
<1> QED
  BY <1>1, InitIInv, PTL DEF Spec

(* The variables keep their types, whatever the number of entries.         *)
THEOREM RunTaskTyped == Spec => []TypeOK
<1>1. IInv => TypeOK
  BY DEF IInv
<1> QED
  BY <1>1, RunTaskInvariant, PTL

(* No more entries execute at a time than --workers allows.                *)
THEOREM WorkersLimited == Spec => []WorkerLimit
<1>1. IInv => WorkerLimit
  <2> SUFFICES ASSUME IInv PROVE WorkerLimit
    OBVIOUS
  <2>1. Cardinality(Active) <= Cardinality(Holding)
    BY FiniteEntries, FS_Subset DEF Active, Holding
  <2>2. Cardinality(Holding) <= workers
    <3>1. workers \in Nat /\ n \in Nat /\ waitCh \in Nat
      BY OptionsAssumption DEF IInv, TypeOK
    <3> QED
      BY <3>1, FiniteEntries DEF IInv, TokensAccounted, ClaimWorkers
  <2>3. workers \in Int
    BY OptionsAssumption DEF IInv, TypeOK
  <2> QED
    BY <2>1, <2>2, <2>3, FiniteEntries DEF WorkerLimit
<1> QED
  BY <1>1, RunTaskInvariant, PTL

(* Tokens are neither lost nor duplicated.                                 *)
THEOREM TokensNeverLost == Spec => []TokensAccounted
<1>1. IInv => TokensAccounted
  BY DEF IInv
<1> QED
  BY <1>1, RunTaskInvariant, PTL

(* The hooks after the matrix, and the return, find no entry executing.    *)
THEOREM HooksFindNoEntry == Spec => []HooksAfterEntries
<1>1. IInv => HooksAfterEntries
  BY DEF IInv
<1> QED
  BY <1>1, RunTaskInvariant, PTL

(* RunTask returns an error exactly when a step of it failed.              *)
THEOREM EveryErrorReported == Spec => []ErrorsReported
<1>1. IInv => ErrorsReported
  BY DEF IInv, ErrorsKept, ErrorsReported
<1> QED
  BY <1>1, RunTaskInvariant, PTL

(* Without an interrupt `after:success` means that every entry succeeded.  *)
THEOREM SuccessIsSuccess == Spec => []AfterSuccessSound
<1>1. IInv => AfterSuccessSound
  <2> SUFFICES ASSUME IInv, pc = "hookAfterSuccess", ~interrupted, NEW e \in 1..n
               PROVE  epc[e] \in {"release", "exited"} /\ e \notin faults
    BY DEF AfterSuccessSound
  <2> USE DEF IInv
  <2>1. errCollection = {} /\ e \in Entries /\ e \in Int /\ n \in Int /\ cur \in Int
    BY OptionsAssumption DEF LoopDone, AfterStages, TypeOK, Entries
  <2>2. faults \cap Entries = {}
    BY <2>1 DEF ErrorsKept
  <2>3. cur > n
    BY <2>1, <2>2 DEF CancelCause, LoopDone, AfterStages
  <2>4. e \in 1..(cur - 1)
    BY <2>1, <2>3
  <2>5. e \in Started
    BY <2>1, <2>4 DEF LoopDone
  <2>6. e \notin Active
    BY DEF HooksAfterEntries, AfterStages
  <2> QED
    BY <2>1, <2>2, <2>5, <2>6 DEF Started, Active
<1> QED
  BY <1>1, RunTaskInvariant, PTL

(* Without fail-fast no failure keeps another entry from running.          *)
THEOREM FailuresSkipNoEntry == Spec => []NoEntrySkipped
<1>1. IInv => NoEntrySkipped
  <2> SUFFICES ASSUME IInv, ~failFast, ~interrupted, pc \in AfterStages, NEW e \in 1..n
               PROVE  e \in Started \cup errCollection
    BY DEF NoEntrySkipped
  <2> USE DEF IInv
  <2>1. cur > n
    BY DEF CancelCause, LoopDone
  <2>2. e \in 1..(cur - 1)
    BY <2>1 DEF TypeOK
  <2> QED
    BY <2>2 DEF LoopDone
<1> QED
  BY <1>1, RunTaskInvariant, PTL

(* Fail-fast cancels, and nothing but it and an interrupt does.            *)
THEOREM FailFastDoesCancel == Spec => []FailFastCancels
<1>1. IInv => FailFastCancels
  BY DEF IInv, CancelCause, FailFastCancels
<1> QED
  BY <1>1, RunTaskInvariant, PTL

(* IsLast() holds for the last entry only, and for it only if none before  *)
(* it was passed over.                                                     *)
THEOREM LastIsTheLast == Spec => []LastIsLast
<1>1. IInv => LastIsLast
  <2> SUFFICES ASSUME IInv, NEW e \in Started
               PROVE  eseq[e] = n - 1 <=> e = n /\ 1..n \subseteq Started
    BY DEF LastIsLast
  <2> USE DEF IInv
  <2>1. e \in Int /\ cur \in Int /\ n \in Int /\ eseq[e] \in Int
    BY DEF TypeOK, Started, Entries
  <2>2. e <= n
    BY <2>1 DEF Placed
  <2>3. eseq[e] <= e - 1 /\ (eseq[e] = e - 1 <=> 1..e \subseteq Started)
    BY DEF Sequence
  <2>4. eseq[e] = n - 1 => e = n
    BY <2>1, <2>2, <2>3
  <2> QED
    BY <2>1, <2>3, <2>4
<1> QED
  BY <1>1, RunTaskInvariant, PTL

-----------------------------------------------------------------------------
(***************************************************************************)
(* RunTask implements TaskPool, for any bound on the entries and any set   *)
(* of worker limits.  A step of the caller's goroutine or of an entry's is *)
(* one of TaskPool's or a stutter: taking a token begins an entry, wg.Done *)
(* finishes it, the deferred function returns.  That the entry to begin is *)
(* still waiting needs one fact more than IInv: the loop finds no error of *)
(* an entry it has not reached (NotReached).                               *)
(***************************************************************************)

(* Entries the loop has not decided about have reported nothing.           *)
NotReached ==
  /\ pc \in Early => errCollection = {}
  /\ pc \in {"createContext", "select"} => \A e \in Entries : e \in errCollection => e < cur

(* The loop moves on before an entry it decided about can report anything. *)
LEMMA NotReachedStep == TypeOK /\ Placed /\ NotReached /\ [Next]_vars => NotReached'
<1> SUFFICES ASSUME TypeOK, Placed, NotReached, [Next]_vars PROVE NotReached'
  OBVIOUS
<1> USE DEF opts, main, ctx, pool, gor, log, At, NotReached, Early
<1>0. Task \notin Entries
  BY OptionsAssumption DEF Task, Entries
<1>1. CASE ResolveToolEnv \/ HookBefore \/ GenerateMatrix
  BY <1>1 DEF ResolveToolEnv, HookBefore, GenerateMatrix
<1>2. CASE CreateMatrixContext
  <2>1. PICK ok \in BOOLEAN :
          /\ Collect(cur, ok)
          /\ pc' = IF ok THEN "select" ELSE IF failFast THEN "wait" ELSE "createContext"
          /\ cur' = IF ok \/ failFast THEN cur ELSE cur + 1
    BY <1>2 DEF CreateMatrixContext
  <2>2. pc = "createContext"
    BY <1>2 DEF CreateMatrixContext
  <2>3. \A e \in Entries : e < cur => e < cur + 1
    BY DEF TypeOK, Entries
  <2>4. cur < cur + 1
    BY DEF TypeOK
  <2> QED
    BY <2>1, <2>2, <2>3, <2>4 DEF Collect
<1>3. CASE StartEntry
  <2>1. \A e \in Entries : e < cur => e < cur + 1
    BY DEF TypeOK, Entries
  <2> QED
    BY <1>3, <2>1 DEF StartEntry
<1>4. CASE NoMoreEntries \/ StopStarting \/ WaitEntries
           \/ HookAfterFailure \/ HookAfterSuccess \/ HookAfter
  BY <1>4 DEF NoMoreEntries, StopStarting, WaitEntries, HookAfterFailure, HookAfterSuccess,
     HookAfter
<1>5. ASSUME NEW e \in Entries, Goroutine(e) PROVE NotReached'
  <2>1. UNCHANGED <<pc, cur>> /\ e \in Started
    BY <1>5, EntryFrame
  <2>2. \E ok \in BOOLEAN : Collect(e, ok)
    BY <1>5, EntryErrors
  <2>3. e < cur /\ pc \notin Early
    BY <2>1 DEF Placed
  <2> QED
    BY <2>1, <2>2, <2>3 DEF Collect
<1>6. CASE Interrupt \/ UNCHANGED vars
  BY <1>6 DEF Interrupt, vars
<1> QED
  BY <1>1, <1>2, <1>3, <1>4, <1>5, <1>6 DEF Next, Terminated, Caller

-----------------------------------------------------------------------------

(* The status of an entry in terms of the sets it is in, in both states.   *)
Status(e, active, errors, started) ==
  IF e \in active THEN "running"
  ELSE IF e \in errors THEN "failed"
  ELSE IF e \in started THEN "ok" ELSE "waiting"

(* The status of an entry, as TaskPool sees it, by the state of RunTask.    *)
LEMMA StatusOf ==
  ASSUME NEW e \in Entries
  PROVE  /\ EntryStatus(e) = Status(e, Active, errCollection, Started)
         /\ EntryStatus(e)' = Status(e, Active', errCollection', Started')
  BY DEF EntryStatus, Status, Active, Started

(* What TaskPool sees of an execution.                                     *)
Fault == Task \in errCollection \/ err
Result == IF pc # "returned" THEN "none" ELSE IF err THEN "failure" ELSE "success"
EntryStatuses == [e \in Entries |-> EntryStatus(e)]

(* The entries TaskPool sees run are the active ones.                      *)
LEMMA RunningIsActive == Pool!With("running") = Active
<1>1. \A e \in Entries : EntryStatus(e) = "running" <=> e \in Active
  BY StatusOf DEF Status
<1> QED
  BY <1>1 DEF Pool!With, Active

(* TaskPool counts as RunTask does.                                        *)
LEMMA SameCardinality == \A S : Pool!Cardinality(S) = Cardinality(S)
  BY DEF Pool!Cardinality, Cardinality

(* The first state of an execution is one of TaskPool's.                   *)
LEMMA PoolInit == Init => Pool!Init
<1> SUFFICES ASSUME Init PROVE Pool!Init
  OBVIOUS
<1>1. \A e \in Entries : EntryStatus(e) = "waiting"
  BY DEF Init, EntryStatus
<1> QED
  BY <1>1 DEF Init, Pool!Init

(* A step that leaves the three sets, the fault and the result alone, but  *)
(* for errors of entries that execute, is a stutter of TaskPool.           *)
LEMMA PoolStutter ==
  ASSUME UNCHANGED <<workers, Fault, Result>>,
         Active' = Active, Started' = Started,
         \A e \in Entries : e \in Active \/ (e \in errCollection' <=> e \in errCollection)
  PROVE  UNCHANGED Pool!vars
<1>1. \A e \in Entries : EntryStatus(e)' = EntryStatus(e)
  BY StatusOf DEF Status
<1> QED
  BY <1>1 DEF Pool!vars, Fault, Result

(* A step that only adds a fault of the task is TaskPool's Fail.           *)
LEMMA PoolFail ==
  ASSUME UNCHANGED workers, pc # "returned", pc' # "returned", Fault',
         Active' = Active, Started' = Started,
         \A e \in Entries : e \in errCollection' <=> e \in errCollection
  PROVE  Pool!Fail
<1>1. \A e \in Entries : EntryStatus(e)' = EntryStatus(e)
  BY StatusOf DEF Status
<1> QED
  BY <1>1 DEF Pool!Fail, Fault

(* A step that returns, with an error when there is one, is its Return.    *)
LEMMA PoolReturn ==
  ASSUME UNCHANGED workers, pc # "returned", pc' = "returned",
         Active = {}, Active' = Active, Started' = Started,
         \A e \in Entries : e \in errCollection' <=> e \in errCollection,
         Fault => Fault', Fault \in BOOLEAN,
         err' <=> Fault' \/ errCollection \cap Entries # {}
  PROVE  Pool!Return
<1>1. \A e \in Entries : EntryStatus(e)' = EntryStatus(e)
  BY StatusOf DEF Status
<1>2. Pool!With("running") = {}
  BY RunningIsActive
<1>3. \A e \in Entries : EntryStatus(e) = "failed" <=> e \in errCollection
  BY StatusOf DEF Status
<1>4. Pool!With("failed") # {} <=> errCollection \cap Entries # {}
  BY <1>3 DEF Pool!With
<1>5. Fault' \in {Fault, TRUE}
  BY DEF Fault
<1> QED
  BY <1>1, <1>2, <1>4, <1>5 DEF Pool!Return, Fault

-----------------------------------------------------------------------------

(* A step of the caller's goroutine, seen by TaskPool.                     *)
LEMMA CallerRefines ==
  ASSUME IInv, NotReached, Caller
  PROVE  Pool!Next \/ UNCHANGED Pool!vars
<1> USE DEF opts, main, ctx, pool, gor, log, At, Collect
<1>0. Task \notin Entries
  BY OptionsAssumption DEF Task, Entries
<1>1. CASE StartEntry
  <2>1. PICK k \in Entries :
          /\ k = cur /\ k \notin Started /\ k \notin Active
          /\ Started' = Started \cup {k} /\ Active' = Active \cup {k}
    BY <1>1, StartFrame DEF IInv
  <2>2. k \notin errCollection
    BY <1>1, <2>1 DEF StartEntry, NotReached, IInv, TypeOK
  <2>3. EntryStatus(k) = "waiting" /\ EntryStatus(k)' = "running"
    BY <2>1, <2>2, StatusOf DEF Status
  <2>4. \A e \in Entries \ {k} : EntryStatus(e)' = EntryStatus(e)
    BY <1>1, <2>1, StatusOf DEF Status, StartEntry
  <2>5. Cardinality(Pool!With("running")) < workers
    <3>1. Cardinality(Active) <= Cardinality(Holding)
      BY FiniteEntries, FS_Subset DEF Active, Holding
    <3>2. workers \in Nat /\ n \in Nat /\ waitCh \in Nat
      BY OptionsAssumption DEF IInv, TypeOK
    <3>3. waitCh + Cardinality(Holding) <= workers /\ waitCh > 0
      BY <1>1, <3>2, FiniteEntries DEF StartEntry, IInv, TokensAccounted, ClaimWorkers
    <3> QED
      BY <3>1, <3>2, <3>3, RunningIsActive, FiniteEntries
  <2>6. UNCHANGED <<workers, Fault, Result>> /\ Result = "none"
    BY <1>1 DEF StartEntry, Fault, Result
  <2>7. Pool!Begin(k)
    BY <2>3, <2>4, <2>5, <2>6, SameCardinality DEF Pool!Begin, Fault, Result
  <2> QED
    BY <2>7 DEF Pool!Next
<1>2. CASE ~StartEntry
  <2>0. Active' = Active /\ Started' = Started /\ UNCHANGED workers
    BY <1>2, CallerFrame
  <2>1. CASE ResolveToolEnv
    <3>1. CASE pc' = "returned"
      <4>1. errCollection = {} /\ UNCHANGED errCollection /\ err' /\ ~err
        BY <2>1, <3>1 DEF ResolveToolEnv, NotReached, Early, IInv, ErrorsKept
      <4>2. Active = {}
        BY <2>1 DEF ResolveToolEnv, IInv, Placed, Early, Active, Started
      <4>3. Pool!Return
        BY <2>0, <2>1, <3>1, <4>1, <4>2, PoolReturn DEF ResolveToolEnv, Fault
      <4> QED
        BY <4>3 DEF Pool!Next
    <3>2. CASE pc' # "returned"
      BY <2>0, <2>1, <3>2, PoolStutter DEF ResolveToolEnv, Fault, Result, IInv, ErrorsKept
    <3> QED
      BY <3>1, <3>2
  <2>2. CASE HookBefore \/ GenerateMatrix
    <3>1. pc # "returned" /\ pc' # "returned" /\ UNCHANGED errCollection
      BY <2>2 DEF HookBefore, GenerateMatrix
    <3>2. CASE err'
      BY <2>0, <3>1, <3>2, PoolFail DEF Fault, Pool!Next
    <3>3. CASE ~err'
      <4>1. UNCHANGED err
        BY <2>2, <3>3 DEF HookBefore, GenerateMatrix, IInv, ErrorsKept, TypeOK
      <4> QED
        BY <2>0, <3>1, <4>1, PoolStutter DEF Fault, Result
    <3> QED
      BY <3>2, <3>3
  <2>3. CASE CreateMatrixContext
    <3>1. PICK k \in Entries, ok \in BOOLEAN : k = cur /\ Collect(k, ok)
      <4>1. cur \in Entries
        BY <2>3, OptionsAssumption DEF CreateMatrixContext, IInv, TypeOK, Entries
      <4> QED
        BY <2>3, <4>1 DEF CreateMatrixContext
    <3>2. k \notin Started /\ k \notin Active /\ k \notin errCollection
      <4>1. pc = "createContext" /\ k \in Int
        BY <2>3 DEF CreateMatrixContext, Entries
      <4>2. k \notin Started /\ k \notin errCollection
        BY <3>1, <4>1 DEF NotReached, IInv, Placed
      <4> QED
        BY <4>2 DEF Active, Started
    <3>3. UNCHANGED <<workers, Fault, Result>> /\ Result = "none"
      BY <1>0, <2>3, <3>1, <3>2 DEF CreateMatrixContext, Fault, Result
    <3>4. CASE ok
      BY <2>0, <3>1, <3>3, <3>4, PoolStutter
    <3>5. CASE ~ok
      <4>1. EntryStatus(k) = "waiting" /\ EntryStatus(k)' = "failed"
        BY <2>0, <3>1, <3>2, <3>5, StatusOf DEF Status
      <4>2. \A e \in Entries \ {k} : EntryStatus(e)' = EntryStatus(e)
        BY <2>0, <3>1, <3>5, StatusOf DEF Status
      <4>3. Pool!Reject(k)
        BY <3>3, <4>1, <4>2 DEF Pool!Reject, Fault, Result
      <4> QED
        BY <4>3 DEF Pool!Next
    <3> QED
      BY <3>4, <3>5
  <2>4. CASE NoMoreEntries \/ StopStarting \/ WaitEntries
    <3>1. UNCHANGED <<err, errCollection, Result>>
      BY <2>4 DEF NoMoreEntries, StopStarting, WaitEntries, Result
    <3> QED
      BY <2>0, <3>1, PoolStutter DEF Fault
  <2>5. CASE HookAfterFailure \/ HookAfterSuccess
    <3>1. pc # "returned" /\ pc' # "returned" /\ ~err
      BY <2>5 DEF HookAfterFailure, HookAfterSuccess, IInv, ErrorsKept
    <3>2. PICK ok \in BOOLEAN : Collect(Task, ok) /\ (ok => ~err')
      <4>1. CASE HookAfterFailure
        BY <3>1, <4>1 DEF HookAfterFailure
      <4>2. CASE HookAfterSuccess
        BY <4>2 DEF HookAfterSuccess
      <4> QED
        BY <2>5, <4>1, <4>2
    <3>3. CASE ok
      BY <2>0, <3>1, <3>2, <3>3, PoolStutter DEF Fault, Result
    <3>4. CASE ~ok
      BY <1>0, <2>0, <3>1, <3>2, <3>4, PoolFail DEF Fault, Pool!Next
    <3> QED
      BY <3>3, <3>4
  <2>6. CASE HookAfter
    <3>1. PICK ok \in BOOLEAN : Collect(Task, ok)
      BY <2>6 DEF HookAfter
    <3>2. pc = "hookAfter" /\ pc' = "returned" /\ (err' <=> err \/ errCollection' # {})
      BY <2>6 DEF HookAfter
    <3>3. Active = {}
      BY <3>2 DEF IInv, HooksAfterEntries, AfterStages
    <3>4. err' <=> Fault' \/ errCollection \cap Entries # {}
      BY <3>1, <3>2 DEF Fault
    <3>5. \A e \in Entries : e \in errCollection' <=> e \in errCollection
      BY <1>0, <3>1
    <3>6. (Fault => Fault') /\ Fault \in BOOLEAN
      BY <3>1, <3>2 DEF Fault, IInv, TypeOK
    <3>7. Pool!Return
      BY <2>0, <3>2, <3>3, <3>4, <3>5, <3>6, PoolReturn
    <3> QED
      BY <3>7 DEF Pool!Next
  <2> QED
    BY <1>2, <2>1, <2>2, <2>3, <2>4, <2>5, <2>6 DEF Caller
<1> QED
  BY <1>1, <1>2

(* A step of an entry's goroutine, seen by TaskPool.                       *)
LEMMA EntryRefines ==
  ASSUME IInv, NEW e \in Entries, Goroutine(e)
  PROVE  Pool!Next \/ UNCHANGED Pool!vars
<1>0. Task \notin Entries
  BY OptionsAssumption DEF Task, Entries
<1>1. UNCHANGED <<workers, pc, err>> /\ Started' = Started /\ e \in Started
  BY EntryFrame DEF IInv, opts, main
<1>2. PICK ok \in BOOLEAN : Collect(e, ok)
  BY EntryErrors DEF IInv
<1>3. UNCHANGED errCollection \/ e \in Active
  BY EntryErrors DEF IInv, log
<1>4. UNCHANGED <<Fault, Result>>
  BY <1>0, <1>1, <1>2 DEF Fault, Result, Collect
<1>5. CASE Active' = Active
  <2>1. \A d \in Entries : d \in Active \/ (d \in errCollection' <=> d \in errCollection)
    BY <1>2, <1>3 DEF Collect
  <2> QED
    BY <1>1, <1>4, <1>5, <2>1, PoolStutter
<1>6. CASE e \in Active /\ Active' = Active \ {e}
  <2>1. EntryStatus(e) = "running" /\ EntryStatus(e)' \in {"ok", "failed"}
    BY <1>1, <1>6, StatusOf DEF Status
  <2>2. \A d \in Entries \ {e} : EntryStatus(d)' = EntryStatus(d)
    BY <1>1, <1>2, <1>6, StatusOf DEF Status, Collect
  <2>3. Pool!Finish(e)
    BY <1>1, <1>4, <2>1, <2>2 DEF Pool!Finish, Fault, Result
  <2> QED
    BY <2>3 DEF Pool!Next
<1> QED
  BY <1>5, <1>6, EntryPool DEF IInv

(* RunTask is an implementation of TaskPool.                               *)
THEOREM RunTaskImplementsTaskPool == Spec => ImplementsTaskPool
<1>1. Spec => [](IInv /\ NotReached)
  <2>1. Init => NotReached
    BY DEF Init, NotReached
  <2>2. IInv /\ NotReached /\ [Next]_vars => NotReached'
    BY NotReachedStep DEF IInv
  <2> QED
    BY <2>1, <2>2, RunTaskInvariant, PTL DEF Spec
<1>2. IInv /\ NotReached /\ [Next]_vars => [Pool!Next]_(Pool!vars)
  <2> SUFFICES ASSUME IInv, NotReached, [Next]_vars
               PROVE  Pool!Next \/ UNCHANGED Pool!vars
    OBVIOUS
  <2>1. CASE Interrupt \/ UNCHANGED vars
    <3>1. /\ UNCHANGED <<workers, Fault, Result, errCollection>>
          /\ Active' = Active /\ Started' = Started
      BY <2>1 DEF Interrupt, vars, opts, main, pool, gor, log, Fault, Result, Active, Started
    <3> QED
      BY <3>1, PoolStutter
  <2> QED
    BY <2>1, CallerRefines, EntryRefines DEF Next, Terminated
<1> QED
  BY <1>1, <1>2, PoolInit, PTL DEF Spec, ImplementsTaskPool, Pool!Spec

=============================================================================
