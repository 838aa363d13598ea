---------------------------- MODULE SharedProofs ----------------------------
(***************************************************************************)
(* Proofs about what goroutines share: a list of actions (ActionChain) and *)
(* a value that is created when first asked for (LazyValue).               *)
(*                                                                         *)
(* ActionChain, for any goroutines and any lists.  That a goroutine runs   *)
(* an action with its own values rests on the mutex: between the rendering *)
(* of the list and the use of an action nobody else renders it (OwnList),  *)
(* because whoever is there holds BaseTask.mu (LockDiscipline).            *)
(*                                                                         *)
(* LazyValue, for any finite set of callers, any number of calls and any   *)
(* values: Get creates the value once and returns nothing else.            *)
(* `writing` counts the goroutines between the first and the last access   *)
(* of Get that matter (Counts), so a reader that finds it 0 knows that     *)
(* nobody is in create(); and once `initialized` is set the value is there *)
(* unless its one writer is still creating it (Elected).                   *)
(***************************************************************************)
EXTENDS ActionChain, LazyValue, TLAPS, FiniteSetTheorems

(***************************************************************************)
(* ActionChain                                                             *)
(***************************************************************************)

(* The action a goroutine runs is one of the list.                         *)
AtAction == \A g \in Goroutines : pc[g] \in {"run", "next"} => idx[g] <= Len(actions)

(* The list a workflow task takes an action from was rendered for it.      *)
OwnList ==
  \A g \in Goroutines : pc[g] = "action" /\ holder = "jobs" /\ rendered => list = g

(* ResolveActions leaves the state of the context alone.                   *)
NotBegun ==
  \A g \in Goroutines : first[g] /\ pc[g] \in {"lock", "list", "action"} => state[g] = "pending"

ChainInv ==
  /\ TypeOK /\ AtAction /\ LockDiscipline /\ OwnList /\ OwnValues
  /\ NotBegun /\ FinalState

-----------------------------------------------------------------------------

(* What is known of every action of a list.                                *)
LEMMA ActionType ==
  ASSUME TypeOK, NEW i \in 1..Len(actions)
  PROVE  /\ actions[i].kind \in Kinds
         /\ actions[i].next \in {NoNext, UnknownNext} \cup 1..Len(actions)
<1>1. actions \in Lists /\ actions \in Seq(Action)
  BY ActionChainAssumption DEF TypeOK
<1>2. actions[i] \in Action
  BY <1>1
<1>3. actions[i].kind \in Kinds
  BY <1>2 DEF Action
<1> QED
  BY <1>1, <1>3, ActionChainAssumption

(* The length of a list is a number the provers can count with.            *)
LEMMA ListLength == TypeOK => Len(actions) \in Nat
  BY ActionChainAssumption DEF TypeOK

(* Every initial state satisfies the invariant.                            *)
LEMMA InitChainInv == Init => ChainInv
<1> SUFFICES ASSUME Init PROVE ChainInv
  OBVIOUS
<1> USE ActionChainAssumption DEF Init
<1>1. TypeOK
  BY DEF TypeOK, Stages, NoNext
<1>2. AtAction /\ OwnList /\ OwnValues /\ NotBegun /\ FinalState
  BY DEF AtAction, OwnList, OwnValues, NotBegun, FinalState
<1>3. LockDiscipline
  BY DEF LockDiscipline
<1> QED
  BY <1>1, <1>2, <1>3 DEF ChainInv

(* Every step keeps the types, and runs an action of the list only.        *)
LEMMA TypeStep == TypeOK /\ AtAction /\ [Next]_vars => TypeOK' /\ AtAction'
<1> SUFFICES ASSUME TypeOK, AtAction, [Next]_vars PROVE TypeOK' /\ AtAction'
  OBVIOUS
<1> USE ListLength DEF TypeOK, AtAction, Stages, Goto, SetState, shared
<1>1. ASSUME NEW g \in Goroutines, Lock(g) PROVE TypeOK' /\ AtAction'
  BY <1>1 DEF Lock
<1>2. ASSUME NEW g \in Goroutines, ResolveList(g) PROVE TypeOK' /\ AtAction'
  BY <1>2 DEF ResolveList, FailToResolve, Unlock
<1>3. ASSUME NEW g \in Goroutines, ResolveAction(g) PROVE TypeOK' /\ AtAction'
  <2>1. CASE PastTheEnd(g)
    BY <1>3, <2>1 DEF ResolveAction, PastTheEnd, Unlock
  <2>2. CASE Skip(g)
    BY <1>3, <2>2 DEF ResolveAction, Skip, Unlock
  <2>3. CASE GenSpecs(g)
    BY <1>3, <2>3 DEF ResolveAction, GenSpecs, Unlock
  <2>4. CASE GenFails(g)
    BY <1>3, <2>4 DEF ResolveAction, GenFails, FailToResolve, Unlock
  <2> QED
    BY <1>3, <2>1, <2>2, <2>3, <2>4 DEF ResolveAction
<1>4. ASSUME NEW g \in Goroutines, RunAction(g) PROVE TypeOK' /\ AtAction'
  <2>1. idx[g] \in 0..Len(actions)
    BY <1>4 DEF RunAction
  <2>2. CASE ActionGoesOn(g)
    BY <1>4, <2>2 DEF RunAction, ActionGoesOn
  <2>3. CASE ActionStops(g)
    BY <1>4, <2>1, <2>3 DEF RunAction, ActionStops
  <2>4. CASE ActionCannotRun(g)
    BY <1>4, <2>1, <2>4 DEF RunAction, ActionCannotRun
  <2> QED
    BY <1>4, <2>2, <2>3, <2>4 DEF RunAction
<1>5. ASSUME NEW g \in Goroutines, ResolveNext(g) PROVE TypeOK' /\ AtAction'
  <2>1. actions[idx[g]].next # UnknownNext =>
          NextIndex(actions[idx[g]], idx[g]) \in 1..(Len(actions) + 1)
    BY <1>5, ActionType DEF ResolveNext, NextIndex, NoNext, UnknownNext
  <2> QED
    BY <1>5, <2>1 DEF ResolveNext
<1>6. CASE UNCHANGED vars
  BY <1>6 DEF vars
<1> QED
  BY <1>1, <1>2, <1>3, <1>4, <1>5, <1>6 DEF Next, Step, Terminated

(* BaseTask.mu is taken and given back where it must be.                   *)
LEMMA LockStep == TypeOK /\ LockDiscipline /\ [Next]_vars => LockDiscipline'
<1> SUFFICES ASSUME TypeOK, LockDiscipline, [Next]_vars PROVE LockDiscipline'
  OBVIOUS
<1> USE ActionChainAssumption DEF TypeOK, LockDiscipline, Locks, Goto, SetState, shared
<1>1. ASSUME NEW g \in Goroutines, Lock(g) PROVE LockDiscipline'
  BY <1>1 DEF Lock
<1>2. ASSUME NEW g \in Goroutines, ResolveList(g) PROVE LockDiscipline'
  BY <1>2 DEF ResolveList, FailToResolve, Unlock
<1>3. ASSUME NEW g \in Goroutines, ResolveAction(g) PROVE LockDiscipline'
  <2>1. CASE PastTheEnd(g)
    BY <1>3, <2>1 DEF ResolveAction, PastTheEnd, Unlock
  <2>2. CASE Skip(g)
    BY <1>3, <2>2 DEF ResolveAction, Skip, Unlock
  <2>3. CASE GenSpecs(g)
    BY <1>3, <2>3 DEF ResolveAction, GenSpecs, Unlock
  <2>4. CASE GenFails(g)
    BY <1>3, <2>4 DEF ResolveAction, GenFails, FailToResolve, Unlock
  <2> QED
    BY <1>3, <2>1, <2>2, <2>3, <2>4 DEF ResolveAction
<1>4. ASSUME NEW g \in Goroutines, RunAction(g) PROVE LockDiscipline'
  BY <1>4 DEF RunAction, ActionGoesOn, ActionStops, ActionCannotRun
<1>5. ASSUME NEW g \in Goroutines, ResolveNext(g) PROVE LockDiscipline'
  BY <1>5 DEF ResolveNext
<1>6. CASE UNCHANGED vars
  BY <1>6 DEF vars
<1> QED
  BY <1>1, <1>2, <1>3, <1>4, <1>5, <1>6 DEF Next, Step, Terminated

(* Nobody renders the jobs of a workflow between their rendering for a     *)
(* goroutine and their use by it.                                          *)
LEMMA OwnListStep == TypeOK /\ LockDiscipline /\ OwnList /\ [Next]_vars => OwnList'
<1> SUFFICES ASSUME TypeOK, LockDiscipline, OwnList, [Next]_vars PROVE OwnList'
  OBVIOUS
<1> USE ActionChainAssumption DEF TypeOK, LockDiscipline, Locks, OwnList, Goto, SetState, shared
<1>1. ASSUME NEW g \in Goroutines, Lock(g) PROVE OwnList'
  BY <1>1 DEF Lock
<1>2. ASSUME NEW g \in Goroutines, ResolveList(g) PROVE OwnList'
  BY <1>2 DEF ResolveList, FailToResolve, Unlock
<1>3. ASSUME NEW g \in Goroutines, ResolveAction(g) PROVE OwnList'
  <2>1. CASE PastTheEnd(g)
    BY <1>3, <2>1 DEF ResolveAction, PastTheEnd, Unlock
  <2>2. CASE Skip(g)
    BY <1>3, <2>2 DEF ResolveAction, Skip, Unlock
  <2>3. CASE GenSpecs(g)
    BY <1>3, <2>3 DEF ResolveAction, GenSpecs, Unlock
  <2>4. CASE GenFails(g)
    BY <1>3, <2>4 DEF ResolveAction, GenFails, FailToResolve, Unlock
  <2> QED
    BY <1>3, <2>1, <2>2, <2>3, <2>4 DEF ResolveAction
<1>4. ASSUME NEW g \in Goroutines, RunAction(g) PROVE OwnList'
  BY <1>4 DEF RunAction, ActionGoesOn, ActionStops, ActionCannotRun
<1>5. ASSUME NEW g \in Goroutines, ResolveNext(g) PROVE OwnList'
  BY <1>5 DEF ResolveNext
<1>6. CASE UNCHANGED vars
  BY <1>6 DEF vars
<1> QED
  BY <1>1, <1>2, <1>3, <1>4, <1>5, <1>6 DEF Next, Step, Terminated

(* An action is resolved with the values the list was rendered with.       *)
LEMMA OwnValuesStep == TypeOK /\ OwnList /\ OwnValues /\ [Next]_vars => OwnValues'
<1> SUFFICES ASSUME TypeOK, OwnList, OwnValues, [Next]_vars PROVE OwnValues'
  OBVIOUS
<1> USE ActionChainAssumption DEF TypeOK, OwnList, OwnValues, Goto, SetState, shared
<1>1. ASSUME NEW g \in Goroutines, Lock(g) PROVE OwnValues'
  BY <1>1 DEF Lock
<1>2. ASSUME NEW g \in Goroutines, ResolveList(g) PROVE OwnValues'
  BY <1>2 DEF ResolveList, FailToResolve, Unlock
<1>3. ASSUME NEW g \in Goroutines, ResolveAction(g) PROVE OwnValues'
  <2>1. CASE PastTheEnd(g)
    BY <1>3, <2>1 DEF ResolveAction, PastTheEnd, Unlock
  <2>2. CASE Skip(g)
    BY <1>3, <2>2 DEF ResolveAction, Skip, Unlock
  <2>3. CASE GenSpecs(g)
    BY <1>3, <2>3 DEF ResolveAction, GenSpecs, Unlock
  <2>4. CASE GenFails(g)
    BY <1>3, <2>4 DEF ResolveAction, GenFails, FailToResolve, Unlock
  <2> QED
    BY <1>3, <2>1, <2>2, <2>3, <2>4 DEF ResolveAction
<1>4. ASSUME NEW g \in Goroutines, RunAction(g) PROVE OwnValues'
  BY <1>4 DEF RunAction, ActionGoesOn, ActionStops, ActionCannotRun
<1>5. ASSUME NEW g \in Goroutines, ResolveNext(g) PROVE OwnValues'
  BY <1>5 DEF ResolveNext
<1>6. CASE UNCHANGED vars
  BY <1>6 DEF vars
<1> QED
  BY <1>1, <1>2, <1>3, <1>4, <1>5, <1>6 DEF Next, Step, Terminated

(* The state follows the goroutine to the end of its chain.                *)
LEMMA StateStep == TypeOK /\ NotBegun /\ FinalState /\ [Next]_vars => (NotBegun /\ FinalState)'
<1> SUFFICES ASSUME TypeOK, NotBegun, FinalState, [Next]_vars PROVE (NotBegun /\ FinalState)'
  OBVIOUS
<1> USE ActionChainAssumption DEF TypeOK, NotBegun, FinalState, Goto, SetState, shared
<1>1. ASSUME NEW g \in Goroutines, Lock(g) PROVE (NotBegun /\ FinalState)'
  BY <1>1 DEF Lock
<1>2. ASSUME NEW g \in Goroutines, ResolveList(g) PROVE (NotBegun /\ FinalState)'
  BY <1>2 DEF ResolveList, FailToResolve, Unlock
<1>3. ASSUME NEW g \in Goroutines, ResolveAction(g) PROVE (NotBegun /\ FinalState)'
  <2>1. CASE PastTheEnd(g)
    BY <1>3, <2>1 DEF ResolveAction, PastTheEnd, Unlock
  <2>2. CASE Skip(g)
    BY <1>3, <2>2 DEF ResolveAction, Skip, Unlock
  <2>3. CASE GenSpecs(g)
    BY <1>3, <2>3 DEF ResolveAction, GenSpecs, Unlock
  <2>4. CASE GenFails(g)
    BY <1>3, <2>4 DEF ResolveAction, GenFails, FailToResolve, Unlock
  <2> QED
    BY <1>3, <2>1, <2>2, <2>3, <2>4 DEF ResolveAction
<1>4. ASSUME NEW g \in Goroutines, RunAction(g) PROVE (NotBegun /\ FinalState)'
  BY <1>4 DEF RunAction, ActionGoesOn, ActionStops, ActionCannotRun
<1>5. ASSUME NEW g \in Goroutines, ResolveNext(g) PROVE (NotBegun /\ FinalState)'
  BY <1>5 DEF ResolveNext
<1>6. CASE UNCHANGED vars
  BY <1>6 DEF vars
<1> QED
  BY <1>1, <1>2, <1>3, <1>4, <1>5, <1>6 DEF Next, Step, Terminated

-----------------------------------------------------------------------------

(* ChainInv is an inductive invariant of ActionChain.                      *)
THEOREM ChainInvariant == Spec => []ChainInv
<1>1. ChainInv /\ [Next]_vars => ChainInv'
  BY TypeStep, LockStep, OwnListStep, OwnValuesStep, StateStep DEF ChainInv
<1> QED
  BY <1>1, InitChainInv, PTL DEF Spec

(* The variables keep their types, for all lists and goroutines.           *)
THEOREM ChainTyped == Spec => []TypeOK
<1>1. ChainInv => TypeOK
  BY DEF ChainInv
<1> QED
  BY <1>1, ChainInvariant, PTL

(* BaseTask.mu is held exactly where it must be.                           *)
THEOREM LocksAreKept == Spec => []LockDiscipline
<1>1. ChainInv => LockDiscipline
  BY DEF ChainInv
<1> QED
  BY <1>1, ChainInvariant, PTL

(* A goroutine runs the actions of a workflow, and hooks whose list is not *)
(* rendered itself, with its own matrix values.                            *)
THEOREM ValuesAreOwn == Spec => []OwnValues
<1>1. ChainInv => OwnValues
  BY DEF ChainInv
<1> QED
  BY <1>1, ChainInvariant, PTL

(* The state of the task is that of the end of its chain.                  *)
THEOREM StateIsFinal == Spec => []FinalState
<1>1. ChainInv => FinalState
  BY DEF ChainInv
<1> QED
  BY <1>1, ChainInvariant, PTL

(***************************************************************************)
(* LazyValue                                                               *)
(***************************************************************************)

(* `writing` is the number of goroutines counted in.                       *)
Counts == writing = Cardinality(Counted)

(* Who may be where, as far as the election of the writer went.            *)
Elected ==
  /\ initialized = 0 => value = NoValue /\ \A c \in Callers : at[c] \in {"idle", "swap"}
  /\ initialized = 1 /\ value = NoValue => \E c \in Callers : at[c] = "create"
  /\ \A c, d \in Callers : at[c] = "create" /\ at[d] = "create" => c = d
  /\ \A c \in Callers : at[c] = "create" => value = NoValue
  /\ \A c \in Callers : at[c] \in {"done", "return"} => value # NoValue

LazyInv == LazyTypeOK /\ Counts /\ Elected

-----------------------------------------------------------------------------

(* The variables of the initial states have their types.                   *)
LEMMA InitLazyInv == LazyInit => LazyInv
<1> SUFFICES ASSUME LazyInit PROVE LazyInv
  OBVIOUS
<1>1. LazyTypeOK
  BY LazyValueAssumption DEF LazyInit, LazyTypeOK
<1>2. Counted = {}
  BY DEF LazyInit, Counted
<1>3. Counts
  BY <1>2, FS_EmptySet DEF LazyInit, Counts
<1>4. Elected
  BY DEF LazyInit, Elected
<1> QED
  BY <1>1, <1>3, <1>4 DEF LazyInv

(* Every step of Get keeps the types.                                      *)
LEMMA LazyTypeStep == LazyTypeOK /\ Counts /\ [LazyNext]_lazyVars => LazyTypeOK'
<1> SUFFICES ASSUME LazyTypeOK, Counts, [LazyNext]_lazyVars PROVE LazyTypeOK'
  OBVIOUS
<1> USE LazyValueAssumption DEF LazyTypeOK
<1>1. ASSUME NEW c \in Callers, Enter(c) PROVE LazyTypeOK'
  BY <1>1 DEF Enter, Proceed
<1>2. ASSUME NEW c \in Callers, Swap(c) PROVE LazyTypeOK'
  BY <1>2 DEF Swap, Proceed
<1>3. ASSUME NEW c \in Callers, Create(c) PROVE LazyTypeOK'
  BY <1>3 DEF Create, Proceed
<1>4. ASSUME NEW c \in Callers, at[c] \in {"done", "leave"} PROVE writing - 1 \in Nat
  <2>1. IsFiniteSet(Counted) /\ c \in Counted
    BY <1>4, FS_Subset DEF Counted
  <2>2. Cardinality(Counted) # 0 /\ Cardinality(Counted) \in Nat
    BY <2>1, FS_EmptySet, FS_CardinalityType
  <2> QED
    BY <2>2 DEF Counts
<1>5. ASSUME NEW c \in Callers, Done(c) PROVE LazyTypeOK'
  BY <1>4, <1>5 DEF Done, Proceed
<1>6. ASSUME NEW c \in Callers, Leave(c) PROVE LazyTypeOK'
  BY <1>4, <1>6 DEF Leave, Proceed
<1>7. ASSUME NEW c \in Callers, Spin(c) PROVE LazyTypeOK'
  BY <1>7 DEF Spin, Proceed
<1>8. ASSUME NEW c \in Callers, Return(c) PROVE LazyTypeOK'
  BY <1>8 DEF Return, Proceed
<1>9. CASE UNCHANGED lazyVars
  BY <1>9 DEF lazyVars
<1> QED
  BY <1>1, <1>2, <1>3, <1>5, <1>6, <1>7, <1>8, <1>9 DEF LazyNext, InGet, AllReturned

(* The count follows the goroutines that come and go.                      *)
LEMMA CountsStep == LazyTypeOK /\ Counts /\ [LazyNext]_lazyVars => Counts'
<1> SUFFICES ASSUME LazyTypeOK, Counts, [LazyNext]_lazyVars PROVE Counts'
  OBVIOUS
<1> USE DEF Counts
<1>0. IsFiniteSet(Counted)
  BY LazyValueAssumption, FS_Subset DEF Counted
<1>1. ASSUME NEW c \in Callers, Enter(c) PROVE Counts'
  <2>1. c \notin Counted /\ Counted' = Counted \cup {c}
    BY <1>1 DEF Enter, Proceed, Counted, LazyTypeOK
  <2> QED
    BY <1>0, <1>1, <2>1, FS_AddElement DEF Enter
<1>2. ASSUME NEW c \in Callers, Swap(c) \/ Create(c) \/ Spin(c) \/ Return(c) PROVE Counts'
  <2>1. Counted' = Counted
    BY <1>2 DEF Swap, Create, Spin, Return, Proceed, Counted, LazyTypeOK
  <2> QED
    BY <1>2, <2>1 DEF Swap, Create, Spin, Return
<1>3. ASSUME NEW c \in Callers, Done(c) \/ Leave(c) PROVE Counts'
  <2>1. c \in Counted /\ Counted' = Counted \ {c}
    BY <1>3 DEF Done, Leave, Proceed, Counted, LazyTypeOK
  <2> QED
    BY <1>0, <1>3, <2>1, FS_RemoveElement DEF Done, Leave
<1>4. CASE UNCHANGED lazyVars
  BY <1>4 DEF lazyVars, Counted
<1> QED
  BY <1>1, <1>2, <1>3, <1>4 DEF LazyNext, InGet, AllReturned

(* A reader that finds nobody writing finds the value.                     *)
LEMMA NobodyWrites ==
  ASSUME LazyTypeOK, Counts, Elected, writing = 0,
         NEW c \in Callers, at[c] = "spin"
  PROVE  value # NoValue
<1>1. Counted = {}
  BY LazyValueAssumption, FS_Subset, FS_EmptySet DEF Counts, Counted
<1>2. initialized = 1
  BY DEF Elected, LazyTypeOK
<1>3. \A d \in Callers : at[d] # "create"
  BY <1>1 DEF Counted
<1> QED
  BY <1>2, <1>3 DEF Elected

(* One goroutine is elected, and the value is there when it left create(). *)
LEMMA ElectedStep == LazyInv /\ [LazyNext]_lazyVars => Elected'
<1> SUFFICES ASSUME LazyTypeOK, Counts, Elected, [LazyNext]_lazyVars PROVE Elected'
  BY DEF LazyInv
<1>1. ASSUME NEW c \in Callers, Enter(c) PROVE Elected'
  BY <1>1 DEF Enter, Proceed, Elected, LazyTypeOK
<1>2. ASSUME NEW c \in Callers, Swap(c) PROVE Elected'
  BY <1>2 DEF Swap, Proceed, Elected, LazyTypeOK
<1>3. ASSUME NEW c \in Callers, Create(c) PROVE Elected'
  BY <1>3, LazyValueAssumption DEF Create, Proceed, Elected, LazyTypeOK
<1>4. ASSUME NEW c \in Callers, Done(c) PROVE Elected'
  BY <1>4 DEF Done, Proceed, Elected, LazyTypeOK
<1>5. ASSUME NEW c \in Callers, Leave(c) PROVE Elected'
  BY <1>5 DEF Leave, Proceed, Elected, LazyTypeOK
<1>6. ASSUME NEW c \in Callers, Spin(c) PROVE Elected'
  <2>1. value # NoValue
    BY <1>6, NobodyWrites DEF Spin, Proceed
  <2> QED
    BY <1>6, <2>1 DEF Spin, Proceed, Elected, LazyTypeOK
<1>7. ASSUME NEW c \in Callers, Return(c) PROVE Elected'
  BY <1>7 DEF Return, Proceed, Elected, LazyTypeOK
<1>8. CASE UNCHANGED lazyVars
  BY <1>8 DEF lazyVars, Elected
<1> QED
  BY <1>1, <1>2, <1>3, <1>4, <1>5, <1>6, <1>7, <1>8 DEF LazyNext, InGet, AllReturned

(* The inductive invariant of LazyValue.                                   *)
THEOREM LazyInvariant == LazySpec => []LazyInv
<1>1. LazyInv /\ [LazyNext]_lazyVars => LazyInv'
  BY LazyTypeStep, CountsStep, ElectedStep DEF LazyInv
<1> QED
  BY <1>1, InitLazyInv, PTL DEF LazySpec

(* One goroutine at most creates the value, and nobody reads it then.      *)
THEOREM WritesAlone == LazySpec => []OneWriter
<1>1. LazyInv => OneWriter
  BY DEF LazyInv, Elected, OneWriter
<1> QED
  BY <1>1, LazyInvariant, PTL

(* Get is OnceValue, whatever the callers: the value is created once and   *)
(* every call returns it.                                                  *)
THEOREM GetImplementsOnce == LazySpec => ImplementsOnce
<1> DEFINE asking == {c \in Callers : at[c] # "idle"}
<1>1. LazyInit => Once!Init
  BY DEF LazyInit, Once!Init
<1>2. LazyInv /\ [LazyNext]_lazyVars => [Once!Next]_<<value, asking, returned>>
  <2> SUFFICES ASSUME LazyInv, [LazyNext]_lazyVars
               PROVE  [Once!Next]_<<value, asking, returned>>
    OBVIOUS
  <2> USE DEF Proceed, LazyInv, LazyTypeOK
  <2>1. ASSUME NEW c \in Callers, Enter(c) PROVE Once!Ask(c)
    BY <2>1 DEF Enter, Once!Ask
  <2>2. ASSUME NEW c \in Callers, Create(c) PROVE Once!Create
    BY <2>2 DEF Create, Once!Create, Elected
  <2>3. ASSUME NEW c \in Callers, Return(c) PROVE Once!Answer(c)
    BY <2>3 DEF Return, Once!Answer, Elected
  <2>4. ASSUME NEW c \in Callers, Swap(c) \/ Done(c) \/ Leave(c) \/ Spin(c)
        PROVE UNCHANGED <<value, asking, returned>>
    <3>1. UNCHANGED <<value, returned>>
      BY <2>4 DEF Swap, Done, Leave, Spin
    <3>2. at[c] # "idle" /\ \E s : s # "idle" /\ at' = [at EXCEPT ![c] = s]
      BY <2>4 DEF Swap, Done, Leave, Spin
    <3> QED
      BY <3>1, <3>2
  <2>5. CASE UNCHANGED lazyVars
    BY <2>5 DEF lazyVars
  <2> QED
    BY <2>1, <2>2, <2>3, <2>4, <2>5 DEF LazyNext, InGet, AllReturned, Once!Next
<1> QED
  BY <1>1, <1>2, LazyInvariant, PTL DEF LazySpec, ImplementsOnce, Once!Spec, Once!vars

=============================================================================
