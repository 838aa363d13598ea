---------------------------- MODULE ActionChain ----------------------------
(***************************************************************************)
(* A list of actions (the hooks of a stage, or the jobs of a workflow      *)
(* task) executed by several goroutines at once, one per matrix entry:     *)
(* ResolveActions and next (pkg/tools/actions_resolve.go), the Action they *)
(* resolve (action.go), and doRun (run.go), which executes what they give. *)
(*                                                                         *)
(* next() looks at one action only.  It gives two specs: the first runs    *)
(* the action, the second resolves the action's `next` and calls next()    *)
(* again, so the list is resolved anew before every action, each time with *)
(* the matrix values of the goroutine that asks.  The list and its actions *)
(* are shared by the goroutines: BaseTask.mu guards the list when the      *)
(* caller takes it, each action has a mutex of its own.                    *)
(*                                                                         *)
(* An action's mutex is never held across a step here: a section it guards *)
(* is one step.  doRun nests a call per action, and unwinds at once on the *)
(* first error that is not ignored; the nesting itself has no state.       *)
(* Every rendering of a list is taken to have the same actions in the same *)
(* order: only their contents differ.  ResolveActions resolves the list    *)
(* once more before the first next(), to index the names; as that section  *)
(* does nothing the next one does not do again, it is not a step of its    *)
(* own.  The definitions called Mut... are not part of the model: each is  *)
(* the definition below it with a plausible slip, which a property must    *)
(* notice.                                                                 *)
(***************************************************************************)
EXTENDS Integers, Sequences

CONSTANTS Goroutines,  \* the goroutines (matrix entries) that run the list
          Lists,       \* the lists of actions to consider
          HolderKinds, \* what holds the list: "hooks" or "jobs"
          Rendered,    \* whether the list has a rendering suffix itself
          None         \* no goroutine

Kinds == {"idle", "task", "cmd", "shell", "external"}

NoNext == 0        \* `next` is not set
UnknownNext == -1  \* `next` names no action of the list

(* An action: its kind, `if`, `continue_on_error` and `next` (an index).   *)
Action == [kind : Kinds, if : BOOLEAN, continue : BOOLEAN, next : Int]

ASSUME ActionChainAssumption ==
  /\ None \notin Goroutines
  /\ Lists \subseteq Seq(Action)
  /\ \A l \in Lists : \A i \in 1..Len(l) :
       l[i].next \in {NoNext, UnknownNext} \cup 1..Len(l)
  /\ HolderKinds \subseteq {"hooks", "jobs"} /\ Rendered \subseteq BOOLEAN

VARIABLES
  actions, holder, rendered,  \* the list, fixed: chosen in Init
  mu,        \* the goroutine that holds BaseTask.mu
  list,      \* whose matrix values the shared list was rendered with last
  pc,        \* what a goroutine is doing
  idx,       \* the action it is at
  first,     \* next() is called by ResolveActions, not by a second spec
  values,    \* whose matrix values the action it runs was made from
  state,     \* State() of the context doRun runs with
  stoppedBy  \* history: the action whose failure ended the chain

shared == <<actions, holder, rendered>>
vars == <<shared, mu, list, pc, idx, first, values, state, stoppedBy>>

Stages == {"lock", "list", "action", "run", "next", "succeeded", "failed"}
Ended == {"succeeded", "failed"}

Init ==
  /\ actions \in Lists /\ holder \in HolderKinds /\ rendered \in Rendered
  /\ mu = None /\ list = None
  /\ pc = [g \in Goroutines |-> "lock"]
  /\ idx = [g \in Goroutines |-> 1]
  /\ first = [g \in Goroutines |-> TRUE]
  /\ values = [g \in Goroutines |-> None]
  /\ state = [g \in Goroutines |-> "pending"]
  /\ stoppedBy = [g \in Goroutines |-> NoNext]

Goto(g, stage) == pc' = [pc EXCEPT ![g] = stage]

SetState(g, s) == state' = [state EXCEPT ![g] = s]

(* BaseTask.mu is held around the first call for a hook (GetHookExecSpecs) *)
(* and, for the jobs of a workflow, around every one (DoAfterFieldsResolved*)
(* of BaseTask).  TaskHooks.DoAfterFieldsResolved takes no lock.           *)
MutLocks(g) == first[g]
Locks(g) == holder = "jobs" \/ first[g]

MutUnlock(g) == UNCHANGED mu
Unlock(g) == mu' = IF mu = g THEN None ELSE mu

Lock(g) ==
  /\ pc[g] = "lock"
  /\ IF Locks(g) /\ mu # g THEN mu = None /\ mu' = g ELSE UNCHANGED mu
  /\ Goto(g, "list")
  /\ UNCHANGED <<shared, list, idx, first, values, state, stoppedBy>>

(* A failed resolution: the error leaves next(), and doRun with it.  doRun *)
(* has not begun when ResolveActions fails.                                *)
FailToResolve(g) ==
  /\ Goto(g, "failed")
  /\ IF first[g] THEN UNCHANGED state ELSE SetState(g, "failed")

(* x.DoAfterFieldsResolved(mCtx, 1, ...): the list, not its actions.       *)
ResolveList(g) ==
  /\ pc[g] = "list"
  /\ \/ /\ FailToResolve(g) /\ Unlock(g)
        /\ UNCHANGED list
     \/ /\ Goto(g, "action")
        /\ list' = IF rendered THEN g ELSE list
        /\ UNCHANGED <<mu, state>>
  /\ UNCHANGED <<shared, idx, first, values, stoppedBy>>

(* The rest of next(): what is done with the action at idx.                *)
PastTheEnd(g) ==
  /\ idx[g] > Len(actions)
  /\ Goto(g, "succeeded")
  /\ IF first[g] THEN UNCHANGED state ELSE SetState(g, "succeeded")
  /\ Unlock(g)
  /\ UNCHANGED <<idx, values>>

(* `if` is false: next(index + 1), whatever the action's own `next` is.    *)
(* GetHookExecSpecs still holds the mutex while it recurses.               *)
Skip(g) ==
  /\ idx[g] <= Len(actions) /\ ~actions[idx[g]].if
  /\ idx' = [idx EXCEPT ![g] = @ + 1]
  /\ Goto(g, "lock")
  /\ IF holder = "hooks" THEN UNCHANGED mu ELSE Unlock(g)
  /\ UNCHANGED <<state, values>>

(* The action's fields are resolved and copied into specs in one section.  *)
GenSpecs(g) ==
  /\ idx[g] <= Len(actions) /\ actions[idx[g]].if
  /\ values' = [values EXCEPT ![g] = IF rendered THEN list ELSE g]
  /\ Goto(g, "run")
  /\ Unlock(g)
  /\ UNCHANGED <<idx, state>>

(* env, a field, the task reference or the kind of shell is wrong.         *)
GenFails(g) ==
  /\ idx[g] <= Len(actions)
  /\ FailToResolve(g) /\ Unlock(g)
  /\ UNCHANGED <<idx, values>>

ResolveAction(g) ==
  /\ pc[g] = "action"
  /\ PastTheEnd(g) \/ Skip(g) \/ GenSpecs(g) \/ GenFails(g)
  /\ UNCHANGED <<shared, list, first, stoppedBy>>

(* The first spec: doRun executes the action.  A command, a script in the  *)
(* embedded shell and one in an external shell carry continue_on_error; an *)
(* error ignored inside is no error for the spec around it.                *)
Ignores(a) == a.continue /\ a.kind \in {"cmd", "shell", "external"}

ActionGoesOn(g) ==
  /\ Goto(g, "next") /\ SetState(g, "succeeded")
  /\ UNCHANGED stoppedBy

(* The command, the script or the task fails (idle does nothing).          *)
ActionStops(g) ==
  /\ actions[idx[g]].kind # "idle" /\ ~Ignores(actions[idx[g]])
  /\ Goto(g, "failed") /\ SetState(g, "failed")
  /\ stoppedBy' = [stoppedBy EXCEPT ![g] = idx[g]]

(* The tool's command cannot be resolved, or the external shell is not     *)
(* there: doRun returns whatever continue_on_error says.                   *)
ActionCannotRun(g) ==
  /\ actions[idx[g]].kind \in {"cmd", "external"}
  /\ Goto(g, "failed") /\ SetState(g, "failed")
  /\ stoppedBy' = [stoppedBy EXCEPT ![g] = idx[g]]

RunAction(g) ==
  /\ pc[g] = "run"
  /\ ActionGoesOn(g) \/ ActionStops(g) \/ ActionCannotRun(g)
  /\ UNCHANGED <<shared, mu, list, idx, first, values>>

(* The second spec: `next` is resolved after the action ended, in a        *)
(* section of its own, and next() is called outside that section.          *)
MutNextIndexSame(a, i) == IF a.next = NoNext THEN i ELSE a.next
NextIndex(a, i) == IF a.next = NoNext THEN i + 1 ELSE a.next

ResolveNext(g) ==
  /\ pc[g] = "next"
  /\ first' = [first EXCEPT ![g] = FALSE]
  /\ \/ /\ Goto(g, "failed") /\ SetState(g, "failed")
        /\ UNCHANGED idx
     \/ /\ actions[idx[g]].next # UnknownNext
        /\ idx' = [idx EXCEPT ![g] = NextIndex(actions[idx[g]], idx[g])]
        /\ Goto(g, "lock")
        /\ UNCHANGED state
  /\ UNCHANGED <<shared, mu, list, values, stoppedBy>>

Step(g) == Lock(g) \/ ResolveList(g) \/ ResolveAction(g) \/ RunAction(g) \/ ResolveNext(g)

(* Every goroutine's chain has ended.                                      *)
Terminated ==
  /\ \A g \in Goroutines : pc[g] \in Ended
  /\ UNCHANGED vars

Next == (\E g \in Goroutines : Step(g)) \/ Terminated

Spec == Init /\ [][Next]_vars

(* Goroutines are scheduled and every action ends; a sync.Mutex is handed  *)
(* to a goroutine that keeps waiting for it (its starvation mode).         *)
FairSpec ==
  /\ Spec
  /\ \A g \in Goroutines : WF_vars(Step(g)) /\ SF_vars(Lock(g))

(***************************************************************************)
(* Properties                                                              *)
(***************************************************************************)

(* Every variable holds a value the code can give it.                      *)
TypeOK ==
  /\ actions \in Lists /\ holder \in HolderKinds /\ rendered \in Rendered
  /\ mu \in Goroutines \cup {None} /\ list \in Goroutines \cup {None}
  /\ pc \in [Goroutines -> Stages]
  /\ idx \in [Goroutines -> 1..(Len(actions) + 1)]
  /\ first \in [Goroutines -> BOOLEAN]
  /\ values \in [Goroutines -> Goroutines \cup {None}]
  /\ state \in [Goroutines -> {"pending", "succeeded", "failed"}]
  /\ stoppedBy \in [Goroutines -> 0..Len(actions)]

(* BaseTask.mu is held by the goroutine that is inside a section it guards *)
(* and is free again once the goroutine left it, by whichever way.         *)
LockDiscipline ==
  \A g \in Goroutines :
    /\ pc[g] \in {"list", "action"} /\ Locks(g) => mu = g
    /\ pc[g] \notin {"lock", "list", "action"} => mu # g

(* The jobs of a workflow, and hooks without a rendering suffix of their   *)
(* own: a goroutine runs each action with its own matrix values, though    *)
(* others resolve the same list for themselves in between.                 *)
OwnValues ==
  \A g \in Goroutines :
    pc[g] = "run" /\ (holder = "jobs" \/ ~rendered) => values[g] = g

(* The state the task is left in agrees with how its actions ended.        *)
FinalState ==
  \A g \in Goroutines :
    /\ pc[g] = "succeeded" => state[g] = IF first[g] THEN "pending" ELSE "succeeded"
    /\ pc[g] = "failed" /\ ~first[g] => state[g] = "failed"

(* A list whose `next` never points back comes to an end, for every        *)
(* goroutine that runs it.                                                 *)
ForwardOnly ==
  \A i \in DOMAIN actions :
    actions[i].next \in {NoNext, UnknownNext} \/ actions[i].next > i

ChainEnds == ForwardOnly ~> \A g \in Goroutines : pc[g] \in Ended

(* A goroutine gets the mutex, also while another runs in circles.         *)
NoStarvation == \A g \in Goroutines : pc[g] = "lock" ~> pc[g] # "lock"

=============================================================================
