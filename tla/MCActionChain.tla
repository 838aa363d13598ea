--------------------------- MODULE MCActionChain ---------------------------
(***************************************************************************)
(* ActionChain for two matrix entries and lists of up to two actions: each *)
(* kind, skipped or not, with continue_on_error or without, and a `next`   *)
(* that is unset, unknown, forward, backward or the action itself.         *)
(***************************************************************************)
EXTENDS ActionChain

An(kind, if, continue, next) ==
  [kind |-> kind, if |-> if, continue |-> continue, next |-> next]

Alone == {An("idle", TRUE, FALSE, UnknownNext), An("external", TRUE, TRUE, 1)}

Leading == {An("idle", TRUE, FALSE, NoNext), An("cmd", TRUE, TRUE, 2),
            An("cmd", TRUE, FALSE, NoNext), An("task", TRUE, TRUE, 1),
            An("external", FALSE, TRUE, 1)}

Closing == {An("idle", TRUE, FALSE, 1), An("shell", TRUE, TRUE, NoNext),
            An("shell", FALSE, FALSE, NoNext)}

MCLists == {<<>>} \cup {<<a>> : a \in Alone} \cup {<<a, b>> : a \in Leading, b \in Closing}

(***************************************************************************)
(* What the documentation says and the code does not do                    *)
(***************************************************************************)

(* "continue_on_error: bool: continue next action even when this action    *)
(* failed" (docs/tasks.md:58): the failure of an action that has it set    *)
(* never ends the chain, whatever the kind of the action.                  *)
ContinueOnErrorContinues ==
  \A g \in Goroutines :
    stoppedBy[g] # NoNext => ~actions[stoppedBy[g]].continue

(* Resolvable.DoAfterFieldsResolved "MUST be safe to be used concurrently" *)
(* (pkg/dukkha/types.go): what a hook runs for a matrix entry was made     *)
(* from the values of that entry.                                          *)
HookOwnValues == \A g \in Goroutines : pc[g] = "run" => values[g] = g

=============================================================================
