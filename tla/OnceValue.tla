----------------------------- MODULE OnceValue -----------------------------
(***************************************************************************)
(* What a lazy value promises its callers: the value is created once, not  *)
(* before somebody asks for it, and every call is answered with the value  *)
(* created.                                                                *)
(***************************************************************************)
CONSTANTS Callers, Values, NoValue

VARIABLES value,     \* the value, NoValue until it is created
          asking,    \* the callers with a call that is not answered yet
          returned   \* what the last call of a caller was answered

vars == <<value, asking, returned>>

Init ==
  /\ value = NoValue
  /\ asking = {}
  /\ returned = [c \in Callers |-> NoValue]

Ask(c) ==
  /\ c \notin asking
  /\ asking' = asking \cup {c}
  /\ UNCHANGED <<value, returned>>

Create ==
  /\ value = NoValue /\ asking # {}
  /\ value' \in Values
  /\ UNCHANGED <<asking, returned>>

Answer(c) ==
  /\ c \in asking /\ value # NoValue
  /\ asking' = asking \ {c}
  /\ returned' = [returned EXCEPT ![c] = value]
  /\ UNCHANGED value

Next == Create \/ \E c \in Callers : Ask(c) \/ Answer(c)

Spec == Init /\ [][Next]_vars

=============================================================================
