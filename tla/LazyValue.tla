----------------------------- MODULE LazyValue -----------------------------
(***************************************************************************)
(* LazyValueImpl.Get (pkg/utils/lazy.go): a value created by the first of  *)
(* the goroutines that ask for it, without a lock.  The global environment *)
(* variables of a command (git branch, host, time ...) are such values.    *)
(* Each access of a shared word is a step; a goroutine may call Get up to  *)
(* MaxCalls times.  The names begin with Lazy where ActionChain has the    *)
(* same: SharedProofs extends both.  The definitions called Mut... are no  *)
(* part of the model: each is the definition below it with a plausible     *)
(* slip, which a property must notice.                                     *)
(***************************************************************************)
EXTENDS Integers, FiniteSets

CONSTANTS Callers,   \* the goroutines that call Get
          Values,    \* what create() may give
          NoValue,   \* the zero value of the field, before create()
          MaxCalls   \* bound on the calls of each goroutine

ASSUME LazyValueAssumption ==
  /\ IsFiniteSet(Callers) /\ NoValue \notin Values /\ MaxCalls \in Nat

VARIABLES initialized, writing, value,  \* the fields of LazyValueImpl
          at,        \* where in Get a goroutine is, or "idle"
          returned,  \* what its last call returned
          calls      \* how many calls it made

lazyVars == <<initialized, writing, value, at, returned, calls>>

LazyInit ==
  /\ initialized = 0 /\ writing = 0 /\ value = NoValue
  /\ at = [c \in Callers |-> "idle"]
  /\ returned = [c \in Callers |-> NoValue]
  /\ calls = [c \in Callers |-> 0]

Proceed(c, from, to) == at[c] = from /\ at' = [at EXCEPT ![c] = to]

(* atomic.AddInt32(&v.writing, 1) comes before anything else ...           *)
Enter(c) ==
  /\ calls[c] < MaxCalls
  /\ calls' = [calls EXCEPT ![c] = @ + 1]
  /\ Proceed(c, "idle", "swap")
  /\ writing' = writing + 1
  /\ UNCHANGED <<initialized, value, returned>>

(* ... CompareAndSwapInt32(&v.initialized, 0, 1) elects the writer ...     *)
MutSwap(c) ==
  /\ Proceed(c, "swap", IF value = NoValue THEN "create" ELSE "leave")
  /\ initialized' = 1
  /\ UNCHANGED <<writing, value, returned, calls>>
Swap(c) ==
  /\ Proceed(c, "swap", IF initialized = 0 THEN "create" ELSE "leave")
  /\ initialized' = 1
  /\ UNCHANGED <<writing, value, returned, calls>>

(* ... which calls create() and stores what it gives ...                   *)
Create(c) ==
  /\ Proceed(c, "create", "done")
  /\ value' \in Values
  /\ UNCHANGED <<initialized, writing, returned, calls>>

(* ... and is writing no more.                                             *)
MutDone(c) ==
  /\ Proceed(c, "done", "return")
  /\ UNCHANGED <<initialized, writing, value, returned, calls>>
Done(c) ==
  /\ Proceed(c, "done", "return")
  /\ writing' = writing - 1
  /\ UNCHANGED <<initialized, value, returned, calls>>

(* A reader takes itself out of the count, and waits till nobody writes.   *)
MutLeave(c) ==
  /\ Proceed(c, "leave", "return")
  /\ writing' = writing - 1
  /\ UNCHANGED <<initialized, value, returned, calls>>
Leave(c) ==
  /\ Proceed(c, "leave", "spin")
  /\ writing' = writing - 1
  /\ UNCHANGED <<initialized, value, returned, calls>>

Spin(c) ==
  /\ Proceed(c, "spin", "return")
  /\ writing = 0
  /\ UNCHANGED <<initialized, writing, value, returned, calls>>

Return(c) ==
  /\ Proceed(c, "return", "idle")
  /\ returned' = [returned EXCEPT ![c] = value]
  /\ UNCHANGED <<initialized, writing, value, calls>>

InGet(c) == Swap(c) \/ Create(c) \/ Done(c) \/ Leave(c) \/ Spin(c) \/ Return(c)

(* Nobody is in Get, and nobody calls it any more.                         *)
AllReturned ==
  /\ \A c \in Callers : at[c] = "idle" /\ calls[c] = MaxCalls
  /\ UNCHANGED lazyVars

LazyNext == (\E c \in Callers : Enter(c) \/ InGet(c)) \/ AllReturned

LazySpec == LazyInit /\ [][LazyNext]_lazyVars

(* create() ends, and a goroutine in Get goes on running.                  *)
LazyFairSpec == LazySpec /\ \A c \in Callers : WF_lazyVars(InGet(c))

(***************************************************************************)
(* Properties                                                              *)
(***************************************************************************)

(* Every variable holds a value the code can give it.                      *)
LazyTypeOK ==
  /\ initialized \in {0, 1} /\ writing \in Nat /\ value \in Values \cup {NoValue}
  /\ at \in [Callers -> {"idle", "swap", "create", "done", "leave", "spin", "return"}]
  /\ returned \in [Callers -> Values \cup {NoValue}]
  /\ calls \in [Callers -> 0..MaxCalls]

(* Goroutines that have counted themselves in `writing`.                   *)
Counted == {c \in Callers : at[c] \in {"swap", "create", "done", "leave"}}

(* One goroutine at most is in create() or has just left it, and no other  *)
(* is about to read the field while that one may still store into it.      *)
OneWriter ==
  \A c \in Callers : at[c] = "create" =>
    \A d \in Callers \ {c} : at[d] \notin {"create", "done", "return"}

(* A lazy value is created once, by a call that needs it, and every call   *)
(* of Get, the first ones included, returns the value created.             *)
Once == INSTANCE OnceValue WITH asking <- {c \in Callers : at[c] # "idle"}
ImplementsOnce == Once!Spec

(* A call of Get returns, though readers spin on a count others change.    *)
GetReturns == \A c \in Callers : at[c] # "idle" ~> at[c] = "idle"

=============================================================================
