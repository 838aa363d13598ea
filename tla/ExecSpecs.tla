----------------------------- MODULE ExecSpecs -----------------------------
(***************************************************************************)
(* How the specs a task generates for its matrix entries are executed:     *)
(* doRun (pkg/tools/run.go), several entries at a time, each in a          *)
(* goroutine of its own.                                                   *)
(*                                                                         *)
(* A spec either runs a command or calls back into the task, and a         *)
(* callback may return more specs, which a nested doRun executes before    *)
(* the rest.  A spec can keep its output under a token (StdoutAsReplace);  *)
(* doRun puts the output in the place of the token in every later command  *)
(* of the entry.  The stack of nested calls is `frames`, the map of kept   *)
(* outputs, which nested calls share, `replace`.                           *)
(*                                                                         *)
(* What a command or a callback does is for the modules that extend this   *)
(* one: they give the specs, and for each kind of spec (its `op`) an       *)
(* action that ends in Succeed, Fail or NoToolCmd.  Tokens and values are  *)
(* tuples that begin with their kind.  Output, the shell a command may be  *)
(* wrapped in and SetState have no part in it (ActionChain models the      *)
(* latter two).                                                            *)
(***************************************************************************)
EXTENDS Integers, Sequences, FiniteSets, SequencesExt, TLC

CONSTANT MaxEntries  \* at most so many matrix entries

ASSUME ExecAssumption == MaxEntries \in Nat \ {0}

VARIABLES
  count, workers,  \* the number of entries and of workers, fixed
  stage,    \* what an entry's goroutine is doing
  frames,   \* its nested doRun calls, each with the specs left to it
  replace,  \* the outputs its specs have kept
  env       \* the environment its commands run with

execVars == <<count, workers, stage, frames, replace, env>>

Entries == 1..count
IsLast(g) == g = count

Stages == {"waiting", "started", "running", "ok", "failed"}
Active == {"started", "running"}
Ended == {"ok", "failed"}

NoToken == <<"NONE">>
Empty == <<"empty">>

(* f with v for x, which it may not have had.                              *)
Update(f, x, v) == [y \in DOMAIN f \cup {x} |-> IF y = x THEN v ELSE f[y]]

(* f with v for each of X.                                                 *)
UpdateAll(f, X, v) == [y \in DOMAIN f \cup X |-> IF y \in X THEN v ELSE f[y]]

CmdInto(op, args, out) ==
  [op |-> op, args |-> args, out |-> out, ignore |-> FALSE, env |-> <<>>]
Cmd(op, args) == CmdInto(op, args, NoToken)
Ignored(spec) == [spec EXCEPT !.ignore = TRUE]
WithEnv(spec, e) == [spec EXCEPT !.env = e]

ExecInit(n, w, userEnv) ==
  /\ count = n /\ workers = w
  /\ stage = [g \in 1..n |-> "waiting"]
  /\ frames = [g \in 1..n |-> <<>>]
  /\ replace = [g \in 1..n |-> <<>>]
  /\ env = [g \in 1..n |-> userEnv]

Goto(g, s) == stage' = [stage EXCEPT ![g] = s]

(* RunTask starts the entries in order, when it has a token for one.       *)
Start(g) ==
  /\ stage[g] = "waiting"
  /\ \A h \in Entries : h < g => stage[h] # "waiting"
  /\ Cardinality({h \in Entries : stage[h] \in Active}) < workers
  /\ Goto(g, "started")
  /\ UNCHANGED <<count, workers, frames, replace, env>>

(* GetExecSpecs returned the entry's specs; they may be none.              *)
Generated(g, specs) ==
  /\ stage[g] = "started"
  /\ frames' = [frames EXCEPT ![g] = IF specs = <<>> THEN <<>>
                                      ELSE << [ignore |-> FALSE, todo |-> specs] >>]
  /\ Goto(g, IF specs = <<>> THEN "ok" ELSE "running")
  /\ UNCHANGED <<count, workers, replace, env>>

NotGenerated(g) ==
  /\ stage[g] = "started"
  /\ Goto(g, "failed")
  /\ UNCHANGED <<count, workers, frames, replace, env>>

(* The spec the innermost doRun has come to.                               *)
Current(g) == Head(Last(frames[g]).todo)
At(g, op) == stage[g] = "running" /\ Current(g).op = op

(* The replacer: a token nothing is kept under stays in the command.       *)
Value(g, a) == IF a \in DOMAIN replace[g] THEN replace[g][a].data ELSE a
Arg(g, i) == Value(g, Current(g).args[i])

(* setReplaceEntry: called whether the spec succeeded or not.              *)
Keep(g, data, ok) ==
  IF Current(g).out = NoToken THEN UNCHANGED replace
  ELSE replace' = [replace EXCEPT ![g] = Update(@, Current(g).out, [data |-> data, ok |-> ok])]

(* EnvSuggest: set for this command and for all that follow, unless the    *)
(* entry has the variable already.                                         *)
MutSuggested(g) == Current(g).env @@ env[g]
Suggested(g) ==
  LET e == Current(g).env
  IN [x \in DOMAIN env[g] \cup DOMAIN e |-> IF x \in DOMAIN env[g] THEN env[g][x] ELSE e[x]]
Suggest(g) == env' = [env EXCEPT ![g] = Suggested(g)]

(* The calls left when the current spec is done: those with nothing more   *)
(* to do have returned.                                                    *)
Rest(g) == Append(Front(frames[g]), [Last(frames[g]) EXCEPT !.todo = Tail(@)])

Returned(fs) == LET left == {i \in DOMAIN fs : fs[i].todo # <<>>}
                IN SubSeq(fs, 1, IF left = {} THEN 0 ELSE CHOOSE i \in left : \A j \in left : j <= i)

Continue(g, fs) ==
  /\ frames' = [frames EXCEPT ![g] = Returned(fs)]
  /\ Goto(g, IF Returned(fs) = <<>> THEN "ok" ELSE "running")

(* The spec succeeded with this output; `sub` are the specs a callback     *)
(* returned, whose error its own IgnoreError covers too.                   *)
Succeed(g, data, sub) ==
  /\ Keep(g, data, TRUE)
  /\ Continue(g, Append(Rest(g), [ignore |-> Current(g).ignore, todo |-> sub]))
  /\ Suggest(g)
  /\ UNCHANGED <<count, workers>>

(* An error leaves the nested calls up to the first whose spec ignores it. *)
MutUnwind(g) == Continue(g, Rest(g))
Unwind(g) ==
  LET fs == Rest(g)
      catching == {i \in DOMAIN fs : fs[i].ignore}
  IN IF catching = {} THEN /\ frames' = [frames EXCEPT ![g] = <<>>]
                           /\ Goto(g, "failed")
     ELSE Continue(g, SubSeq(fs, 1, (CHOOSE i \in catching : \A j \in catching : j <= i) - 1))

Fail(g, data) ==
  /\ Keep(g, data, FALSE)
  /\ IF Current(g).ignore THEN Continue(g, Rest(g)) ELSE Unwind(g)
  /\ Suggest(g)
  /\ UNCHANGED <<count, workers>>

(* The tool's command cannot be resolved: nothing is kept, and the spec's  *)
(* own IgnoreError does not count.                                         *)
NoToolCmd(g) ==
  /\ Unwind(g)
  /\ Suggest(g)
  /\ UNCHANGED <<count, workers, replace>>

(***************************************************************************)
(* Invariants of the engine                                                *)
(***************************************************************************)

ExecTypeOK ==
  /\ count \in 1..MaxEntries /\ workers \in Nat \ {0}
  /\ DOMAIN stage = Entries /\ DOMAIN frames = Entries /\ DOMAIN replace = Entries
  /\ \A g \in Entries :
       /\ stage[g] \in Stages
       /\ (stage[g] = "running") = (frames[g] # <<>>)
       /\ frames[g] # <<>> => Last(frames[g]).todo # <<>> /\ ~frames[g][1].ignore
  /\ Cardinality({g \in Entries : stage[g] \in Active}) <= workers

=============================================================================
