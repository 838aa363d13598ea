----------------------------- MODULE MCDocuments -----------------------------
(***************************************************************************)
(* ConfigResolve and DocDiff, which both go through YAML documents, in one *)
(* run.  They share no state: in each behaviour the configuration is read, *)
(* or documents are compared, of those that their MC modules list.         *)
(***************************************************************************)
EXTENDS MCConfig

CONSTANT Jobs  \* of DocDiff

VARIABLES
  job, diffPhase, round, drained, diffTodo, heap, entries, reasons, compared

Diff == INSTANCE DocDiff WITH phase <- diffPhase, todo <- diffTodo

(* What the MC module lists does not depend on the constant.               *)
DiffLists == INSTANCE MCDocDiff WITH Jobs <- {}, phase <- diffPhase, todo <- diffTodo

diff == <<job, diffPhase, round, drained, diffTodo, heap, entries, reasons, compared>>
documents == <<vars, diff>>

ConfigIdle ==
  /\ setup = [none |-> TRUE] /\ phase = "failed" /\ todo = <<>> /\ visited = {} /\ config = EmptyConfig
  /\ renderers = <<>> /\ shells = <<>> /\ read = <<>> /\ merged = <<>>
  /\ globalEnv = <<>> /\ env = <<>> /\ values = <<>> /\ cacheDir = Unset
  /\ left = {} /\ tool = NoTool /\ toolTasks = <<>> /\ tools = <<>> /\ ran = <<>>

DiffIdle ==
  /\ job = [original |-> <<>>, updated |-> <<>>, source |-> <<>>, renders |-> TRUE]
  /\ diffPhase = "done" /\ round = 0 /\ drained = {} /\ diffTodo = <<>>
  /\ heap = <<>> /\ entries = <<>> /\ reasons = <<>> /\ compared = <<>>

DocumentsInit ==
  \/ Init /\ DiffIdle
  \/ ConfigIdle /\ Diff!Init

DocumentsNext ==
  \/ Next /\ UNCHANGED diff
  \/ Diff!Next /\ UNCHANGED vars

DocumentsSpec == DocumentsInit /\ [][DocumentsNext]_documents /\ WF_vars(Step) /\ WF_diff(Diff!Step)

MCJobs == DiffLists!MCJobs

(* diff finds exactly the places where two documents part, each once, and  *)
(* what the updated one has or lacks there (pkg/diff/diff.go).             *)
DiffExact == Diff!DiffExact

(* The comparison of two files ends, and then their documents have been    *)
(* compared in pairs, all of them (diffFile of pkg/cmd/diff/cmd.go).       *)
DocumentsPaired == Diff!DocumentsPaired

=============================================================================
