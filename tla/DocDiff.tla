------------------------------- MODULE DocDiff -------------------------------
(***************************************************************************)
(* `dukkha diff`: the documents of two files compared one by one (diffFile *)
(* of pkg/cmd/diff/cmd.go and pkg/diff), and each difference looked up in  *)
(* the document the first file was generated from (reasoning.go).          *)
(*                                                                         *)
(* A document is kept as its nodes in order, a node as its path.  The keys *)
(* of the entries are Go slices: `heap` has the arrays under them, as the  *)
(* entries keep slices whose arrays later calls of append may write to.    *)
(* Keys of a mapping are different from each other.                        *)
(***************************************************************************)
EXTENDS Integers, Sequences, FiniteSets, SequencesExt, TLC

CONSTANT Jobs  \* the documents of the files, and if renderers fail

VARIABLES
  job,       \* fixed
  phase,     \* "decode", "diff", "reason"; "done", "failed" or "panicked"
  round,     \* the documents decoded so far
  drained,   \* the files found at their end
  todo,      \* calls of diff and turns of its loops left, in order
  heap,      \* the arrays of keys
  entries,   \* what diff returns
  reasons,   \* what reasonDiff returns
  compared   \* history: the pairs of documents compared

vars == <<job, phase, round, drained, todo, heap, entries, reasons, compared>>

(***************************************************************************)
(* Documents                                                               *)
(***************************************************************************)

Container == "{}"  \* what a mapping or a sequence has for a value
Nulls == {"", "~"}

(* new(diff.Node): what is compared when a file has no document left, or   *)
(* one that is null.                                                       *)
NoDocument == [order |-> <<<<>>>>, value |-> <<>> :> Container, by |-> <<>> :> <<>>]

Document(file) == IF round + 1 <= Len(job[file]) THEN job[file][round + 1] ELSE NoDocument
Doc(file) == IF round <= Len(job[file]) THEN job[file][round] ELSE NoDocument

(* The source is the original itself unless another file is given.         *)
Source == IF job.source = <<>> THEN "original" ELSE "source"
Files == {"original", "updated", Source}

HasNode(d, p) == p \in DOMAIN d.value
Children(d, p) ==
  LET below == SelectSeq(d.order, LAMBDA q : Len(q) = Len(p) + 1 /\ IsPrefix(p, q))
  IN [i \in DOMAIN below |-> Last(below[i])]

(* Node.Get: the node nearest to a key.                                    *)
Nearest(d, key) == SubSeq(key, 1, CHOOSE k \in 0..Len(key) :
  /\ HasNode(d, SubSeq(key, 1, k))
  /\ k < Len(key) => ~HasNode(d, SubSeq(key, 1, k + 1)))

(***************************************************************************)
(* Slices                                                                  *)
(***************************************************************************)

EmptySlice == [array |-> 1, len |-> 0]
Elements(s) == SubSeq(heap[s.array], 1, s.len)

(* append: writes to the array if there is room, or copies to one that has *)
(* twice as much.                                                          *)
HasRoom(s) == s.len < Len(heap[s.array])
Room(n) == IF n = 0 THEN 1 ELSE 2 * n
Appended(s, x) == [array |-> IF HasRoom(s) THEN s.array ELSE Len(heap) + 1, len |-> s.len + 1]
AfterAppend(s, x) ==
  IF HasRoom(s) THEN [heap EXCEPT ![s.array][s.len + 1] = x]
  ELSE Append(heap, Elements(s) \o <<x>> \o [i \in 1..(Room(s.len) - s.len - 1) |-> ""])

(***************************************************************************)
(* The documents of the files                                              *)
(***************************************************************************)

Diff(p, key) == [call |-> "diff", at |-> p, key |-> key]
Child(p, key, name) == [call |-> "child", at |-> Append(p, name), key |-> key]

Init ==
  /\ job \in Jobs
  /\ phase = "decode" /\ round = 0 /\ todo = <<>> /\ heap = <<>>
  /\ drained = {} /\ entries = <<>> /\ reasons = <<>> /\ compared = <<>>

(* The files are read in turn; the last one that is at its end stops.      *)
Order == <<"updated", "original">> \o IF Source = "source" THEN <<"source">> ELSE <<>>
AtEnd(file) == round >= Len(job[file])
Before(i) == drained \cup {Order[j] : j \in {j \in 1..i : AtEnd(Order[j])}}

MutStops == drained = Files
Stops == \E i \in DOMAIN Order : AtEnd(Order[i]) /\ Before(i - 1) \cup {Order[i]} = Files

Decode ==
  /\ phase = "decode"
  /\ IF Stops THEN phase' = "done" /\ UNCHANGED <<round, drained, todo, heap, entries, compared>>
     ELSE /\ phase' = "diff" /\ round' = round + 1
          /\ drained' = Before(Len(Order))
          /\ todo' = <<Diff(<<>>, EmptySlice)>> /\ heap' = <<<<>>>> /\ entries' = <<>>
          /\ compared' = Append(compared, <<Document("original"), Document("updated")>>)
  /\ UNCHANGED <<job, reasons>>

(* A document has a kind of node that is not supported.                    *)
DecodeFails ==
  /\ phase = "decode" /\ \E i \in DOMAIN Order : ~AtEnd(Order[i])
  /\ phase' = "failed"
  /\ UNCHANGED <<job, round, drained, todo, heap, entries, reasons, compared>>

(***************************************************************************)
(* diff                                                                    *)
(***************************************************************************)

Base == Doc("original")
Other == Doc("updated")

Entry(key, kind, p) == [key |-> key, kind |-> kind, at |-> p]

(* The kind of two nodes that are there; "" if they do not differ.         *)
KindOf(p) ==
  LET b == Base.value[p]
      o == Other.value[p]
  IN CASE b = Container /\ o # Container -> IF Children(Base, p) = <<>> THEN "added"
                                            ELSE IF o \in Nulls THEN "deleted" ELSE "updated"
       [] b # Container /\ o = Container -> IF Children(Other, p) = <<>> THEN "deleted"
                                            ELSE IF b \in Nulls THEN "added" ELSE "updated"
       [] OTHER -> IF b = o THEN "" ELSE "updated"

(* All children of the original, and then those only in the other.         *)
MutLoop(p) == Children(Base, p)
Loop(p) ==
  LET base == Children(Base, p)
  IN base \o SelectSeq(Children(Other, p), LAMBDA n : n \notin ToSet(base))

DiffNodes ==
  /\ phase = "diff" /\ todo # <<>> /\ Head(todo).call = "diff"
  /\ LET d == Head(todo)
         p == d.at
         names == Loop(p)
     IN IF Base.value[p] = Container /\ Other.value[p] = Container
        THEN todo' = [i \in DOMAIN names |-> Child(p, d.key, names[i])] \o Tail(todo) /\ UNCHANGED entries
        ELSE /\ entries' = entries \o IF KindOf(p) = "" THEN <<>> ELSE <<Entry(d.key, KindOf(p), p)>>
             /\ todo' = Tail(todo)
  /\ UNCHANGED <<job, phase, round, drained, heap, reasons, compared>>

DiffChild ==
  /\ phase = "diff" /\ todo # <<>> /\ Head(todo).call = "child"
  /\ LET c == Head(todo)
         p == c.at
         key == Appended(c.key, Last(p))
     IN /\ heap' = AfterAppend(c.key, Last(p))
        /\ IF HasNode(Base, p) /\ HasNode(Other, p)
           THEN todo' = <<Diff(p, key)>> \o Tail(todo) /\ UNCHANGED entries
           ELSE /\ entries' = Append(entries, Entry(key, IF HasNode(Base, p) THEN "deleted" ELSE "added", p))
                /\ todo' = Tail(todo)
  /\ UNCHANGED <<job, phase, round, drained, reasons, compared>>

DiffDone ==
  /\ phase = "diff" /\ todo = <<>>
  /\ phase' = IF entries = <<>> THEN "decode" ELSE "reason"
  /\ todo' = [i \in DOMAIN entries |-> [call |-> "reason", entry |-> i]]
  /\ UNCHANGED <<job, round, drained, heap, entries, reasons, compared>>

(***************************************************************************)
(* reasonDiff                                                              *)
(***************************************************************************)

Reason(what, i) == [what |-> what, entry |-> i]

(* The last renderer that decides what the node is.                        *)
Deciding(by) ==
  LET named == {i \in DOMAIN by : by[i] \notin {"", "echo"}}
  IN IF named = {} THEN "" ELSE by[CHOOSE i \in named : \A j \in named : j <= i]

ReasonEntry ==
  /\ phase = "reason" /\ todo # <<>>
  /\ LET i == Head(todo).entry
         key == Elements(entries[i].key)
         src == Doc(Source)
         node == Nearest(src, key)
         by == Deciding(src.by[node])
         Say(rs) == reasons' = reasons \o rs /\ todo' = Tail(todo) /\ UNCHANGED phase
     IN CASE node = key -> Say(<<Reason("as is", i)>>)
          [] node # key /\ by = "" -> Say(<<Reason("incompatible", i)>>)
          [] node # key /\ by \notin {"", "http", "file", "s3"} ->
               Say(<<Reason("unsupported", i), Reason("incompatible", i)>>)
          [] OTHER -> IF ~job.renders THEN Say(<<Reason("error", i)>>)
                      ELSE IF Nearest(Other, node) = node THEN Say(<<Reason(by, i)>>)
                      ELSE phase' = "panicked" /\ UNCHANGED <<todo, reasons>>
  /\ UNCHANGED <<job, round, drained, heap, entries, compared>>

ReasonsPrinted ==
  /\ phase = "reason" /\ todo = <<>>
  /\ phase' = "decode" /\ reasons' = <<>>
  /\ UNCHANGED <<job, round, drained, todo, heap, entries, compared>>

Ended == {"done", "failed", "panicked"}
Terminated == phase \in Ended /\ UNCHANGED vars

Step == Decode \/ DecodeFails \/ DiffNodes \/ DiffChild \/ DiffDone \/ ReasonEntry \/ ReasonsPrinted
Next == Step \/ Terminated

Spec == Init /\ [][Next]_vars /\ WF_vars(Step)

(***************************************************************************)
(* Properties                                                              *)
(***************************************************************************)

Content(d, p) == IF HasNode(d, p) THEN d.value[p] ELSE "absent"

(* The places where the documents part: all above them is the same.        *)
Partings ==
  LET Differ(p) == Content(Base, p) # Content(Other, p)
  IN {p \in DOMAIN Base.value \cup DOMAIN Other.value :
        Differ(p) /\ \A k \in 0..(Len(p) - 1) : ~Differ(SubSeq(p, 1, k))}

(* diff finds exactly the places where two documents part, each once, and  *)
(* what the updated one has or lacks there.  It says nothing of the keys   *)
(* under which the entries then stand: a later call of append can write to *)
(* the array of one.                                                       *)
DiffExact ==
  phase = "reason" \/ (phase = "diff" /\ todo = <<>>) =>
    /\ {entries[i].at : i \in DOMAIN entries} = Partings
    /\ Len(entries) = Cardinality(Partings)
    /\ \A i \in DOMAIN entries :
         LET p == entries[i].at
         IN CASE ~HasNode(Base, p) -> entries[i].kind = "added"
              [] ~HasNode(Other, p) -> entries[i].kind = "deleted"
              [] OTHER -> Container \notin {Base.value[p], Other.value[p]} => entries[i].kind = "updated"

(* The comparison ends, and then the documents of the two files have been  *)
(* compared in pairs, all of them, also when a file has more than another. *)
DocumentsPaired ==
  LET Nth(file, n) == IF n <= Len(job[file]) THEN job[file][n] ELSE NoDocument
  IN /\ <>(phase \in Ended)
     /\ [](phase = "done" =>
             /\ Len(compared) >= Len(job.original) /\ Len(compared) >= Len(job.updated)
             /\ Len(compared) \in {Len(job[f]) : f \in Files}
             /\ \A n \in DOMAIN compared : compared[n] = <<Nth("original", n), Nth("updated", n)>>)

=============================================================================
