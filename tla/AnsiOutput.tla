----------------------------- MODULE AnsiOutput ------------------------------
(***************************************************************************)
(* The output of the commands of one doRun when the stream is translated   *)
(* to plain text: an ANSIWriter for each command (pkg/utils/ansi_writer.go)*)
(* and the goroutine that flushes it (pkg/tools/run.go:72-113).            *)
(*                                                                         *)
(* All flushers read the one variable of doRun that has the exit channel   *)
(* of the current command; the channel of command s is s.  Text is kept as *)
(* characters, with line feed, carriage return and cursor up.              *)
(***************************************************************************)
EXTENDS Integers, Sequences, FiniteSets, SequencesExt

CONSTANTS
  Runs,         \* what the commands of a doRun write: a sequence of writes each
  MaxCommands,  \* bound on the commands of a doRun
  Threshold,    \* the lines at which a write flushes, 16 in the code
  MaxTicks      \* bound on the ticks of all tickers

ASSUME OutputAssumption ==
  /\ Threshold \in Nat \ {0} /\ MaxTicks \in Nat /\ MaxCommands \in Nat
  /\ \A r \in Runs : r \in Seq(Range(r)) /\ Len(r) <= MaxCommands

VARIABLES
  run,        \* fixed
  main,       \* doRun: "loop", "command", "returned", and "write" while the
              \* command has the lock of its writer; "exited" for the process
  cur,        \* the command it has come to, and ansiTranslationExitSig
  left,       \* what the command has left to write
  closed,     \* the channels closed
  flusher,    \* per command: the stage of its flusher
  channel,    \* per command: what its flusher waits for
  lines,      \* per command: the lines on the writer's screen
  pos,        \* per command: the cursor
  currentAt,  \* per command: the lines that have been flushed
  ticks,      \* ticks so far
  failed,     \* history: the commands of which a flush of the flusher's own failed
  out         \* history: what was flushed, with its command and line

vars == <<run, main, cur, left, closed, flusher, channel, lines, pos, currentAt, ticks, failed, out>>

Commands == DOMAIN run

Init ==
  /\ run \in Runs
  /\ main = "loop" /\ cur = 0 /\ left = <<>> /\ closed = {} /\ ticks = 0
  /\ failed = {} /\ out = <<>>
  /\ flusher = [s \in Commands |-> "none"] /\ channel = [s \in Commands |-> 0]
  /\ lines = [s \in Commands |-> <<>>]
  /\ pos = [s \in Commands |-> [line |-> 0, col |-> 0]]
  /\ currentAt = [s \in Commands |-> 0]

(***************************************************************************)
(* ANSIWriter                                                              *)
(***************************************************************************)

Pad(seq, n, x) == IF Len(seq) >= n THEN seq ELSE seq \o [i \in 1..(n - Len(seq)) |-> x]

(* A character is put at the cursor, over what is there.                   *)
Put(screen, at, c) ==
  LET ls == Pad(screen, at.line + 1, <<>>)
      l == Pad(ls[at.line + 1], at.col + 1, " ")
  IN [ls EXCEPT ![at.line + 1] = [l EXCEPT ![at.col + 1] = c]]

Cursor(at, c) ==
  CASE c = "LF" -> [line |-> at.line + 1, col |-> 0]
    [] c = "CR" -> [at EXCEPT !.col = 0]
    [] c = "UP" -> [at EXCEPT !.line = IF @ = 0 THEN 0 ELSE @ - 1]
    [] OTHER -> [at EXCEPT !.col = @ + 1]

Controls == {"LF", "CR", "UP"}

(* flushBufferredLines: the lines from currentAt on, or from the cursor on *)
(* if it is above, and a line at a time: n of them, all or those before    *)
(* the one that cannot be written, or only in part.                        *)
MutFrom(s) == currentAt[s]
From(s) == IF pos[s].line < currentAt[s] THEN pos[s].line ELSE currentAt[s]
Rest(s) == Len(lines[s]) - From(s)
Show(s, n) ==
  /\ out' = out \o [i \in 1..n |-> [by |-> s, line |-> From(s) + i, text |-> lines[s][From(s) + i]]]
  /\ currentAt' = [currentAt EXCEPT ![s] = From(s) + n]

Flush(s) == Show(s, Rest(s))
FailingFlush(s) == \E n \in 0..(Rest(s) - 1) : Show(s, n)

(***************************************************************************)
(* doRun                                                                   *)
(***************************************************************************)

(* notifyLastANSITranslationExit                                           *)
Notify == closed' = closed \cup IF cur = 0 THEN {} ELSE {cur}

NextCommand ==
  /\ main = "loop" /\ cur < Len(run)
  /\ Notify
  /\ cur' = cur + 1 /\ left' = run[cur + 1] /\ main' = "command"
  /\ flusher' = [flusher EXCEPT ![cur + 1] = "select"]
  /\ UNCHANGED <<run, channel, lines, pos, currentAt, ticks, failed, out>>

(* ANSIWriter.Write, from its Lock to its Unlock: character by character,  *)
(* and then a flush if there are many lines.  If it fails nothing more is  *)
(* read of that stream of the command, and the command fails; what is left *)
(* may be of its other stream.                                             *)
Write ==
  /\ main = "command" /\ left # <<>>
  /\ main' = "write"
  /\ UNCHANGED <<run, cur, left, closed, flusher, channel, lines, pos, currentAt, ticks, failed, out>>

WriteCharacter ==
  /\ main = "write" /\ Head(left) # <<>>
  /\ LET c == Head(Head(left))
     IN /\ lines' = IF c \in Controls THEN lines ELSE [lines EXCEPT ![cur] = Put(@, pos[cur], c)]
        /\ pos' = [pos EXCEPT ![cur] = Cursor(@, c)]
        /\ left' = [left EXCEPT ![1] = Tail(@)]
  /\ UNCHANGED <<run, main, cur, closed, flusher, channel, currentAt, ticks, failed, out>>

Many(s) == Len(lines[s]) - currentAt[s] >= Threshold

Written ==
  /\ main = "write" /\ Head(left) = <<>>
  /\ \/ Many(cur) /\ Flush(cur) /\ left' = Tail(left)
     \/ Many(cur) /\ FailingFlush(cur) /\ left' \in {<<>>, Tail(left)}
     \/ ~Many(cur) /\ left' = Tail(left) /\ UNCHANGED <<currentAt, out>>
  /\ main' = "command"
  /\ UNCHANGED <<run, cur, closed, flusher, channel, lines, pos, ticks, failed>>

CommandEnds ==
  /\ main = "command" /\ left = <<>>
  /\ main' = "loop"
  /\ UNCHANGED <<run, cur, left, closed, flusher, channel, lines, pos, currentAt, ticks, failed, out>>

(* The last command has ended, or one has failed.                          *)
MutReturn == /\ main = "loop" /\ cur = Len(run) /\ main' = "returned"
             /\ UNCHANGED <<run, cur, left, closed, flusher, channel, lines, pos, currentAt, ticks, failed, out>>
Return ==
  /\ (main = "loop" /\ cur = Len(run)) \/ main = "command"
  /\ Notify
  /\ main' = "returned"
  /\ UNCHANGED <<run, cur, left, flusher, channel, lines, pos, currentAt, ticks, failed, out>>

(* Nothing waits for a flusher: the process ends when its last task does.  *)
ExitProcess ==
  /\ main = "returned"
  /\ main' = "exited"
  /\ UNCHANGED <<run, cur, left, closed, flusher, channel, lines, pos, currentAt, ticks, failed, out>>

(***************************************************************************)
(* The flusher of a command                                                *)
(***************************************************************************)

At(s, stage) == main # "exited" /\ flusher[s] = stage
Goto(s, stage) == flusher' = [flusher EXCEPT ![s] = stage]

(* The cases of the select are evaluated: what the variable has by now.    *)
Select(s) ==
  /\ At(s, "select")
  /\ channel' = [channel EXCEPT ![s] = cur]
  /\ Goto(s, "wait")
  /\ UNCHANGED <<run, main, cur, left, closed, lines, pos, currentAt, ticks, failed, out>>

Tick(s) ==
  /\ At(s, "wait") /\ ticks < MaxTicks
  /\ ticks' = ticks + 1
  /\ Goto(s, "flush")
  /\ UNCHANGED <<run, main, cur, left, closed, channel, lines, pos, currentAt, failed, out>>

Unlocked(s) == main # "write" \/ s # cur

FlushOnTick(s) ==
  /\ At(s, "flush") /\ Unlocked(s)
  /\ Flush(s)
  /\ Goto(s, "select")
  /\ UNCHANGED <<run, main, cur, left, closed, channel, lines, pos, ticks, failed>>

(* The flusher returns, and flushes for the last time though its command   *)
(* may have more to write.                                                 *)
FlushFails(s) ==
  /\ At(s, "flush") /\ Unlocked(s)
  /\ FailingFlush(s)
  /\ Goto(s, "last flush")
  /\ failed' = failed \cup {s}
  /\ UNCHANGED <<run, main, cur, left, closed, channel, lines, pos, ticks>>

Signaled(s) ==
  /\ At(s, "wait") /\ channel[s] \in closed
  /\ Goto(s, "last flush")
  /\ UNCHANGED <<run, main, cur, left, closed, channel, lines, pos, currentAt, ticks, failed, out>>

LastFlush(s) ==
  /\ At(s, "last flush") /\ Unlocked(s)
  /\ \/ Flush(s) /\ UNCHANGED failed
     \/ FailingFlush(s) /\ failed' = failed \cup {s}
  /\ Goto(s, "done")
  /\ UNCHANGED <<run, main, cur, left, closed, channel, lines, pos, ticks>>

Flusher(s) == Select(s) \/ Tick(s) \/ FlushOnTick(s) \/ FlushFails(s) \/ Signaled(s) \/ LastFlush(s)
DoRun == NextCommand \/ Write \/ WriteCharacter \/ Written \/ CommandEnds \/ Return

Terminated == main = "exited" /\ UNCHANGED vars

Next ==
  \/ DoRun \/ ExitProcess
  \/ \E s \in Commands : Flusher(s)
  \/ Terminated

(* The process may go on, with other tasks, as long as it likes.           *)
Fairness ==
  WF_vars(DoRun) /\ \A s \in 1..MaxCommands : WF_vars(s \in Commands /\ Flusher(s))
Spec == Init /\ [][Next]_vars /\ Fairness

(***************************************************************************)
(* Properties                                                              *)
(***************************************************************************)

(* What was shown of a line, last.                                         *)
LastShown(s, i) ==
  LET at == {k \in DOMAIN out : out[k].by = s /\ out[k].line = i}
  IN IF at = {} THEN "nothing" ELSE out[CHOOSE k \in at : \A j \in at : j <= k].text

(* The lines that have been flushed have been shown, each after the one    *)
(* above it, also when a flush failed between two of them.  And when a     *)
(* flusher has ended, none of its flushes having failed, its command wrote *)
(* its last before, though it may have waited for the channel of another:  *)
(* every line has been shown, and what the cursor is on is shown as it is. *)
NoLineSkipped ==
  \A s \in Commands :
    /\ currentAt[s] <= Len(lines[s])
    /\ \A i \in 1..currentAt[s] :
         \E k \in DOMAIN out : /\ out[k].by = s /\ out[k].line = i
                               /\ i > 1 => \E j \in 1..(k - 1) : out[j].by = s /\ out[j].line = i - 1
    /\ flusher[s] = "done" /\ s \notin failed =>
         /\ s < cur \/ main \in {"returned", "exited"}
         /\ currentAt[s] = Len(lines[s])
         /\ \A i \in DOMAIN lines[s] : i = pos[s].line + 1 => LastShown(s, i) = lines[s][i]

(* Every flusher ends when doRun has returned, though it may wait for the  *)
(* channel of a later command, unless the process ends first.              *)
FlushersEnd ==
  main = "returned" ~> (main = "exited" \/ \A s \in Commands : flusher[s] \in {"none", "done"})

=============================================================================
