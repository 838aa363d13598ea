------------------------------ MODULE GitFetch ------------------------------
(***************************************************************************)
(* How the git renderer fetches a file: fetchRemote (pkg/renderer/git/     *)
(* config.go) asks git-upload-archive for a tar archive over ssh and reads *)
(* it through the packets it is sent in (git_wire_reader.go,               *)
(* side_band_reader.go); the cache reads what fetchRemote returns to its   *)
(* end and closes it (storeLocalCache and get, pkg/cache/two_tier.go).     *)
(*                                                                         *)
(* Bytes are kept as cells: what they are of, and a number.  Two are a     *)
(* block of an archive, and the two blocks at its end are one here.  The   *)
(* length of a packet is a cell.  Nothing closes the pipe from ssh to the  *)
(* readers, so that a read of more than is in it blocks.                   *)
(***************************************************************************)
EXTENDS Integers, Sequences, FiniteSets, SequencesExt

CONSTANTS
  Replies,  \* what the remote may send: its cells, and the cells of the file
  Buffer    \* the cells io.Copy asks for at once, some

Kinds == {"size", "band", "ACK", "NACK", "message", "commit", "comment", "header", "file", "pad", "end"}

(* What a remote sends is whole packets, each a size and as many cells;    *)
(* and after the first flush a packet that is not one begins with its band.*)
ASSUME RepliesAssumption ==
  /\ Buffer \in Nat \ {0}
  /\ \A r \in Replies :
       LET cells == r.cells
           sizes == {i \in DOMAIN cells : cells[i][1] = "size"}
       IN /\ cells \in Seq(Kinds \X Nat) /\ r.size \in Nat
          /\ cells # <<>> => 1 \in sizes
          /\ \A i \in sizes :
               LET end == i + cells[i][2]
               IN /\ end <= Len(cells) /\ \A j \in (i + 1)..end : j \notin sizes
                  /\ end < Len(cells) => end + 1 \in sizes
          /\ \A i \in DOMAIN cells : cells[i][1] = "band" => i - 1 \in sizes
          /\ \A i, j \in sizes :
               i < j /\ cells[i][2] = 0 /\ cells[j][2] > 0 => cells[j + 1][1] = "band"

VARIABLES
  reply,    \* fixed
  wire,     \* the cells of it that have not arrived
  pipe,     \* the cells that have and have not been read
  open,     \* the ssh session is open
  pc,       \* where the fetch is; "failed", "answered" or "panicked" at its end
  rest,     \* sbr.remainder
  block,    \* the cells of the block tar.Reader is reading
  left,     \* the cells it has to read of the entry it has come to,
  pad,      \* and of its padding
  result,   \* what tr.Next returned: "nil", "EOF" or "invalid"
  content,  \* what the cache has been given
  copied,   \* without an error
  given,    \* history: what the SideBandReader gave
  early     \* history: the session was closed before all had arrived

vars == <<reply, wire, pipe, open, pc, rest, block, left, pad, result,
          content, copied, given, early>>
ssh == <<reply, wire, open, early>>
tar == <<rest, block, left, pad, result, content, copied, given>>

Init ==
  /\ reply \in Replies /\ wire = reply.cells
  /\ pipe = <<>> /\ open = FALSE /\ pc = "start"
  /\ rest = 0 /\ block = <<>> /\ left = 0 /\ pad = 0 /\ result = "nil"
  /\ content = <<>> /\ copied = FALSE /\ given = <<>> /\ early = FALSE

(***************************************************************************)
(* The remote, and the ssh session                                         *)
(***************************************************************************)

Cells(name, n) == [i \in 1..n |-> <<name, i>>]
Size(n) == <<"size", n>>
Flush == <<Size(0)>>
Packet(cells) == <<Size(Len(cells))>> \o cells
Banded(band, cells) == Packet(<<<<"band", band>>>> \o cells)

(* The archive of a file of n cells: a commit has a header of its own.     *)
Archive(n, ofCommit) ==
  (IF ofCommit THEN Cells("commit", 2) \o Cells("comment", 2) ELSE <<>>)
  \o Cells("header", 2) \o Cells("file", n) \o Cells("pad", n % 2) \o Cells("end", 2)

Arrive ==
  /\ open /\ wire # <<>>
  /\ pipe' = Append(pipe, Head(wire)) /\ wire' = Tail(wire)
  /\ UNCHANGED <<reply, open, early, pc, tar>>

(***************************************************************************)
(* Packets                                                                 *)
(***************************************************************************)

(* The pipe from its first packet that is not a flush.                     *)
Unflushed ==
  LET n == {i \in DOMAIN pipe : pipe[i] # Size(0)}
  IN IF n = {} THEN <<>> ELSE SubSeq(pipe, CHOOSE i \in n : \A j \in n : i <= j, Len(pipe))

Atmost(a, b) == IF a < b THEN a ELSE b
From(s, i) == SubSeq(s, i, Len(s))

(* The byte at the end of a packet is set to zero, which padding is        *)
(* anyway, and so is the end of a header and of a comment.                 *)
Zero(c) == c[1] \in {"pad", "end"} \/ (c[1] \in {"commit", "comment", "header"} /\ c[2] = 2)
Zeroed(c) == IF Zero(c) THEN c ELSE <<"zeroed", c[2]>>

(* SideBandReader.Read of at most k cells, of a packet of any known band:  *)
(* what is given, and what is then left of the packet and in the pipe.     *)
Bands == 1..3
ReadOf(p, n, size) ==
  [cells |-> [i \in 1..n |-> IF i = size THEN Zeroed(p[i]) ELSE p[i]],
   rest |-> size - n, pipe |-> From(p, n + 1)]

MutSideBandReads(k) ==
  IF rest > 0
  THEN {ReadOf(pipe, n, rest) : n \in {Atmost(k, rest)} \cap 0..Len(pipe)}
  ELSE LET p == Unflushed
       IN IF Len(p) < 2 \/ p[2][2] \notin Bands THEN {}
          ELSE {ReadOf(From(p, 3), n, p[1][2]) : n \in {Atmost(k, p[1][2])} \cap 0..(Len(p) - 2)}
SideBandReads(k) ==
  IF rest > 0
  THEN {ReadOf(pipe, n, rest) : n \in {Atmost(k, rest)} \cap 0..Len(pipe)}
  ELSE LET p == Unflushed
       IN IF Len(p) < 2 \/ p[1][2] = 1 \/ p[2][2] \notin Bands THEN {}
          ELSE {ReadOf(From(p, 3), n, p[1][2] - 1) : n \in {Atmost(k, p[1][2] - 1)} \cap 0..(Len(p) - 2)}

Take(r) == rest' = r.rest /\ pipe' = r.pipe /\ given' = given \o r.cells

(***************************************************************************)
(* fetchRemote                                                             *)
(***************************************************************************)

(* Its deferred calls close the session and the client when it returns.    *)
CloseSession == open' = FALSE /\ early' = (wire # <<>>) /\ UNCHANGED <<reply, wire>>

Fail == pc' = "failed" /\ CloseSession

(* The parameters are sent as well.                                        *)
Connect ==
  /\ pc = "start"
  /\ open' = TRUE /\ pc' = "ack"
  /\ UNCHANGED <<reply, wire, pipe, early, tar>>

ConnectFails ==
  /\ pc = "start"
  /\ Fail
  /\ UNCHANGED <<pipe, tar>>

ReadAck ==
  LET p == Unflushed IN
  /\ pc = "ack" /\ p # <<>> /\ Len(p) > p[1][2]
  /\ pipe' = From(p, p[1][2] + 2)
  /\ IF p[2][1] = "ACK" THEN pc' = "flush" /\ UNCHANGED ssh ELSE Fail
  /\ UNCHANGED tar

ReadFlush ==
  /\ pc = "flush" /\ pipe # <<>>
  /\ pipe' = Tail(pipe)
  /\ IF Head(pipe) = Size(0) THEN pc' = "first" /\ UNCHANGED ssh ELSE Fail
  /\ UNCHANGED tar

(***************************************************************************)
(* tar.Reader                                                              *)
(***************************************************************************)

(* tr.Next skips what is left of the entry and its padding ...             *)
Skip ==
  /\ pc \in {"first", "next"} /\ result = "nil" /\ left + pad > 0
  /\ \E r \in SideBandReads(left + pad) :
       /\ Take(r)
       /\ left' = 0 /\ pad' = left + pad - Len(r.cells)
  /\ UNCHANGED <<ssh, pc, block, result, content, copied>>

(* ... and reads a header, that of a commit with its comment.              *)
Wanted == IF IsPrefix(Cells("commit", 2), block) THEN 3 ELSE 2

ReadHeader ==
  /\ pc \in {"first", "next"} /\ result = "nil" /\ left + pad = 0 /\ Len(block) < Wanted
  /\ \E r \in SideBandReads(Wanted - Len(block)) : Take(r) /\ block' = block \o r.cells
  /\ UNCHANGED <<ssh, pc, left, pad, result, content, copied>>

(* A packet of no known band is an error, which tar.Reader keeps; of a     *)
(* band alone the byte before the first is set to zero.                    *)
Reading ==
  /\ result = "nil"
  /\ \/ pc \in {"first", "next"} /\ (left + pad > 0 \/ Len(block) < Wanted)
     \/ pc = "read" /\ left > 0

ReadStops ==
  LET p == Unflushed IN
  /\ Reading /\ rest = 0 /\ Len(p) >= 2
  /\ \/ p[2][2] \notin Bands /\ result' = "invalid" /\ UNCHANGED <<pc, ssh>>
     \/ /\ p[2][2] \in Bands /\ p[1][2] = 1
        /\ pc' = "panicked" /\ UNCHANGED result
        /\ IF pc = "first" THEN CloseSession ELSE UNCHANGED ssh
  /\ pipe' = From(p, 3)
  /\ UNCHANGED <<rest, block, left, pad, content, copied, given>>

Commit == Cells("commit", 2) \o Cells("comment", 1)
NextOf ==
  IF result # "nil" THEN result
  ELSE CASE block = Cells("end", 2) -> "EOF"
         [] block \in {Cells("header", 2), Commit} -> "nil"
         [] OTHER -> "invalid"

(* The header of a commit is an entry as well, one without content.        *)
AtEntry ==
  /\ result' = NextOf
  /\ left' = IF block = Cells("header", 2) THEN reply.size ELSE 0
  /\ pad' = IF block = Commit THEN 1 ELSE IF block = Cells("header", 2) THEN reply.size % 2 ELSE 0
  /\ block' = <<>>

(* fetchRemote calls tr.Next once, and returns whatever the result.        *)
FirstNext ==
  /\ pc = "first" /\ (Len(block) = Wanted \/ result # "nil")
  /\ AtEntry
  /\ pc' = "read" /\ CloseSession
  /\ UNCHANGED <<pipe, rest, given, content, copied>>

(***************************************************************************)
(* The cache                                                               *)
(***************************************************************************)

(* io.Copy reads the entry.                                                *)
Read ==
  /\ pc = "read" /\ result = "nil" /\ left > 0
  /\ \E r \in SideBandReads(Atmost(Buffer, left)) :
       Take(r) /\ content' = content \o r.cells /\ left' = left - Len(r.cells)
  /\ UNCHANGED <<ssh, pc, pad, block, result, copied>>

Copied ==
  /\ pc = "read" /\ (result # "nil" \/ left = 0)
  /\ copied' = (result # "invalid")
  /\ pc' = "next"
  /\ UNCHANGED <<ssh, pipe, rest, block, left, pad, result, content, given>>

(* The deferred Close: tr.Next until the end of the archive.  Any other    *)
(* error is met again by each call, and nothing ends the loop.             *)
MutCloseNext ==
  /\ pc = "next" /\ result # "invalid" /\ (Len(block) = Wanted \/ result = "EOF")
  /\ AtEntry
  /\ pc' = "next"
  /\ UNCHANGED <<ssh, pipe, rest, given, content, copied>>
CloseNext ==
  /\ pc = "next" /\ result # "invalid" /\ (Len(block) = Wanted \/ result = "EOF")
  /\ AtEntry
  /\ pc' = IF NextOf = "EOF" THEN "wait" ELSE "next"
  /\ UNCHANGED <<ssh, pipe, rest, given, content, copied>>

(* session.Wait, of a session that has been closed: its error is of no     *)
(* consequence.                                                            *)
Wait ==
  /\ pc = "wait"
  /\ pc' = IF copied THEN "answered" ELSE "failed"
  /\ UNCHANGED <<ssh, pipe, tar>>

Ended == pc \in {"answered", "failed", "panicked"}
Terminated == Ended /\ UNCHANGED vars

Fetch ==
  \/ Connect \/ ConnectFails \/ ReadAck \/ ReadFlush \/ Skip \/ ReadHeader \/ ReadStops
  \/ FirstNext \/ Read \/ Copied \/ CloseNext \/ Wait

Next == Arrive \/ Fetch \/ Terminated

(* The remote sends what it has to send, and the renderer goes on.         *)
Fairness == WF_vars(Arrive) /\ WF_vars(Fetch)
Spec == Init /\ [][Next]_vars /\ Fairness

(***************************************************************************)
(* Properties                                                              *)
(***************************************************************************)

(* What the packets have in them, without their bands: the cells, from the *)
(* first band on, that are neither a size nor a band, the last of a packet *)
(* as zero.                                                                *)
Carried ==
  {i \in DOMAIN reply.cells : /\ reply.cells[i][1] \notin {"size", "band"}
                              /\ \E b \in 1..i : reply.cells[b][1] = "band"}
Given(i) ==
  IF i = Len(reply.cells) \/ reply.cells[i + 1][1] = "size" THEN Zeroed(reply.cells[i]) ELSE reply.cells[i]
Payload ==
  LET carried == Carried
  IN [k \in 1..Cardinality(carried) |->
        Given(CHOOSE i \in carried : Cardinality({j \in carried : j <= i}) = k)]

(* However the packets are cut and the reads are, and whatever has arrived *)
(* when the session closes, tar is given what is in them in order, nothing *)
(* lost or made up, and of each packet the last byte and no other is zero  *)
(* (side_band_reader.go); and an answer is the content of the archive's    *)
(* first entry, all of it, which is that of the file or none.              *)
StreamKept ==
  /\ LET payload == Payload IN Len(given) <= Len(payload) /\ \A i \in DOMAIN given : given[i] = payload[i]
  /\ pc = "answered" =>
       content = IF IsPrefix(Cells("header", 2), given) THEN SubSeq(given, 3, 2 + reply.size) ELSE <<>>

(* A fetch of an archive that has all arrived by the time the session is   *)
(* closed is answered (fetchRemote and Close of config.go), if the remote  *)
(* sent nothing but it, in packets that the reader takes.                  *)
Understood(i) ==
  LET c == reply.cells[i]
  IN /\ c[1] # "message"
     /\ c[1] = "band" => c[2] \in Bands /\ i < Len(reply.cells) /\ reply.cells[i + 1][1] # "size"
WholeAnswered ==
  (pc = "read" /\ ~early /\ \A i \in DOMAIN reply.cells : Understood(i)) ~> pc = "answered"

=============================================================================
