----------------------------- MODULE MCGitFetch ------------------------------
(***************************************************************************)
(* GitFetch for files of none to four cells, of a commit or of a tree, in  *)
(* packets cut at any block, and for what the remote says instead.         *)
(***************************************************************************)
EXTENDS GitFetch

Ack == Packet(<<<<"ACK", 1>>>>) \o Flush

(* The archive in packets, a cut after each of some of its blocks; what    *)
(* git-upload-archive sends without a flush at its end has failed.         *)
InPackets(cells, cuts) ==
  LET ends == SetToSortSeq({2 * c : c \in cuts} \cup {Len(cells)}, <)
  IN FlattenSeq([i \in DOMAIN ends |->
       Banded(1, SubSeq(cells, IF i = 1 THEN 1 ELSE ends[i - 1] + 1, ends[i]))])

Answer(n, ofCommit, warned, cuts) ==
  [cells |-> Ack \o warned \o InPackets(Archive(n, ofCommit), cuts) \o Flush, size |-> n]

Answers(sizes, ofCommit) ==
  UNION {{Answer(n, c, <<>>, cuts) : cuts \in SUBSET (1..(Len(Archive(n, c)) \div 2 - 1))} :
           n \in sizes, c \in ofCommit}

Message(band) == Banded(band, <<<<"message", 1>>>>)
Errors ==
  {[cells |-> Packet(<<<<"NACK", 1>>>>) \o Flush, size |-> 1],
   [cells |-> Packet(<<<<"ACK", 1>>>>) \o Packet(<<<<"ACK", 1>>>>), size |-> 1],
   [cells |-> Ack \o Message(2) \o Message(3), size |-> 1],
   [cells |-> Ack \o Message(2) \o Message(2) \o Message(3), size |-> 1],
   Answer(3, FALSE, Message(2), {1})}
  \cup {Answer(2, FALSE, Banded(band, <<>>), {}) : band \in {1, 4}}
  \cup {[cells |-> Ack \o Banded(1, Cells("header", 2) \o Cells("file", n)) \o Banded(band, <<>>) \o Flush, size |-> 2] :
           n \in {0, 2}, band \in {1, 4}}

MCReplies == Answers({0, 1, 3, 4}, BOOLEAN) \cup Errors
Commits == {Answer(3, TRUE, <<>>, {})}
Trees == {Answer(4, FALSE, <<>>, {2})}

(***************************************************************************)
(* What the documentation says and the code does not do                    *)
(***************************************************************************)

(* "Fetch file content from your git ssh repo as the field value."         *)
(* (docs/renderers/git.md:7): an answer is the content of the file.        *)
FileFetched == pc = "answered" => content = Cells("file", reply.size)

(* The same, of any file: it is fetched, or there is an error.             *)
FetchEnds == pc = "start" ~> Ended

=============================================================================
