----------------------------- MODULE ArchiveFile -----------------------------
(***************************************************************************)
(* The af renderer: a file of an archive (pkg/renderer/af), looked up in   *)
(* its cache first (HandleRenderingRequestWithRemoteFetch).  A compressed  *)
(* archive is read through a buffer that keeps all that was decompressed,  *)
(* so that tar can seek in it and begin again for a link (utils.go).       *)
(*                                                                         *)
(* An archive is kept as cells: one for each header and some of content; a *)
(* zip has its directory at the end.  What is cached does not expire here: *)
(* TwoTierCache is about that.  Names are sequences, of one or two         *)
(* components; no path asks for the first file.                            *)
(***************************************************************************)
EXTENDS Integers, Sequences, SequencesExt

CONSTANTS
  Archives,  \* by name: format, entries, and whether the end is cut off
  Requests,  \* what the renderer may be given: sequences of archive and path
  Matched,   \* the cells MatchReader reads, 8192 bytes in the code
  Buffer     \* the cells io.Copy asks for at once

VARIABLES
  requests,  \* those to come, and the one it is at first
  pc,        \* where the request is
  target,    \* the path looked for
  buf, up,   \* bufferredReaderAt: its buffer, and the cells read upstream
  off,       \* where the next read is from
  entry,     \* the entry tar has come to
  left,      \* the cells of it that have not been read
  content,   \* what was read of it
  cache,     \* by key: the content cached, and (history) the path it is of
  answer     \* what the last request was answered

reader == <<buf, up, off>>
vars == <<requests, pc, target, reader, entry, left, content, cache, answer>>

None == <<>>
NoAnswer == [ok |-> FALSE, cells |-> <<>>]

Init ==
  /\ requests \in Requests
  /\ pc = "idle" /\ target = None /\ buf = <<>> /\ up = 0 /\ off = 0 /\ entry = 0 /\ left = 0
  /\ content = <<>> /\ cache = [k \in {} |-> NoAnswer]
  /\ answer = NoAnswer

Request == Head(requests)
Archive == Archives[Request.archive]
Entries == Archive.entries

(***************************************************************************)
(* Archives                                                                *)
(***************************************************************************)

Data(a, i) == [j \in 1..a.entries[i].size |-> <<"data", i, j>>]
WholeTar(a) ==
  FlattenSeq([i \in DOMAIN a.entries |-> <<<<"header", i, 0>>>> \o Data(a, i)]) \o <<<<"end", 0, 0>>>>
WholeZip(a) == FlattenSeq([i \in DOMAIN a.entries |-> Data(a, i)]) \o <<<<"directory", 0, 0>>>>
Cells(a) ==
  LET whole == IF a.inner = "zip" THEN WholeZip(a) ELSE WholeTar(a)
  IN SubSeq(whole, 1, Len(whole) - a.cut)
Stream == Cells(Archive)

Named(a, name) == {i \in DOMAIN a.entries : a.entries[i].name = name}

(* pathhelper.EvalLink, for a link that is in no directory or in one.      *)
EvalLink(from, to) ==
  IF Len(from) = 1 THEN to ELSE IF to[1] = ".." THEN Tail(to) ELSE Front(from) \o to

(***************************************************************************)
(* bufferredReaderAt                                                       *)
(***************************************************************************)

Atmost(a, b) == IF a < b THEN a ELSE b

(* Reading on upstream gives what it likes of what it was asked for.       *)
Upstream(k) ==
  LET n == Atmost(k, Len(Stream) - up)
  IN {SubSeq(Stream, up + 1, up + m) : m \in (IF n = 0 THEN 0 ELSE 1)..n}

(* ReadAt: what is in the buffer is given from there, and what comes next  *)
(* from upstream.  Before a read that begins behind the buffer it is       *)
(* filled; if there is too little the cells are lost.                      *)
MutReadAt(k) ==
  LET n == IF off < Len(buf) THEN Atmost(k, Len(buf) - off) ELSE 0
      old == SubSeq(buf, off + 1, off + n)
  IN IF off <= Len(buf)
     THEN {[cells |-> old \o new, buf |-> buf \o new, up |-> up + Len(new)] : new \in Upstream(k - n)}
     ELSE {[cells |-> new, buf |-> buf \o new, up |-> up + Len(new)] : new \in Upstream(k)}
ReadAt(k) ==
  LET n == IF off < Len(buf) THEN Atmost(k, Len(buf) - off) ELSE 0
      old == SubSeq(buf, off + 1, off + n)
      gap == off - Len(buf)
  IN IF gap <= 0
     THEN {[cells |-> old \o new, buf |-> buf \o new, up |-> up + Len(new)] : new \in Upstream(k - n)}
     ELSE IF gap > Len(Stream) - up
     THEN {[cells |-> <<>>, buf |-> buf, up |-> Len(Stream)]}
     ELSE LET filled == SubSeq(Stream, up + 1, up + gap)
              rest == SubSeq(Stream, up + gap + 1, Len(Stream))
          IN {[cells |-> SubSeq(rest, 1, m), buf |-> buf \o filled \o SubSeq(rest, 1, m), up |-> up + gap + m] :
                m \in (IF rest = <<>> THEN 0 ELSE 1)..Atmost(k, Len(rest))}

(* A plain archive is read from its file.                                  *)
FileAt(k) ==
  {[cells |-> SubSeq(Stream, off + 1, Atmost(off + k, Len(Stream))), buf |-> buf, up |-> up]}

Reads(k) == IF Archive.compressed THEN ReadAt(k) ELSE FileAt(k)

Read(r) ==
  buf' = r.buf /\ up' = r.up /\ off' = off + Len(r.cells)

(***************************************************************************)
(* A request                                                               *)
(***************************************************************************)

Goto(stage) == pc' = stage

Return(a) ==
  /\ pc' = "idle" /\ requests' = Tail(requests) /\ answer' = a
  /\ target' = None /\ buf' = <<>> /\ up' = 0 /\ off' = 0 /\ entry' = 0 /\ left' = 0 /\ content' = <<>>

Fail == Return(NoAnswer) /\ UNCHANGED cache

(* inputSpec.ScopeUniqueID                                                 *)
Key == Request.archive

(* The cache has it.                                                       *)
Cached ==
  /\ pc = "idle" /\ requests # <<>> /\ Key \in DOMAIN cache
  /\ Return([ok |-> TRUE, cells |-> cache[Key].cells])
  /\ UNCHANGED cache

(* extractFileFromArchive and unarchive: without a path what was           *)
(* compressed is the content.                                              *)
Open ==
  /\ pc = "idle" /\ requests # <<>> /\ Key \notin DOMAIN cache
  /\ target' = Request.path /\ answer' = NoAnswer
  /\ Goto(CASE ~Archive.compressed -> Archive.inner
            [] Archive.compressed /\ Request.path = None -> "copy"
            [] OTHER -> "match")
  /\ left' = IF Archive.compressed /\ Request.path = None THEN Len(Stream) ELSE 0
  /\ UNCHANGED <<requests, reader, entry, content, cache>>

OpenFails ==
  /\ pc = "idle" /\ requests # <<>> /\ Key \notin DOMAIN cache
  /\ Fail

(* unarchiveNext: one Read tells what is in it ...                         *)
Match ==
  /\ pc = "match"
  /\ \E r \in Reads(Matched) :
       buf' = r.buf /\ up' = r.up /\ off' = 0
  /\ Goto(Archive.inner)
  /\ UNCHANGED <<requests, target, entry, left, content, cache, answer>>

(* ... or ends before the bytes that do: what is in it is then taken for   *)
(* deflate, which it is not.                                               *)
MatchFails ==
  /\ pc = "match"
  /\ Fail

(***************************************************************************)
(* untar                                                                   *)
(***************************************************************************)

(* rd.Next: the content of an entry is skipped by a seek to its last cell, *)
(* and reading that.                                                       *)
SeekLast ==
  /\ pc = "tar" /\ left > 1
  /\ off' = off + left - 1 /\ left' = 1
  /\ UNCHANGED <<requests, pc, target, buf, up, entry, content, cache, answer>>

ReadLast ==
  /\ pc = "tar" /\ left = 1
  /\ \E r \in Reads(1) :
       IF r.cells = <<>> THEN Fail
       ELSE Read(r) /\ left' = 0 /\ UNCHANGED <<requests, pc, target, entry, content, cache, answer>>

NextHeader ==
  /\ pc = "tar" /\ left = 0
  /\ \E r \in Reads(1) :
       IF r.cells = <<>> \/ Last(r.cells)[1] # "header" THEN Fail
       ELSE LET e == Last(r.cells)[2] IN
            /\ Read(r)
            /\ entry' = e /\ left' = Entries[e].size
            /\ Goto(IF target \in {None, Entries[e].name} THEN "entry" ELSE "tar")
            /\ UNCHANGED <<requests, target, content, cache, answer>>

(* A regular file is what is looked for; without a path other entries are  *)
(* passed over.  For a link of either kind it begins again.                *)
UseEntry ==
  /\ pc = "entry"
  /\ \/ /\ Entries[entry].kind = "file"
        /\ Goto("copy")
        /\ UNCHANGED <<requests, target, reader, entry, left, content, cache, answer>>
     \/ /\ Entries[entry].kind # "file" /\ target = None
        /\ Goto("tar")
        /\ UNCHANGED <<requests, target, reader, entry, left, content, cache, answer>>
     \/ /\ Entries[entry].kind \in {"symlink", "hardlink"} /\ target # None
        /\ target' = EvalLink(Entries[entry].name, Entries[entry].to)
        /\ off' = 0 /\ left' = 0 /\ entry' = 0
        /\ Goto("tar")
        /\ UNCHANGED <<requests, buf, up, content, cache, answer>>
     \/ /\ Entries[entry].kind = "dir" /\ target # None
        /\ Fail

(***************************************************************************)
(* unzip                                                                   *)
(***************************************************************************)

(* The size it is told is that of the file, or of what has been buffered.  *)
ZipSize == IF Archive.compressed THEN Len(buf) ELSE Len(Stream)

IsZip == ZipSize > 0 /\ Stream[ZipSize][1] = "directory"

NotZip ==
  /\ pc = "zip" /\ (~IsZip \/ Named(Archive, target) = {} \/ target = None)
  /\ Fail

(* The name of what was opened is the last component.                      *)
OpenInZip ==
  /\ pc = "zip" /\ IsZip /\ target # None
  /\ \E i \in Named(Archive, target) :
       \/ /\ Entries[i].kind = "file"
          /\ off' = Len(FlattenSeq([j \in 1..(i - 1) |-> Data(Archive, j)]))
          /\ left' = Entries[i].size /\ entry' = i
          /\ Goto("copy")
          /\ UNCHANGED <<requests, target, buf, up, content, cache, answer>>
       \/ /\ Entries[i].kind = "symlink"
          /\ target' = EvalLink(<<Last(Entries[i].name)>>, Entries[i].to)
          /\ UNCHANGED <<requests, pc, reader, entry, left, content, cache, answer>>
       \/ /\ Entries[i].kind = "dir"
          /\ Fail

(***************************************************************************)
(* The content                                                             *)
(***************************************************************************)

(* storeLocalCache: io.Copy until there is no more.                        *)
Copy ==
  /\ pc = "copy" /\ left > 0
  /\ \E r \in Reads(Atmost(Buffer, left)) :
       IF r.cells = <<>> THEN Fail
       ELSE /\ Read(r)
            /\ content' = content \o r.cells /\ left' = left - Len(r.cells)
            /\ UNCHANGED <<requests, pc, target, entry, cache, answer>>

Store ==
  /\ pc = "copy" /\ left = 0
  /\ cache' = [k \in DOMAIN cache \cup {Key} |-> IF k = Key THEN [path |-> Request.path, cells |-> content] ELSE cache[k]]
  /\ Return([ok |-> TRUE, cells |-> content])

Terminated == pc = "idle" /\ requests = <<>> /\ UNCHANGED vars

Next ==
  \/ Cached \/ Open \/ OpenFails \/ Match \/ MatchFails \/ SeekLast \/ ReadLast \/ NextHeader \/ UseEntry
  \/ NotZip \/ OpenInZip \/ Copy \/ Store \/ Terminated

Spec == Init /\ [][Next]_vars

(***************************************************************************)
(* Properties                                                              *)
(***************************************************************************)

(* What a path leads to: the first entry of that name, or what it links to *)
(* -- from where it is, or by its whole name.                              *)
LinkedTo(e) == IF e.kind = "hardlink" THEN e.to ELSE EvalLink(e.name, e.to)
First(S) == CHOOSE i \in S : \A j \in S : i <= j
Followed(a, path) ==
  LET f[n \in 0..Len(a.entries)] ==
        IF n = 0 THEN path
        ELSE LET at == Named(a, f[n - 1])
             IN IF at = {} \/ a.entries[First(at)].kind \in {"file", "dir"} THEN f[n - 1]
                ELSE LinkedTo(a.entries[First(at)])
  IN f[Len(a.entries)]
FilesOf(a, path) ==
  IF path = None THEN {i \in DOMAIN a.entries : a.entries[i].kind = "file"}
  ELSE {i \in Named(a, Followed(a, path)) : a.entries[i].kind = "file"}

(* What a request of a path is for: the first of the files, and without a  *)
(* path all that was compressed.                                           *)
ContentsOf(a, path) ==
  IF a.compressed /\ path = None THEN {Cells(a)}
  ELSE {Data(a, i) : i \in {j \in FilesOf(a, path) : j = First(FilesOf(a, path))}}

(* An answer is the content its request is for, whatever was read, skipped *)
(* and read again on the way, however little upstream gave at once, or     *)
(* what the request was for that the same archive was first answered to    *)
(* (ScopeUniqueID); and there is one, if the archive is whole and has been *)
(* opened and recognised and is no zip that is compressed, of which only   *)
(* what has been buffered is seen (Size of utils.go).                      *)
Extracted ==
  [][requests' # requests =>
       LET path == IF Key \in DOMAIN cache THEN cache[Key].path ELSE Request.path
           contents == ContentsOf(Archive, path)
       IN IF answer'.ok THEN answer'.cells \in contents
          ELSE \/ pc \in {"idle", "match"} \/ Archive.cut > 0 \/ contents = {}
               \/ pc = "zip" /\ Archive.compressed]_vars

=============================================================================
