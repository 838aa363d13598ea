------------------------- MODULE TwoTierCacheProofs -------------------------
(***************************************************************************)
(* Proofs about TwoTierCache, for any callers, processes and timeouts, any *)
(* size of content and any bounds on the clock and on the remote.          *)
(*                                                                         *)
(* What is answered is fresh because a file carries the time its fetch     *)
(* began at the earliest: whoever writes file t opened the remote at t or  *)
(* later (FilesFresh, FetchFresh).  The last file stays because what a     *)
(* caller takes for expired is never later than every file there is        *)
(* (Listed).  And a chunk missing from a file is still to come from one of *)
(* its writers (Complete).                                                 *)
(***************************************************************************)
EXTENDS TwoTierCache, TLAPS

-----------------------------------------------------------------------------
(* The parts of the invariant                                              *)

(* The time, the remote and the configuration.                             *)
WorldInv ==
  /\ clock \in Times /\ remote \in Versions /\ until \in [Versions -> 1..(MaxTime + 1)]
  /\ proc \in [Callers -> Processes] /\ maxAge \in MaxAges
  /\ StartTime <= clock

(* Where callers are, and what they know there.                            *)
CallersInv ==
  /\ pc \in [Callers -> Stages] /\ want \in [Callers -> {"content", "path"}]
  /\ now \in [Callers -> Times] /\ active \in [Callers -> Times \cup {NoFile}]
  /\ expired \in [Callers -> SUBSET Times]
  /\ fetched \in [Callers -> Versions \cup {NoVersion}] /\ written \in [Callers -> 0..Chunks]
  /\ linked \in [Callers -> BOOLEAN]
  /\ \A c \in Callers :
       /\ now[c] <= clock
       /\ pc[c] \in {"open", "copy", "store"} => fetched[c] \in Versions
       /\ pc[c] = "copy" => written[c] < Chunks

(* No file is of the future, and one that is being written is there unless *)
(* it was removed.                                                         *)
FilesInv ==
  /\ Timestamps \subseteq Times /\ files \in [Timestamps -> File]
  /\ \A t \in Timestamps : t <= clock
  /\ \A c \in Callers : pc[c] = "copy" /\ linked[c] => now[c] \in Timestamps

(* What is in memory is a version of the remote.                           *)
MemoryInv ==
  /\ memory \in [Processes -> [version : Versions \cup {0}, expires : Int, took : Nat]]
  /\ \A p \in Processes : memory[p] = Nothing \/ memory[p].version \in Versions

Answers == [from : {"none", "memory", "file", "expired", "remote"},
            ok : BOOLEAN, content : Content, at : Nat]

(* Answers are to calls made in the past.                                  *)
AnswerInv ==
  /\ answer \in [Callers -> Answers]
  /\ \A c \in Callers : answer[c].at <= clock

Types == WorldInv /\ CallersInv /\ FilesInv /\ MemoryInv

-----------------------------------------------------------------------------
(* Contents                                                                *)

(* Nothing written, and everything written, are contents.                  *)
LEMMA SimpleContents == Empty \in Content /\ \A v \in Versions : Whole(v) \in Content
<1>1. Empty \in [1..0 -> Versions \cup {Hole}]
  BY DEF Empty
<1>2. Empty \in Content
  BY <1>1, CacheAssumption DEF Content
<1>3. ASSUME NEW v \in Versions PROVE Whole(v) \in Content
  <2>1. Whole(v) \in [1..Chunks -> Versions \cup {Hole}]
    BY DEF Whole
  <2> QED
    BY <2>1, CacheAssumption DEF Content
<1> QED
  BY <1>2, <1>3

(* Writing a chunk into a content gives one.                               *)
LEMMA WrittenContent ==
  ASSUME NEW data \in Content, NEW k \in 1..Chunks, NEW v \in Versions
  PROVE  WriteAt(data, k, v) \in Content
<1>1. PICK j \in 0..Chunks : data \in [1..j -> Versions \cup {Hole}]
  BY DEF Content
<1>2. DEFINE m == IF j < k THEN k ELSE j
<1>3. m \in 0..Chunks /\ 1..j \cup 1..k = 1..m
  BY CacheAssumption
<1>4. WriteAt(data, k, v) \in [1..m -> Versions \cup {Hole}]
  BY <1>1, <1>3 DEF WriteAt
<1> QED
  BY <1>3, <1>4 DEF Content

-----------------------------------------------------------------------------
(* Types                                                                   *)

(* Every initial state has the types.                                      *)
LEMMA InitTypes == Init => Types /\ AnswerInv
<1> SUFFICES ASSUME Init PROVE Types /\ AnswerInv
  OBVIOUS
<1> USE CacheAssumption, SimpleContents DEF Init
<1>1. WorldInv
  BY DEF WorldInv, Times, Versions
<1>2. CallersInv
  BY DEF CallersInv, Stages, Times, NoFile, NoVersion
<1>3. FilesInv
  <2>1. PICK old \in SUBSET (1..(StartTime - 1)) :
          files = [t \in old |-> [data |-> Whole(1), of |-> 1, spoilt |-> FALSE]]
    OBVIOUS
  <2>2. 1 \in Versions /\ Whole(1) \in Content
    BY DEF Versions
  <2>3. [data |-> Whole(1), of |-> 1, spoilt |-> FALSE] \in File
    BY <2>2 DEF File
  <2> QED
    BY <2>1, <2>3 DEF FilesInv, Timestamps, Times
<1>4. MemoryInv
  BY DEF MemoryInv, Nothing
<1>5. AnswerInv
  BY DEF AnswerInv, Answers, NoAnswer
<1> QED
  BY <1>1, <1>2, <1>3, <1>4, <1>5 DEF Types

(* The clock goes forward only, and what is fixed stays.                   *)
LEMMA WorldStep == WorldInv /\ [Next]_vars => WorldInv' /\ clock <= clock' /\ UNCHANGED config
<1> SUFFICES ASSUME WorldInv, [Next]_vars PROVE WorldInv' /\ clock <= clock' /\ UNCHANGED config
  OBVIOUS
<1> USE DEF WorldInv, Times, Versions, config, world
<1>1. CASE Tick
  BY <1>1, CacheAssumption DEF Tick
<1>2. CASE Publish
  BY <1>2, CacheAssumption DEF Publish
<1>3. ASSUME NEW p \in Processes, Evict(p) \/ Crash(p) PROVE UNCHANGED <<world, config>>
  BY <1>3 DEF Evict, Crash
<1>4. ASSUME NEW c \in Callers, Get(c) PROVE UNCHANGED <<world, config>>
  BY <1>4 DEF Get, Call, GetFromMemory, Lookup, LookupFails, RemoveExpired, UseActive, Refresh,
       RefreshFails, NoDirectory, UseExpired, OpenFile, OpenFileFails, CopyChunk, CopyFails, Store
<1>5. CASE UNCHANGED vars
  BY <1>5 DEF vars
<1> QED
  BY <1>1, <1>2, <1>3, <1>4, <1>5 DEF Next

(* A call that returns leaves nothing behind but its answer.               *)
LEMMA ReturnCallers ==
  ASSUME WorldInv, CallersInv, NEW c \in Callers, NEW a, Return(c, a), UNCHANGED world
  PROVE  CallersInv'
  BY CacheAssumption DEF WorldInv, CallersInv, Return, Goto, Stages, Times, NoFile, NoVersion, world

(* Every step keeps what is known of callers.                              *)
LEMMA CallersStep == Types /\ [Next]_vars => CallersInv'
<1> SUFFICES ASSUME WorldInv, CallersInv, FilesInv, [Next]_vars PROVE CallersInv'
  BY DEF Types
<1>1. CASE Tick
  BY <1>1 DEF Tick, CallersInv, WorldInv, Times, args, locals
<1>2. CASE Publish
  BY <1>2 DEF Publish, CallersInv, args, locals
<1>3. ASSUME NEW p \in Processes, Evict(p) PROVE CallersInv'
  BY <1>3 DEF Evict, CallersInv, args, locals, world
<1>4. ASSUME NEW p \in Processes, Crash(p) PROVE CallersInv'
  <2>1. /\ pc' \in [Callers -> Stages] /\ want' \in [Callers -> {"content", "path"}]
        /\ now' \in [Callers -> Times] /\ active' \in [Callers -> Times \cup {NoFile}]
    BY <1>4, CacheAssumption DEF Crash, Reset, CallersInv, Stages, Times
  <2>2. /\ expired' \in [Callers -> SUBSET Times]
        /\ fetched' \in [Callers -> Versions \cup {NoVersion}]
    BY <1>4 DEF Crash, Reset, CallersInv
  <2>4. written' \in [Callers -> 0..Chunks]
    BY <1>4, CacheAssumption DEF Crash, Reset, CallersInv
  <2>5. linked' \in [Callers -> BOOLEAN]
    BY <1>4 DEF Crash, Reset, CallersInv
  <2>3. ASSUME NEW d \in Callers
        PROVE  /\ now'[d] <= clock'
               /\ pc'[d] \in {"open", "copy", "store"} => fetched'[d] \in Versions
               /\ pc'[d] = "copy" => written'[d] < Chunks
    BY <1>4 DEF Crash, Reset, CallersInv, WorldInv, world
  <2> QED
    BY <2>1, <2>2, <2>3, <2>4, <2>5 DEF CallersInv
<1>5. ASSUME NEW c \in Callers, Get(c) PROVE CallersInv'
  <2>1. CASE Call(c)
    <3>1. PICK w \in {"content", "path"} :
            /\ want' = [want EXCEPT ![c] = w]
            /\ pc' = [pc EXCEPT ![c] = IF w = "content" THEN "memory" ELSE "lookup"]
      BY <2>1 DEF Call, Goto
    <3>2. /\ pc' \in [Callers -> Stages] /\ want' \in [Callers -> {"content", "path"}]
          /\ now' \in [Callers -> Times]
      BY <2>1, <3>1 DEF Call, CallersInv, WorldInv, Stages
    <3>3. \A d \in Callers : now'[d] <= clock'
      BY <2>1 DEF Call, CallersInv, WorldInv, world, Times
    <3> QED
      BY <2>1, <3>1, <3>2, <3>3 DEF Call, CallersInv, locals
  <2>2. CASE GetFromMemory(c)
    <3>1. CASE Remembered(memory[proc[c]])
      BY <2>2, <3>1, ReturnCallers DEF GetFromMemory, Give
    <3>2. CASE ~Remembered(memory[proc[c]])
      BY <2>2, <3>2 DEF GetFromMemory, Goto, CallersInv, Stages, world, args, locals
    <3> QED
      BY <3>1, <3>2
  <2>3. CASE LookupFails(c) \/ NoDirectory(c) \/ OpenFileFails(c) \/ CopyFails(c)
    BY <2>3, ReturnCallers DEF LookupFails, NoDirectory, OpenFileFails, CopyFails, Fail
  <2>4. CASE UseActive(c) \/ UseExpired(c) \/ Store(c)
    BY <2>4, ReturnCallers DEF UseActive, UseExpired, Store, Give
  <2>5. CASE Lookup(c)
    <3>1. active' \in [Callers -> Times \cup {NoFile}] /\ expired' \in [Callers -> SUBSET Times]
      BY <2>5 DEF Lookup, CallersInv, FilesInv
    <3> QED
      BY <2>5, <3>1 DEF Lookup, Goto, CallersInv, Stages, world, args
  <2>6. CASE RemoveExpired(c)
    BY <2>6 DEF RemoveExpired, CallersInv, world, args
  <2>7. CASE Refresh(c)
    BY <2>7 DEF Refresh, Goto, CallersInv, WorldInv, Stages, world, args
  <2>8. CASE RefreshFails(c)
    <3>1. CASE expired[c] = {}
      BY <2>8, <3>1, ReturnCallers DEF RefreshFails, Fail
    <3>2. CASE expired[c] # {}
      BY <2>8, <3>2 DEF RefreshFails, Goto, CallersInv, Stages, world, args, locals
    <3> QED
      BY <3>1, <3>2
  <2>9. CASE OpenFile(c)
    BY <2>9, CacheAssumption DEF OpenFile, Goto, CallersInv, Stages, world, args
  <2>10. CASE CopyChunk(c)
    BY <2>10, CacheAssumption DEF CopyChunk, Goto, CallersInv, Stages, world, args
  <2> QED
    BY <1>5, <2>1, <2>2, <2>3, <2>4, <2>5, <2>6, <2>7, <2>8, <2>9, <2>10 DEF Get
<1>6. CASE UNCHANGED vars
  BY <1>6 DEF vars, CallersInv, world, args, locals
<1> QED
  BY <1>1, <1>2, <1>3, <1>4, <1>5, <1>6 DEF Next

-----------------------------------------------------------------------------
(* What a step of one caller leaves alone                                  *)

(* A step of c: other callers stay where they are and know what they knew, *)
(* but may find that their file has been removed.                          *)
Apart(c) ==
  \A d \in Callers \ {c} :
    /\ pc'[d] = pc[d] /\ now'[d] = now[d] /\ active'[d] = active[d]
    /\ expired'[d] = expired[d] /\ fetched'[d] = fetched[d] /\ written'[d] = written[d]
    /\ answer'[d] = answer[d]
    /\ linked'[d] => linked[d]

(* A call that returns changes nothing of the others.                      *)
LEMMA ReturnApart ==
  ASSUME CallersInv, AnswerInv, NEW c \in Callers, NEW a, Return(c, a)
  PROVE  /\ Apart(c) /\ \A d \in Callers \ {c} : linked'[d] = linked[d]
         /\ pc'[c] = "idle" /\ expired'[c] = {} /\ answer'[c] = a
  BY DEF CallersInv, AnswerInv, Return, Goto, Apart

(* The actions that read and write no file.                                *)
Quiet(c) ==
  \/ Call(c) \/ GetFromMemory(c) \/ Lookup(c) \/ LookupFails(c) \/ UseActive(c)
  \/ Refresh(c) \/ RefreshFails(c) \/ NoDirectory(c) \/ UseExpired(c) \/ OpenFileFails(c)
  \/ Store(c)

(* A quiet step leaves the others, the files and the world alone.          *)
LEMMA QuietStep ==
  ASSUME CallersInv, AnswerInv, NEW c \in Callers, Quiet(c)
  PROVE  /\ Apart(c) /\ UNCHANGED <<world, config, files>>
         /\ pc[c] # "copy" /\ pc'[c] # "copy"
         /\ \A d \in Callers \ {c} : linked'[d] = linked[d]
<1> USE DEF world, config, locals, args, Goto
<1>1. CASE Call(c)
  BY <1>1 DEF Call, Apart, CallersInv, AnswerInv
<1>2. CASE GetFromMemory(c)
  <2>1. CASE Remembered(memory[proc[c]])
    BY <1>2, <2>1, ReturnApart DEF GetFromMemory, Give
  <2>2. CASE ~Remembered(memory[proc[c]])
    BY <1>2, <2>2 DEF GetFromMemory, Apart, CallersInv
  <2> QED
    BY <2>1, <2>2
<1>3. CASE LookupFails(c) \/ NoDirectory(c) \/ OpenFileFails(c)
  BY <1>3, ReturnApart DEF LookupFails, NoDirectory, OpenFileFails, Fail
<1>4. CASE UseActive(c) \/ UseExpired(c) \/ Store(c)
  BY <1>4, ReturnApart DEF UseActive, UseExpired, Store, Give
<1>5. CASE Lookup(c)
  BY <1>5 DEF Lookup, Apart, CallersInv
<1>6. CASE Refresh(c)
  BY <1>6 DEF Refresh, Apart, CallersInv
<1>7. CASE RefreshFails(c)
  <2>1. CASE expired[c] = {}
    BY <1>7, <2>1, ReturnApart DEF RefreshFails, Fail
  <2>2. CASE expired[c] # {}
    BY <1>7, <2>2 DEF RefreshFails, Apart, CallersInv
  <2> QED
    BY <2>1, <2>2
<1> QED
  BY <1>1, <1>2, <1>3, <1>4, <1>5, <1>6, <1>7 DEF Quiet

(* So do the actions that do.                                              *)
LEMMA FileApart ==
  ASSUME CallersInv, AnswerInv, NEW c \in Callers,
         RemoveExpired(c) \/ OpenFile(c) \/ CopyChunk(c) \/ CopyFails(c)
  PROVE  Apart(c) /\ UNCHANGED <<world, config, memory>>
<1> USE DEF world, config, locals, args, Goto
<1>1. CASE RemoveExpired(c)
  BY <1>1 DEF RemoveExpired, Apart, CallersInv
<1>2. CASE OpenFile(c)
  BY <1>2 DEF OpenFile, Apart, CallersInv
<1>3. CASE CopyChunk(c)
  BY <1>3 DEF CopyChunk, Apart, CallersInv
<1>4. CASE CopyFails(c)
  BY <1>4, ReturnApart DEF CopyFails, Fail
<1> QED
  BY <1>1, <1>2, <1>3, <1>4

(* Between them they are get().                                            *)
LEMMA GetCases ==
  ASSUME NEW c \in Callers, Get(c)
  PROVE  Quiet(c) \/ RemoveExpired(c) \/ OpenFile(c) \/ CopyChunk(c) \/ CopyFails(c)
  BY DEF Get, Quiet

(* A quiet step changes nobody's writing.                                  *)
LEMMA QuietWriters ==
  ASSUME CallersInv, AnswerInv, NEW c \in Callers, Quiet(c), NEW t
  PROVE  Writers(t)' = Writers(t)
  BY QuietStep DEF Writers, Apart

-----------------------------------------------------------------------------
(* Types of files, memory and answers                                      *)

(* Every step keeps the types of files, and those being written in place.  *)
LEMMA FilesStep == Types /\ AnswerInv /\ [Next]_vars => FilesInv'
<1> SUFFICES ASSUME WorldInv, CallersInv, FilesInv, AnswerInv, [Next]_vars PROVE FilesInv'
  BY DEF Types
<1>1. CASE Tick
  BY <1>1 DEF Tick, FilesInv, WorldInv, Times, args, locals, Timestamps
<1>2. CASE Publish \/ UNCHANGED vars
  BY <1>2 DEF Publish, vars, world, FilesInv, args, locals, Timestamps
<1>3. ASSUME NEW p \in Processes, Evict(p) PROVE FilesInv'
  BY <1>3 DEF Evict, FilesInv, args, locals, world, Timestamps
<1>4. ASSUME NEW p \in Processes, Crash(p) PROVE FilesInv'
  <2>1. \A f \in File : Spoil(f) \in File
    BY DEF File, Spoil
  <2>2. Timestamps' = Timestamps /\ files' \in [Timestamps -> File]
    BY <1>4, <2>1 DEF Crash, FilesInv, Timestamps
  <2>3. ASSUME NEW d \in Callers, pc'[d] = "copy", linked'[d]
        PROVE  pc[d] = "copy" /\ linked[d] /\ now'[d] = now[d]
    BY <1>4, <2>3 DEF Crash, Reset
  <2> QED
    BY <1>4, <2>2, <2>3 DEF Crash, FilesInv, world
<1>5. ASSUME NEW c \in Callers, Get(c) PROVE FilesInv'
  <2>1. CASE Quiet(c)
    BY <2>1, QuietStep DEF FilesInv, Apart, world, Timestamps
  <2>2. CASE RemoveExpired(c)
    <3>1. CASE UNCHANGED <<files, linked>>
      BY <2>2, <3>1 DEF RemoveExpired, FilesInv, world, args, Timestamps
    <3>2. PICK t \in Times : \/ UNCHANGED <<files, linked>>
                             \/ /\ files' = [u \in Timestamps \ {t} |-> files[u]]
                                /\ linked' = [d \in Callers |-> linked[d] /\ d \notin Writers(t)]
      BY <2>2 DEF RemoveExpired, Removable, CallersInv
    <3>3. CASE ~UNCHANGED <<files, linked>>
      <4>1. Timestamps' = Timestamps \ {t} /\ files' \in [Timestamps' -> File]
        BY <3>2, <3>3 DEF FilesInv, Timestamps
      <4>2. ASSUME NEW d \in Callers, pc'[d] = "copy", linked'[d] PROVE now'[d] \in Timestamps'
        BY <2>2, <3>2, <3>3, <4>1, <4>2 DEF RemoveExpired, FilesInv, Writers, args
      <4> QED
        BY <2>2, <4>1, <4>2 DEF RemoveExpired, FilesInv, world
    <3> QED
      BY <3>1, <3>3
  <2>3. CASE OpenFile(c)
    <3>1. PICK b \in BOOLEAN : files' = [u \in Timestamps \cup {now[c]} |->
            IF u = now[c] THEN [data |-> Empty, of |-> fetched[c], spoilt |-> b] ELSE files[u]]
      BY <2>3 DEF OpenFile
    <3>2. [data |-> Empty, of |-> fetched[c], spoilt |-> b] \in File
      BY <2>3, SimpleContents DEF OpenFile, CallersInv, File
    <3>3. Timestamps' = Timestamps \cup {now[c]} /\ files' \in [Timestamps' -> File]
      BY <3>1, <3>2 DEF FilesInv, Timestamps
    <3>4. \A d \in Callers : pc'[d] = "copy" /\ linked'[d] => now'[d] \in Timestamps'
      BY <2>3, <3>3, FileApart DEF OpenFile, FilesInv, Apart, args
    <3> QED
      BY <2>3, <3>3, <3>4 DEF OpenFile, FilesInv, CallersInv, world
  <2>4. CASE CopyChunk(c)
    <3>1. Timestamps' = Timestamps /\ files' \in [Timestamps -> File]
      <4>1. CASE ~linked[c]
        BY <2>4, <4>1 DEF CopyChunk, FilesInv, Timestamps
      <4>2. CASE linked[c]
        <5>1. now[c] \in Timestamps /\ files[now[c]] \in File
          BY <2>4, <4>2 DEF CopyChunk, FilesInv
        <5>2. WriteAt(files[now[c]].data, written[c] + 1, fetched[c]) \in Content
          <6>1. written[c] + 1 \in 1..Chunks /\ fetched[c] \in Versions
            BY <2>4, CacheAssumption DEF CopyChunk, CallersInv
          <6>2. files[now[c]].data \in Content
            BY <5>1 DEF File
          <6> QED
            BY <6>1, <6>2, WrittenContent
        <5> QED
          BY <2>4, <4>2, <5>1, <5>2 DEF CopyChunk, FilesInv, File, Timestamps
      <4> QED
        BY <4>1, <4>2
    <3>2. \A d \in Callers : pc'[d] = "copy" => pc[d] = "copy"
      BY <2>4, FileApart DEF CopyChunk, Apart
    <3> QED
      BY <2>4, <3>1, <3>2 DEF CopyChunk, FilesInv, world, args
  <2>5. CASE CopyFails(c)
    <3>1. Timestamps' = Timestamps /\ files' \in [Timestamps -> File]
      BY <2>5 DEF CopyFails, FilesInv, Timestamps, Spoil, File
    <3>2. pc'[c] # "copy" /\ Apart(c)
      BY <2>5, ReturnApart DEF CopyFails, Fail
    <3> QED
      BY <2>5, <3>1, <3>2 DEF CopyFails, FilesInv, Apart, world
  <2> QED
    BY <1>5, <2>1, <2>2, <2>3, <2>4, <2>5, GetCases
<1> QED
  BY <1>1, <1>2, <1>3, <1>4, <1>5 DEF Next

-----------------------------------------------------------------------------
(* What was fetched when                                                   *)

(* Each chunk of file t is of a version the remote had at t or later.      *)
FilesFresh ==
  \A t \in Timestamps : \A i \in DOMAIN files[t].data :
    files[t].data[i] # Hole => CurrentAt(files[t].data[i], t)

(* What a caller fetched was the remote's when its call began, or later.   *)
FetchFresh ==
  \A c \in Callers : pc[c] \in {"open", "copy", "store"} => CurrentAt(fetched[c], now[c])

(* A version that was the remote's at t, or later, once t has come, was so *)
(* at an earlier time too.                                                 *)
LEMMA EarlierCurrent ==
  ASSUME WorldInv, NEW v \in Versions, NEW t \in Int, NEW u \in Int, u <= t, CurrentAt(v, t)
  PROVE  CurrentAt(v, u)
  BY CacheAssumption DEF CurrentAt, WorldInv

(* It will always have been so.                                            *)
LEMMA StaysCurrent ==
  ASSUME WorldInv, [Next]_vars, NEW v \in Versions, NEW t \in Int, t <= clock, CurrentAt(v, t)
  PROVE  (v = remote') \/ (until'[v] >= t)
<1>1. CASE Publish
  BY <1>1 DEF Publish, CurrentAt, WorldInv, Times
<1>2. CASE UNCHANGED <<remote, until>>
  BY <1>2 DEF CurrentAt
<1>3. CASE Tick \/ UNCHANGED vars
  BY <1>2, <1>3 DEF Tick, vars, world
<1>4. ASSUME NEW p \in Processes, Evict(p) \/ Crash(p) PROVE UNCHANGED <<remote, until>>
  BY <1>4 DEF Evict, Crash, world
<1>5. ASSUME NEW c \in Callers, Get(c) PROVE UNCHANGED <<remote, until>>
  BY <1>5 DEF Get, Call, GetFromMemory, Lookup, LookupFails, RemoveExpired, UseActive, Refresh,
       RefreshFails, NoDirectory, UseExpired, OpenFile, OpenFileFails, CopyChunk, CopyFails, Store,
       world
<1> QED
  BY <1>1, <1>2, <1>3, <1>4, <1>5 DEF Next

(* Only Refresh makes a quiet step one that will write.                    *)
LEMMA QuietFetch ==
  ASSUME CallersInv, AnswerInv, NEW c \in Callers, Quiet(c), pc'[c] \in {"open", "copy", "store"}
  PROVE  fetched'[c] = remote
<1>1. CASE Refresh(c)
  BY <1>1 DEF Refresh, CallersInv
<1>2. CASE Call(c) \/ Lookup(c)
  BY <1>2 DEF Call, Lookup, Goto, CallersInv
<1>3. CASE LookupFails(c) \/ NoDirectory(c) \/ OpenFileFails(c)
  BY <1>3, ReturnApart DEF LookupFails, NoDirectory, OpenFileFails, Fail
<1>4. CASE UseActive(c) \/ UseExpired(c) \/ Store(c)
  BY <1>4, ReturnApart DEF UseActive, UseExpired, Store, Give
<1>5. CASE GetFromMemory(c)
  <2>1. CASE Remembered(memory[proc[c]])
    BY <1>5, <2>1, ReturnApart DEF GetFromMemory, Give
  <2>2. CASE ~Remembered(memory[proc[c]])
    BY <1>5, <2>2 DEF GetFromMemory, Goto, CallersInv
  <2> QED
    BY <2>1, <2>2
<1>6. CASE RefreshFails(c)
  <2>1. CASE expired[c] = {}
    BY <1>6, <2>1, ReturnApart DEF RefreshFails, Fail
  <2>2. CASE expired[c] # {}
    BY <1>6, <2>2 DEF RefreshFails, Goto, CallersInv
  <2> QED
    BY <2>1, <2>2
<1> QED
  BY <1>1, <1>2, <1>3, <1>4, <1>5, <1>6 DEF Quiet

(* Every step keeps what was fetched fresh.                                *)
LEMMA FetchStep == Types /\ AnswerInv /\ FetchFresh /\ [Next]_vars => FetchFresh'
<1> SUFFICES ASSUME Types, AnswerInv, FetchFresh, [Next]_vars, NEW d \in Callers,
                    pc'[d] \in {"open", "copy", "store"}
             PROVE  CurrentAt(fetched[d], now[d])'
  BY DEF FetchFresh
<1> USE DEF Types
<1>1. ASSUME pc[d] \in {"open", "copy", "store"}, fetched'[d] = fetched[d], now'[d] = now[d]
      PROVE  CurrentAt(fetched[d], now[d])'
  <2>1. /\ fetched[d] \in Versions /\ now[d] \in Int /\ now[d] <= clock
        /\ CurrentAt(fetched[d], now[d])
    BY <1>1 DEF CallersInv, FetchFresh, Times
  <2> QED
    BY <1>1, <2>1, StaysCurrent DEF CurrentAt
<1>2. CASE Tick \/ Publish \/ UNCHANGED vars
  BY <1>1, <1>2 DEF Tick, Publish, vars, args, locals
<1>3. ASSUME NEW p \in Processes, Evict(p) PROVE CurrentAt(fetched[d], now[d])'
  BY <1>1, <1>3 DEF Evict, args, locals
<1>4. ASSUME NEW p \in Processes, Crash(p) PROVE CurrentAt(fetched[d], now[d])'
  BY <1>1, <1>4 DEF Crash, Reset
<1>5. ASSUME NEW c \in Callers, Get(c) PROVE CurrentAt(fetched[d], now[d])'
  <2>1. Apart(c)
    BY <1>5, GetCases, QuietStep, FileApart
  <2>2. CASE d # c
    BY <1>1, <2>1, <2>2 DEF Apart
  <2>3. CASE d = c /\ Quiet(c)
    BY <2>3, QuietFetch, QuietStep DEF CurrentAt, world
  <2>4. CASE d = c /\ (RemoveExpired(c) \/ OpenFile(c) \/ CopyChunk(c))
    BY <1>1, <2>4 DEF RemoveExpired, OpenFile, CopyChunk, args
  <2>5. CASE d = c /\ CopyFails(c)
    BY <2>5, ReturnApart DEF CopyFails, Fail
  <2> QED
    BY <1>5, <2>2, <2>3, <2>4, <2>5, GetCases
<1> QED
  BY <1>2, <1>3, <1>4, <1>5 DEF Next

(* A chunk of a content is a version, or a hole.                           *)
LEMMA ContentChunk ==
  ASSUME NEW data \in Content, NEW i \in DOMAIN data
  PROVE  data[i] \in Versions \cup {Hole} /\ i \in 1..Chunks
<1>1. PICK k \in 0..Chunks : data \in [1..k -> Versions \cup {Hole}]
  BY DEF Content
<1>2. i \in 1..k /\ 1..k \subseteq 1..Chunks
  BY <1>1, CacheAssumption
<1> QED
  BY <1>1, <1>2

(* So is a chunk of a file.                                                *)
LEMMA ChunkType ==
  ASSUME FilesInv, NEW t \in Timestamps, NEW i \in DOMAIN files[t].data
  PROVE  files[t].data[i] \in Versions \cup {Hole}
  BY ContentChunk DEF FilesInv, File

(* Every step keeps files fresh.                                           *)
LEMMA FilesFreshStep ==
  Types /\ AnswerInv /\ FetchFresh /\ FilesFresh /\ [Next]_vars => FilesFresh'
<1> SUFFICES ASSUME Types, AnswerInv, FetchFresh, FilesFresh, [Next]_vars, NEW t \in Timestamps',
                    NEW i \in DOMAIN files'[t].data, files'[t].data[i] # Hole
             PROVE  CurrentAt(files[t].data[i], t)'
  BY DEF FilesFresh
<1> USE DEF Types
<1>1. ASSUME t \in Timestamps, i \in DOMAIN files[t].data, files'[t].data[i] = files[t].data[i]
      PROVE  CurrentAt(files[t].data[i], t)'
  <2>1. /\ files[t].data[i] \in Versions /\ CurrentAt(files[t].data[i], t)
        /\ t \in Int /\ t <= clock
    BY <1>1, ChunkType DEF FilesFresh, FilesInv, Times
  <2> QED
    BY <1>1, <2>1, StaysCurrent DEF CurrentAt
<1>2. CASE UNCHANGED files
  BY <1>1, <1>2 DEF Timestamps
<1>3. CASE Tick \/ Publish \/ UNCHANGED vars
  BY <1>2, <1>3 DEF Tick, Publish, vars
<1>4. ASSUME NEW p \in Processes, Evict(p) PROVE CurrentAt(files[t].data[i], t)'
  BY <1>2, <1>4 DEF Evict
<1>5. ASSUME NEW p \in Processes, Crash(p) PROVE CurrentAt(files[t].data[i], t)'
  <2>1. t \in Timestamps /\ files[t] \in File
    BY <1>5 DEF Crash, Timestamps, FilesInv
  <2>2. files'[t].data = files[t].data
    BY <1>5, <2>1 DEF Crash, Spoil, File
  <2> QED
    BY <1>1, <2>1, <2>2
<1>6. ASSUME NEW c \in Callers, Get(c) PROVE CurrentAt(files[t].data[i], t)'
  <2>1. CASE Quiet(c)
    BY <1>2, <2>1, QuietStep
  <2>2. CASE RemoveExpired(c)
    BY <1>1, <2>2 DEF RemoveExpired, Timestamps
  <2>3. CASE OpenFile(c)
    <3>1. CASE t = now[c]
      BY <2>3, <3>1 DEF OpenFile, Empty, Timestamps
    <3>2. CASE t # now[c]
      BY <1>1, <2>3, <3>2 DEF OpenFile, Timestamps
    <3> QED
      BY <3>1, <3>2
  <2>4. CASE CopyChunk(c)
    <3>1. CASE linked[c] /\ t = now[c]
      <4>1. t \in Timestamps /\ files[t] \in File
        BY <2>4, <3>1 DEF CopyChunk, FilesInv
      <4>2. files'[t].data = WriteAt(files[t].data, written[c] + 1, fetched[c])
        <5> DEFINE data == WriteAt(files[t].data, written[c] + 1, fetched[c])
        <5>1. files' = [files EXCEPT ![t].data = data]
          BY <2>4, <3>1 DEF CopyChunk
        <5> HIDE DEF data
        <5>2. files'[t].data = data
          BY <4>1, <5>1 DEF File, FilesInv
        <5> QED
          BY <5>2 DEF data
      <4>3. /\ fetched[c] \in Versions /\ CurrentAt(fetched[c], t)
            /\ t \in Int /\ t <= clock
        BY <2>4, <3>1 DEF CopyChunk, CallersInv, FetchFresh, Times
      <4>4. CASE i = written[c] + 1
        BY <4>2, <4>3, <4>4, StaysCurrent DEF WriteAt, CurrentAt
      <4>5. CASE i # written[c] + 1 /\ i \in DOMAIN files[t].data
        BY <1>1, <4>1, <4>2, <4>5 DEF WriteAt
      <4> QED
        BY <4>2, <4>4, <4>5 DEF WriteAt
    <3>2. CASE linked[c] /\ t # now[c]
      BY <1>1, <2>4, <3>2 DEF CopyChunk, Timestamps, FilesInv
    <3>3. CASE ~linked[c]
      BY <1>2, <2>4, <3>3 DEF CopyChunk
    <3> QED
      BY <3>1, <3>2, <3>3
  <2>5. CASE CopyFails(c)
    <3>1. t \in Timestamps /\ files[t] \in File
      BY <2>5 DEF CopyFails, Timestamps, FilesInv
    <3>2. files'[t].data = files[t].data
      BY <2>5, <3>1 DEF CopyFails, Spoil, File
    <3> QED
      BY <1>1, <3>1, <3>2
  <2> QED
    BY <1>6, <2>1, <2>2, <2>3, <2>4, <2>5, GetCases
<1> QED
  BY <1>3, <1>4, <1>5, <1>6 DEF Next

-----------------------------------------------------------------------------
(* What is in memory                                                       *)

(* With a timeout, content that expires at some second was the remote's    *)
(* that long, and as long as its fetch took, before, or later.             *)
MemorySince ==
  maxAge > 0 => \A p \in Processes : memory[p] # Nothing =>
    LET since == memory[p].expires - maxAge - memory[p].took
    IN  since <= clock /\ CurrentAt(memory[p].version, since)

(* Every step keeps what is known of memory.                               *)
LEMMA MemoryStep ==
  Types /\ AnswerInv /\ FetchFresh /\ MemorySince /\ [Next]_vars => MemoryInv' /\ MemorySince'
<1> SUFFICES ASSUME Types, AnswerInv, FetchFresh, MemorySince, [Next]_vars
             PROVE  MemoryInv' /\ MemorySince'
  OBVIOUS
<1> USE DEF Types
<1>0. clock <= clock' /\ maxAge' = maxAge /\ maxAge \in Int
  BY WorldStep, CacheAssumption DEF config, WorldInv
<1>1. CASE UNCHANGED memory
  <2>1. ASSUME maxAge > 0, NEW p \in Processes, memory[p] # Nothing,
               NEW since, since = memory[p].expires - maxAge - memory[p].took
        PROVE  since <= clock' /\ CurrentAt(memory[p].version, since)'
    <3>1. /\ memory[p].version \in Versions /\ since \in Int
          /\ since <= clock /\ CurrentAt(memory[p].version, since)
      BY <1>0, <2>1 DEF MemoryInv, MemorySince
    <3>2. since <= clock'
      BY <1>0, <3>1, WorldStep DEF WorldInv, Times
    <3> QED
      BY <1>1, <3>1, <3>2, StaysCurrent DEF CurrentAt
  <2> QED
    BY <1>0, <1>1, <2>1 DEF MemoryInv, MemorySince, CurrentAt
<1>2. ASSUME NEW p \in Processes, memory' = [memory EXCEPT ![p] = Nothing],
             UNCHANGED <<remote, until, clock>>
      PROVE  MemoryInv' /\ MemorySince'
  <2>1. Nothing \in [version : Versions \cup {0}, expires : Int, took : Nat]
    BY DEF Nothing
  <2>2. \A q \in Processes : memory'[q] = memory[q] \/ memory'[q] = Nothing
    BY <1>2 DEF MemoryInv
  <2> QED
    BY <1>0, <1>2, <2>1, <2>2 DEF MemoryInv, MemorySince, CurrentAt
<1>3. CASE Tick \/ Publish \/ UNCHANGED vars
  BY <1>1, <1>3 DEF Tick, Publish, vars
<1>4. ASSUME NEW p \in Processes, Evict(p) \/ Crash(p) PROVE MemoryInv' /\ MemorySince'
  BY <1>2, <1>4 DEF Evict, Crash, world
<1>5. ASSUME NEW c \in Callers, Store(c), Remember(c) PROVE MemoryInv' /\ MemorySince'
  <2> DEFINE m == [version |-> fetched[c],
                   expires |-> IF maxAge > 0 THEN clock + maxAge ELSE 0,
                   took    |-> IF maxAge > 0 THEN clock - now[c] ELSE 0]
  <2>1. /\ fetched[c] \in Versions /\ now[c] \in Times /\ now[c] <= clock /\ clock \in Times
        /\ CurrentAt(fetched[c], now[c])
    BY <1>5 DEF Store, CallersInv, WorldInv, FetchFresh
  <2>2. m \in [version : Versions \cup {0}, expires : Int, took : Nat]
    BY <1>0, <2>1 DEF Times
  <2>3. maxAge > 0 => m.expires - maxAge - m.took = now[c]
    BY <1>0, <2>1 DEF Times
  <2>4. m.version = fetched[c]
    OBVIOUS
  <2>5. memory' = [memory EXCEPT ![proc[c]] = m]
    BY <1>5 DEF Remember
  <2> HIDE DEF m
  <2>6. proc[c] \in Processes /\ UNCHANGED <<remote, until, clock>>
    BY <1>5 DEF Store, WorldInv, world
  <2>7. MemoryInv'
    BY <2>1, <2>2, <2>4, <2>5, <2>6 DEF MemoryInv
  <2>8. ASSUME maxAge > 0, NEW q \in Processes, memory'[q] # Nothing,
               NEW since, since = memory'[q].expires - maxAge - memory'[q].took
        PROVE  since <= clock /\ CurrentAt(memory'[q].version, since)
    BY <2>1, <2>3, <2>4, <2>5, <2>6, <2>8 DEF MemoryInv, MemorySince
  <2> QED
    BY <1>0, <2>6, <2>7, <2>8 DEF MemorySince, CurrentAt
<1>6. ASSUME NEW c \in Callers, Get(c) PROVE MemoryInv' /\ MemorySince'
  <2>1. CASE RemoveExpired(c) \/ OpenFile(c) \/ CopyChunk(c) \/ CopyFails(c)
    BY <1>1, <2>1, FileApart
  <2>2. CASE Store(c)
    BY <1>1, <1>5, <2>2 DEF Store
  <2>3. CASE GetFromMemory(c)
    BY <1>1, <1>2, <2>3 DEF GetFromMemory, WorldInv, world
  <2>4. CASE \/ Call(c) \/ Lookup(c) \/ LookupFails(c) \/ UseActive(c) \/ Refresh(c)
             \/ RefreshFails(c) \/ NoDirectory(c) \/ UseExpired(c) \/ OpenFileFails(c)
    BY <1>1, <2>4 DEF Call, Lookup, LookupFails, UseActive, Refresh, RefreshFails, NoDirectory,
         UseExpired, OpenFileFails
  <2> QED
    BY <1>6, <2>1, <2>2, <2>3, <2>4 DEF Get
<1> QED
  BY <1>3, <1>4, <1>6 DEF Next

-----------------------------------------------------------------------------
(* Answers                                                                 *)

(* How old content may be.                                                 *)
Span == IF maxAge > 0 THEN maxAge ELSE 0

FreshSince(data, t) == \A i \in DOMAIN data : data[i] # Hole => CurrentAt(data[i], t)

(* A file that is listed as active was not expired when the call began.    *)
ActiveInTime ==
  \A c \in Callers : pc[c] = "listed" /\ active[c] # NoFile => active[c] >= now[c] - maxAge

GoodAnswer(a) ==
  /\ a \in Answers /\ a.at <= clock
  /\ a.ok /\ a.from \in {"file", "remote"} => FreshSince(a.content, a.at - Span)

(* Every step keeps what is known of a listed file.                        *)
LEMMA ActiveStep == Types /\ AnswerInv /\ ActiveInTime /\ [Next]_vars => ActiveInTime'
<1> SUFFICES ASSUME Types, AnswerInv, ActiveInTime, [Next]_vars, NEW d \in Callers,
                    pc'[d] = "listed", active'[d] # NoFile
             PROVE  active'[d] >= now'[d] - maxAge'
  BY DEF ActiveInTime
<1> USE DEF Types
<1>0. maxAge' = maxAge
  BY WorldStep DEF config
<1>1. CASE pc[d] = "listed" /\ active'[d] = active[d] /\ now'[d] = now[d]
  BY <1>0, <1>1 DEF ActiveInTime
<1>2. CASE Tick \/ Publish \/ UNCHANGED vars
  BY <1>1, <1>2 DEF Tick, Publish, vars, args, locals
<1>3. ASSUME NEW p \in Processes, Evict(p) PROVE active'[d] >= now'[d] - maxAge'
  BY <1>1, <1>3 DEF Evict, args, locals
<1>4. ASSUME NEW p \in Processes, Crash(p) PROVE active'[d] >= now'[d] - maxAge'
  BY <1>1, <1>4 DEF Crash, Reset
<1>5. ASSUME NEW c \in Callers, Get(c) PROVE active'[d] >= now'[d] - maxAge'
  <2>1. CASE d # c
    BY <1>1, <1>5, <2>1, GetCases, QuietStep, FileApart DEF Apart
  <2>2. CASE d = c /\ Lookup(c)
    BY <1>0, <2>2 DEF Lookup, IsActive, CallersInv, args
  <2>3. CASE d = c /\ (RemoveExpired(c) \/ OpenFile(c) \/ CopyChunk(c))
    BY <1>1, <2>3 DEF RemoveExpired, OpenFile, CopyChunk, Goto, CallersInv, args
  <2>4. CASE d = c /\ (Call(c) \/ Refresh(c))
    BY <2>4 DEF Call, Refresh, Goto, CallersInv
  <2>5. CASE d = c /\ (LookupFails(c) \/ NoDirectory(c) \/ OpenFileFails(c) \/ CopyFails(c))
    BY <2>5, ReturnApart DEF LookupFails, NoDirectory, OpenFileFails, CopyFails, Fail
  <2>6. CASE d = c /\ (UseActive(c) \/ UseExpired(c) \/ Store(c))
    BY <2>6, ReturnApart DEF UseActive, UseExpired, Store, Give
  <2>7. CASE d = c /\ GetFromMemory(c)
    <3>1. CASE Remembered(memory[proc[c]])
      BY <2>7, <3>1, ReturnApart DEF GetFromMemory, Give
    <3>2. CASE ~Remembered(memory[proc[c]])
      BY <2>7, <3>2 DEF GetFromMemory, Goto, CallersInv
    <3> QED
      BY <3>1, <3>2
  <2>8. CASE d = c /\ RefreshFails(c)
    <3>1. CASE expired[c] = {}
      BY <2>8, <3>1, ReturnApart DEF RefreshFails, Fail
    <3>2. CASE expired[c] # {}
      BY <2>8, <3>2 DEF RefreshFails, Goto, CallersInv
    <3> QED
      BY <3>1, <3>2
  <2> QED
    BY <1>5, <2>1, <2>2, <2>3, <2>4, <2>5, <2>6, <2>7, <2>8 DEF Get
<1> QED
  BY <1>2, <1>3, <1>4, <1>5 DEF Next

(* A good answer stays one.                                                *)
LEMMA AnswerStays ==
  ASSUME Types, [Next]_vars, NEW a, GoodAnswer(a)
  PROVE  GoodAnswer(a)'
<1> USE DEF Types
<1>1. clock \in Int /\ clock' \in Int /\ clock <= clock' /\ Span' = Span /\ Span \in Nat
  BY WorldStep, CacheAssumption DEF Span, config, WorldInv, Times
<1>2. a \in Answers /\ a.at \in Nat /\ a.content \in Content /\ a.at <= clock
  BY DEF GoodAnswer, Answers
<1>3. ASSUME FreshSince(a.content, a.at - Span) PROVE FreshSince(a.content, a.at - Span)'
  <2>1. SUFFICES ASSUME NEW i \in DOMAIN a.content, a.content[i] # Hole
                 PROVE  CurrentAt(a.content[i], a.at - Span)'
    BY DEF FreshSince
  <2>2. a.content[i] \in Versions /\ CurrentAt(a.content[i], a.at - Span)
    BY <1>2, <1>3, <2>1, ContentChunk DEF FreshSince
  <2>3. a.at - Span \in Int /\ a.at - Span <= clock
    BY <1>1, <1>2
  <2> QED
    BY <1>1, <2>2, <2>3, StaysCurrent DEF CurrentAt
<1> QED
  BY <1>1, <1>2, <1>3 DEF GoodAnswer

(* What GetFromMemory, UseActive, UseExpired and Store return is good.     *)
LEMMA GivenAnswer ==
  ASSUME Types, AnswerInv, NEW c \in Callers, NEW ok \in BOOLEAN, NEW data \in Content,
         NEW source \in {"memory", "file", "expired", "remote"}, Give(c, source, ok, data),
         source \in {"file", "remote"} => FreshSince(data, now[c] - Span)
  PROVE  GoodAnswer(answer'[c])
<1> USE DEF Types
<1> DEFINE path == [from |-> source, ok |-> ok, content |-> Empty, at |-> 0]
           full == [from |-> source, ok |-> ok, content |-> data, at |-> now[c]]
<1>1. now[c] \in Nat /\ now[c] <= clock /\ clock \in Nat
  BY DEF WorldInv, CallersInv, Times
<1>2. GoodAnswer(path)
  <2>1. path \in Answers
    BY SimpleContents DEF Answers
  <2>2. path.content = Empty /\ path.at = 0
    OBVIOUS
  <2>3. FreshSince(path.content, path.at - Span)
    BY <2>2 DEF FreshSince, Empty
  <2> QED
    BY <1>1, <2>1, <2>2, <2>3 DEF GoodAnswer
<1>3. GoodAnswer(full)
  <2>1. full \in Answers
    BY <1>1 DEF Answers
  <2>2. full.from = source /\ full.content = data /\ full.at = now[c]
    OBVIOUS
  <2> QED
    BY <1>1, <2>1, <2>2 DEF GoodAnswer
<1>4. answer'[c] = path \/ answer'[c] = full
  BY ReturnApart DEF Give
<1> QED
  BY <1>2, <1>3, <1>4

(* An error without content is a good answer.                              *)
LEMMA NoAnswerGood == Types => GoodAnswer(NoAnswer)
  BY SimpleContents DEF Types, WorldInv, Times, GoodAnswer, Answers, NoAnswer

(* Every step of a call gives it a good answer, or leaves it the one it had.*)
LEMMA GetAnswer ==
  ASSUME Types, AnswerInv, FilesFresh, FetchFresh, ActiveInTime, NEW c \in Callers, Get(c)
  PROVE  GoodAnswer(answer'[c]) \/ UNCHANGED answer
<1> USE DEF Types
<1>0. Span \in Nat /\ maxAge \in Int /\ now[c] \in Nat
  BY CacheAssumption DEF Span, WorldInv, CallersInv, Times
<1>1. CASE Call(c)
  BY <1>1, NoAnswerGood DEF Call, AnswerInv
<1>2. CASE LookupFails(c) \/ NoDirectory(c) \/ OpenFileFails(c) \/ CopyFails(c)
  BY <1>2, NoAnswerGood, ReturnApart
     DEF LookupFails, NoDirectory, OpenFileFails, CopyFails, Fail
<1>3. CASE RefreshFails(c)
  BY <1>3, NoAnswerGood, ReturnApart DEF RefreshFails, Fail
<1>4. CASE Lookup(c) \/ RemoveExpired(c) \/ Refresh(c) \/ OpenFile(c) \/ CopyChunk(c)
  BY <1>4 DEF Lookup, RemoveExpired, Refresh, OpenFile, CopyChunk
<1>5. CASE GetFromMemory(c)
  <2>1. CASE Remembered(memory[proc[c]])
    <3>1. memory[proc[c]].version \in Versions
      BY <2>1 DEF Remembered, MemoryInv, WorldInv
    <3>2. Whole(memory[proc[c]].version) \in Content
      BY <3>1, SimpleContents
    <3> QED
      BY <1>5, <2>1, <3>2, GivenAnswer DEF GetFromMemory
  <2>2. CASE ~Remembered(memory[proc[c]])
    BY <1>5, <2>2 DEF GetFromMemory
  <2> QED
    BY <2>1, <2>2
<1>6. CASE UseActive(c)
  <2>1. ContentOf(active[c]) \in Content
    BY SimpleContents DEF ContentOf, FilesInv, File
  <2>2. active[c] \in Int /\ active[c] >= now[c] - Span
    BY <1>0, <1>6 DEF UseActive, CallersInv, ActiveInTime, Span, Times
  <2>3. ASSUME NEW i \in DOMAIN ContentOf(active[c]), ContentOf(active[c])[i] # Hole
        PROVE  CurrentAt(ContentOf(active[c])[i], now[c] - Span)
    <3>1. active[c] \in Timestamps /\ ContentOf(active[c]) = files[active[c]].data
      BY <2>3 DEF ContentOf, Empty
    <3>2. files[active[c]].data[i] \in Versions /\ CurrentAt(files[active[c]].data[i], active[c])
      BY <2>3, <3>1, ChunkType DEF FilesFresh
    <3> QED
      BY <1>0, <2>2, <3>1, <3>2, EarlierCurrent
  <2>4. FreshSince(ContentOf(active[c]), now[c] - Span)
    BY <2>3 DEF FreshSince
  <2> QED
    BY <1>6, <2>1, <2>4, GivenAnswer DEF UseActive
<1>7. CASE UseExpired(c)
  <2>1. PICK t \in expired[c] : Give(c, "expired", FALSE, ContentOf(t))
    BY <1>7 DEF UseExpired
  <2>2. ContentOf(t) \in Content
    BY SimpleContents DEF ContentOf, FilesInv, File
  <2> QED
    BY <2>1, <2>2, GivenAnswer
<1>8. CASE Store(c)
  <2>1. fetched[c] \in Versions /\ CurrentAt(fetched[c], now[c])
    BY <1>8 DEF Store, CallersInv, FetchFresh
  <2>2. CurrentAt(fetched[c], now[c] - Span)
    BY <1>0, <2>1, EarlierCurrent
  <2>3. Whole(fetched[c]) \in Content /\ FreshSince(Whole(fetched[c]), now[c] - Span)
    BY <2>1, <2>2, SimpleContents DEF FreshSince, Whole
  <2> QED
    BY <1>8, <2>3, GivenAnswer DEF Store
<1> QED
  BY <1>1, <1>2, <1>3, <1>4, <1>5, <1>6, <1>7, <1>8 DEF Get

(* What every caller was last given is a good answer.                      *)
AllAnswersGood == \A c \in Callers : GoodAnswer(answer[c])

(* Every step leaves every caller with a good answer.                      *)
LEMMA AnswerStep ==
  /\ Types /\ AnswerInv /\ FilesFresh /\ FetchFresh /\ ActiveInTime /\ AllAnswersGood
  /\ [Next]_vars
  => AnswerInv' /\ AllAnswersGood'
<1> SUFFICES ASSUME Types, AnswerInv, FilesFresh, FetchFresh, ActiveInTime, AllAnswersGood,
                    [Next]_vars
             PROVE  AnswerInv' /\ AllAnswersGood'
  OBVIOUS
<1>1. ASSUME NEW d \in Callers PROVE GoodAnswer(answer'[d])
  <2>1. CASE answer'[d] = answer[d]
    BY <2>1 DEF AllAnswersGood
  <2>2. CASE Tick \/ Publish \/ UNCHANGED vars
    BY <2>1, <2>2 DEF Tick, Publish, vars
  <2>3. ASSUME NEW p \in Processes, Evict(p) \/ Crash(p) PROVE GoodAnswer(answer'[d])
    BY <2>1, <2>3, NoAnswerGood DEF Evict, Crash, Reset
  <2>4. ASSUME NEW c \in Callers, Get(c) PROVE GoodAnswer(answer'[d])
    <3>1. CASE d = c
      BY <2>1, <2>4, <3>1, GetAnswer
    <3>2. CASE d # c
      BY <2>1, <2>4, <3>2, GetCases, QuietStep, FileApart DEF Apart, Types
    <3> QED
      BY <3>1, <3>2
  <2> QED
    BY <2>2, <2>3, <2>4 DEF Next
<1>2. \A d \in Callers : GoodAnswer(answer[d])'
  <2> SUFFICES ASSUME NEW d \in Callers PROVE GoodAnswer(answer[d])'
    OBVIOUS
  <2>1. PICK a : a = answer'[d]
    OBVIOUS
  <2>2. GoodAnswer(a)'
    BY <1>1, <2>1, AnswerStays
  <2> QED
    BY <2>1, <2>2
<1>3. answer' \in [Callers -> Answers]
  <2>1. CASE UNCHANGED answer
    BY <2>1 DEF AnswerInv
  <2>2. CASE Tick \/ Publish \/ UNCHANGED vars
    BY <2>1, <2>2 DEF Tick, Publish, vars
  <2>3. ASSUME NEW p \in Processes, Evict(p) \/ Crash(p) PROVE answer' \in [Callers -> Answers]
    <3>1. NoAnswer \in Answers
      BY NoAnswerGood DEF GoodAnswer
    <3>2. CASE Crash(p)
      BY <3>1, <3>2 DEF Crash, Reset, AnswerInv
    <3> QED
      BY <2>1, <2>3, <3>2 DEF Evict
  <2>4. ASSUME NEW c \in Callers, Get(c) PROVE answer' \in [Callers -> Answers]
    <3>1. UNCHANGED answer \/ \E a : answer' = [answer EXCEPT ![c] = a]
      BY <2>4 DEF Get, Call, GetFromMemory, Lookup, LookupFails, RemoveExpired, UseActive, Refresh,
           RefreshFails, NoDirectory, UseExpired, OpenFile, OpenFileFails, CopyChunk, CopyFails,
           Store, Fail, Give, Return
    <3> QED
      BY <1>1, <2>1, <3>1 DEF AnswerInv, GoodAnswer
  <2> QED
    BY <2>2, <2>3, <2>4 DEF Next
<1> QED
  BY <1>2, <1>3 DEF AnswerInv, AllAnswersGood, GoodAnswer

-----------------------------------------------------------------------------
(* The last file                                                           *)

(* What a caller takes for expired is no later than every file there is.   *)
Listed == \A c \in Callers : \A e \in expired[c] : \E u \in Timestamps : u >= e

(* A file, or one that is later, stays.                                    *)
Kept == \A t \in Timestamps : \E u \in Timestamps' : u >= t

(* No step removes the last file.                                          *)
LEMMA KeptStep == Types /\ AnswerInv /\ Listed /\ [Next]_vars => Kept
<1> SUFFICES ASSUME Types, AnswerInv, Listed, [Next]_vars PROVE Kept
  OBVIOUS
<1> USE DEF Types
<1>0. \A t \in Timestamps : t \in Int
  BY DEF FilesInv, Times
<1>1. CASE Timestamps \subseteq Timestamps'
  BY <1>0, <1>1 DEF Kept
<1>2. CASE Tick \/ Publish \/ UNCHANGED vars
  BY <1>1, <1>2 DEF Tick, Publish, vars, Timestamps
<1>3. ASSUME NEW p \in Processes, Evict(p) \/ Crash(p) PROVE Kept
  BY <1>1, <1>3 DEF Evict, Crash, Timestamps
<1>4. ASSUME NEW c \in Callers, Get(c) PROVE Kept
  <2>1. CASE Quiet(c)
    BY <1>1, <2>1, QuietStep DEF Timestamps
  <2>2. CASE OpenFile(c) \/ CopyChunk(c) \/ CopyFails(c)
    BY <1>1, <2>2 DEF OpenFile, CopyChunk, CopyFails, Timestamps
  <2>3. CASE RemoveExpired(c)
    <3>1. PICK t \in Removable(expired[c]) :
            UNCHANGED files \/ files' = [u \in Timestamps \ {t} |-> files[u]]
      BY <2>3 DEF RemoveExpired
    <3>2. CASE UNCHANGED files
      BY <1>1, <3>2 DEF Timestamps
    <3>3. CASE files' = [u \in Timestamps \ {t} |-> files[u]]
      <4>1. Timestamps' = Timestamps \ {t}
        BY <3>3 DEF Timestamps
      <4>2. PICK e \in expired[c] : t < e /\ t \in Int /\ e \in Int
        BY <3>1 DEF Removable, CallersInv, Times
      <4>3. PICK u \in Timestamps : u >= e
        BY <4>2 DEF Listed
      <4>4. u \in Timestamps' /\ u >= t
        BY <1>0, <4>1, <4>2, <4>3
      <4> QED
        BY <1>0, <4>1, <4>4 DEF Kept
    <3> QED
      BY <3>1, <3>2, <3>3
  <2> QED
    BY <1>4, <2>1, <2>2, <2>3, GetCases
<1> QED
  BY <1>2, <1>3, <1>4 DEF Next

(* A step lists as expired what was, or what is there.                     *)
LEMMA ListedSource ==
  ASSUME Types, AnswerInv, [Next]_vars, NEW c \in Callers
  PROVE  expired'[c] \subseteq expired[c] \/ expired'[c] \subseteq Timestamps
<1> USE DEF Types
<1>1. CASE Tick \/ Publish \/ UNCHANGED vars
  BY <1>1 DEF Tick, Publish, vars, locals
<1>2. ASSUME NEW p \in Processes, Evict(p) \/ Crash(p) PROVE expired'[c] \subseteq expired[c]
  BY <1>2 DEF Evict, Crash, Reset, locals
<1>3. ASSUME NEW d \in Callers, Get(d)
      PROVE  expired'[c] \subseteq expired[c] \/ expired'[c] \subseteq Timestamps
  <2>1. CASE c # d
    BY <1>3, <2>1, GetCases, QuietStep, FileApart DEF Apart
  <2>2. CASE c = d /\ (LookupFails(d) \/ NoDirectory(d) \/ OpenFileFails(d) \/ CopyFails(d))
    BY <2>2, ReturnApart DEF LookupFails, NoDirectory, OpenFileFails, CopyFails, Fail
  <2>3. CASE c = d /\ (UseActive(d) \/ UseExpired(d) \/ Store(d))
    BY <2>3, ReturnApart DEF UseActive, UseExpired, Store, Give
  <2>4. CASE c = d /\ (GetFromMemory(d) \/ RefreshFails(d))
    BY <2>4, ReturnApart DEF GetFromMemory, RefreshFails, Fail, Give, locals
  <2>5. CASE c = d /\ (Lookup(d) \/ RemoveExpired(d) \/ Refresh(d))
    BY <2>5 DEF Lookup, RemoveExpired, Refresh, CallersInv
  <2>6. CASE c = d /\ (Call(d) \/ OpenFile(d) \/ CopyChunk(d))
    BY <2>6 DEF Call, OpenFile, CopyChunk, locals
  <2> QED
    BY <1>3, <2>1, <2>2, <2>3, <2>4, <2>5, <2>6 DEF Get
<1> QED
  BY <1>1, <1>2, <1>3 DEF Next

(* Every step keeps a file for whatever a caller takes for expired.        *)
LEMMA ListedStep == Types /\ AnswerInv /\ Listed /\ [Next]_vars => Listed'
<1> SUFFICES ASSUME Types, AnswerInv, Listed, [Next]_vars, NEW c \in Callers, NEW e \in expired'[c]
             PROVE  \E u \in Timestamps' : u >= e
  BY DEF Listed
<1>1. e \in Int /\ Timestamps \subseteq Int /\ Timestamps' \subseteq Int
  BY CallersStep, FilesStep DEF Types, CallersInv, FilesInv, Times
<1>2. PICK t \in Timestamps : t >= e
  BY <1>1, ListedSource DEF Listed
<1>3. PICK u \in Timestamps' : u >= t
  BY KeptStep DEF Kept
<1> QED
  BY <1>1, <1>2, <1>3

-----------------------------------------------------------------------------
(* Whole files                                                             *)

(* File t is as its writers fetched it, as far as it is written, and what  *)
(* is missing is still to come from one of them.                           *)
Sound(t) ==
  /\ \A c \in Writers(t) : fetched[c] = files[t].of
  /\ \A i \in 1..Chunks :
       \/ i \in DOMAIN files[t].data /\ files[t].data[i] = files[t].of
       \/ \E c \in Writers(t) : written[c] < i

Complete == \A t \in Timestamps : ~files[t].spoilt => Sound(t)

(* A step that touches neither a file nor those who write it.              *)
LEMMA SoundStays ==
  ASSUME NEW t, Sound(t), files'[t] = files[t], Writers(t)' = Writers(t),
         \A c \in Writers(t) : fetched'[c] = fetched[c] /\ written'[c] = written[c]
  PROVE  Sound(t)'
  BY DEF Sound

(* A writer opens the file.                                                *)
LEMMA OpenComplete ==
  ASSUME Types, AnswerInv, Complete, NEW c \in Callers, OpenFile(c), NEW t \in Timestamps',
         ~files'[t].spoilt
  PROVE  Sound(t)'
<1> USE DEF Types
<1>1. /\ pc[c] = "open" /\ pc'[c] = "copy" /\ linked'[c] /\ now' = now /\ fetched' = fetched
      /\ written'[c] = 0 /\ \A d \in Callers \ {c} : linked'[d] = linked[d]
  BY DEF OpenFile, Goto, CallersInv, args
<1>2. \A d \in Callers \ {c} : pc'[d] = pc[d] /\ written'[d] = written[d]
  BY FileApart DEF Apart
<1>3. CASE t # now[c]
  <2>1. t \in Timestamps /\ files'[t] = files[t]
    BY <1>3 DEF OpenFile, Timestamps
  <2>2. Writers(t)' = Writers(t) /\ c \notin Writers(t)
    BY <1>1, <1>2, <1>3 DEF Writers
  <2>3. Sound(t)
    BY <2>1 DEF Complete
  <2> QED
    BY <1>1, <1>2, <2>1, <2>2, <2>3, SoundStays DEF Writers
<1>4. CASE t = now[c]
  <2>1. /\ files'[t].of = fetched[c]
        /\ Writers(t) # {} => ~files[t].spoilt /\ files[t].of = fetched[c]
    BY <1>4 DEF OpenFile
  <2>2. Writers(t)' = Writers(t) \cup {c}
    BY <1>1, <1>2, <1>4 DEF Writers
  <2>3. ASSUME NEW d \in Writers(t) PROVE fetched[d] = fetched[c]
    <3>1. t \in Timestamps
      BY <2>3 DEF Writers, FilesInv
    <3> QED
      BY <2>1, <2>3, <3>1 DEF Complete, Sound
  <2>4. \A i \in 1..Chunks : written'[c] < i
    BY <1>1, CacheAssumption
  <2> QED
    BY <1>1, <2>1, <2>2, <2>3, <2>4 DEF Sound
<1> QED
  BY <1>3, <1>4

(* A writer writes a chunk.                                                *)
LEMMA CopyComplete ==
  ASSUME Types, AnswerInv, Complete, NEW c \in Callers, CopyChunk(c), NEW t \in Timestamps',
         ~files'[t].spoilt
  PROVE  Sound(t)'
<1> USE DEF Types
<1> DEFINE k == written[c] + 1
<1>1. /\ pc[c] = "copy" /\ pc'[c] = (IF k = Chunks THEN "store" ELSE "copy")
      /\ linked' = linked /\ now' = now /\ fetched' = fetched /\ written'[c] = k
      /\ k \in 1..Chunks
  BY CacheAssumption DEF CopyChunk, Goto, CallersInv, args
<1>2. \A d \in Callers \ {c} : pc'[d] = pc[d] /\ written'[d] = written[d]
  BY FileApart DEF Apart
<1>3. t \in Timestamps /\ files[t] \in File
  BY DEF CopyChunk, Timestamps, FilesInv
<1>4. CASE c \notin Writers(t)
  <2>1. files'[t] = files[t]
    BY <1>1, <1>3, <1>4 DEF CopyChunk, Writers, FilesInv
  <2>2. Writers(t)' = Writers(t)
    BY <1>1, <1>2, <1>4 DEF Writers
  <2>3. Sound(t)
    BY <1>3, <2>1 DEF Complete
  <2> QED
    BY <1>1, <1>2, <1>4, <2>1, <2>2, <2>3, SoundStays DEF Writers
<1>5. CASE c \in Writers(t)
  <2> DEFINE data == WriteAt(files[t].data, k, fetched[c])
  <2>1. linked[c] /\ now[c] = t
    BY <1>5 DEF Writers
  <2>2. files' = [files EXCEPT ![t].data = data]
    BY <2>1 DEF CopyChunk
  <2>3. /\ DOMAIN data = DOMAIN files[t].data \cup 1..k /\ data[k] = fetched[c]
        /\ \A i \in DOMAIN files[t].data : i # k => data[i] = files[t].data[i]
    BY <1>1 DEF WriteAt
  <2> HIDE DEF data
  <2>4. files'[t].data = data /\ files'[t].of = files[t].of /\ files'[t].spoilt = files[t].spoilt
    BY <1>3, <2>2 DEF File, FilesInv
  <2>5. Sound(t) /\ fetched[c] = files[t].of
    BY <1>3, <1>5, <2>4 DEF Complete, Sound
  <2>6. Writers(t)' = IF k = Chunks THEN Writers(t) \ {c} ELSE Writers(t)
    BY <1>1, <1>2 DEF Writers
  <2>7. \A d \in Writers(t)' : fetched'[d] = files'[t].of
    BY <1>1, <2>4, <2>5, <2>6 DEF Sound
  <2>8. ASSUME NEW i \in 1..Chunks
        PROVE  \/ i \in DOMAIN data /\ data[i] = files[t].of
               \/ \E d \in Writers(t)' : written'[d] < i
    <3>1. CASE i = k
      BY <1>1, <2>3, <2>5, <3>1
    <3>2. CASE i # k /\ i \in DOMAIN files[t].data /\ files[t].data[i] = files[t].of
      BY <2>3, <3>2
    <3>3. ASSUME i # k, NEW d \in Writers(t), written[d] < i
          PROVE  \E w \in Writers(t)' : written'[w] < i
      <4>1. CASE d # c
        BY <1>2, <2>6, <3>3, <4>1 DEF Writers
      <4>2. CASE d = c
        <5>1. written[c] \in Nat /\ k < i /\ k # Chunks
          BY <1>1, <3>3, <4>2, CacheAssumption DEF CallersInv
        <5> QED
          BY <1>1, <1>5, <2>6, <5>1
      <4> QED
        BY <4>1, <4>2
    <3> QED
      BY <2>5, <3>1, <3>2, <3>3 DEF Sound
  <2> QED
    BY <2>4, <2>7, <2>8 DEF Sound
<1> QED
  BY <1>4, <1>5

(* Every step keeps files sound.                                           *)
LEMMA CompleteStep == Types /\ AnswerInv /\ Complete /\ [Next]_vars => Complete'
<1> SUFFICES ASSUME Types, AnswerInv, Complete, [Next]_vars, NEW t \in Timestamps',
                    ~files'[t].spoilt
             PROVE  Sound(t)'
  BY DEF Complete
<1> USE DEF Types
<1>1. ASSUME t \in Timestamps, files'[t] = files[t], Writers(t)' = Writers(t),
             \A c \in Writers(t) : fetched'[c] = fetched[c] /\ written'[c] = written[c]
      PROVE  Sound(t)'
  BY <1>1, SoundStays DEF Complete
<1>2. CASE Tick \/ Publish \/ UNCHANGED vars
  BY <1>1, <1>2 DEF Tick, Publish, vars, Timestamps, Writers, args, locals
<1>3. ASSUME NEW p \in Processes, Evict(p) PROVE Sound(t)'
  BY <1>1, <1>3 DEF Evict, Timestamps, Writers, args, locals
<1>4. ASSUME NEW p \in Processes, Crash(p) PROVE Sound(t)'
  <2>1. t \in Timestamps /\ files[t] \in File
    BY <1>4 DEF Crash, Timestamps, FilesInv
  <2>2. (\A c \in Writers(t) : proc[c] # p) /\ files'[t] = files[t]
    BY <1>4, <2>1 DEF Crash, Spoil, File
  <2>3. Writers(t)' = Writers(t)
    BY <1>4, <2>2 DEF Crash, Reset, Writers
  <2>4. \A c \in Writers(t) : fetched'[c] = fetched[c] /\ written'[c] = written[c]
    BY <1>4, <2>2 DEF Crash, Reset, Writers
  <2> QED
    BY <1>1, <2>1, <2>2, <2>3, <2>4
<1>5. ASSUME NEW c \in Callers, Get(c) PROVE Sound(t)'
  <2>0. Apart(c)
    BY <1>5, GetCases, QuietStep, FileApart
  <2>1. CASE Quiet(c)
    BY <1>1, <2>0, <2>1, QuietStep, QuietWriters DEF Apart, Writers, Timestamps
  <2>2. CASE RemoveExpired(c)
    <3>1. UNCHANGED <<pc, now, fetched, written>>
      BY <2>2 DEF RemoveExpired, args
    <3>2. CASE UNCHANGED <<files, linked>>
      BY <1>1, <3>1, <3>2 DEF Writers, Timestamps
    <3>3. PICK u : \/ UNCHANGED <<files, linked>>
                   \/ /\ files' = [v \in Timestamps \ {u} |-> files[v]]
                      /\ linked' = [d \in Callers |-> linked[d] /\ d \notin Writers(u)]
      BY <2>2 DEF RemoveExpired
    <3>4. CASE ~UNCHANGED <<files, linked>>
      <4>1. t \in Timestamps /\ t # u /\ files'[t] = files[t]
        BY <3>3, <3>4 DEF Timestamps
      <4>2. Writers(t)' = Writers(t)
        BY <3>1, <3>3, <3>4, <4>1 DEF Writers
      <4> QED
        BY <1>1, <3>1, <4>1, <4>2
    <3> QED
      BY <3>2, <3>4
  <2>3. CASE OpenFile(c)
    BY <2>3, OpenComplete
  <2>4. CASE CopyChunk(c)
    BY <2>4, CopyComplete
  <2>5. CASE CopyFails(c)
    <3>1. t \in Timestamps /\ files[t] \in File
      BY <2>5 DEF CopyFails, Timestamps, FilesInv
    <3>2. ~(linked[c] /\ now[c] = t) /\ files'[t] = files[t]
      BY <2>5, <3>1 DEF CopyFails, Spoil, File, FilesInv
    <3>3. pc'[c] # "copy" /\ \A d \in Callers \ {c} : linked'[d] = linked[d]
      BY <2>5, ReturnApart DEF CopyFails, Fail
    <3>4. Writers(t)' = Writers(t) /\ c \notin Writers(t)
      BY <2>0, <3>2, <3>3 DEF Apart, Writers
    <3> QED
      BY <1>1, <2>0, <3>1, <3>2, <3>4 DEF Apart, Writers
  <2> QED
    BY <1>5, <2>1, <2>2, <2>3, <2>4, <2>5, GetCases
<1> QED
  BY <1>2, <1>3, <1>4, <1>5 DEF Next

-----------------------------------------------------------------------------
(* The invariant and what follows from it                                  *)

IInv ==
  /\ Types /\ AnswerInv /\ FilesFresh /\ FetchFresh /\ MemorySince /\ ActiveInTime
  /\ AllAnswersGood /\ Listed /\ Complete

(* Every initial state satisfies the invariant.                            *)
LEMMA InitIInv == Init => IInv
<1> SUFFICES ASSUME Init PROVE IInv
  OBVIOUS
<1>1. Types /\ AnswerInv
  BY InitTypes
<1>2. PICK old \in SUBSET (1..(StartTime - 1)) :
        files = [t \in old |-> [data |-> Whole(1), of |-> 1, spoilt |-> FALSE]]
  BY DEF Init
<1>3. \A t \in Timestamps : files[t].data = Whole(1) /\ files[t].of = 1
  BY <1>2 DEF Timestamps
<1>4. FilesFresh
  BY <1>3 DEF FilesFresh, Whole, CurrentAt, Init
<1>5. Complete
  BY <1>3 DEF Complete, Sound, Whole, Writers, Init
<1>6. FetchFresh /\ ActiveInTime /\ Listed /\ MemorySince
  BY DEF FetchFresh, ActiveInTime, Listed, MemorySince, Init, NoFile
<1>7. AllAnswersGood
  BY <1>1, NoAnswerGood DEF AllAnswersGood, Init
<1> QED
  BY <1>1, <1>4, <1>5, <1>6, <1>7 DEF IInv

(* Every step keeps it.                                                    *)
LEMMA StepIInv == IInv /\ [Next]_vars => IInv'
<1> SUFFICES ASSUME IInv, [Next]_vars PROVE IInv'
  OBVIOUS
<1> USE DEF IInv
<1>1. Types'
  BY WorldStep, CallersStep, FilesStep, MemoryStep DEF Types
<1>2. AnswerInv' /\ AllAnswersGood'
  BY AnswerStep
<1>3. FilesFresh' /\ FetchFresh' /\ MemorySince' /\ ActiveInTime'
  BY FilesFreshStep, FetchStep, MemoryStep, ActiveStep
<1>4. Listed' /\ Complete'
  BY ListedStep, CompleteStep
<1> QED
  BY <1>1, <1>2, <1>3, <1>4

(* The invariant holds in every state of every behaviour.                  *)
THEOREM CacheInvariant == Spec => []IInv
<1>1. Init => IInv
  BY InitIInv
<1>2. IInv /\ [Next]_vars => IInv'
  BY StepIInv
<1> QED
  BY <1>1, <1>2, PTL DEF Spec

(* The variables keep their types, however many callers and processes      *)
(* share the directory and whatever fails.                                 *)
THEOREM CacheTyped == Spec => []TypeOK
<1>1. IInv => TypeOK
  BY DEF IInv, Types, WorldInv, CallersInv, FilesInv, MemoryInv, AnswerInv, Answers, TypeOK
<1> QED
  BY <1>1, CacheInvariant, PTL

(* No call is given content older than the timeout allows, from a file or  *)
(* from the remote (IsActive, and the name storeLocalCache gives a file).  *)
THEOREM AnswersAreFresh == Spec => []AnswersFresh
<1>1. IInv => AnswersFresh
  BY DEF IInv, AllAnswersGood, GoodAnswer, FreshSince, Span, AnswersFresh
<1> QED
  BY <1>1, CacheInvariant, PTL

(* Content in memory is served for no longer than the timeout and the time *)
(* its fetch took.                                                         *)
THEOREM MemoryIsFresh == Spec => []MemoryFresh
<1>1. IInv => MemoryFresh
  <2> SUFFICES ASSUME IInv, NEW p \in Processes, maxAge > 0, Remembered(memory[p])
               PROVE  CurrentAt(memory[p].version, clock + 1 - maxAge - memory[p].took)
    BY DEF MemoryFresh
  <2> USE DEF IInv, Types
  <2> DEFINE since == memory[p].expires - maxAge - memory[p].took
  <2>1. /\ memory[p] # Nothing /\ clock < memory[p].expires /\ memory[p].version \in Versions
        /\ memory[p].expires \in Int /\ memory[p].took \in Nat /\ maxAge \in Int /\ clock \in Int
    BY CacheAssumption DEF Remembered, MemoryInv, WorldInv, Times
  <2>2. CurrentAt(memory[p].version, since)
    BY <2>1 DEF MemorySince
  <2>3. since \in Int /\ clock + 1 - maxAge - memory[p].took \in Int
        /\ clock + 1 - maxAge - memory[p].took <= since
    BY <2>1
  <2> QED
    BY <2>1, <2>2, <2>3, EarlierCurrent
<1> QED
  BY <1>1, CacheInvariant, PTL

(* The removal of expired files by many callers never removes the last.    *)
THEOREM FallbackIsKept == Spec => FallbackKept
<1>1. IInv /\ [Next]_vars => [\A t \in Timestamps : \E u \in Timestamps' : u >= t]_vars
  BY KeptStep DEF IInv, Kept
<1> QED
  BY <1>1, CacheInvariant, PTL DEF Spec, FallbackKept

(* A file nobody writes and whose writers did not fail or differ is whole. *)
THEOREM FilesAreComplete == Spec => []FilesComplete
<1>1. IInv => FilesComplete
  <2> SUFFICES ASSUME IInv, NEW t \in Timestamps, Writers(t) = {}, ~files[t].spoilt
               PROVE  files[t].data = Whole(files[t].of)
    BY DEF FilesComplete
  <2>1. Sound(t) /\ files[t].data \in Content
    BY DEF IInv, Types, Complete, FilesInv, File
  <2>2. PICK k \in 0..Chunks : files[t].data \in [1..k -> Versions \cup {Hole}]
    BY <2>1 DEF Content
  <2>3. \A i \in 1..Chunks : i \in 1..k /\ files[t].data[i] = files[t].of
    BY <2>1, <2>2 DEF Sound
  <2>4. k = Chunks
    BY <2>3, CacheAssumption
  <2> QED
    BY <2>2, <2>3, <2>4 DEF Whole
<1> QED
  BY <1>1, CacheInvariant, PTL

=============================================================================
