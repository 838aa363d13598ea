---------------------------- MODULE TwoTierCache ----------------------------
(***************************************************************************)
(* The cache of the renderers that fetch from a remote (http, git, s3, af) *)
(* for one object: TwoTierCache.get (pkg/cache/two_tier.go), called by     *)
(* goroutines of one or several processes over one cache directory.  The   *)
(* other tier is in the memory of a process.                               *)
(*                                                                         *)
(* A cached file is named by the object and the second of the call that    *)
(* fetched it, so a file is a timestamp here; files of other objects have  *)
(* other names and are never looked at.  The remote has one version at a   *)
(* time; content is a sequence of Chunks chunks, written one by one.  A    *)
(* chunk is the version it is of, or Hole where nothing was written yet.   *)
(* Reading a file is one step; so is listing the directory.                *)
(*                                                                         *)
(* The mode of a file (0600 while it is written, 0400 after) only decides  *)
(* whether opening it again fails, which it may for other reasons too: it  *)
(* is not modelled.  Nor is the directory itself: a failure to look at it, *)
(* or to create it, is an error of the call.                               *)
(*                                                                         *)
(* The definitions called Mut... are not part of the model: each is the    *)
(* definition below it with a plausible slip, which a property must notice.*)
(***************************************************************************)
EXTENDS Integers, Sequences

CONSTANTS Callers,      \* goroutines that call Get or GetPath
          Processes,    \* the processes they may belong to
          MaxAges,      \* the values of `timeout`, -1 when not enabled
          Chunks,       \* the chunks of a content
          StartTime,    \* when the first call may be; older files are of
                        \* earlier runs
          MaxTime,      \* bound on the clock, in seconds
          MaxVersion    \* bound on the versions the remote ever has

ASSUME CacheAssumption ==
  /\ MaxAges \subseteq Int
  /\ Chunks \in Nat \ {0} /\ MaxVersion \in Nat \ {0}
  /\ StartTime \in Nat \ {0} /\ MaxTime \in Nat /\ StartTime <= MaxTime

Times == 1..MaxTime
Versions == 1..MaxVersion
Hole == 0       \* a chunk that was never written
NoFile == 0     \* no timestamp
NoVersion == 0
Nothing == [version |-> 0, expires |-> 0, took |-> 0]   \* not in memory

VARIABLES
  clock, remote,  \* the time, and the version the remote has
  until,          \* history: when a version was replaced by the next
  proc,           \* the process of each caller, fixed
  maxAge,         \* MaxAge of the configuration, fixed
  files,          \* the cached files: a record for each timestamp
  memory,         \* the content in the memory of a process, its expiry,
                  \* and, as history, how long its fetch took
  pc, want,       \* where in get() a caller is; "content" or "path"
  now,            \* the argument `now` of its call
  active,         \* the latest active file of its lookup, or NoFile
  expired,        \* the expired files of its lookup it has not removed
  fetched,        \* the version refresh() opened
  written,        \* how many chunks of it were copied
  linked,         \* the file it writes has not been removed
  answer          \* what its last call returned

world  == <<clock, remote, until>>
config == <<proc, maxAge>>
args   == <<want, now>>
locals == <<active, expired, fetched, written, linked>>
vars   == <<world, config, files, memory, pc, args, locals, answer>>

Stages == {"idle", "memory", "lookup", "listed", "stale", "open", "copy", "store"}

Empty == [i \in {} |-> Hole]

(* An answer: where it is from, whether it comes without an error, the     *)
(* content (none for a path), and the time of the call.                    *)
NoAnswer == [from |-> "none", ok |-> FALSE, content |-> Empty, at |-> 0]

Timestamps == DOMAIN files

(* Callers that write the file of second t through an open descriptor.     *)
Writers(t) == {c \in Callers : pc[c] = "copy" /\ linked[c] /\ now[c] = t}

Whole(v) == [i \in 1..Chunks |-> v]

(* A file one of whose writers did not finish.                             *)
Spoil(file) == [file EXCEPT !.spoilt = TRUE]

Init ==
  /\ clock = StartTime /\ remote = 1 /\ until = [v \in Versions |-> MaxTime + 1]
  /\ proc \in [Callers -> Processes] /\ maxAge \in MaxAges
  /\ \E old \in SUBSET (1..(StartTime - 1)) :
       files = [t \in old |-> [data |-> Whole(1), of |-> 1, spoilt |-> FALSE]]
  /\ memory = [p \in Processes |-> Nothing]
  /\ pc = [c \in Callers |-> "idle"] /\ want = [c \in Callers |-> "content"]
  /\ now = [c \in Callers |-> StartTime]
  /\ active = [c \in Callers |-> NoFile] /\ expired = [c \in Callers |-> {}]
  /\ fetched = [c \in Callers |-> NoVersion] /\ written = [c \in Callers |-> 0]
  /\ linked = [c \in Callers |-> FALSE]
  /\ answer = [c \in Callers |-> NoAnswer]

(***************************************************************************)
(* The environment                                                         *)
(***************************************************************************)
Tick ==
  /\ clock < MaxTime
  /\ clock' = clock + 1
  /\ UNCHANGED <<remote, until, config, files, memory, pc, args, locals, answer>>

(* The remote replaces its content.                                        *)
Publish ==
  /\ remote < MaxVersion
  /\ remote' = remote + 1
  /\ until' = [until EXCEPT ![remote] = clock]
  /\ UNCHANGED <<clock, config, files, memory, pc, args, locals, answer>>

(* The memory of a process makes room for other objects.                   *)
Evict(p) ==
  /\ memory[p] # Nothing
  /\ memory' = [memory EXCEPT ![p] = Nothing]
  /\ UNCHANGED <<world, config, files, pc, args, locals, answer>>

(* A process dies: what it wrote so far stays.  Another takes its place.   *)
Reset(p, f, v) == [c \in Callers |-> IF proc[c] = p THEN v ELSE f[c]]

Crash(p) ==
  /\ \E c \in Callers : proc[c] = p /\ pc[c] # "idle"
  /\ pc' = Reset(p, pc, "idle")
  /\ memory' = [memory EXCEPT ![p] = Nothing]
  /\ want' = Reset(p, want, "content") /\ now' = Reset(p, now, StartTime)
  /\ active' = Reset(p, active, NoFile) /\ expired' = Reset(p, expired, {})
  /\ fetched' = Reset(p, fetched, NoVersion) /\ written' = Reset(p, written, 0)
  /\ linked' = Reset(p, linked, FALSE) /\ answer' = Reset(p, answer, NoAnswer)
  /\ files' = [t \in Timestamps |->
                 IF \E c \in Writers(t) : proc[c] = p THEN Spoil(files[t]) ELSE files[t]]
  /\ UNCHANGED <<world, config>>

(***************************************************************************)
(* get()                                                                   *)
(***************************************************************************)
Goto(c, stage) == pc' = [pc EXCEPT ![c] = stage]

(* get() returns: its arguments and local variables are gone.              *)
Return(c, a) ==
  /\ Goto(c, "idle")
  /\ want' = [want EXCEPT ![c] = "content"] /\ now' = [now EXCEPT ![c] = StartTime]
  /\ active' = [active EXCEPT ![c] = NoFile] /\ expired' = [expired EXCEPT ![c] = {}]
  /\ fetched' = [fetched EXCEPT ![c] = NoVersion] /\ written' = [written EXCEPT ![c] = 0]
  /\ linked' = [linked EXCEPT ![c] = FALSE]
  /\ answer' = [answer EXCEPT ![c] = a]

Fail(c) == Return(c, NoAnswer)

(* GetPath returns where the content is, not the content.                  *)
Give(c, source, noError, data) ==
  Return(c, IF want[c] = "path"
            THEN [from |-> source, ok |-> noError, content |-> Empty, at |-> 0]
            ELSE [from |-> source, ok |-> noError, content |-> data, at |-> now[c]])

(* HandleRenderingRequestWithRemoteFetch asks for content or for a path.   *)
(* allowExpired is passed on, and nothing looks at it.                     *)
Call(c) ==
  /\ pc[c] = "idle"
  /\ \E w \in {"content", "path"} :
       /\ want' = [want EXCEPT ![c] = w]
       /\ Goto(c, IF w = "content" THEN "memory" ELSE "lookup")
  /\ now' = [now EXCEPT ![c] = clock]
  /\ answer' = [answer EXCEPT ![c] = NoAnswer]
  /\ UNCHANGED <<world, config, files, memory, locals>>

(* c.memcache.Get: content too old is removed, and is no content.          *)
MutRemembered(m) == m # Nothing /\ (maxAge > 0 => clock <= m.expires)
Remembered(m) == m # Nothing /\ (maxAge > 0 => clock < m.expires)

GetFromMemory(c) ==
  LET p == proc[c] IN
  /\ pc[c] = "memory"
  /\ \/ /\ Remembered(memory[p])
        /\ Give(c, "memory", TRUE, Whole(memory[p].version))
        /\ UNCHANGED memory
     \/ /\ ~Remembered(memory[p])
        /\ memory' = [memory EXCEPT ![p] = Nothing]
        /\ Goto(c, "lookup")
        /\ UNCHANGED <<args, locals, answer>>
  /\ UNCHANGED <<world, config, files>>

(* lookupLocalCache: which files are active, with notBefore = now - MaxAge.*)
MutIsActive(c, t) == t >= now[c] - maxAge - 1
IsActive(c, t) == t >= now[c] - maxAge

Lookup(c) ==
  LET found == {t \in Timestamps : IsActive(c, t)} IN
  /\ pc[c] = "lookup"
  /\ \E t \in found \cup {NoFile} :
       /\ found # {} => t \in found
       /\ \A u \in found : u <= t
       /\ active' = [active EXCEPT ![c] = t]
  /\ expired' = [expired EXCEPT ![c] = Timestamps \ found]
  /\ Goto(c, "listed")
  /\ UNCHANGED <<world, config, files, memory, args, fetched, written, linked, answer>>

LookupFails(c) ==
  /\ pc[c] = "lookup"
  /\ Fail(c)
  /\ UNCHANGED <<world, config, files, memory>>

(* All expired files but the last are removed, the oldest first; a removal *)
(* may fail, and goes unnoticed when another caller was faster.            *)
MutRemovable(S) == S
Removable(S) == {t \in S : \E u \in S : t < u}

RemoveExpired(c) ==
  /\ pc[c] = "listed"
  /\ \E t \in Removable(expired[c]) :
       /\ \A u \in Removable(expired[c]) : t <= u
       /\ expired' = [expired EXCEPT ![c] = @ \ {t}]
       /\ \/ /\ files' = [u \in Timestamps \ {t} |-> files[u]]
             /\ linked' = [d \in Callers |-> linked[d] /\ d \notin Writers(t)]
          \/ UNCHANGED <<files, linked>>
  /\ UNCHANGED <<world, config, memory, pc, args, active, fetched, written, answer>>

(* What reading file t gives: nothing when it was removed in the meantime. *)
ContentOf(t) == IF t \in Timestamps THEN files[t].data ELSE Empty

(* The latest active file.  The error of ReadFile is overwritten by the    *)
(* result of Abs.                                                          *)
UseActive(c) ==
  /\ pc[c] = "listed" /\ Removable(expired[c]) = {} /\ active[c] # NoFile
  /\ Give(c, "file", TRUE, ContentOf(active[c]))
  /\ UNCHANGED <<world, config, files, memory>>

(* refresh() opens the remote; what expired is of no use any more.         *)
Refresh(c) ==
  /\ pc[c] = "listed" /\ Removable(expired[c]) = {} /\ active[c] = NoFile
  /\ fetched' = [fetched EXCEPT ![c] = remote]
  /\ expired' = [expired EXCEPT ![c] = {}]
  /\ Goto(c, "open")
  /\ UNCHANGED <<world, config, files, memory, args, active, written, linked, answer>>

(* It fails: the last expired file is looked at, if there is one.          *)
RefreshFails(c) ==
  /\ pc[c] = "listed" /\ Removable(expired[c]) = {} /\ active[c] = NoFile
  /\ IF expired[c] = {}
     THEN Fail(c)
     ELSE Goto(c, "stale") /\ UNCHANGED <<args, locals, answer>>
  /\ UNCHANGED <<world, config, files, memory>>

(* The directory is neither there nor can it be created.                   *)
NoDirectory(c) ==
  /\ pc[c] = "listed" /\ Removable(expired[c]) = {} /\ active[c] = NoFile
  /\ Fail(c)
  /\ UNCHANGED <<world, config, files, memory>>

(* get() returns the content, isExpired, and the error of refresh().       *)
UseExpired(c) ==
  /\ pc[c] = "stale"
  /\ \E t \in expired[c] : Give(c, "expired", FALSE, ContentOf(t))
  /\ UNCHANGED <<world, config, files, memory>>

(* storeLocalCache: the file is created or truncated under its final name. *)
(* `of` and `spoilt` are history: the version its writers copy, and        *)
(* whether one of them failed or had another version.                      *)
OpenFile(c) ==
  LET t == now[c]
      file == [data |-> Empty, of |-> fetched[c], spoilt |->
                 Writers(t) # {} /\ (files[t].spoilt \/ files[t].of # fetched[c])]
  IN /\ pc[c] = "open"
     /\ files' = [u \in Timestamps \cup {t} |-> IF u = t THEN file ELSE files[u]]
     /\ linked' = [linked EXCEPT ![c] = TRUE]
     /\ written' = [written EXCEPT ![c] = 0]
     /\ Goto(c, "copy")
     /\ UNCHANGED <<world, config, memory, args, active, expired, fetched, answer>>

OpenFileFails(c) ==
  /\ pc[c] = "open"
  /\ Fail(c)
  /\ UNCHANGED <<world, config, files, memory>>

(* io.Copy writes a chunk at the offset of the descriptor; a file another  *)
(* writer has truncated grows a hole before it.                            *)
MutWriteAt(data, k, v) == Append(data, v)
WriteAt(data, k, v) ==
  [i \in DOMAIN data \cup 1..k |->
     IF i = k THEN v ELSE IF i \in DOMAIN data THEN data[i] ELSE Hole]

CopyChunk(c) ==
  /\ pc[c] = "copy"
  /\ written' = [written EXCEPT ![c] = @ + 1]
  /\ files' = IF linked[c]
              THEN [files EXCEPT ![now[c]].data = WriteAt(@, written[c] + 1, fetched[c])]
              ELSE files
  /\ IF written[c] + 1 = Chunks THEN Goto(c, "store") ELSE UNCHANGED pc
  /\ UNCHANGED <<world, config, memory, args, active, expired, fetched, linked, answer>>

(* The remote or the disk fails half-way: the file is left as it is.       *)
CopyFails(c) ==
  /\ pc[c] = "copy"
  /\ Fail(c)
  /\ files' = IF linked[c] THEN [files EXCEPT ![now[c]] = Spoil(@)] ELSE files
  /\ UNCHANGED <<world, config, memory>>

(* What was fetched is kept in memory, if it is content and is not larger  *)
(* than the limits allow, and returned.                                    *)
Remember(c) ==
  memory' = [memory EXCEPT ![proc[c]] =
    [version |-> fetched[c],
     expires |-> IF maxAge > 0 THEN clock + maxAge ELSE 0,
     took    |-> IF maxAge > 0 THEN clock - now[c] ELSE 0]]

Store(c) ==
  /\ pc[c] = "store"
  /\ (want[c] = "content" /\ Remember(c)) \/ UNCHANGED memory
  /\ Give(c, "remote", TRUE, Whole(fetched[c]))
  /\ UNCHANGED <<world, config, files>>

Get(c) ==
  \/ Call(c) \/ GetFromMemory(c) \/ Lookup(c) \/ LookupFails(c) \/ RemoveExpired(c)
  \/ UseActive(c) \/ Refresh(c) \/ RefreshFails(c) \/ NoDirectory(c) \/ UseExpired(c)
  \/ OpenFile(c) \/ OpenFileFails(c) \/ CopyChunk(c) \/ CopyFails(c) \/ Store(c)

Next ==
  \/ Tick \/ Publish
  \/ \E p \in Processes : Evict(p) \/ Crash(p)
  \/ \E c \in Callers : Get(c)

Spec == Init /\ [][Next]_vars

(***************************************************************************)
(* Properties                                                              *)
(***************************************************************************)

Content == UNION {[1..k -> Versions \cup {Hole}] : k \in 0..Chunks}

File == [data : Content, of : Versions, spoilt : BOOLEAN]

(* Every variable holds a value the code can give it.                      *)
TypeOK ==
  /\ clock \in Times /\ remote \in Versions /\ until \in [Versions -> 1..(MaxTime + 1)]
  /\ proc \in [Callers -> Processes] /\ maxAge \in MaxAges
  /\ Timestamps \subseteq Times /\ files \in [Timestamps -> File]
  /\ memory \in [Processes -> [version : Versions \cup {0}, expires : Int, took : Nat]]
  /\ pc \in [Callers -> Stages] /\ want \in [Callers -> {"content", "path"}]
  /\ now \in [Callers -> Times]
  /\ active \in [Callers -> Times \cup {NoFile}]
  /\ expired \in [Callers -> SUBSET Times]
  /\ fetched \in [Callers -> Versions \cup {NoVersion}] /\ written \in [Callers -> 0..Chunks]
  /\ linked \in [Callers -> BOOLEAN]
  /\ answer \in [Callers -> [from : {"none", "memory", "file", "expired", "remote"},
                             ok : BOOLEAN, content : Content, at : Nat]]

(* Was version v still the remote's at time t or later?                    *)
CurrentAt(v, t) == v = remote \/ until[v] >= t

(* What a call is given without an error from a file, or from the remote,  *)
(* is no content the remote had replaced more than MaxAge before the call, *)
(* however long the call took and whoever else fetched meanwhile.          *)
AnswersFresh ==
  \A c \in Callers : answer[c].ok /\ answer[c].from \in {"file", "remote"} =>
    \A i \in DOMAIN answer[c].content :
      LET v == answer[c].content[i]
      IN v # Hole => CurrentAt(v, answer[c].at - (IF maxAge > 0 THEN maxAge ELSE 0))

(* With a timeout, content in the memory of a process is served for no     *)
(* longer than that after its fetch began, plus the time the fetch took.   *)
MemoryFresh ==
  \A p \in Processes : maxAge > 0 /\ Remembered(memory[p]) =>
    CurrentAt(memory[p].version, clock + 1 - maxAge - memory[p].took)

(* A cached file to fall back to is never lost: a file is removed only     *)
(* while a later one is there, whatever callers of other processes, which  *)
(* have listed the directory at other times, remove meanwhile.             *)
FallbackKept ==
  [][\A t \in Timestamps : \E u \in Timestamps' : u >= t]_vars

(* A file nobody is writing has the whole content, though writers of the   *)
(* same second truncate and overwrite each other's file: unless one of     *)
(* them failed, or the remote changed between them.                        *)
FilesComplete ==
  \A t \in Timestamps :
    Writers(t) = {} /\ ~files[t].spoilt => files[t].data = Whole(files[t].of)

=============================================================================
