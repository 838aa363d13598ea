----------------------------- MODULE MCRenderers -----------------------------
(***************************************************************************)
(* GitFetch, ArchiveFile and RemoteRequest in one run.  They share no      *)
(* state: in each behaviour one of them is asked something, what its MC    *)
(* module lists, and the others have nothing to do.                        *)
(***************************************************************************)
EXTENDS MCGitFetch, TLC

CONSTANTS
  Archives, Requests, Matched, ArchiveBuffer,  \* of ArchiveFile
  Renderers, Values                            \* of RemoteRequest

VARIABLES
  requests, archivePc, target, buf, up, off, entry, archiveLeft, archiveContent, archiveCache,
  extracted,
  values, config, key, cache, answer

Files == INSTANCE ArchiveFile WITH
           Buffer <- ArchiveBuffer, pc <- archivePc, left <- archiveLeft,
           content <- archiveContent, cache <- archiveCache, answer <- extracted
Remote == INSTANCE RemoteRequest

(* What the MC modules list does not depend on the constants.              *)
ArchiveLists == INSTANCE MCArchiveFile WITH
                  Archives <- <<>>, Requests <- {}, Buffer <- ArchiveBuffer, pc <- archivePc,
                  left <- archiveLeft, content <- archiveContent, cache <- archiveCache,
                  answer <- extracted
RemoteLists == INSTANCE MCRemoteRequest WITH Renderers <- <<>>, Values <- {}

archive == <<requests, archivePc, target, buf, up, off, entry, archiveLeft, archiveContent,
             archiveCache, extracted>>
remote == <<values, config, key, cache, answer>>
renderers == <<vars, archive, remote>>

GitIdle ==
  /\ reply = [cells |-> <<>>, size |-> 0] /\ wire = <<>> /\ pc = "failed"
  /\ pipe = <<>> /\ open = FALSE /\ rest = 0 /\ block = <<>> /\ left = 0
  /\ pad = 0 /\ result = "nil" /\ content = <<>> /\ copied = FALSE /\ given = <<>> /\ early = FALSE

ArchiveIdle ==
  /\ requests = <<>> /\ archivePc = "idle" /\ target = Files!None /\ buf = <<>> /\ up = 0 /\ off = 0
  /\ entry = 0 /\ archiveLeft = 0 /\ archiveContent = <<>> /\ archiveCache = <<>>
  /\ extracted = Files!NoAnswer

RemoteIdle ==
  /\ values = <<>> /\ config = Remote!Nothing /\ key = <<>> /\ answer = Remote!Nothing
  /\ cache = <<>>

RenderersInit ==
  \/ Init /\ ArchiveIdle /\ RemoteIdle
  \/ GitIdle /\ Files!Init /\ RemoteIdle
  \/ GitIdle /\ ArchiveIdle /\ Remote!Init

RenderersNext ==
  \/ Next /\ UNCHANGED <<archive, remote>>
  \/ Files!Next /\ UNCHANGED <<vars, remote>>
  \/ Remote!Next /\ UNCHANGED <<vars, archive>>

RenderersSpec == RenderersInit /\ [][RenderersNext]_renderers /\ Fairness

MCArchives == ArchiveLists!MCArchives
MCRequests == ArchiveLists!MCRequests
MCRendererTable == RemoteLists!MCRenderers
MCValues == RemoteLists!MCValues

(* af answers a request with what it is for, or with what its cache has of *)
(* the same archive, and fails only for what is not there or an archive    *)
(* that is not whole or not recognised (pkg/renderer/af).                  *)
Extracted == Files!Extracted

(* git, http and s3 answer with what they were asked for, or with what the *)
(* first value of the same key asked for (RenderYaml of each).             *)
AnsweredAsAsked == Remote!AnsweredAsAsked

=============================================================================
