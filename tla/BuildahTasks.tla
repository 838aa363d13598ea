---------------------------- MODULE BuildahTasks ----------------------------
(***************************************************************************)
(* The tasks of the buildah tool (pkg/tools/buildah): xbuild, build and    *)
(* push.  For each: the specs GetExecSpecs generates for a matrix entry,   *)
(* and what the callbacks and the buildah commands in them do to the       *)
(* containers, images and manifests of the host and to dukkha's image id   *)
(* files.                                                                  *)
(*                                                                         *)
(* What buildah does with a command is external, modelled from what the    *)
(* specs rely on: `from` makes a container, `commit` and `bud` an image,   *)
(* whose id goes to the --iidfile, and so on.  An image or a container is  *)
(* what was done to make it: its base and the steps since, in order.       *)
(***************************************************************************)
EXTENDS ExecSpecs, ArchTables

VARIABLES
  task,       \* the task, fixed
  matrix,     \* entry -> its kernel and arch, fixed
  ctrs,       \* container -> what is in it
  images,     \* image id -> what is in it
  tags,       \* image name -> image id
  iid,        \* the --iidfile of an entry
  idFiles,    \* image name -> what its image id file holds
  manifests,  \* manifest name -> its entries
  mcache,     \* TaskPush.manifestCache
  pushed      \* history: the names pushed, in order

buildahVars == <<task, matrix, ctrs, images, tags, iid, idFiles, manifests, mcache, pushed>>

PlatformOf(g) == Platform(matrix[g].kernel, matrix[g].arch)

(***************************************************************************)
(* Names (pkg/templateutils/image_tag.go)                                  *)
(***************************************************************************)

(* A name that comes with a tag is the same in every entry, one rendered   *)
(* from the matrix is the entry's own, one without a tag is given the      *)
(* default.  `git` is what the repository is at.                           *)
GetDefaultTag(g, isManifest) ==
  LET git == task.git
      branch == IF git.branch = "" THEN <<>> ELSE <<git.branch>>
      version == CASE ~git.clean -> <<"dev">> \o branch
                   [] git.clean /\ git.tag # "" -> <<git.tag>>
                   [] git.clean /\ git.tag = "" /\ git.branch = git.default -> <<"latest">>
                   [] OTHER -> IF isManifest /\ branch # <<>> THEN branch ELSE Append(branch, "commit")
      Set(x) == IF x = "" THEN <<>> ELSE <<x>>
  IN IF isManifest THEN version
     ELSE version \o Set(matrix[g].kernel) \o Set(matrix[g].arch)

Tag(how, g, isManifest) ==
  CASE how = "tagged" -> <<"v1">>
    [] how = "rendered" -> <<"entry", g>>
    [] how = "untagged" -> GetDefaultTag(g, isManifest)

(* build and push take the name of the task when no name is given.         *)
Targets == IF task.names = <<>> /\ task.kind \in {"build", "push", "docker-build", "docker-push"}
           THEN <<[image |-> "untagged", manifest |-> "none", fqdn |-> FALSE]>> ELSE task.names

ImageName(i, g) == <<"image", i, Tag(Targets[i].image, g, FALSE)>>
ManifestName(i, g) == <<"manifest", i, Tag(Targets[i].manifest, g, TRUE)>>

Named(field) == {i \in DOMAIN Targets : Targets[i][field] # "none"}
ImageNames(g) ==
  FlattenSeq([i \in DOMAIN Targets |-> IF i \in Named("image") THEN <<<<i, ImageName(i, g)>>>> ELSE <<>>])

(* xbuild commits under a name made of the image names: entries that have  *)
(* the same image names use the same one.                                  *)
FinalName(g) == <<"final", ImageNames(g)>>

(***************************************************************************)
(* Tokens                                                                  *)
(***************************************************************************)
CURRENT == <<"CURRENT_CONTAINER_ID">>
CTR_NAME == <<"CURRENT_CONTAINER_NAME">>
FROM_REF == <<"FROM_IMAGE_REF">>
COPY_IMAGE == <<"COPY_FROM_IMAGE_ID">>
SRC == <<"SRC_PATH">>
REDACTED == <<"SRC_REDACTED_PATH">>
IMAGE_ID == <<"IMAGE_ID">>
DIGEST == <<"IMAGE_DIGEST">>
MANIFEST_SPEC == <<"MANIFEST_SPEC">>
STEP(id) == <<"STEP_CONTAINER_ID", id>>

Tokens == {CURRENT, CTR_NAME, FROM_REF, COPY_IMAGE, SRC, REDACTED, IMAGE_ID, DIGEST, MANIFEST_SPEC}
IsToken(a) == a \in Tokens \/ a[1] = "STEP_CONTAINER_ID"

(***************************************************************************)
(* xbuild: the specs of a step                                             *)
(***************************************************************************)

FromSpecs(s) ==
  (IF s.ref = "scratch" THEN <<>> ELSE <<CmdInto("pull", <<<<"name", s.ref>>>>, FROM_REF)>>)
  \o <<CmdInto("from", <<IF s.ref = "scratch" THEN <<"scratch">> ELSE FROM_REF>>, CTR_NAME),
       CmdInto("inspect-container", <<CTR_NAME>>, CURRENT)>>

(* A script or an executable is copied in, run, and overwritten with an    *)
(* empty file, so that it is not part of the image.                        *)
MutCopiedIn(i, src) == <<Cmd("copy-in", <<CURRENT, src>>), Cmd("run", <<CURRENT, <<"step", i>>>>)>>
CopiedIn(i, src) ==
  <<Cmd("copy-in", <<CURRENT, src>>), Cmd("run", <<CURRENT, <<"step", i>>>>),
    Cmd("copy-in", <<CURRENT, REDACTED>>)>>

RunSpecs(i, s) ==
  CASE s.do = "run" -> <<Cmd("run", <<CURRENT, <<"step", i>>>>)>>
    [] s.do = "executable" -> <<CmdInto("write-redacted", <<>>, REDACTED)>> \o CopiedIn(i, <<"file">>)
    [] s.do = "script" -> <<CmdInto("write-file", <<>>, SRC), CmdInto("redact-file", <<>>, REDACTED)>>
                            \o CopiedIn(i, SRC)

CopySpecs(i, s) ==
  LET Copy(src) == <<Cmd("copy", <<CURRENT, src, <<"step", i>>>>)>>
  IN CASE s.do = "copy-local" -> Copy(<<"file">>)
       [] s.do = "copy-text" -> <<CmdInto("write-file", <<>>, SRC)>> \o Copy(SRC)
       [] s.do = "copy-image" ->
            <<Ignored(CmdInto("pull", <<<<"name", s.ref>>>>, COPY_IMAGE))>> \o Copy(COPY_IMAGE)
       [] s.do = "copy-step" -> Copy(STEP(<<"id", s.ref>>))

(* A `set` that sets nothing is no command.                                *)
SetSpecs(i, s) == IF s.ref = "nothing" THEN <<>> ELSE <<Cmd("run", <<CURRENT, <<"step", i>>>>)>>

Kinds == {"set", "from", "run", "executable", "script",
          "copy-local", "copy-text", "copy-image", "copy-step"}

genSpec(i, s) ==
  CASE s.do = "set" -> SetSpecs(i, s)
    [] s.do = "from" -> FromSpecs(s)
    [] s.do \in {"run", "executable", "script"} -> RunSpecs(i, s)
    [] OTHER -> CopySpecs(i, s)

(***************************************************************************)
(* xbuild: the specs of the task                                           *)
(***************************************************************************)

Skipped(s) == ~s.if
StepID(i) == IF task.steps[i].id = "" THEN <<"#", i>> ELSE <<"id", task.steps[i].id>>

IsLastStep(i) == \A j \in DOMAIN task.steps : j > i => Skipped(task.steps[j])

(* The last step left is committed for the task; another only under a name *)
(* of its own, when the step after it starts from an image or `commit` is  *)
(* set.  The step after it is the next of the list, skipped or not.        *)
CommitSpecs(g, i) ==
  LET s == task.steps[i]
      named == s.as # "" /\ (task.steps[i + 1].do = "from" \/ s.commit)
  IN CASE IsLastStep(i) -> <<Cmd("commit-final", <<CURRENT, FinalName(g)>>)>>
       [] ~IsLastStep(i) /\ named -> <<Cmd("commit", <<CURRENT, <<"name", s.as>>>>)>>
       [] OTHER -> <<>>

(* The container a step works in is kept before the step and, as `from`    *)
(* makes another, once more after it.                                      *)
MutStepSpecs(g, i) ==
  LET s == task.steps[i]
  IN <<CmdInto("keep-current", <<>>, STEP(StepID(i)))>> \o genSpec(i, s) \o CommitSpecs(g, i)
StepSpecs(g, i) ==
  LET s == task.steps[i]
      keep == CmdInto("keep-current", <<>>, STEP(StepID(i)))
  IN IF Skipped(s) THEN <<>>
     ELSE <<keep>> \o genSpec(i, s) \o (IF s.do = "from" THEN <<keep>> ELSE <<>>) \o CommitSpecs(g, i)

(* The image names, and the commit_as of the last step.                    *)
RealImageNames(g) ==
  LET last == {i \in DOMAIN task.steps : ~Skipped(task.steps[i]) /\ IsLastStep(i)}
      own == [i \in DOMAIN ImageNames(g) |-> ImageNames(g)[i][2]]
  IN own \o (IF last # {} /\ task.steps[CHOOSE i \in last : TRUE].as # ""
             THEN <<<<"name", task.steps[CHOOSE i \in last : TRUE].as>>>> ELSE <<>>)

ManifestSpecs(g, i) ==
  LET name == ManifestName(i, g)
  IN <<Ignored(Cmd("manifest-create", <<name>>)),
       Ignored(CmdInto("manifest-inspect", <<name>>, MANIFEST_SPEC)),
       Cmd("manifest-update", <<name>>)>>
     \o (IF IsLast(g) THEN <<Cmd("manifest-inspect", <<name>>)>> ELSE <<>>)

AllManifestSpecs(g) ==
  FlattenSeq([i \in DOMAIN Targets |->
                IF i \in Named("manifest") THEN ManifestSpecs(g, i) ELSE <<>>])

XBuildSpecs(g) ==
  FlattenSeq([i \in DOMAIN task.steps |-> StepSpecs(g, i)])
  \o <<Cmd("delete-containers", <<>>), CmdInto("read-iidfile", <<>>, IMAGE_ID)>>
  \o [i \in DOMAIN RealImageNames(g) |-> Cmd("tag", <<IMAGE_ID, RealImageNames(g)[i]>>)]
  \o AllManifestSpecs(g)

(***************************************************************************)
(* build and push                                                          *)
(***************************************************************************)

BuildSpecs(g) ==
  <<Cmd("bud", <<>>), CmdInto("read-iidfile", <<>>, IMAGE_ID),
    CmdInto("inspect-image", <<IMAGE_ID>>, DIGEST)>>
  \o AllManifestSpecs(g)

PushImageSpecs(g) ==
  [k \in DOMAIN ImageNames(g) |->
     Cmd("push", <<idFiles[ImageNames(g)[k][2]], ImageNames(g)[k][2]>>)]

(* The manifests an entry names are cached under their names: one that     *)
(* several entries name is there once, for the last that named it.  The    *)
(* names are gone through in order, up to an image without an id file.     *)
NoIdFile(g) == {i \in Named("image") : ImageName(i, g) \notin DOMAIN idFiles}

Reached(g) == {i \in Named("manifest") : \A j \in NoIdFile(g) : i < j}

MutCached(g) ==
  mcache \cup {[name |-> ManifestName(i, g), sub |-> i, seq |-> g] : i \in Reached(g)}
Cached(g) ==
  LET mine == {[name |-> ManifestName(i, g), sub |-> i, seq |-> g] : i \in Reached(g)}
  IN {m \in mcache : \A n \in mine : n.name # m.name} \cup mine

Less(a, b) == a.seq < b.seq \/ a.sub < b.sub

(* What sort.Slice may make of them: `Less` is not an order, as it holds   *)
(* both ways for a later entry's earlier manifest.                         *)
Sorted(ms) ==
  {s \in SetToSeqs(ms) :
     \A k \in 1..(Len(s) - 1) : Less(s[k], s[k + 1]) \/ ~Less(s[k + 1], s[k])}

ManifestPushSpecs(ms) == [k \in DOMAIN ms |-> Cmd("manifest-push", <<ms[k].name>>)]

GenPush(g) ==
  IF NoIdFile(g) # {} THEN NotGenerated(g) /\ mcache' = Cached(g)
  ELSE IF IsLast(g)
       THEN /\ \E ms \in Sorted(Cached(g)) : Generated(g, PushImageSpecs(g) \o ManifestPushSpecs(ms))
            /\ mcache' = {}
       ELSE Generated(g, PushImageSpecs(g)) /\ mcache' = Cached(g)

(* GetExecSpecs, under BaseTask.mu, once the fields are resolved.  xbuild   *)
(* and build make the --iidfile, empty, before anything else may fail.     *)
GenBuildah(g) ==
  /\ \/ NotGenerated(g) /\ UNCHANGED <<iid, mcache>>
     \/ /\ task.kind = "xbuild"
        /\ iid' = [iid EXCEPT ![g] = Empty]
        /\ IF \A i \in DOMAIN task.steps : Skipped(task.steps[i]) \/ task.steps[i].do \in Kinds
           THEN Generated(g, XBuildSpecs(g)) ELSE NotGenerated(g)
        /\ UNCHANGED mcache
     \/ /\ task.kind = "build"
        /\ iid' = [iid EXCEPT ![g] = Empty]
        /\ Generated(g, BuildSpecs(g))
        /\ UNCHANGED mcache
     \/ /\ task.kind = "push" /\ GenPush(g) /\ UNCHANGED iid
     \/ /\ task.kind = "login" /\ Generated(g, <<Cmd("login", <<>>)>>) /\ UNCHANGED <<iid, mcache>>
  /\ UNCHANGED <<task, matrix, ctrs, images, tags, idFiles, manifests, pushed>>

=============================================================================
