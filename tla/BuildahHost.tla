---------------------------- MODULE BuildahHost -----------------------------
(***************************************************************************)
(* What the specs of BuildahTasks do when doRun comes to them: the         *)
(* callbacks (AlterExecFunc) of pkg/tools/buildah, and the buildah         *)
(* commands, which are external.  A command may always fail and then       *)
(* changes nothing; it does fail when what it is about does not exist.     *)
(***************************************************************************)
EXTENDS BuildahTasks

BuildahCommands ==
  {"pull", "from", "inspect-container", "run", "copy-in", "copy", "commit", "commit-final", "rm",
   "tag", "manifest-create", "manifest-inspect", "manifest-remove", "manifest-add", "bud",
   "inspect-image", "push", "manifest-push", "login"}

host == <<ctrs, images, tags, iid, idFiles, manifests, pushed>>
fixed == <<task, matrix, mcache>>

InImage(img) == IF img \in DOMAIN images THEN images[img]
                ELSE [base |-> img, log |-> <<>>, tmp |-> Empty]

(***************************************************************************)
(* Containers                                                              *)
(***************************************************************************)

Pull(g) ==
  /\ At(g, "pull")
  /\ LET name == Arg(g, 1) IN Succeed(g, IF name \in DOMAIN tags THEN tags[name] ELSE name, <<>>)
  /\ UNCHANGED host

(* Containers and images are numbered by the entry that makes them.        *)
From(g) ==
  /\ At(g, "from")
  /\ LET c == <<"container", g, Cardinality({d \in DOMAIN ctrs : d[2] = g}) + 1>>
     IN /\ ctrs' = Update(ctrs, c, InImage(Arg(g, 1)))
        /\ Succeed(g, <<"name", c>>, <<>>)
  /\ UNCHANGED <<images, tags, iid, idFiles, manifests, pushed>>

InspectContainer(g) ==
  /\ At(g, "inspect-container")
  /\ Succeed(g, Arg(g, 1)[2], <<>>)
  /\ UNCHANGED host

InContainer(g, content) ==
  /\ Arg(g, 1) \in DOMAIN ctrs
  /\ ctrs' = [ctrs EXCEPT ![Arg(g, 1)] = content]
  /\ Succeed(g, Empty, <<>>)
  /\ UNCHANGED <<images, tags, iid, idFiles, manifests, pushed>>

Run(g) == At(g, "run") /\ InContainer(g, [ctrs[Arg(g, 1)] EXCEPT !.log = Append(@, Arg(g, 2))])

CopyIn(g) == At(g, "copy-in") /\ InContainer(g, [ctrs[Arg(g, 1)] EXCEPT !.tmp = Arg(g, 2)])

(* What is copied, if from a container, is what that has in it now.        *)
Source(a) == IF a \in DOMAIN ctrs THEN ctrs[a].log ELSE a

Copy(g) ==
  At(g, "copy") /\ InContainer(g, [ctrs[Arg(g, 1)] EXCEPT !.log = Append(@, <<Arg(g, 3), Source(Arg(g, 2))>>)])

Rm(g) ==
  /\ At(g, "rm") /\ Arg(g, 1) \in DOMAIN ctrs
  /\ ctrs' = [c \in DOMAIN ctrs \ {Arg(g, 1)} |-> ctrs[c]]
  /\ Succeed(g, Empty, <<>>)
  /\ UNCHANGED <<images, tags, iid, idFiles, manifests, pushed>>

(* The default container id of a step: that of the step before.  Without   *)
(* one nothing is written, and an empty id is kept.                        *)
KeepCurrent(g) ==
  /\ At(g, "keep-current")
  /\ Succeed(g, IF CURRENT \in DOMAIN replace[g] THEN replace[g][CURRENT].data ELSE Empty, <<>>)
  /\ UNCHANGED host

(* The containers the kept ids name, the last first, each once: `seen` are *)
(* those of the last k steps.                                              *)
Visited(g) ==
  LET n == Len(task.steps)
      Kept(k) == replace[g][STEP(StepID(n + 1 - k))].data
      seen[k \in 0..n] == IF k = 0 THEN <<>>
                          ELSE IF Skipped(task.steps[n + 1 - k]) \/ Contains(seen[k - 1], Kept(k))
                               THEN seen[k - 1] ELSE Append(seen[k - 1], Kept(k))
  IN seen[n]

DeleteContainers(g) ==
  /\ At(g, "delete-containers")
  /\ IF \A i \in DOMAIN task.steps : Skipped(task.steps[i]) \/ STEP(StepID(i)) \in DOMAIN replace[g]
     THEN Succeed(g, Empty, [k \in DOMAIN Visited(g) |-> Cmd("rm", <<Visited(g)[k]>>)])
     ELSE Fail(g, Empty)
  /\ UNCHANGED host

(* The files a script, a text and their redacted versions are copied from. *)
(* Their names are made of their content.                                  *)
WriteFile(g) ==
  /\ \/ At(g, "write-file") /\ Succeed(g, <<"file">>, <<>>)
     \/ At(g, "write-redacted") /\ Succeed(g, <<"redacted">>, <<>>)
     \/ At(g, "redact-file") /\ IF SRC \in DOMAIN replace[g]
                                THEN Succeed(g, <<"redacted">>, <<>>) ELSE Fail(g, Empty)
  /\ UNCHANGED host

(***************************************************************************)
(* Images                                                                  *)
(***************************************************************************)

NewImage(g) == <<"id", g, Cardinality({i \in DOMAIN images : i[2] = g}) + 1>>

Commit(g) ==
  /\ At(g, "commit") \/ At(g, "commit-final")
  /\ Arg(g, 1) \in DOMAIN ctrs
  /\ images' = Update(images, NewImage(g), ctrs[Arg(g, 1)])
  /\ tags' = Update(tags, Arg(g, 2), NewImage(g))
  /\ iid' = IF At(g, "commit-final") THEN [iid EXCEPT ![g] = NewImage(g)] ELSE iid
  /\ Succeed(g, Empty, <<>>)
  /\ UNCHANGED <<ctrs, idFiles, manifests, pushed>>

Bud(g) ==
  /\ At(g, "bud")
  /\ images' = Update(images, NewImage(g), [base |-> <<"bud", g>>, log |-> <<>>, tmp |-> Empty])
  /\ tags' = UpdateAll(tags, {ImageNames(g)[k][2] : k \in DOMAIN ImageNames(g)}, NewImage(g))
  /\ iid' = [iid EXCEPT ![g] = NewImage(g)]
  /\ Succeed(g, Empty, <<>>)
  /\ UNCHANGED <<ctrs, idFiles, manifests, pushed>>

(* The image id is handed on by files named after the image.  That no      *)
(* image was committed does not show: the file is there, and empty.        *)
ReadIidFile(g) ==
  /\ At(g, "read-iidfile")
  /\ idFiles' = UpdateAll(idFiles, {ImageNames(g)[k][2] : k \in DOMAIN ImageNames(g)}, iid[g])
  /\ Succeed(g, iid[g], <<>>)
  /\ UNCHANGED <<ctrs, images, tags, iid, manifests, pushed>>

TagImage(g) ==
  /\ At(g, "tag")
  /\ LET img == IF Arg(g, 1) \in DOMAIN tags THEN tags[Arg(g, 1)] ELSE Arg(g, 1)
     IN img \in DOMAIN images /\ tags' = Update(tags, Arg(g, 2), img)
  /\ Succeed(g, Empty, <<>>)
  /\ UNCHANGED <<ctrs, images, iid, idFiles, manifests, pushed>>

InspectImage(g) ==
  At(g, "inspect-image") /\ Succeed(g, <<"digest", Arg(g, 1)>>, <<>>) /\ UNCHANGED host

(***************************************************************************)
(* Manifests                                                               *)
(***************************************************************************)

ManifestCreate(g) ==
  /\ At(g, "manifest-create") /\ Arg(g, 1) \notin DOMAIN manifests
  /\ manifests' = Update(manifests, Arg(g, 1), {})
  /\ Succeed(g, Empty, <<>>)
  /\ UNCHANGED <<ctrs, images, tags, iid, idFiles, pushed>>

ManifestInspect(g) ==
  /\ At(g, "manifest-inspect") /\ Arg(g, 1) \in DOMAIN manifests
  /\ Succeed(g, <<"spec", manifests[Arg(g, 1)]>>, <<>>)
  /\ UNCHANGED host

(* createManifestPlatformQueryForDigest, over what `inspect` printed.      *)
SamePlatform(g, spec) == {m \in spec : m.platform = PlatformOf(g)}

(* When `inspect` failed nothing was kept but its empty output: the query  *)
(* fails, and the image is added without a look at what is there.          *)
MutManifestUpdate(g) ==
  /\ At(g, "manifest-update")
  /\ Succeed(g, Empty, <<Cmd("manifest-add", <<Arg(g, 1), IMAGE_ID>>)>>)
  /\ UNCHANGED host
ManifestUpdate(g) ==
  /\ At(g, "manifest-update")
  /\ LET name == Arg(g, 1)
         add == <<Cmd("manifest-add", <<name, IMAGE_ID>>)>>
         old == IF replace[g][MANIFEST_SPEC].data = Empty THEN {}
                ELSE {m.image : m \in SamePlatform(g, replace[g][MANIFEST_SPEC].data[2])}
         Without(img) == Cmd("manifest-remove", <<name, img>>)
     IN Succeed(g, Empty, IF MANIFEST_SPEC \notin DOMAIN replace[g]
                          THEN <<Cmd("manifest-create", <<name>>)>> \o add
                          ELSE [k \in 1..Cardinality(old) |-> Without(SetToSeq(old)[k])] \o add)
  /\ UNCHANGED host

ManifestRemove(g) ==
  /\ At(g, "manifest-remove")
  /\ LET name == Arg(g, 1)
         gone == {m \in manifests[name] : m.image = Arg(g, 2)}
     IN gone # {} /\ manifests' = [manifests EXCEPT ![name] = @ \ gone]
  /\ Succeed(g, Empty, <<>>)
  /\ UNCHANGED <<ctrs, images, tags, iid, idFiles, pushed>>

ManifestAdd(g) ==
  /\ At(g, "manifest-add")
  /\ Arg(g, 1) \in DOMAIN manifests /\ Arg(g, 2) \in DOMAIN images
  /\ manifests' = [manifests EXCEPT ![Arg(g, 1)] =
                     @ \cup {[platform |-> PlatformOf(g), image |-> Arg(g, 2)]}]
  /\ Succeed(g, Empty, <<>>)
  /\ UNCHANGED <<ctrs, images, tags, iid, idFiles, pushed>>

Push(g) ==
  /\ At(g, "push") \/ At(g, "manifest-push")
  /\ pushed' = Append(pushed, Last(Current(g).args))
  /\ Succeed(g, Empty, <<>>)
  /\ UNCHANGED <<ctrs, images, tags, iid, idFiles, manifests>>

Login(g) == At(g, "login") /\ Succeed(g, Empty, <<>>) /\ UNCHANGED host

CommandFails(g) ==
  /\ stage[g] = "running" /\ Current(g).op \in BuildahCommands
  /\ Fail(g, Empty) \/ NoToolCmd(g)
  /\ UNCHANGED host

BuildahStep(g) ==
  /\ \/ Pull(g) \/ From(g) \/ InspectContainer(g) \/ Run(g) \/ CopyIn(g) \/ Copy(g) \/ Rm(g)
     \/ KeepCurrent(g) \/ DeleteContainers(g) \/ WriteFile(g)
     \/ Commit(g) \/ Bud(g) \/ ReadIidFile(g) \/ TagImage(g) \/ InspectImage(g)
     \/ ManifestCreate(g) \/ ManifestInspect(g) \/ ManifestUpdate(g)
     \/ ManifestRemove(g) \/ ManifestAdd(g) \/ Push(g) \/ Login(g) \/ CommandFails(g)
  /\ UNCHANGED fixed

=============================================================================
