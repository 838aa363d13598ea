---------------------------- MODULE DockerTasks -----------------------------
(***************************************************************************)
(* The tasks of the docker tool (pkg/tools/docker), whose fields are those *)
(* of the buildah tasks.  A push links every image to its manifest and     *)
(* pushes the manifest, for each entry and without a look at the others:   *)
(* docker keeps the manifest, and its platforms are annotated afterwards.  *)
(*                                                                         *)
(* Names are as in BuildahTasks, except that build, and the push of a      *)
(* manifest, take them without the default tag.  A target has `fqdn` when  *)
(* its names begin with the host of a registry.                            *)
(***************************************************************************)
EXTENDS BuildahHost

RawTag(how, g) == IF how = "untagged" THEN <<"latest">> ELSE Tag(how, g, FALSE)
RawImage(i, g) == <<"image", i, RawTag(Targets[i].image, g)>>
RawManifest(i, g) == <<"manifest", i, RawTag(Targets[i].manifest, g)>>

(* What is not annotated has the platform of the image, known to docker.   *)
NoPlatform == <<"none">>

LinkSpecs(g, i) ==
  LET name == ManifestName(i, g)
      image == ImageName(i, g)
  IN <<Ignored(Cmd("docker-manifest-create", <<name, image>>)),
       Cmd("docker-manifest-amend", <<name, image>>),
       Cmd("docker-manifest-annotate", <<name, image>>)>>
     \o (IF Targets[i].fqdn THEN <<Cmd("docker-push", <<RawManifest(i, g)>>)>> ELSE <<>>)

DockerPushSpecs(g, i) ==
  (IF Targets[i].fqdn THEN <<Cmd("docker-push", <<ImageName(i, g)>>)>> ELSE <<>>)
  \o (IF i \in Named("manifest") THEN LinkSpecs(g, i) ELSE <<>>)

GenDocker(g) ==
  /\ \/ NotGenerated(g)
     \/ task.kind = "docker-build" /\ Generated(g, <<Cmd("docker-build", <<>>)>>)
     \/ task.kind = "docker-push"
        /\ Generated(g, FlattenSeq([i \in DOMAIN Targets |->
                          IF i \in Named("image") THEN DockerPushSpecs(g, i) ELSE <<>>]))
     \/ task.kind = "docker-login" /\ Generated(g, <<Cmd("docker-login", <<>>)>>)
  /\ UNCHANGED buildahVars

(***************************************************************************)
(* docker itself                                                           *)
(***************************************************************************)

DockerCommands == {"docker-build", "docker-push", "docker-login", "docker-manifest-create",
                   "docker-manifest-amend", "docker-manifest-annotate"}

DockerBuild(g) ==
  /\ At(g, "docker-build")
  /\ images' = Update(images, NewImage(g), [base |-> <<"docker", g>>, log |-> <<>>, tmp |-> Empty])
  /\ tags' = UpdateAll(tags, {RawImage(i, g) : i \in Named("image")}, NewImage(g))
  /\ Succeed(g, Empty, <<>>)
  /\ UNCHANGED <<ctrs, iid, idFiles, manifests, pushed>>

Linked(name) == IF name \in DOMAIN manifests THEN manifests[name] ELSE {}

(* A manifest that is there is changed with --amend only.                  *)
DockerManifestLink(g) ==
  /\ \/ At(g, "docker-manifest-create") /\ Arg(g, 1) \notin DOMAIN manifests
     \/ At(g, "docker-manifest-amend")
  /\ LET old == Linked(Arg(g, 1))
         new == IF \E m \in old : m.image = Arg(g, 2) THEN {}
                ELSE {[platform |-> NoPlatform, image |-> Arg(g, 2)]}
     IN manifests' = Update(manifests, Arg(g, 1), old \cup new)
  /\ Succeed(g, Empty, <<>>)
  /\ UNCHANGED <<ctrs, images, tags, iid, idFiles, pushed>>

DockerManifestAnnotate(g) ==
  /\ At(g, "docker-manifest-annotate")
  /\ \E m \in Linked(Arg(g, 1)) : m.image = Arg(g, 2)
  /\ manifests' = [manifests EXCEPT ![Arg(g, 1)] =
                     {IF m.image = Arg(g, 2) THEN [m EXCEPT !.platform = PlatformOf(g)] ELSE m : m \in @}]
  /\ Succeed(g, Empty, <<>>)
  /\ UNCHANGED <<ctrs, images, tags, iid, idFiles, pushed>>

DockerPush(g) ==
  /\ At(g, "docker-push") /\ Arg(g, 1) \in DOMAIN manifests \cup DOMAIN tags
  /\ pushed' = Append(pushed, Arg(g, 1))
  /\ Succeed(g, Empty, <<>>)
  /\ UNCHANGED <<ctrs, images, tags, iid, idFiles, manifests>>

DockerLogin(g) == At(g, "docker-login") /\ Succeed(g, Empty, <<>>) /\ UNCHANGED host

DockerFails(g) ==
  /\ stage[g] = "running" /\ Current(g).op \in DockerCommands
  /\ Fail(g, Empty) \/ NoToolCmd(g)
  /\ UNCHANGED host

DockerStep(g) ==
  /\ \/ DockerBuild(g) \/ DockerManifestLink(g) \/ DockerManifestAnnotate(g)
     \/ DockerPush(g) \/ DockerLogin(g) \/ DockerFails(g)
  /\ UNCHANGED fixed

=============================================================================
