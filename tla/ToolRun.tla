------------------------------ MODULE ToolRun -------------------------------
(***************************************************************************)
(* A task of the buildah, docker, golang or cosign tool run for its        *)
(* matrix: the entries of the matrix (TaskMatrix), the goroutine of each   *)
(* (ExecSpecs), and what their specs do to what they share (BuildahHost,   *)
(* DockerTasks, GoTasks, CosignTasks).                                     *)
(***************************************************************************)
EXTENDS DockerTasks, GoTasks, CosignTasks, TaskMatrix

CONSTANT Jobs  \* what is run: a task, its matrix and what was there before

VARIABLE job

vars == <<execVars, buildahVars, goVars, cosignVars, job>>

EntriesOf(j) == GenerateEntries(j.matrix, j.filter, j.host)

(* A task is run for an entry at least, which may be empty, and by workers.*)
ASSUME JobsAssumption ==
  \A j \in Jobs : Len(EntriesOf(j)) \in 1..MaxEntries /\ j.workers \in Nat \ {0}

(* A matrix, its include and exclude lists and the filter are maps from    *)
(* keys to lists, as they are in the YAML of a task and in Filter.match.   *)
ASSUME MatrixAssumption == \A j \in Jobs : SpecTyped(j.matrix, j.filter)

(* Names, steps and targets are lists, as they are in the YAML of a task.  *)
ASSUME NamesAssumption ==
  \A j \in Jobs : j.tool \in {"buildah", "docker"} =>
    j.task.names \in Seq(Range(j.task.names)) /\ j.task.steps \in Seq(Range(j.task.steps))

(* What earlier runs left: manifests of finitely many images, id files and *)
(* names of images.  An image id is no token, none an entry of this run    *)
(* will make and not empty, but the file an id is handed on by may be.     *)
LeftImage(m) ==
  /\ m = [platform |-> m.platform, image |-> m.image]
  /\ ~IsToken(m.image) /\ (m.image[1] = "id" => m.image[2] = 0)

ASSUME EarlierRunsAssumption ==
  \A j \in Jobs :
    /\ \A n \in DOMAIN j.manifests : IsFiniteSet(j.manifests[n]) /\ \A m \in j.manifests[n] : LeftImage(m)
    /\ \A n \in DOMAIN j.idFiles : ~IsToken(j.idFiles[n])
    /\ \A n \in DOMAIN j.tags : j.tags[n] # Empty

(* A file of the cache named after a private key was written by            *)
(* ensurePrivateKey: it has that key, or as much as could be written.      *)
ASSUME CosignAssumption ==
  \A j \in Jobs : j.tool = "cosign" =>
    /\ j.task.targets \in Seq(Range(j.task.targets))
    /\ \A f \in DOMAIN j.keyFiles : f[1] = "private" => j.keyFiles[f] \in {f[2], TORN}

(* The packages are a list, what go prints; those with tests are of them.  *)
ASSUME GoAssumption ==
  \A j \in Jobs : j.tool = "golang" =>
    /\ j.task.packages \in Seq(Range(j.task.packages))
    /\ j.task.tested \subseteq Range(j.task.packages)

NoTask == [kind |-> "none", names |-> <<>>, steps |-> <<>>]

(* The constructor of TaskPush makes the cache; id files, manifests, tags, *)
(* test binaries and key files may be left from earlier runs.              *)
Init ==
  /\ job \in Jobs
  /\ LET es == EntriesOf(job)
         n == Len(es)
     IN /\ ExecInit(n, job.workers, job.env)
        /\ task = IF job.tool \in {"buildah", "docker"} THEN job.task ELSE NoTask
        /\ goTask = IF job.tool = "golang" THEN job.task ELSE NoTask
        /\ signTask = IF job.tool = "cosign" THEN job.task ELSE NoTask
        /\ signMatrix = IF job.tool = "cosign" THEN job.keys ELSE <<>>
        /\ matrix = [g \in 1..n |-> [kernel |-> Get(es[g], Kernel), arch |-> Get(es[g], Arch)]]
        /\ goMatrix = [g \in 1..n |-> [kernel |-> Get(es[g], Kernel), arch |-> Get(es[g], Arch),
                                       libc |-> job.libc]]
        /\ iid = [g \in 1..n |-> Empty]
  /\ ctrs = <<>> /\ images = <<>> /\ tags = job.tags /\ pushed = <<>> /\ mcache = {}
  /\ idFiles = job.idFiles /\ manifests = job.manifests
  /\ binaries = job.binaries /\ jsonFile = Empty /\ ran = <<>>
  /\ keyFiles = job.keyFiles /\ publishing = {} /\ signatures = <<>> /\ verified = <<>>

BuildahNext(g) ==
  /\ GenBuildah(g) \/ BuildahStep(g)
  /\ UNCHANGED <<goVars, cosignVars, job>>

DockerNext(g) ==
  /\ GenDocker(g) \/ DockerStep(g)
  /\ UNCHANGED <<goVars, cosignVars, job>>

GoNext(g) ==
  /\ GenGo(g) \/ GoStep(g)
  /\ UNCHANGED <<buildahVars, cosignVars, job>>

CosignNext(g) ==
  /\ GenCosign(g) \/ CosignStep(g)
  /\ UNCHANGED <<buildahVars, goVars, job>>

Terminated == (\A g \in Entries : stage[g] \in Ended) /\ UNCHANGED vars

Next ==
  \/ \E g \in Entries : \/ Start(g) /\ UNCHANGED <<buildahVars, goVars, cosignVars, job>>
                        \/ job.tool = "buildah" /\ BuildahNext(g)
                        \/ job.tool = "docker" /\ DockerNext(g)
                        \/ job.tool = "golang" /\ GoNext(g)
                        \/ job.tool = "cosign" /\ CosignNext(g)
  \/ Terminated

Spec == Init /\ [][Next]_vars

(***************************************************************************)
(* Properties                                                              *)
(***************************************************************************)

(* The engine's state: an entry runs while a doRun of its own has specs    *)
(* left, no more of them than there are workers, and what it keeps is kept *)
(* under the tokens of its task.                                           *)
TypeOK == ExecTypeOK /\ \A g \in Entries : \A t \in DOMAIN replace[g] :
            DOMAIN replace[g][t] = {"data", "ok"} /\ replace[g][t].ok \in BOOLEAN

(* GenerateEntries gives what the matrix and the filter describe.          *)
MatrixExact == EntriesExact(job.matrix, job.filter, job.host)

(* A container an xbuild made for an entry is removed before the entry     *)
(* ends well: none is lost when a step changes to another container.       *)
ContainersRemoved ==
  \A g \in Entries : stage[g] = "ok" => \A c \in DOMAIN ctrs : c[2] # g

(* A command is run with every token in it replaced, and by something: by  *)
(* the container, image or file the specs before it made.  The image a     *)
(* copy is made from is the exception, its pull may have failed.           *)
PlaceholdersSet ==
  \A g \in Entries : stage[g] = "running" /\ Current(g).op \in BuildahCommands =>
    \A i \in DOMAIN Current(g).args :
      LET a == Current(g).args[i]
      IN IsToken(a) => a \in DOMAIN replace[g] /\ (a # COPY_IMAGE => replace[g][a].data # Empty)

(* What the steps of an xbuild describe, step by step: the containers in   *)
(* order, the one worked in, the one each step used, the names committed.  *)
StepByStep(g, acc, i) ==
  LET s == task.steps[i]
      name == <<"name", s.ref>>
      base == CASE s.ref = "scratch" -> [base |-> <<"scratch">>, log |-> <<>>]
                [] name \in DOMAIN acc.named -> acc.named[name]
                [] OTHER -> [base |-> name, log |-> <<>>]
      cs == IF s.do = "from" THEN Append(acc.ctrs, base) ELSE acc.ctrs
      done == CASE s.do = "from" \/ (s.do = "set" /\ s.ref = "nothing") -> <<>>
                [] s.do \in {"copy-local", "copy-text"} -> <<<<<<"step", i>>, <<"file">>>>>>
                [] s.do = "copy-image" -> <<<<<<"step", i>>, name>>>>
                [] s.do = "copy-step" -> <<<<<<"step", i>>, cs[acc.kept[<<"id", s.ref>>]].log>>>>
                [] OTHER -> <<<<"step", i>>>>
      after == [cs EXCEPT ![Len(cs)].log = @ \o done]
  IN IF Skipped(s) THEN acc
     ELSE [ctrs |-> after, kept |-> (StepID(i) :> Len(cs)) @@ acc.kept,
           named |-> IF s.as # "" /\ CommitSpecs(g, i) # <<>>
                     THEN (<<"name", s.as>> :> Last(after)) @@ acc.named ELSE acc.named]

Described(g) ==
  Last(FoldLeft(LAMBDA acc, i : StepByStep(g, acc, i),
                [ctrs |-> <<>>, kept |-> <<>>, named |-> <<>>],
                [i \in DOMAIN task.steps |-> i]).ctrs)

(* The image an xbuild ends with is what its steps describe, from the last *)
(* `from` on, without the scripts that were run in it; and its names and   *)
(* id files are the entry's own, whatever the other entries do meanwhile,  *)
(* as long as they have other names.                                       *)
ImageIsSteps ==
  \A g \in Entries :
    stage[g] = "ok" /\ task.kind \in {"xbuild", "build"} =>
      /\ task.kind = "xbuild" /\ (\E i \in DOMAIN task.steps : ~Skipped(task.steps[i]))
           /\ (COPY_IMAGE \in DOMAIN replace[g] => replace[g][COPY_IMAGE].ok) =>
         LET made == images[iid[g]]
         IN /\ [base |-> made.base, log |-> made.log] = Described(g)
            /\ made.tmp \in {Empty, <<"redacted">>}
      /\ \A k \in DOMAIN ImageNames(g) :
           LET name == ImageNames(g)[k][2]
           IN (\A h \in Entries \ {g} : \A l \in DOMAIN ImageNames(h) : ImageNames(h)[l][2] # name) =>
                tags[name] = iid[g] /\ idFiles[name] = iid[g]

(* An entry has its platform to itself in a manifest: of several that have *)
(* the same one the last to be added takes the place of the others.        *)
Alone(i, g) ==
  \A h \in Entries \ {g} : ManifestName(i, h) = ManifestName(i, g) => PlatformOf(h) # PlatformOf(g)

(* A manifest has the image of every entry that ended well, and no other   *)
(* for the platform of the entry, if that is its own: not that of an       *)
(* earlier run either, unless the manifest could not be inspected.  In a   *)
(* manifest of docker the image has the platform of the entry, when its    *)
(* name is the entry's own.                                                *)
ManifestPlatforms ==
  /\ \A g \in Entries : \A i \in Named("manifest") \cap Named("image") :
       /\ stage[g] = "ok" /\ task.kind = "docker-push"
       /\ \A h \in Entries \ {g} : ImageName(i, h) # ImageName(i, g)
       => {m \in Linked(ManifestName(i, g)) : m.image = ImageName(i, g)} =
            {[platform |-> PlatformOf(g), image |-> ImageName(i, g)]}
  /\ \A g \in Entries : \A i \in Named("manifest") :
       stage[g] = "ok" /\ task.kind \in {"xbuild", "build"} /\ Alone(i, g) =>
         LET own == [platform |-> PlatformOf(g), image |-> iid[g]]
         IN /\ own \in manifests[ManifestName(i, g)]
            /\ (\A j \in Named("manifest") : j <= i) /\ replace[g][MANIFEST_SPEC].ok =>
                 SamePlatform(g, manifests[ManifestName(i, g)]) = {own}

ManifestNames == {ManifestName(i, g) : g \in Entries, i \in Named("manifest")}

(* With one worker a push ends with the manifests, each once and after all *)
(* the images, and leaves nothing in the cache for the next run to push.   *)
ManifestsPushedLast ==
  task.kind = "push" /\ workers = 1 /\ (\A g \in Entries : stage[g] = "ok") =>
    /\ mcache = {}
    /\ {SubSeq(pushed, Len(pushed) - Cardinality(ManifestNames) + 1, Len(pushed))[k] :
          k \in 1..Cardinality(ManifestNames)} = ManifestNames

(* An entry of `go test` that ended well has run the tests of every        *)
(* package that has some and, with one worker, those it compiled itself,   *)
(* for its own platform or the one the user has set.                       *)
TestsRun ==
  \A g \in Entries : stage[g] = "ok" /\ goTask.kind = "gotest" =>
    /\ {p \in goTask.tested : <<g, p>> \in DOMAIN ran} =
         IF replace[g][PACKAGES].ok THEN goTask.tested ELSE {}
    /\ \A p \in goTask.tested : workers = 1 /\ <<g, p>> \in DOMAIN ran =>
         /\ ran[<<g, p>>].by = g
         /\ ran[<<g, p>>].env.GOARCH =
              IF "GOARCH" \in DOMAIN job.env THEN job.env.GOARCH ELSE GoArch(goMatrix[g].arch)

(* The key pairs are in order: every entry's public key, if given, belongs *)
(* to its private key, and who signs the same target signs with one key.   *)
KeysAgree(g) ==
  /\ signMatrix[g].public \in {"", PrivateKey(g)}
  /\ \A h \in Entries : PrivateKey(h) = PrivateKey(g) => signMatrix[h].public \in {"", PrivateKey(g)}

OwnTarget(i, g) ==
  \A h \in Entries : Target(i, h) = Target(i, g) => PrivateKey(h) = PrivateKey(g)

(* The public key file of an entry is torn because another one with the    *)
(* same private key is writing it, or has failed to.                       *)
TornByOther(g) ==
  /\ keyFiles[PubKeyFile(g)] = TORN_PUBLIC
  /\ \E h \in publishing \ {g} : PrivateKey(h) = PrivateKey(g)

(* A signature is found where it was made, though a repository of the      *)
(* user's replaces the task's, and is checked with the public key of its   *)
(* own private key, though the entries share the key files: with the keys  *)
(* in order `verify` finds nothing wrong but a key file another entry has  *)
(* torn, and an entry that ended well has had everything it signed         *)
(* verified.                                                               *)
SignaturesVerified ==
  \A g \in Entries : signTask.kind # "none" /\ KeysAgree(g) =>
    /\ At(g, "verify") =>
         \A i \in DOMAIN signTask.targets :
           Arg(g, 1) = Target(i, g) /\ OwnTarget(i, g) =>
             /\ Place(g, env[g]) \in DOMAIN signatures
             /\ signatures[Place(g, env[g])].key = PrivateKey(g)
             /\ Accepted(g) \/ TornByOther(g)
    /\ stage[g] = "ok" /\ signTask.verify /\ (signTask.kind # "upload" \/ signTask.signing) =>
         \A i \in DOMAIN signTask.targets :
           /\ <<g, Target(i, g)>> \in DOMAIN verified
           /\ verified[<<g, Target(i, g)>>] = PrivateKey(g)

(* The toolchains of an architecture are for one target, though each table *)
(* of triples is written by hand: a Debian cross compiler's triple is      *)
(* GNU's, up to the i386 of its musl packages, and LLVM's has its ABI.     *)
TriplesAgree ==
  \A g \in Entries : \A libc \in {"gnu", "musl"} :
    LET a == matrix[g].arch
        debian == GetDebianTripleName(a, libc)
    IN debian # <<>> =>
         /\ <<libc, a>> # <<"musl", "x86">> => debian = GetGNUTripleName(a, libc)
         /\ Last(debian) = Last(GetLLVMTripleName(a, "linux", libc))

=============================================================================
