----------------------------- MODULE MCToolRun ------------------------------
(***************************************************************************)
(* ToolRun for tasks of two matrix entries, and of three where the order   *)
(* of the entries matters: xbuild with each kind of step, build and push   *)
(* with two manifests or names of each kind, docker build and push, go     *)
(* build and go test with packages with and without tests, signing with    *)
(* one key or two, on one worker and on two.                               *)
(***************************************************************************)
EXTENDS ToolRun

NoFilter == ParseMatrixFilter(<<>>)
LinuxHost == (Arch :> "amd64") @@ (Kernel :> "linux")

Vectors(m) == [vectors |-> m, exclude |-> <<>>, include |-> <<>>]
OnArchs(archs) == Vectors((Arch :> archs) @@ (Kernel :> <<"linux">>))

Job(tool, task_, matrix_, w) ==
  [tool |-> tool, task |-> task_, matrix |-> matrix_, filter |-> NoFilter, host |-> LinuxHost,
   workers |-> w, env |-> <<>>, libc |-> "gnu", idFiles |-> <<>>, manifests |-> <<>>,
   tags |-> <<>>, binaries |-> <<>>, keys |-> <<>>, keyFiles |-> <<>>]

(***************************************************************************)
(* buildah                                                                 *)
(***************************************************************************)

Git(clean, tag, branch) == [clean |-> clean, tag |-> tag, branch |-> branch, default |-> "master"]

Buildah(kind, names, steps) ==
  [kind |-> kind, names |-> names, steps |-> steps, git |-> Git(TRUE, "", "master")]

N(image, manifest) == [image |-> image, manifest |-> manifest, fqdn |-> TRUE]

S(do, ref) == [do |-> do, id |-> "", if |-> TRUE, commit |-> FALSE, as |-> "", ref |-> ref]
As(s, name) == [s EXCEPT !.as = name]
WithId(s, id) == [s EXCEPT !.id = id]
Off(s) == [s EXCEPT !.if = FALSE]

Scripts == <<S("from", "a"), S("script", ""), S("executable", "")>>
TwoContainers == <<WithId(S("from", "a"), "build"), S("run", ""), S("from", "scratch"),
                   S("copy-step", "build"), Off(S("copy-local", ""))>>
NamedStage == <<S("from", "a"), As(S("copy-text", ""), "stage"), S("from", "stage"),
                [As(S("set", ""), "layer") EXCEPT !.commit = TRUE], S("set", "nothing"),
                As(S("copy-local", ""), "result")>>
FromImage == <<S("from", "a"), S("copy-image", "b")>>
Switching == <<S("from", "a"), S("from", "b")>>

Steps == {Scripts, TwoContainers, NamedStage, FromImage, Switching}

XBuilds ==
  {Job("buildah", Buildah("xbuild", names, steps), OnArchs(<<"amd64", "amd64v2">>), w) :
     names \in {<<N("untagged", "untagged")>>, <<N("tagged", "none"), N("none", "tagged")>>},
     steps \in Steps, w \in {1, 2}}
  \cup {Job("buildah", Buildah("xbuild", <<>>, steps), OnArchs(<<"armv6", "armv7">>), 2) :
     steps \in {<<Off(S("from", "a"))>>, <<S("", "")>>}}
  \cup {Job("buildah", Buildah("xbuild", <<>>, steps), OnArchs(<<"s390x", "arm64", "x86">>), 2) :
     steps \in {Scripts, Switching}}

(* The manifests have an image of an earlier run for one of the platforms. *)
Old(a) == [platform |-> Platform("linux", a), image |-> <<"id", 0, 1>>]
OldTags == {<<1, <<"v1">>>>, <<2, <<"1.0">>>>, <<2, <<"dev", "dev">>>>, <<2, <<"dev">>>>}

Builds ==
  {[Job("buildah", [Buildah("build", names, <<>>) EXCEPT !.git = git], OnArchs(<<"mips64le", "mips64lesf">>), w)
      EXCEPT !.manifests = [n \in {<<"manifest", t[1], t[2]>> : t \in OldTags} |-> {Old("mips64le")}]] :
     names \in {<<>>, <<N("rendered", "tagged"), N("none", "untagged")>>, <<N("none", "tagged")>>},
     git \in {Git(TRUE, "1.0", ""), Git(FALSE, "", "dev"), Git(TRUE, "", "dev")}, w \in {1, 2}}

(* Two of these have the same platform, in a manifest all of them share.   *)
Alike == [Vectors((2 :> <<"u", "v">>) @@ (Arch :> <<"mips64le">>) @@ (Kernel :> <<"linux">>))
            EXCEPT !.include = <<(Arch :> <<"x86">>) @@ (Kernel :> <<"linux">>)>>]

SamePlatforms ==
  {Job("buildah", Buildah("build", <<N("untagged", "tagged")>>, <<>>), Alike, w) : w \in {1, 2}}

Pushes ==
  {[Job("buildah", Buildah("push", names, <<>>), OnArchs(<<"ppc64v8", "ppc64v8le", "ppc64">>), w)
      EXCEPT !.idFiles = [n \in {<<"image", i, <<"entry", g>>>> : i \in {1, 2}, g \in there} |-> <<"id", 0, 1>>]] :
     names \in {<<N("rendered", "rendered"), N("none", "untagged")>>, <<N("none", "tagged"), N("rendered", "none")>>},
     there \in {1..3, {1, 3}}, w \in {1, 2}}

(***************************************************************************)
(* docker: what is pushed was built in an earlier run                      *)
(***************************************************************************)

Platforms2 == OnArchs(<<"arm64", "armv7">>)
Local(name) == [name EXCEPT !.fqdn = FALSE]

DockerPushes ==
  {[Job("docker", Buildah("docker-push", names, <<>>), Platforms2, w)
      EXCEPT !.tags = [n \in {<<"image", i, <<"entry", g>>>> : i \in {1, 2}, g \in {1, 2}}
                              \cup {<<"image", 1, <<"v1">>>>} |-> <<"id", 0, 1>>],
             !.manifests = old] :
     names \in {<<N("rendered", "tagged")>>, <<N("tagged", "untagged")>>, <<Local(N("untagged", "tagged")), N("none", "tagged")>>},
     w \in {1, 2},
     old \in {<<>>, <<"manifest", 1, <<"v1">>>> :> {[platform |-> NoPlatform, image |-> <<"image", 1, <<"entry", 1>>>>]}}}

DockerBuilds ==
  {Job("docker", Buildah(kind, names, <<>>), Platforms2, 2) :
     kind \in {"docker-build", "docker-push", "docker-login"}, names \in {<<>>, <<N("untagged", "none"), N("none", "tagged")>>}}

(***************************************************************************)
(* golang                                                                  *)
(***************************************************************************)

Go(kind, json, cgo) ==
  [kind |-> kind, packages |-> <<"p", "q">>, tested |-> {"p"}, json |-> json, cgo |-> cgo,
   outputs |-> <<"out", "out2">>, host |-> [kernel |-> "linux", arch |-> "amd64", os |-> "debian"]]

GoJobs ==
  {[Job("golang", t, OnArchs(<<"arm64", "armv5">>), w)
      EXCEPT !.env = e, !.binaries = <<"test", "p">> :> [by |-> 0, env |-> <<>>]] :
     t \in {Go("gobuild", FALSE, TRUE), Go("gotest", TRUE, FALSE)},
     w \in {1, 2}, e \in {<<>>, [GOARCH |-> "386"]}}

(***************************************************************************)
(* cosign                                                                  *)
(***************************************************************************)

Cosign(kind, targets, verify, signing, repo) ==
  [kind |-> kind, targets |-> targets, verify |-> verify, signing |-> signing, repo |-> repo]

K(private, public) == [private |-> private, public |-> public]

CosignJobs ==
  {[Job("cosign", t, Platforms2, w) EXCEPT !.keys = ks, !.keyFiles = old, !.env = e] :
     t \in {Cosign("sign", <<"own", "shared">>, TRUE, FALSE, ""),
            Cosign("sign-image", <<"shared">>, TRUE, FALSE, "repo"),
            Cosign("sign-image", <<"own">>, FALSE, FALSE, "repo"),
            Cosign("upload", <<"own", "own">>, TRUE, TRUE, "repo"),
            Cosign("upload", <<"own">>, TRUE, FALSE, "")},
     ks \in {<<K("k", ""), K("l", "l")>>, <<K("k", "k"), K("k", "")>>, <<K("k", "k"), K("k", "l")>>,
             <<K("k", "k"), K("", "")>>},
     old \in {<<>>, <<"private", "k">> :> TORN, <<"public", "k">> :> PublicKey("l")},
     e \in {<<>>, [COSIGN_REPOSITORY |-> "mine"]}, w \in {1, 2}}

(***************************************************************************)
(* Matrices, with a task of one command                                    *)
(***************************************************************************)

Pt(k, vs) == k :> vs

Matrices ==
  {[vectors |-> v, exclude |-> x, include |-> i] :
     v \in {<<>>, Pt(Arch, <<"s390x", "riscv64">>) @@ Pt(2, <<"u", "v">>),
            Pt(Arch, <<"ppc64le">>) @@ Pt(2, <<>>) @@ Pt(Kernel, <<"linux", "windows">>)},
     x \in {<<>>, <<Pt(Arch, <<"s390x">>) @@ Pt(2, <<"v">>)>>, <<Pt(Kernel, <<"windows">>), Pt(2, <<"u">>)>>},
     i \in {<<>>, <<Pt(Arch, <<"s390x", "mipssf">>) @@ Pt(2, <<"v">>), Pt(Arch, <<"mipssf">>) @@ Pt(2, <<"v">>)>>}}

Is(k, v) == <<k, "=", v>>
Not(k, v) == <<k, "!=", v>>

Filters ==
  {ParseMatrixFilter(m \o g) :
     m \in {<<>>, <<Is(Arch, "s390x"), <<Arch, "">>, Is(Arch, "mipssf")>>,
            <<Is(Arch, "ppc64le"), Is(2, "v"), Is(Arch, "mipssf")>>},
     g \in {<<>>, <<Not(2, "u"), Not(Kernel, "linux")>>}}

Logins ==
  {[Job("buildah", Buildah("login", <<>>, <<>>), m, 2) EXCEPT !.filter = f] :
     m \in Matrices, f \in Filters}
  \cup {Job("buildah", Buildah("login", <<>>, <<>>), OnArchs(<<a>>), 1) : a \in Archs}

MCJobs == {j \in XBuilds \cup Builds \cup SamePlatforms \cup Pushes \cup DockerPushes \cup DockerBuilds \cup GoJobs
                    \cup CosignJobs \cup Logins : EntriesOf(j) # <<>>}

(***************************************************************************)
(* What comments of the code say and the code does not do                  *)
(***************************************************************************)

(* "push all manifests at last" (pkg/tools/buildah/task_push.go:97): when  *)
(* every entry of a push has succeeded, every manifest they name has been  *)
(* pushed.                                                                 *)
AllManifestsPushed ==
  task.kind = "push" /\ (\A g \in Entries : stage[g] = "ok") =>
    \A m \in ManifestNames : \E k \in DOMAIN pushed : pushed[k] = m

(* "PublicKey is the content of public key to verify signed content / if   *)
(* not set, derive from private key" (pkg/tools/cosign/task_sign.go:99):   *)
(* what an entry verifies with is that key, or its private key's.          *)
VerifiedWithKey ==
  \A g \in Entries :
    signTask.kind # "none" /\ KeysAgree(g) /\ At(g, "verify") =>
      keyFiles[PubKeyFile(g)] = Checking(g)

=============================================================================
