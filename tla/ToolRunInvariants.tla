------------------------- MODULE ToolRunInvariants --------------------------
(***************************************************************************)
(* What ToolRunProofs proves of ToolRun on the way to its theorems: the    *)
(* inductive invariant of each, and the predicates it is made of.          *)
(*                                                                         *)
(* EngineInv holds of every task.  The others are of one tool each and     *)
(* begin where its entries begin: an entry that runs has come to a place   *)
(* of a list of specs, and the specs before that place have done what they *)
(* are there for.                                                          *)
(***************************************************************************)
EXTENDS ToolRun

(***************************************************************************)
(* The engine                                                              *)
(***************************************************************************)

(* The nested calls of an entry, the outermost of which ignores no error.  *)
WellFormed(fs) ==
  /\ IsSeq(fs)
  /\ \A i \in DOMAIN fs : "ignore" \in DOMAIN fs[i]
  /\ fs # <<>> => ~fs[1].ignore

ReplaceTyped ==
  /\ DOMAIN replace = Entries
  /\ \A g \in Entries : \A t \in DOMAIN replace[g] :
       DOMAIN replace[g][t] = {"data", "ok"} /\ replace[g][t].ok \in BOOLEAN

Calls ==
  /\ frames = [g \in Entries |-> frames[g]]
  /\ \A g \in Entries : WellFormed(frames[g])

EngineInv == TypeOK /\ Calls

(* What doRun does for a spec.                                             *)
Executed(g) ==
  /\ stage[g] = "running"
  /\ \/ \E data, sub : Succeed(g, data, sub)
     \/ \E data : Fail(g, data)
     \/ NoToolCmd(g)

(* A command or a callback that is not done yet.                           *)
Inside(g) == stage[g] = "running" /\ UNCHANGED execVars

Engine(g) ==
  \/ Start(g) \/ NotGenerated(g)
  \/ \E specs : Generated(g, specs)
  \/ Executed(g) \/ Inside(g)

-----------------------------------------------------------------------------
(***************************************************************************)
(* Sequences joined by FlattenSeq, whose recursive function the provers do *)
(* not unfold: that it exists, and what it has at each step, is shown by   *)
(* the least number for which it would not be so.                          *)
(***************************************************************************)

Joins(seqs, n, f) == f = [i \in 1..n |-> IF i = 1 THEN seqs[i] ELSE f[i - 1] \o seqs[i]]

(* What FlattenSeq makes of sequences: a sequence, with the elements of    *)
(* each, in order, after some offset, and with no others.                  *)
Flattened(seqs, flat, off) ==
  /\ \A i \in 1..Len(seqs) : /\ off[i] \in Nat
                             /\ \A k \in 1..Len(seqs[i]) : /\ off[i] + k \in 1..Len(flat)
                                                           /\ flat[off[i] + k] = seqs[i][k]
  /\ \A p \in 1..Len(flat) : \E i \in 1..Len(seqs) : \E k \in 1..Len(seqs[i]) : p = off[i] + k
  /\ \A i, j \in 1..Len(seqs) : i < j => off[i] + Len(seqs[i]) <= off[j]

-----------------------------------------------------------------------------
(***************************************************************************)
(* An entry whose callbacks return no specs goes through a list            *)
(***************************************************************************)

(* Of the specs of an entry, all executed by one doRun, those before p     *)
(* have been.                                                              *)
AtSpec(g, specs, p) ==
  /\ stage[g] = "running" /\ p \in 1..Len(specs)
  /\ frames[g] = <<[ignore |-> FALSE, todo |-> SubSeq(specs, p, Len(specs))]>>

Through(g, specs, p) == AtSpec(g, specs, p) \/ (stage[g] = "ok" /\ p = Len(specs) + 1)

-----------------------------------------------------------------------------
(***************************************************************************)
(* cosign                                                                  *)
(***************************************************************************)

Publishing == {"public-key", "write-public-key"}
Signs == signTask.kind # "upload" \/ signTask.signing

(* What every spec of the tool is like: only `sign` suggests a variable.   *)
CosignSpec(g, t, s) ==
  /\ s.op \in CosignCommands /\ s.out = NoToken /\ ~s.ignore
  /\ s.env = IF s.op = "sign" THEN RepoEnv ELSE <<>>
  /\ s.op \in {"sign", "verify"} => s.args = <<t>>
  /\ s.op = "public-key" => signMatrix[g].public = ""
  /\ s.op = "write-public-key" => signMatrix[g].public # ""
  /\ s.op \in Publishing \cup {"sign"} => Signs

(* What is verified was signed and its key published before.               *)
Verifiable(specs, p) ==
  specs[p].op = "verify" =>
    /\ \E q \in 1..(p - 1) : specs[q].op = "sign" /\ specs[q].args = specs[p].args
    /\ \E q \in 1..(p - 1) : specs[q].op \in Publishing

Repo(e) == IF "COSIGN_REPOSITORY" \in DOMAIN e THEN e.COSIGN_REPOSITORY ELSE ""

(* What the specs of an entry have achieved, for good: the signature is    *)
(* where the entry will look for it.                                       *)
Signed(g, t) ==
  /\ <<Repo(env[g]), t>> \in DOMAIN signatures
  /\ RepoEnv = <<>> \/ "COSIGN_REPOSITORY" \in DOMAIN env[g]

BeingWritten(g) == \E h \in publishing : PrivateKey(h) = PrivateKey(g)

Published(g) ==
  KeysAgree(g) => /\ PubKeyFile(g) \in DOMAIN keyFiles
                  /\ \/ keyFiles[PubKeyFile(g)] = PublicKey(PrivateKey(g))
                     \/ keyFiles[PubKeyFile(g)] = TORN_PUBLIC /\ BeingWritten(g)

Verified(g, t) ==
  <<g, t>> \in DOMAIN verified /\ (KeysAgree(g) => verified[<<g, t>>] = PrivateKey(g))

Achieved(g, s) ==
  /\ s.op = "sign" => Signed(g, s.args[1])
  /\ s.op \in Publishing => Published(g)
  /\ s.op = "verify" => Verified(g, s.args[1])

Achieving(g, specs, p) == Through(g, specs, p) /\ \A q \in 1..(p - 1) : Achieved(g, specs[q])

CosignEntry(g) ==
  /\ stage[g] \in {"running", "ok"} => \E p : Achieving(g, CosignSpecs(g), p)
  /\ stage[g] = "running" /\ Signs => KeyFile(g) \in DOMAIN keyFiles
  /\ g \in publishing => \/ stage[g] = "failed"
                         \/ stage[g] = "running" /\ Current(g).op \in Publishing

(* The files of private keys, and who has signed what: another entry may   *)
(* have signed the same target since.                                      *)
KeysInOrder ==
  /\ \A k : <<"private", k>> \in DOMAIN keyFiles => keyFiles[<<"private", k>>] \in {k, TORN}
  /\ \A pl \in DOMAIN signatures : \E h \in Entries : \E i \in DOMAIN signTask.targets :
       pl[2] = Target(i, h) /\ signatures[pl].key = PrivateKey(h)

(* No spec keeps its output under a token.                                 *)
NothingKept == DOMAIN env = Entries /\ \A g \in Entries : DOMAIN replace[g] = {}

CosignInv ==
  /\ signTask.targets \in Seq(Range(signTask.targets))
  /\ KeysInOrder /\ NothingKept
  /\ \A g \in Entries : CosignEntry(g)

(* Nothing an entry has achieved is undone.                                *)
Stays(h) ==
  /\ \A t : Signed(h, t) => Signed(h, t)'
  /\ Published(h) => Published(h)'
  /\ \A t : Verified(h, t) => Verified(h, t)'

(* Nothing but the cosign tool touches its keys and signatures.            *)
SignInv == EngineInv /\ (IF job.tool = "cosign" THEN CosignInv ELSE signTask.kind = "none")

-----------------------------------------------------------------------------
(***************************************************************************)
(* With one worker the entries take turns                                  *)
(***************************************************************************)

(* An entry that has been started finds those before it ended.             *)
InTurn == \A g, h \in Entries : h < g /\ stage[g] # "waiting" => stage[h] \in Ended
Counted == Cardinality(ManifestNames)

(* Commands that push, the manifests last and each once.                   *)
PushList(specs) ==
  /\ IsSeq(specs)
  /\ \A q \in DOMAIN specs : /\ specs[q].op \in {"push", "manifest-push"}
                             /\ specs[q].out = NoToken /\ ~specs[q].ignore
  /\ Counted \in 0..Len(specs)
  /\ {Last(specs[Len(specs) - Counted + q].args) : q \in 1..Counted} = ManifestNames

(* Of several manifests of one name the last to be named is left.          *)
ByName(ms) == IsFiniteSet(ms) /\ \A m, n \in ms : m.name = n.name => m = n
PushTask == job.tool = "buildah" /\ task.kind = "push"
Begun == {h \in Entries : stage[h] \in {"running", "ok"}}
NoneFailed == \A h \in Entries : stage[h] # "failed"
NamesOf(G) == {ManifestName(i, h) : i \in Named("manifest"), h \in G}

(* The cache, until the last entry takes what is in it.                    *)
Collected == ByName(mcache) /\ {m.name : m \in mcache} = NamesOf(Begun)

(* What was pushed last is what the last entry has come to push.           *)
PushedUpTo(specs, p) ==
  /\ p - 1 <= Len(pushed)
  /\ \A q \in 1..(p - 1) : pushed[Len(pushed) - (p - 1) + q] = Last(specs[q].args)

LastPushes ==
  mcache = {} /\ \E specs, p : PushList(specs) /\ Through(count, specs, p) /\ PushedUpTo(specs, p)

PushesInTurn ==
  /\ InTurn /\ IsSeq(pushed)
  /\ NoneFailed => IF count \in Begun THEN LastPushes ELSE Collected

PushInv ==
  /\ EngineInv /\ IsSeq(task.names)
  /\ job.tool \notin {"buildah", "docker"} => task.kind = "none"
  /\ job.tool = "docker" /\ task.kind = "push" => Begun = {}
  /\ PushTask /\ workers = 1 => PushesInTurn

-----------------------------------------------------------------------------
(***************************************************************************)
(* Calls one in the other                                                  *)
(***************************************************************************)

(* The calls of an entry whose specs are of a set.                         *)
CallsOf(S) == Seq([ignore : BOOLEAN, todo : Seq(S)])
NoneIgnores(fs) == \A i \in DOMAIN fs : ~fs[i].ignore
Todo(fs, i) == IF i \in DOMAIN fs THEN fs[i].todo ELSE <<>>

(* The specs left to the entry are those it had without the first of the   *)
(* innermost call, and then what a callback returned.                      *)
Stepped(g, S, sub) ==
  /\ frames'[g] \in CallsOf(S) /\ NoneIgnores(frames'[g])
  /\ stage'[g] = "running" \/ (stage'[g] = "ok" /\ frames'[g] = <<>>)
  /\ \A i \in Nat : Todo(frames'[g], i) = IF i < Len(frames[g]) THEN Todo(frames[g], i)
                                          ELSE IF i = Len(frames[g]) THEN Tail(Todo(frames[g], i))
                                          ELSE IF i = Len(frames[g]) + 1 THEN sub ELSE <<>>

-----------------------------------------------------------------------------
(***************************************************************************)
(* go test                                                                 *)
(***************************************************************************)

ListOps == {"list-module", "list-packages", "plan"}
PackageOps == {"remove-binary", "compile", "chmod", "plan-run"}
TestOps == {"run-test", "plan-json", "test2json", "write-json"}

(* What a spec for a package is like, and one that comes with its test.    *)
PackageSpec(g, s, p) ==
  /\ s.op \in PackageOps /\ s.args = <<p>> /\ s.ignore = (s.op = "chmod")
  /\ s.env = IF s.op = "compile" THEN BuildEnv(g) ELSE <<>>
  /\ s.out = IF s.op = "compile" THEN COMPILE(p) ELSE NoToken

TestSpec(s, p) ==
  /\ s.op \in TestOps /\ s.ignore = FALSE /\ s.env = <<>> /\ s.out \in {NoToken, RESULT(p), JSON(p)}
  /\ s.op \in {"run-test", "plan-json"} => s.args = <<p>>

(* What GetExecSpecs returns.                                              *)
ListSpec(s) ==
  /\ s.op \in ListOps /\ s.ignore = (s.op = "list-packages") /\ s.env = <<>>
  /\ s.out = IF s.op = "list-module" THEN MODULE_NAME ELSE IF s.op = "list-packages" THEN PACKAGES ELSE NoToken

Packages == Range(goTask.packages)

(* All specs an entry may have.                                            *)
GoSpecs(g) ==
  Range(GoTestSpecs)
    \cup (UNION {Range(CompileSpecs(g, p)) : p \in Packages})
    \cup (UNION {Range(RunSpecsOf(p)) : p \in Packages})
    \cup (UNION {Range(TestSpecs(p)) : p \in Packages})
    \cup (UNION {Range(JsonSpecs(p)) : p \in Packages})

PackagesGiven == goTask.packages \in Seq(Packages) /\ goTask.tested \subseteq Packages

(* The specs for the packages: what is removed is compiled next, what is   *)
(* run was compiled, and every package is run.                             *)
PackageList(g, P) ==
  /\ \A r \in 1..Len(P) : \E p \in Packages : PackageSpec(g, P[r], p)
  /\ \A r \in 1..Len(P) : P[r].op = "remove-binary" =>
       r + 1 \in 1..Len(P) /\ P[r + 1].op = "compile" /\ P[r + 1].args = P[r].args
  /\ \A r \in 1..Len(P) : P[r].op = "plan-run" =>
       \E s \in 1..(r - 1) : P[s].op = "compile" /\ P[s].args = P[r].args
  /\ \A p \in Packages : \E r \in 1..Len(P) : P[r].op = "plan-run" /\ P[r].args = <<p>>

(* A compiled test of the entry's own, for the platform that is wanted.    *)
WantedArch(g) == IF "GOARCH" \in DOMAIN job.env THEN job.env.GOARCH ELSE GoArch(goMatrix[g].arch)

EnvRight(g, e) ==
  /\ "GOARCH" \in DOMAIN job.env => "GOARCH" \in DOMAIN e
  /\ "GOARCH" \in DOMAIN e => e.GOARCH = WantedArch(g)

OwnTest(g, x) == x.by = g /\ "GOARCH" \in DOMAIN x.env /\ EnvRight(g, x.env)

Made(g, p) ==
  p \in goTask.tested => TestPath(p) \in DOMAIN binaries /\ OwnTest(g, binaries[TestPath(p)])

Tested(g, p) == p \in goTask.tested => <<g, p>> \in DOMAIN ran

(* Where an entry is: it lists the packages, or has come to the spec q of  *)
(* those for the packages, or to what a `plan-run` before it has added.    *)
Listing(g, k) ==
  /\ k \in 1..4
  /\ Todo(frames[g], 1) = SubSeq(GoTestSpecs, k, 3)
  /\ \A i \in Nat : i > 1 => Todo(frames[g], i) = <<>>

Testing(P, q, s) ==
  q > 1 /\ P[q - 1].op = "plan-run" /\ \E p \in Packages : P[q - 1].args = <<p>> /\ TestSpec(s, p)

Packaged(g, P, q) ==
  /\ q \in 1..(Len(P) + 1)
  /\ Todo(frames[g], 1) = <<>> /\ Todo(frames[g], 2) = SubSeq(P, q, Len(P))
  /\ \A i \in Nat : i > 2 =>
       \A k \in 1..Len(Todo(frames[g], i)) : Testing(P, q, Todo(frames[g], i)[k])

(* A test is still to be run.                                              *)
Pending(g) ==
  \E i \in Nat : i > 2 /\ \E k \in 1..Len(Todo(frames[g], i)) : Todo(frames[g], i)[k].op = "run-test"

Outer(g, P, q) ==
  /\ Len(frames[g]) = 2 /\ q \in 1..Len(P) /\ Current(g) = P[q]
  /\ Tail(Todo(frames[g], 2)) = SubSeq(P, q + 1, Len(P))
  /\ \A i \in Nat : i > 2 => Todo(frames[g], i) = <<>>

Inner(g, P, q) ==
  Len(frames[g]) \in Nat /\ Len(frames[g]) > 2 /\ Testing(P, q, Current(g))

(* What an entry has kept of a package with tests is no report that it has *)
(* none, and what it has run it has compiled.                              *)
Kept(g) ==
  \A p \in goTask.tested :
    COMPILE(p) \in DOMAIN replace[g] => replace[g][COMPILE(p)].data # <<"no test files">>

NoneRun(g) == \A p : <<g, p>> \notin DOMAIN ran

RanOwn(g) ==
  workers = 1 => \A p \in goTask.tested : <<g, p>> \in DOMAIN ran => OwnTest(g, ran[<<g, p>>])

(* Of the specs before q those that run a test have, but for the one that  *)
(* is at it, and those that compile one have, but for what is to be        *)
(* compiled again.                                                         *)
AllTested(g, P, q) ==
  \A r \in 1..(q - 1) : P[r].op = "plan-run" => Tested(g, P[r].args[1]) \/ (r = q - 1 /\ Pending(g))

AllMade(g, P, q) ==
  \A r \in 1..(q - 1) : P[r].op = "compile" =>
    Made(g, P[r].args[1]) \/ (P[q - 1].op = "remove-binary" /\ P[q - 1].args = P[r].args)

Listed(g, k) ==
  /\ Listing(g, k) /\ NoneRun(g)
  /\ k > 2 => PACKAGES \in DOMAIN replace[g]
  /\ k = 4 => ~replace[g][PACKAGES].ok

Tests(g, P, q) ==
  /\ Packaged(g, P, q) /\ PACKAGES \in DOMAIN replace[g] /\ replace[g][PACKAGES].ok
  /\ AllTested(g, P, q)
  /\ workers = 1 /\ stage[g] = "running" => AllMade(g, P, q)

GoTestEntry(g) ==
  /\ EnvRight(g, env[g])
  /\ stage[g] \in {"waiting", "started"} => NoneRun(g) /\ DOMAIN replace[g] = {}
  /\ stage[g] \in {"running", "ok"} =>
       /\ frames[g] \in CallsOf(GoSpecs(g)) /\ NoneIgnores(frames[g])
       /\ Kept(g) /\ RanOwn(g)
       /\ (\E k : Listed(g, k)) \/ \E q : Tests(g, PackageSpecs(g), q)

GoTestInv == PackagesGiven /\ DOMAIN env = Entries /\ \A g \in Entries : GoTestEntry(g)

(* A spec that succeeds, or fails and may.                                 *)
Moves(g, data, sub) ==
  Succeed(g, data, sub) \/ (Fail(g, data) /\ Current(g).ignore /\ sub = <<>>)

(* What an entry may have come to.                                         *)
GoSpec(g, s) ==
  ListSpec(s) \/ \E p \in Packages : PackageSpec(g, s, p) \/ TestSpec(s, p)

TestInv == EngineInv /\ (goTask.kind = "gotest" => job.tool = "golang" /\ GoTestInv)

-----------------------------------------------------------------------------
(***************************************************************************)
(* The specs of a task of buildah, and the place of an entry in them       *)
(***************************************************************************)

(* Of the specs of an entry those before p have been executed, and `sub`   *)
(* are left of what the callback of the last of them returned.             *)
ComesTo(g, specs, p, sub) ==
  /\ p \in 1..(Len(specs) + 1)
  /\ (\E S : frames[g] \in CallsOf(S)) /\ NoneIgnores(frames[g])
  /\ Todo(frames[g], 1) = SubSeq(specs, p, Len(specs)) /\ Todo(frames[g], 2) = sub
  /\ \A i \in Nat : i > 2 => Todo(frames[g], i) = <<>>

(* The spec come to is the next of the list, or of those returned.         *)
Here(g, specs, p, sub) ==
  \/ Len(frames[g]) = 1 /\ sub = <<>> /\ p \in 1..Len(specs) /\ Current(g) = specs[p]
  \/ Len(frames[g]) = 2 /\ sub # <<>> /\ Current(g) = sub[1]

(* Or it has ended well, with none left.                                   *)
Placed(g, specs, p, sub) ==
  \/ stage[g] = "running" /\ ComesTo(g, specs, p, sub)
  \/ stage[g] = "ok" /\ p = Len(specs) + 1 /\ sub = <<>>

(* The tokens in a command are of a set.                                   *)
Uses(x, W) == \A a \in DOMAIN x.args : IsToken(x.args[a]) => x.args[a] \in W

(* What the specs before one keep, and what there is without them.         *)
Known(l, k, W) == W \cup {l[r].out : r \in 1..(k - 1)}

(* What the specs of a step other than `from` do.                          *)
GenOps == {"pull", "run", "copy-in", "copy", "write-file", "redact-file", "write-redacted"}

(* A spec of a step other than one that makes, finds, keeps or commits a   *)
(* container.                                                              *)
PlainSpec(x) ==
  /\ x.ignore \in BOOLEAN /\ (x.ignore => x.out = COPY_IMAGE)
  /\ \/ x.op \in {"run", "copy-in", "copy"} /\ x.out = NoToken
     \/ x.op = "pull" /\ x.out \in {FROM_REF, COPY_IMAGE} /\ \E n : x.args = <<<<"name", n>>>>
     \/ x.op \in {"write-file", "redact-file", "write-redacted"} /\ x.out \in {SRC, REDACTED}

(* A list of such specs, that needs the tokens W.                          *)
PlainList(l, W) ==
  /\ IsSeq(l) /\ Len(l) \in Nat
  /\ \A k \in 1..Len(l) : PlainSpec(l[k]) /\ Uses(l[k], Known(l, k, W))

(* The tokens a step needs.                                                *)
StepTokens(i) == {CURRENT} \cup {t \in {STEP(<<"id", task.steps[i].ref>>)} : task.steps[i].do = "copy-step"}

(* The spec that keeps the container of a step.                            *)
KeepSpec(i, x) ==
  /\ x.op = "keep-current" /\ x.args = <<>> /\ x.out = STEP(StepID(i)) /\ ~x.ignore /\ x.ignore \in BOOLEAN

(* A spec that commits it.                                                 *)
CommitSpec(x) ==
  /\ x.op \in {"commit", "commit-final"} /\ x.out = NoToken /\ ~x.ignore /\ x.ignore \in BOOLEAN

(* A `from` makes a container, is asked for its id, and it is kept.        *)
MakesContainer(b, f, i) ==
  /\ b[f].op = "from" /\ b[f].out = CTR_NAME /\ ~b[f].ignore /\ b[f].ignore \in BOOLEAN
  /\ b[f + 1].op = "inspect-container" /\ b[f + 1].args = <<CTR_NAME>> /\ b[f + 1].out = CURRENT
  /\ ~b[f + 1].ignore /\ b[f + 1].ignore \in BOOLEAN
  /\ KeepSpec(i, b[f + 2])

(* The specs of a step: it keeps the container it works in, and once more  *)
(* after a `from`, its f'th spec.                                          *)
StepBlock(i, b, f) ==
  /\ IsSeq(b) /\ Len(b) \in Nat /\ 1 <= Len(b) /\ f \in {2, 3}
  /\ KeepSpec(i, b[1])
  /\ task.steps[i].do = "from" =>
       f + 2 <= Len(b) /\ MakesContainer(b, f, i) /\ \A k \in 1..f : Uses(b[k], {FROM_REF})
  /\ \A k \in 2..Len(b) : task.steps[i].do # "from" \/ k \notin {f, f + 1, f + 2} =>
       PlainSpec(b[k]) \/ CommitSpec(b[k])
  /\ IsLastStep(i) => b[Len(b)].op = "commit-final"
  /\ \A k \in 1..Len(b) :
       Uses(b[k], Known(b, k, IF task.steps[i].do = "from" THEN {} ELSE StepTokens(i)))

(* What a list is of.                                                      *)
Elements(s) == {s[i] : i \in DOMAIN s}

(* The specs of a manifest, when it is made, looked at, updated and shown. *)
CreateSpec(g, i, x) ==
  x.op = "manifest-create" /\ x.args = <<ManifestName(i, g)>> /\ x.out = NoToken /\ x.ignore /\ x.ignore \in BOOLEAN

LookSpec(g, i, x) ==
  x.op = "manifest-inspect" /\ x.args = <<ManifestName(i, g)>> /\ x.out = MANIFEST_SPEC /\ x.ignore /\ x.ignore \in BOOLEAN

UpdateSpec(g, i, x) ==
  x.op = "manifest-update" /\ x.args = <<ManifestName(i, g)>> /\ x.out = NoToken /\ ~x.ignore /\ x.ignore \in BOOLEAN

ShowSpec(g, i, x) ==
  x.op = "manifest-inspect" /\ x.args = <<ManifestName(i, g)>> /\ x.out = NoToken /\ ~x.ignore /\ x.ignore \in BOOLEAN

ManifestSpec(g, i, x) == CreateSpec(g, i, x) \/ LookSpec(g, i, x) \/ UpdateSpec(g, i, x) \/ ShowSpec(g, i, x)

(* In a list those of the target i come after at[i].                       *)
ManifestsAt(g, l, at) ==
  /\ \A i \in Named("manifest") :
       /\ at[i] \in Nat /\ at[i] + 3 <= Len(l)
       /\ CreateSpec(g, i, l[at[i] + 1]) /\ LookSpec(g, i, l[at[i] + 2]) /\ UpdateSpec(g, i, l[at[i] + 3])
  /\ \A i, j \in Named("manifest") : i < j => at[i] + 3 <= at[j]

(* And from p on there are no others.                                      *)
ManifestsOnly(g, l, at, p) ==
  \A q \in p..Len(l) : \E i \in Named("manifest") :
    \/ q \in {at[i] + 1, at[i] + 2, at[i] + 3}
    \/ at[i] + 4 <= q /\ ShowSpec(g, i, l[q])

(* The steps that have specs.                                              *)
Unskipped == {i \in DOMAIN task.steps : ~Skipped(task.steps[i])}

(* Of a list, those up to D are of the steps, one after the other, those   *)
(* of i after off[i].                                                      *)
StepsAt(g, l, off, D) ==
  /\ \A i \in Unskipped :
       /\ off[i] \in Nat /\ off[i] + Len(StepSpecs(g, i)) < D
       /\ \A k \in 1..Len(StepSpecs(g, i)) : l[off[i] + k] = StepSpecs(g, i)[k]
  /\ \A p \in 1..(D - 1) : \E i \in Unskipped : \E k \in 1..Len(StepSpecs(g, i)) : p = off[i] + k
  /\ \A i, j \in Unskipped : i < j => off[i] + Len(StepSpecs(g, i)) <= off[j]

(* The list of an xbuild: its steps, the removal of its containers, its    *)
(* image id, its names and, from M on, its manifests.                      *)
XBuildList(g, l, off, D, M, at) ==
  /\ IsSeq(l) /\ Len(l) \in Nat /\ D \in Nat \ {0} /\ M \in Nat /\ D + 2 <= M /\ M <= Len(l) + 1
  /\ StepsAt(g, l, off, D)
  /\ l[D] = Cmd("delete-containers", <<>>) /\ l[D + 1] = CmdInto("read-iidfile", <<>>, IMAGE_ID)
  /\ \A q \in (D + 2)..(M - 1) :
       \E k \in DOMAIN RealImageNames(g) : l[q] = Cmd("tag", <<IMAGE_ID, RealImageNames(g)[k]>>)
  /\ ManifestsAt(g, l, at) /\ ManifestsOnly(g, l, at, M)
  /\ \A i \in Named("manifest") : M <= at[i] + 1

(* Steps and names are lists.                                              *)
StepsTyped == IsSeq(task.steps) /\ IsSeq(task.names)

(* GetExecSpecs knows what each step does.                                 *)
KindsKnown == \A i \in DOMAIN task.steps : Skipped(task.steps[i]) \/ task.steps[i].do \in Kinds

(* The steps of an xbuild that are not skipped have ids of their own.      *)
DistinctIDs == \A i, j \in Unskipped : StepID(i) = StepID(j) => i = j

(* What the specs of the steps do.                                         *)
StepOps == GenOps \cup {"keep-current", "from", "inspect-container", "commit", "commit-final"}

(* What they are kept under, their container's token aside.                *)
StepOuts == {NoToken, FROM_REF, COPY_IMAGE, SRC, REDACTED, CTR_NAME, CURRENT}

(* What the specs after the steps do.                                      *)
TailOps == {"delete-containers", "read-iidfile", "tag", "manifest-create", "manifest-inspect", "manifest-update"}

(* A spec that comes after the steps.                                      *)
TailSpec(x) ==
  /\ x.op \in TailOps /\ x.ignore \in BOOLEAN
  /\ x.op \notin {"manifest-create", "manifest-inspect"} => ~x.ignore
  /\ x.out \in {NoToken, IMAGE_ID} \/ (x.out = MANIFEST_SPEC /\ x.op = "manifest-inspect")

(* A container that a spec of a list makes is found, kept for a step whose *)
(* token nothing later is kept under, and removed with the others later.   *)
KeptFrom(l, q) ==
  /\ \E i \in Unskipped : MakesContainer(l, q, i) /\ \A r \in (q + 3)..Len(l) : l[r].out # STEP(StepID(i))
  /\ \E D \in (q + 3)..Len(l) : l[D].op = "delete-containers"

(* A spec's output is kept under a token.                                  *)
OutSpec(x) ==
  /\ x.out \in Tokens \cup {NoToken} \/ \E id : x.out = STEP(id)
  /\ x.out = MANIFEST_SPEC => x.op = "manifest-inspect"

(* A spec GetExecSpecs generates, as far as containers go.                 *)
CtrSpec(x) ==
  /\ x.op # "rm" /\ x.ignore \in BOOLEAN
  /\ x.op \in {"delete-containers", "manifest-update"} => ~x.ignore
  /\ OutSpec(x)

(* A list of such, in which each container is taken care of.               *)
CtrList(l) ==
  /\ IsSeq(l)
  /\ \A q \in 1..Len(l) : CtrSpec(l[q]) /\ (l[q].op = "from" => KeptFrom(l, q))

(* A list that makes no container.                                         *)
NoCtrSpec(x) == CtrSpec(x) /\ x.op # "from"

(* A spec of `push`.                                                       *)
PushSpec(x) == x.op \in {"push", "manifest-push"} /\ x.out = NoToken /\ ~x.ignore /\ x.ignore \in BOOLEAN

-----------------------------------------------------------------------------
(***************************************************************************)
(* The containers of an xbuild, and what a token is replaced by            *)
(***************************************************************************)

(* DeleteContainers goes through the steps from the last on; what it keeps *)
(* of the k'th.                                                            *)
Keeps(g, k) == replace[g][STEP(StepID(Len(task.steps) + 1 - k))].data

(* And those it has seen after k of them.                                  *)
Sees(g, n, f) ==
  f = [k \in 0..n |-> IF k = 0 THEN <<>>
                      ELSE IF Skipped(task.steps[Len(task.steps) + 1 - k]) \/ Contains(f[k - 1], Keeps(g, k))
                           THEN f[k - 1] ELSE Append(f[k - 1], Keeps(g, k))]

(* A spec a callback of buildah returns.                                   *)
SubSpec(x) ==
  /\ x.op \in {"rm", "manifest-create", "manifest-add", "manifest-remove"}
  /\ x.out = NoToken /\ ~x.ignore /\ x.ignore \in BOOLEAN

(* A list of such specs.                                                   *)
SubList(s) == IsSeq(s) /\ \A k \in 1..Len(s) : SubSpec(s[k])

(* A container is known, at p of a list, as the one of a step whose token  *)
(* is not kept under again, or the one just made.                          *)
Remembered(g, l, p, c) ==
  \/ \E i \in Unskipped :
       /\ STEP(StepID(i)) \in DOMAIN replace[g] /\ replace[g][STEP(StepID(i))].data = c
       /\ \A r \in p..Len(l) : l[r].out # STEP(StepID(i))
  \/ /\ p > 1 /\ l[p - 1].op = "from"
     /\ CTR_NAME \in DOMAIN replace[g] /\ replace[g][CTR_NAME].data = <<"name", c>>
  \/ /\ p > 2 /\ l[p - 2].op = "from"
     /\ CURRENT \in DOMAIN replace[g] /\ replace[g][CURRENT].data = c

(* So it will be removed.                                                  *)
Removable(g, l, p, sub, c) ==
  \/ \E k \in 1..Len(sub) : sub[k].op = "rm" /\ sub[k].args = <<c>>
  \/ (\E D \in p..Len(l) : l[D].op = "delete-containers") /\ Remembered(g, l, p, c)

(* The place of an entry in its list, from where it can remove each.       *)
CtrsKept(g, l, p, sub) ==
  /\ CtrList(l) /\ SubList(sub) /\ Placed(g, l, p, sub)
  /\ \A c \in DOMAIN ctrs : c[2] = g => Removable(g, l, p, sub, c)

(* What an entry has kept is under tokens, a manifest it looked at is      *)
(* finite.                                                                 *)
KeptRight(g) ==
  /\ \A t \in DOMAIN replace[g] : IsToken(t)
  /\ MANIFEST_SPEC \in DOMAIN replace[g] =>
       replace[g][MANIFEST_SPEC].data = Empty \/ IsFiniteSet(replace[g][MANIFEST_SPEC].data[2])

(* An entry has made nothing yet, or can remove what it made.              *)
CtrEntry(g) ==
  /\ stage[g] \in {"waiting", "started"} => DOMAIN replace[g] = {} /\ \A c \in DOMAIN ctrs : c[2] # g
  /\ stage[g] \in {"running", "ok"} => KeptRight(g) /\ \E l, p, sub : CtrsKept(g, l, p, sub)

(* What all entries share.                                                 *)
Host ==
  /\ StepsTyped /\ IsFiniteSet(mcache)
  /\ \A n \in DOMAIN manifests : IsFiniteSet(manifests[n])
  /\ \A c \in DOMAIN ctrs : \E h, k : c = <<"container", h, k>>

(* The inductive invariant: while an entry runs, every container it made   *)
(* is in the tokens its removal will read.                                 *)
CtrInv == Host /\ \A g \in Entries : CtrEntry(g)

(* A step that fails.                                                      *)
Fails(g) == NoToolCmd(g) \/ (~Current(g).ignore /\ \E data : Fail(g, data))

(* What a spec that does not fail does to containers, and the specs it     *)
(* returns.                                                                *)
CtrMove(g, data, new) ==
  LET op == Current(g).op
  IN /\ Moves(g, data, new) /\ SubList(new) /\ (Current(g).ignore => new = <<>>)
     /\ new # <<>> => op \in {"delete-containers", "manifest-update"}
     /\ op = "from" => \E n : /\ data = <<"name", <<"container", g, n>>>>
                              /\ DOMAIN ctrs' = DOMAIN ctrs \cup {<<"container", g, n>>}
     /\ op # "from" => DOMAIN ctrs' \subseteq DOMAIN ctrs
     /\ op = "rm" => Arg(g, 1) \notin DOMAIN ctrs'
     /\ op = "inspect-container" => Current(g).ignore \/ data = Arg(g, 1)[2]
     /\ op = "keep-current" => data = IF CURRENT \in DOMAIN replace[g] THEN replace[g][CURRENT].data ELSE Empty
     /\ op = "delete-containers" =>
          \A i \in Unskipped : /\ STEP(StepID(i)) \in DOMAIN replace[g]
                               /\ \E k \in 1..Len(new) : /\ new[k].op = "rm"
                                                         /\ new[k].args = <<replace[g][STEP(StepID(i))].data>>
     /\ op = "manifest-inspect" => data = Empty \/ IsFiniteSet(data[2])

(* No container without buildah, and with it each is removed.              *)
RemovedInv ==
  /\ EngineInv
  /\ job.tool = "buildah" /\ DistinctIDs => CtrInv
  /\ job.tool # "buildah" => DOMAIN ctrs = {}

(* A task that starts with a container, and copies from earlier ones only. *)
StartsFrom ==
  task.kind = "xbuild" => \E i \in Unskipped : task.steps[i].do = "from" /\ \A j \in Unskipped : i <= j

EarlierSteps ==
  \A i \in Unskipped : task.steps[i].do = "copy-step" =>
    \E j \in Unskipped : j < i /\ StepID(j) = <<"id", task.steps[i].ref>>

(* What a spec of buildah does, and what it keeps its output under.        *)
QuietOps == {"run", "copy-in", "copy", "commit", "commit-final", "delete-containers", "tag", "manifest-create",
             "manifest-inspect", "manifest-update", "bud", "push", "manifest-push", "login"}

Outputs(x) ==
  \/ x.out = NoToken /\ x.op \in QuietOps
  \/ x.op = "pull" /\ x.out \in {FROM_REF, COPY_IMAGE} /\ \E n : x.args = <<<<"name", n>>>>
  \/ x.op = "from" /\ x.out = CTR_NAME
  \/ x.op = "inspect-container" /\ x.args = <<CTR_NAME>> /\ x.out = CURRENT
  \/ x.op = "keep-current" /\ x.args = <<>> /\ \E id : x.out = STEP(id)
  \/ x.op \in {"write-file", "redact-file", "write-redacted"} /\ x.out \in {SRC, REDACTED}
  \/ x.op = "read-iidfile" /\ x.out = IMAGE_ID
  \/ x.op = "inspect-image" /\ x.out = DIGEST
  \/ x.op = "manifest-inspect" /\ x.out = MANIFEST_SPEC

SetSpec(x) ==
  /\ Outputs(x) /\ x.ignore \in BOOLEAN
  /\ x.ignore => x.op \in {"manifest-create", "manifest-inspect"} \/ x.out = COPY_IMAGE
  /\ x.op \in {"manifest-inspect", "manifest-update"} => \E i, g : x.args = <<ManifestName(i, g)>>

(* What `manifest inspect` gave is not for a command.                      *)
NoSpecUsed(x) == \A a \in DOMAIN x.args : x.args[a] # MANIFEST_SPEC

(* At q of a list a token can be used: something before keeps one, an      *)
(* image is there before its id is read, which is before manifests are     *)
(* updated, and there is a container but at the very first.                *)
SetAt(l, q, F) ==
  LET before == Known(l, q, {})
  IN /\ SetSpec(l[q]) /\ Uses(l[q], before) /\ NoSpecUsed(l[q])
     /\ l[q].op = "read-iidfile" => \E r \in 1..(q - 1) : l[r].op \in {"commit-final", "bud"}
     /\ l[q].op = "manifest-update" => IMAGE_ID \in before
     /\ l[q].op = "keep-current" => (q = 1 /\ F # 0) \/ CURRENT \in before

(* Before the F'th spec what the first kept is not used, and the F'th      *)
(* keeps it again.                                                         *)
SetList(l, F) ==
  /\ IsSeq(l) /\ Len(l) \in Nat
  /\ \A q \in 1..Len(l) : SetAt(l, q, F)
  /\ F = 0 \/ (F \in 2..Len(l) /\ l[F].op = "keep-current" /\ l[F].out = l[1].out /\ \E id : l[1].out = STEP(id))
  /\ \A q \in 1..F : Uses(l[q], {FROM_REF, CTR_NAME})

(* The images of a manifest are finitely many, and no tokens.              *)
ImagesPlain(S) == IsFiniteSet(S) /\ \A m \in S : ~IsToken(m.image)

(* What a token is replaced by is something, and where it may come back as *)
(* part of a command no token; the image a copy is made from and what a    *)
(* manifest had may be nothing, as may be, up to a point, the `unset` one. *)
DataSet(t, d, unset) ==
  /\ IsToken(t)
  /\ t \notin {COPY_IMAGE, MANIFEST_SPEC} => d # Empty \/ t = unset
  /\ t = CTR_NAME => \E h, k : d = <<"name", <<"container", h, k>>>>
  /\ t \in {CURRENT, IMAGE_ID} \/ (\E id : t = STEP(id)) => ~IsToken(d)
  /\ t = MANIFEST_SPEC => d = Empty \/ ImagesPlain(d[2])

(* A spec a callback returns uses no token but the image id.               *)
SubSet(g, x) ==
  /\ SubSpec(x) /\ Uses(x, {IMAGE_ID} \cap DOMAIN replace[g])
  /\ x.op = "manifest-add" => IMAGE_ID \in DOMAIN replace[g] /\ x.args[2] = IMAGE_ID

SubsSet(g, s) == IsSeq(s) /\ \A k \in 1..Len(s) : SubSet(g, s[k])

(* What all entries of a task of buildah share.                            *)
SetHost ==
  /\ StepsTyped /\ IsFiniteSet(mcache) /\ \A m \in mcache : ~IsToken(m.name)
  /\ \A n \in DOMAIN tags : tags[n] # Empty
  /\ \A i \in DOMAIN images : \E h, k : i = <<"id", h, k>>
  /\ \A n \in DOMAIN idFiles : ~IsToken(idFiles[n])
  /\ DOMAIN iid = Entries /\ \A h \in Entries : iid[h] = Empty \/ \E i, k : iid[h] = <<"id", i, k>>
  /\ \A n \in DOMAIN manifests : ImagesPlain(manifests[n])

(* What an entry has kept when it comes to a spec, and what that spec is.  *)
ReadySet(g, unset, first) ==
  LET x == Current(g)
  IN /\ \A t \in DOMAIN replace[g] : DataSet(t, replace[g][t].data, unset)
     /\ SetSpec(x) \/ SubSet(g, x)
     /\ Uses(x, DOMAIN replace[g])
     /\ x.op = "read-iidfile" => iid[g] # Empty
     /\ x.op = "manifest-update" => IMAGE_ID \in DOMAIN replace[g]
     /\ x.op = "keep-current" => first \/ (CURRENT \in DOMAIN replace[g] /\ unset # CURRENT)

(* What a spec that does not fail keeps and returns.                       *)
SetMove(g, data, new, first) ==
  LET x == Current(g)
  IN /\ Moves(g, data, new) /\ SubsSet(g, new) /\ (x.ignore => new = <<>>)
     /\ x.out # NoToken => DataSet(x.out, data, IF first THEN x.out ELSE NoToken)
     /\ x.op \in {"commit-final", "bud"} => iid'[g] # Empty
     /\ new # <<>> => x.out = NoToken /\ x.op \in {"delete-containers", "manifest-update"}

(* The parts of it a step may change, as the step leaves them.             *)
TagsSet == \A n \in DOMAIN tags : tags[n] # Empty
IdsSet == \A i \in DOMAIN images : \E h, k : i = <<"id", h, k>>
FilesSet == \A n \in DOMAIN idFiles : ~IsToken(idFiles[n])
ManifestsSet == \A n \in DOMAIN manifests : ImagesPlain(manifests[n])

(* The --iidfile of an entry is its own, and not emptied by a command.     *)
IidsMade(g) == iid' = iid \/ \E n : iid' = [iid EXCEPT ![g] = <<"id", g, n>>]

(* What may be kept, empty, under the token of the first container.        *)
UnsetAt(l, F, p) == IF p <= F THEN l[1].out ELSE NoToken

(* The place of an entry in its list, whose specs so far have kept what    *)
(* those to come use.                                                      *)
SetKept(g, l, F, p, sub) ==
  /\ SetList(l, F) /\ SubsSet(g, sub) /\ Placed(g, l, p, sub)
  /\ \A q \in 1..(p - 1) : l[q].out # NoToken => l[q].out \in DOMAIN replace[g]
  /\ \A t \in DOMAIN replace[g] : DataSet(t, replace[g][t].data, UnsetAt(l, F, p))
  /\ (\E q \in 1..(p - 1) : l[q].op \in {"commit-final", "bud"}) => iid[g] # Empty

(* Where each entry is.                                                    *)
SetEntry(g) ==
  /\ stage[g] \in {"waiting", "started"} => DOMAIN replace[g] = {}
  /\ stage[g] = "running" => \E l, F, p, sub : SetKept(g, l, F, p, sub)

(* The invariant.                                                          *)
SetInv == SetHost /\ \A g \in Entries : SetEntry(g)

(* With a task that starts with a container and copies from earlier ones.  *)
PlaceholdersInv == EngineInv /\ (job.tool = "buildah" /\ StartsFrom /\ EarlierSteps => SetInv)

-----------------------------------------------------------------------------
(***************************************************************************)
(* The manifests of an xbuild or a build                                   *)
(***************************************************************************)

Building == task.kind \in {"xbuild", "build"}

(* An image an entry of this run made is for its platform.                 *)
Fits(img, p) == \A h \in Entries : \A k : img = <<"id", h, k>> => PlatformOf(h) = p

ImagesRight(S) == IsFiniteSet(S) /\ \A m \in S : ~IsToken(m.image) /\ Fits(m.image, m.platform)

(* A spec that comes before those of the manifests.                        *)
HeadOps == StepOps \cup {"delete-containers", "read-iidfile", "tag", "bud", "inspect-image"}

HeadSpec(x) ==
  /\ x.op \in HeadOps /\ x.ignore \in BOOLEAN /\ (x.op \in {"delete-containers", "read-iidfile"} => ~x.ignore)
  /\ x.out = NoToken \/ (IsToken(x.out) /\ x.out # MANIFEST_SPEC)

(* A list whose image is made and then read, by its R'th spec, and which   *)
(* from M on is of manifests.                                              *)
ManList(g, l, R, M, at) ==
  /\ IsSeq(l) /\ Len(l) \in Nat /\ R \in Nat \ {0} /\ M \in Nat /\ R < M /\ M <= Len(l) + 1
  /\ l[R].op = "read-iidfile" /\ l[R].out = IMAGE_ID /\ ~l[R].ignore
  /\ \A q \in 1..(M - 1) : /\ HeadSpec(l[q]) /\ (q # R => l[q].out # IMAGE_ID)
                           /\ l[q].op \in {"commit-final", "bud"} => q < R
  /\ ManifestsAt(g, l, at) /\ ManifestsOnly(g, l, at, M)
  /\ \A i \in Named("manifest") : M <= at[i] + 1

(* What an entry has kept of a manifest.                                   *)
LookRight(g) ==
  /\ \A t \in DOMAIN replace[g] : IsToken(t)
  /\ MANIFEST_SPEC \in DOMAIN replace[g] =>
       replace[g][MANIFEST_SPEC].data = Empty \/ ImagesRight(replace[g][MANIFEST_SPEC].data[2])

(* The specs that update a manifest: they remove images of the platform    *)
(* and then add the entry's own.                                           *)
CallSpec(x, op) == x.op = op /\ x.out = NoToken /\ ~x.ignore /\ x.ignore \in BOOLEAN

Removes(g, i, x) ==
  /\ CallSpec(x, "manifest-remove")
  /\ \E img : x.args = <<ManifestName(i, g), img>> /\ ~IsToken(img) /\ Fits(img, PlatformOf(g))

Adds(g, i, x) == CallSpec(x, "manifest-add") /\ x.args = <<ManifestName(i, g), IMAGE_ID>>

UpdateList(g, i, s) ==
  /\ IsSeq(s) /\ Len(s) \in Nat \ {0} /\ Adds(g, i, s[Len(s)])
  /\ \A k \in 1..(Len(s) - 1) : Removes(g, i, s[k])

RmList(s) == IsSeq(s) /\ \A k \in 1..Len(s) : CallSpec(s[k], "rm")

(* What a callback may have left to do, when an entry has come to p.       *)
SubsFit(g, M, at, p, s) ==
  \/ s = <<>>
  \/ p <= M /\ RmList(s)
  \/ \E i \in Named("manifest") : p = at[i] + 4 /\ UpdateList(g, i, s)

Own(g) == [platform |-> PlatformOf(g), image |-> iid[g]]
OfPlatform(g, i) == SamePlatform(g, Linked(ManifestName(i, g)))
Updated(at, i, p, s) == p > at[i] + 4 \/ (p = at[i] + 4 /\ s = <<>>)
LastNamed(i) == \A j \in Named("manifest") : j <= i
LookedAt(g) == MANIFEST_SPEC \in DOMAIN replace[g] /\ replace[g][MANIFEST_SPEC].ok

(* The manifest of a target, when an entry has come to p: once updated it  *)
(* has the image of the entry, and no other of the platform if the others  *)
(* were seen.                                                              *)
TargetRight(g, i, at, p, s) ==
  /\ p > at[i] + 2 => MANIFEST_SPEC \in DOMAIN replace[g]
  /\ Alone(i, g) /\ Updated(at, i, p, s) => iid[g] # Empty /\ Own(g) \in Linked(ManifestName(i, g))
  /\ Alone(i, g) /\ LastNamed(i) /\ LookedAt(g) =>
       /\ p = at[i] + 3 => /\ replace[g][MANIFEST_SPEC].data # Empty
                           /\ OfPlatform(g, i) \subseteq replace[g][MANIFEST_SPEC].data[2]
       /\ p = at[i] + 4 /\ s # <<>> =>
            \A m \in OfPlatform(g, i) : \E k \in 1..Len(s) : /\ s[k].op = "manifest-remove"
                                                       /\ s[k].args = <<ManifestName(i, g), m.image>>
       /\ Updated(at, i, p, s) => OfPlatform(g, i) \subseteq {Own(g)}

(* The place of an entry in its list.                                      *)
ManPlace(g, l, R, M, at, p, s) ==
  /\ ManList(g, l, R, M, at) /\ Placed(g, l, p, s) /\ SubsFit(g, M, at, p, s)
  /\ p > R => IMAGE_ID \in DOMAIN replace[g] /\ replace[g][IMAGE_ID].data = iid[g]
  /\ \A i \in Named("manifest") : TargetRight(g, i, at, p, s)

ManEntry(g) ==
  /\ stage[g] \in {"waiting", "started"} => DOMAIN replace[g] = {}
  /\ stage[g] \in {"running", "ok"} => LookRight(g) /\ \E l, R, M, at, p, s : ManPlace(g, l, R, M, at, p, s)

(* What the entries share: each has its own --iidfile, and what is in a    *)
(* manifest is there for its platform.                                     *)
ManHost ==
  /\ StepsTyped
  /\ \A i \in DOMAIN images : \E h, k : i = <<"id", h, k>>
  /\ DOMAIN iid = Entries /\ \A h \in Entries : iid[h] = Empty \/ \E k : iid[h] = <<"id", h, k>>
  /\ \A n : ImagesRight(Linked(n))

(* The invariant of such a task.                                           *)
ManInv == ManHost /\ \A g \in Entries : ManEntry(g)

(* The images the update of a manifest is to remove.                       *)
OldImages(g) ==
  IF replace[g][MANIFEST_SPEC].data = Empty THEN {}
  ELSE {m.image : m \in SamePlatform(g, replace[g][MANIFEST_SPEC].data[2])}

UpdateSpecsOf(name, n, s) ==
  [k \in 1..n |-> Cmd("manifest-remove", <<name, s[k]>>)] \o <<Cmd("manifest-add", <<name, IMAGE_ID>>)>>

(* What a spec of buildah that does not fail does to manifests.            *)
ManMove(g, data, new) ==
  LET x == Current(g)
  IN /\ Moves(g, data, new)
     /\ x.op \notin {"delete-containers", "manifest-update"} => new = <<>>
     /\ x.op = "delete-containers" => RmList(new)
     /\ x.op = "manifest-update" /\ MANIFEST_SPEC \in DOMAIN replace[g] =>
          new = UpdateSpecsOf(Arg(g, 1), Cardinality(OldImages(g)), SetToSeq(OldImages(g)))
     /\ iid' = iid \/ (x.op \in {"commit-final", "bud"} /\ \E n : iid' = [iid EXCEPT ![g] = <<"id", g, n>>])
     /\ x.op = "read-iidfile" => data = iid[g]
     /\ x.op = "manifest-inspect" =>
          \/ Succeed(g, data, new) /\ data = <<"spec", Linked(Arg(g, 1))>>
          \/ Fail(g, data) /\ data = Empty
     /\ x.op = "manifest-remove" =>
          \A n : Linked(n)' = IF n = Arg(g, 1) THEN {m \in Linked(n) : m.image # Arg(g, 2)} ELSE Linked(n)
     /\ x.op = "manifest-add" =>
          /\ Arg(g, 2) \in DOMAIN images
          /\ \A n : Linked(n)' = IF n = Arg(g, 1) THEN Linked(n) \cup {[platform |-> PlatformOf(g), image |-> Arg(g, 2)]}
                                 ELSE Linked(n)
     /\ x.op \notin {"manifest-remove", "manifest-add"} => \A n : Linked(n)' = Linked(n)

(* What a step of an entry does to a manifest: it may add its own image,   *)
(* and remove images of its platform from a manifest of its own.           *)
Touched(g, n) ==
  \/ Linked(n)' = Linked(n)
  \/ /\ \E j : n = ManifestName(j, g)
     /\ \A m \in Linked(n)' : m \in Linked(n) \/ m.platform = PlatformOf(g)
     /\ \A m \in Linked(n) : m \in Linked(n)' \/ Fits(m.image, PlatformOf(g))

(* What a step of an entry does to what the entries share.                 *)
ManShared(g) ==
  /\ \A n : Touched(g, n) /\ ImagesRight(Linked(n)')
  /\ iid' = iid \/ \E n : iid' = [iid EXCEPT ![g] = <<"id", g, n>>]

-----------------------------------------------------------------------------
(***************************************************************************)
(* The manifests of docker                                                 *)
(***************************************************************************)

LinkOps == {"docker-manifest-create", "docker-manifest-amend", "docker-manifest-annotate"}
Linking == Named("manifest") \cap Named("image")
LinkArgs(i, g) == <<ManifestName(i, g), ImageName(i, g)>>

(* The name of a target's image is the entry's own.                        *)
OwnImage(i, g) == \A h \in Entries \ {g} : ImageName(i, h) # ImageName(i, g)

(* The image of an entry is in its manifest for its platform.              *)
Annotated(i, g) ==
  {m \in Linked(ManifestName(i, g)) : m.image = ImageName(i, g)} =
    {[platform |-> PlatformOf(g), image |-> ImageName(i, g)]}

(* A spec of a push of docker, and a list of them.                         *)
LinkSpec(g, x) ==
  /\ x.op \in LinkOps \cup {"docker-push"} /\ x.out = NoToken /\ x.ignore \in BOOLEAN
  /\ x.op \in LinkOps => \E i \in Linking : x.args = LinkArgs(i, g)
  /\ x.op = "docker-manifest-annotate" => ~x.ignore

Annotates(x, i, g) == x.op = "docker-manifest-annotate" /\ x.args = LinkArgs(i, g)

LinkList(g, l) ==
  /\ IsSeq(l) /\ Len(l) \in Nat /\ \A q \in 1..Len(l) : LinkSpec(g, l[q])
  /\ \A i \in Linking : \E q \in 1..Len(l) : Annotates(l[q], i, g)

(* The images of which it has annotated are its own and stay so.           *)
LinkPlace(g, l, p) ==
  /\ LinkList(g, l) /\ Placed(g, l, p, <<>>)
  /\ \A q \in 1..(p - 1) : \A i \in Linking : Annotates(l[q], i, g) /\ OwnImage(i, g) => Annotated(i, g)

LinkEntry(g) ==
  /\ DOMAIN replace[g] = {}
  /\ stage[g] \in {"running", "ok"} => \E l, p : LinkPlace(g, l, p)

(* What is in a manifest has a platform and an image and nothing else.     *)
LinksShaped == \A n : \A m \in Linked(n) : m = [platform |-> m.platform, image |-> m.image]

LinkInv == StepsTyped /\ LinksShaped /\ \A g \in Entries : LinkEntry(g)

WithPlatform(S, img, P) == {IF m.image = img THEN [m EXCEPT !.platform = P] ELSE m : m \in S}

(* What a spec of docker does to manifests, if it does anything: the image *)
(* it is about is put in, or is annotated if it is there.                  *)
LinkMove(g) ==
  LET x == Current(g)
      name == x.args[1]
      img == x.args[2]
  IN \/ x.op # "docker-manifest-annotate" /\ \A n : Linked(n)' = Linked(n)
     \/ /\ x.op \in LinkOps \ {"docker-manifest-annotate"} /\ \A m \in Linked(name) : m.image # img
        /\ \A n : Linked(n)' = IF n = name THEN Linked(n) \cup {[platform |-> NoPlatform, image |-> img]} ELSE Linked(n)
     \/ /\ x.op = "docker-manifest-annotate" /\ \E m \in Linked(name) : m.image = img
        /\ \A n : Linked(n)' = IF n = name THEN WithPlatform(Linked(n), img, PlatformOf(g)) ELSE Linked(n)

(* The invariant: who else is given such a task does not begin.            *)
ManifestsInv ==
  /\ EngineInv
  /\ job.tool \notin {"buildah", "docker"} => task.kind = "none"
  /\ Building => IF job.tool = "buildah" THEN ManInv ELSE Begun = {}
  /\ task.kind = "docker-push" => IF job.tool = "docker" THEN LinkInv ELSE Begun = {}

=============================================================================
