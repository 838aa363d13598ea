---------------------------- MODULE EntriesProofs ----------------------------
(***************************************************************************)
(* Proofs about ToolRun, for any jobs: what holds of the entries of every  *)
(* task, whatever its tool, and then of the tasks that make no image.      *)
(*                                                                         *)
(* The engine: whatever specs the tasks generate and their callbacks       *)
(* return, the nested doRun calls of an entry stay well-formed, and no     *)
(* more entries run than there are workers. Every step of a tool is one of *)
(* a few steps of the engine (Engine), so only these are looked at. TypeOK *)
(* says too little of the calls to be inductive: Calls adds that they are  *)
(* a sequence of records.                                                  *)
(*                                                                         *)
(* Then lists joined by FlattenSeq, the tables of triples, and what        *)
(* GenerateEntries makes of a matrix and a filter: the rows for some keys  *)
(* are in order if those without the last key are, and each entry of the   *)
(* product or of `include` leaves the result right (ResultRight).          *)
(*                                                                         *)
(* Last the tasks: the signatures of cosign and the pushes of buildah,     *)
(* whose entries have a list of specs fixed at the start (Through says how *)
(* far an entry has come), and the tests of go, whose callbacks return     *)
(* specs (Todo and Stepped say what is left in the nested calls).          *)
(***************************************************************************)
EXTENDS ToolRunInvariants, TLAPS, FiniteSetTheorems, SequenceTheorems, WellFoundedInduction

(* What buildah does, or one of its callbacks, is what doRun does.         *)
LEMMA BuildahExecuted ==
  ASSUME NEW g \in Entries, BuildahStep(g) PROVE Executed(g)
<1>1. CASE Pull(g)
  BY <1>1 DEF Pull, At, Executed
<1>2. CASE From(g)
  BY <1>2 DEF From, At, Executed
<1>3. CASE InspectContainer(g)
  BY <1>3 DEF InspectContainer, At, Executed
<1>4. CASE Run(g) \/ CopyIn(g) \/ Copy(g)
  BY <1>4 DEF Run, CopyIn, Copy, InContainer, At, Executed
<1>5. CASE Rm(g)
  BY <1>5 DEF Rm, At, Executed
<1>6. CASE KeepCurrent(g)
  BY <1>6 DEF KeepCurrent, At, Executed
<1>7. CASE DeleteContainers(g)
  BY <1>7 DEF DeleteContainers, At, Executed
<1>8. CASE WriteFile(g)
  BY <1>8 DEF WriteFile, At, Executed
<1>9. CASE Commit(g)
  BY <1>9 DEF Commit, At, Executed
<1>10. CASE Bud(g)
  BY <1>10 DEF Bud, At, Executed
<1>11. CASE ReadIidFile(g)
  BY <1>11 DEF ReadIidFile, At, Executed
<1>12. CASE TagImage(g) \/ InspectImage(g)
  BY <1>12 DEF TagImage, InspectImage, At, Executed
<1>13. CASE ManifestCreate(g) \/ ManifestInspect(g)
  BY <1>13 DEF ManifestCreate, ManifestInspect, At, Executed
<1>14. CASE ManifestUpdate(g)
  BY <1>14 DEF ManifestUpdate, At, Executed
<1>15. CASE ManifestRemove(g) \/ ManifestAdd(g)
  BY <1>15 DEF ManifestRemove, ManifestAdd, At, Executed
<1>16. CASE Push(g) \/ Login(g)
  BY <1>16 DEF Push, Login, At, Executed
<1>17. CASE CommandFails(g)
  BY <1>17 DEF CommandFails, Executed
<1> QED
  BY <1>1, <1>2, <1>3, <1>4, <1>5, <1>6, <1>7, <1>8, <1>9, <1>10, <1>11, <1>12, <1>13, <1>14,
     <1>15, <1>16, <1>17 DEF BuildahStep

(* A step of a task of buildah is one of the engine's.                     *)
LEMMA BuildahEngine ==
  ASSUME NEW g \in Entries, BuildahNext(g) PROVE Engine(g)
<1>1. CASE GenBuildah(g)
  BY <1>1 DEF GenBuildah, GenPush, Engine
<1>2. CASE BuildahStep(g)
  BY <1>2, BuildahExecuted DEF Engine
<1> QED
  BY <1>1, <1>2 DEF BuildahNext

(* What docker does is what doRun does.                                    *)
LEMMA DockerExecuted ==
  ASSUME NEW g \in Entries, DockerStep(g) PROVE Executed(g)
<1>1. CASE DockerBuild(g)
  BY <1>1 DEF DockerBuild, At, Executed
<1>2. CASE DockerManifestLink(g)
  BY <1>2 DEF DockerManifestLink, At, Executed
<1>3. CASE DockerManifestAnnotate(g)
  BY <1>3 DEF DockerManifestAnnotate, At, Executed
<1>4. CASE DockerPush(g) \/ DockerLogin(g)
  BY <1>4 DEF DockerPush, DockerLogin, At, Executed
<1>5. CASE DockerFails(g)
  BY <1>5 DEF DockerFails, Executed
<1> QED
  BY <1>1, <1>2, <1>3, <1>4, <1>5 DEF DockerStep

(* And a step of a task of docker is one of the engine's.                  *)
LEMMA DockerEngine ==
  ASSUME NEW g \in Entries, DockerNext(g) PROVE Engine(g)
<1>1. CASE GenDocker(g)
  BY <1>1 DEF GenDocker, Engine
<1>2. CASE DockerStep(g)
  BY <1>2, DockerExecuted DEF Engine
<1> QED
  BY <1>1, <1>2 DEF DockerNext

(* So is a step of the golang tool.                                        *)
LEMMA GoEngine ==
  ASSUME NEW g \in Entries, GoNext(g) PROVE Engine(g)
<1>1. CASE GenGo(g)
  BY <1>1 DEF GenGo, Engine
<1>2. CASE GoBuild(g)
  BY <1>2 DEF GoBuild, At, Executed, Engine
<1>3. CASE ListModule(g) \/ ListPackages(g)
  BY <1>3 DEF ListModule, ListPackages, At, Executed, Engine
<1>4. CASE Plan(g)
  BY <1>4 DEF Plan, At, Executed, Engine
<1>5. CASE RemoveBinary(g) \/ Compile(g)
  BY <1>5 DEF RemoveBinary, Compile, At, Executed, Engine
<1>6. CASE Chmod(g) \/ PlanRun(g)
  BY <1>6 DEF Chmod, PlanRun, At, Executed, Engine
<1>7. CASE RunTest(g)
  BY <1>7 DEF RunTest, At, Executed, Engine
<1>8. CASE PlanJson(g) \/ Test2Json(g) \/ WriteJson(g)
  BY <1>8 DEF PlanJson, Test2Json, WriteJson, At, Executed, Engine
<1>9. CASE GoCommandFails(g)
  BY <1>9 DEF GoCommandFails, Executed, Engine
<1> QED
  BY <1>1, <1>2, <1>3, <1>4, <1>5, <1>6, <1>7, <1>8, <1>9 DEF GoNext, GoStep

(* So is a step of cosign.                                                 *)
LEMMA CosignEngine ==
  ASSUME NEW g \in Entries, CosignNext(g) PROVE Engine(g)
<1>1. CASE GenCosign(g)
  BY <1>1 DEF GenCosign, Engine
<1>2. CASE Upload(g) \/ Sign(g) \/ PublishKey(g) \/ Verify(g)
  BY <1>2 DEF Upload, Sign, PublishKey, Verify, At, Executed, Engine
<1>3. CASE CosignFails(g)
  BY <1>3 DEF CosignFails, At, Executed, Engine
<1>4. CASE TruncateKey(g)
  BY <1>4 DEF TruncateKey, At, Inside, Engine
<1> QED
  BY <1>1, <1>2, <1>3, <1>4 DEF CosignNext, CosignStep

-----------------------------------------------------------------------------

(* The engine                                                              *)

(* What is left of the calls when the current spec is done are calls.      *)
LEMMA RestWellFormed ==
  ASSUME NEW g, WellFormed(frames[g]), frames[g] # <<>>
  PROVE  WellFormed(Rest(g)) /\ Rest(g) # <<>>
<1> DEFINE fs == frames[g]
           S == {fs[i] : i \in DOMAIN fs}
           new == [fs[Len(fs)] EXCEPT !.todo = Tail(@)]
<1>1. fs \in Seq(S) /\ Len(fs) \in Nat \ {0} /\ DOMAIN fs = 1..Len(fs)
  BY DEF WellFormed, IsSeq
<1>2. Front(fs) = [i \in 1..(Len(fs) - 1) |-> fs[i]]
  BY <1>1 DEF Front
<1>3. Rest(g) = [i \in 1..Len(fs) |-> IF i = Len(fs) THEN new ELSE fs[i]]
  BY <1>1, <1>2 DEF Rest, Last
<1>4. IsSeq(Rest(g)) /\ DOMAIN Rest(g) = 1..Len(fs) /\ Rest(g) # <<>>
  BY <1>1, <1>3 DEF IsSeq
<1>5. "ignore" \in DOMAIN new /\ new.ignore = fs[Len(fs)].ignore
  <2>1. "ignore" \in DOMAIN fs[Len(fs)]
    BY <1>1 DEF WellFormed
  <2> HIDE DEF fs
  <2> QED
    BY <2>1
<1> QED
  BY <1>1, <1>3, <1>4, <1>5 DEF WellFormed

(* The first of some calls are calls.                                      *)
LEMMA PrefixWellFormed ==
  ASSUME NEW fs, WellFormed(fs), NEW n \in 0..Len(fs)
  PROVE  WellFormed(SubSeq(fs, 1, n)) /\ DOMAIN SubSeq(fs, 1, n) = 1..n
<1>1. fs \in Seq({fs[i] : i \in DOMAIN fs}) /\ Len(fs) \in Nat /\ DOMAIN fs = 1..Len(fs)
  BY DEF WellFormed, IsSeq
<1>2. SubSeq(fs, 1, n) = [i \in 1..n |-> fs[i]]
  BY <1>1
<1>3. IsSeq(SubSeq(fs, 1, n)) /\ DOMAIN SubSeq(fs, 1, n) = 1..n
  <2> DEFINE t == [i \in 1..n |-> fs[i]]
  <2>1. \A i \in 1..n : t[i] \in {t[j] : j \in DOMAIN t}
    OBVIOUS
  <2>2. t \in Seq({t[j] : j \in DOMAIN t})
    BY <2>1
  <2> QED
    BY <1>2, <2>2 DEF IsSeq
<1> QED
  BY <1>1, <1>2, <1>3 DEF WellFormed

(* A set of positions that is not empty has a last one.                    *)
LEMMA LastPosition ==
  ASSUME NEW n \in Nat, NEW S \in SUBSET (1..n), S # {}
  PROVE  \E i \in S : \A j \in S : j <= i
<1> DEFINE T == {n - i : i \in S}
<1>1. T \subseteq Nat /\ T # {}
  <2>1. ASSUME NEW i \in S PROVE n - i \in Nat
    OBVIOUS
  <2> QED
    BY <2>1
<1>2. PICK x \in T : \A y \in T : ~(<<y, x>> \in OpToRel(<, Nat))
  BY <1>1, NatLessThanWellFounded, WFMin
<1>3. PICK i \in S : x = n - i
  BY <1>2
<1>4. ASSUME NEW j \in S PROVE j <= i
  <2>1. n - j \in T /\ n - j \in Nat /\ x \in Nat
    BY <1>1, <1>2
  <2>2. ~(n - j < x)
    BY <1>2, <2>1 DEF OpToRel
  <2> QED
    BY <2>2, <1>3
<1> QED
  BY <1>3, <1>4

(* Calls with nothing left to do return: of those that stay the last has a *)
(* spec to execute.                                                        *)
LEMMA ReturnedWellFormed ==
  ASSUME NEW fs, WellFormed(fs)
  PROVE  WellFormed(Returned(fs)) /\ (Returned(fs) # <<>> => Last(Returned(fs)).todo # <<>>)
<1> DEFINE left == {i \in DOMAIN fs : fs[i].todo # <<>>}
<1>1. Len(fs) \in Nat /\ DOMAIN fs = 1..Len(fs)
  BY DEF WellFormed, IsSeq
<1>2. CASE left = {}
  <2>1. Returned(fs) = SubSeq(fs, 1, 0)
    BY <1>2 DEF Returned
  <2>2. SubSeq(fs, 1, 0) = <<>>
    BY <1>1 DEF WellFormed, IsSeq
  <2> QED
    BY <2>1, <2>2, <1>1, PrefixWellFormed
<1>3. CASE left # {}
  <2> DEFINE n == CHOOSE i \in left : \A j \in left : j <= i
  <2>1. n \in left
    BY <1>1, <1>3, LastPosition
  <2>2. Returned(fs) = SubSeq(fs, 1, n)
    BY <1>3 DEF Returned
  <2>3. n \in 1..Len(fs) /\ n \in 0..Len(fs) /\ fs[n].todo # <<>>
    BY <2>1, <1>1
  <2> HIDE DEF n
  <2>4. WellFormed(SubSeq(fs, 1, n))
    BY <2>3, PrefixWellFormed
  <2>5. Last(SubSeq(fs, 1, n)) = fs[n]
    BY <2>3, <1>1 DEF Last, WellFormed, IsSeq
  <2> QED
    BY <2>2, <2>3, <2>4, <2>5
<1> QED
  BY <1>2, <1>3

(* What a spec keeps is a record, under its token.                         *)
LEMMA KeepStep ==
  ASSUME TypeOK, NEW g \in Entries, NEW data, NEW ok \in BOOLEAN, Keep(g, data, ok), UNCHANGED count
  PROVE  ReplaceTyped'
<1>1. Entries' = Entries
  BY DEF Entries
<1>2. CASE Current(g).out = NoToken
  BY <1>1, <1>2 DEF Keep, TypeOK, ExecTypeOK, ReplaceTyped
<1>3. CASE Current(g).out # NoToken
  <2> DEFINE kept == Update(replace[g], Current(g).out, [data |-> data, ok |-> ok])
  <2>1. replace' = [replace EXCEPT ![g] = kept]
    BY <1>3 DEF Keep, TypeOK, ExecTypeOK
  <2>2. \A t \in DOMAIN kept :
          kept[t] = [data |-> data, ok |-> ok] \/ (t \in DOMAIN replace[g] /\ kept[t] = replace[g][t])
    BY DEF Update
  <2> HIDE DEF kept
  <2>3. ASSUME NEW h \in Entries, NEW t \in DOMAIN replace'[h]
        PROVE  DOMAIN replace'[h][t] = {"data", "ok"} /\ replace'[h][t].ok \in BOOLEAN
    <3>1. CASE h = g
      BY <3>1, <2>1, <2>2, <2>3 DEF TypeOK, ExecTypeOK
    <3>2. CASE h # g
      BY <3>2, <2>1, <2>3 DEF TypeOK, ExecTypeOK
    <3> QED
      BY <3>1, <3>2
  <2>4. DOMAIN replace' = Entries
    BY <2>1 DEF TypeOK, ExecTypeOK
  <2> QED
    BY <1>1, <2>3, <2>4 DEF ReplaceTyped
<1> QED
  BY <1>2, <1>3

(* When an entry that is active goes on with some calls, or ends with      *)
(* none, no more entries are active than before.                           *)
LEMMA GoesOn ==
  ASSUME EngineInv, NEW g \in Entries, stage[g] \in Active,
         NEW fs, WellFormed(fs), fs # <<>> => Last(fs).todo # <<>>,
         NEW s \in {"running", "ok", "failed"}, (s = "running") = (fs # <<>>),
         Goto(g, s), frames' = [frames EXCEPT ![g] = fs],
         UNCHANGED <<count, workers>>, ReplaceTyped'
  PROVE  EngineInv'
<1> USE DEF EngineInv, TypeOK, ExecTypeOK
<1>1. Entries' = Entries
  BY DEF Entries
<1>2. /\ DOMAIN stage' = Entries /\ stage'[g] = s /\ \A h \in Entries \ {g} : stage'[h] = stage[h]
      /\ DOMAIN frames' = Entries /\ frames'[g] = fs /\ \A h \in Entries \ {g} : frames'[h] = frames[h]
  BY DEF Goto
<1>3. Calls'
  BY <1>1, <1>2 DEF Calls
<1>4. ASSUME NEW h \in Entries
      PROVE  /\ stage'[h] \in Stages
             /\ (stage'[h] = "running") = (frames'[h] # <<>>)
             /\ frames'[h] # <<>> => Last(frames'[h]).todo # <<>> /\ ~frames'[h][1].ignore
  <2>1. CASE h = g
    BY <1>2, <2>1 DEF Stages, WellFormed
  <2>2. CASE h # g
    BY <1>2, <2>2
  <2> QED
    BY <2>1, <2>2
<1>5. Cardinality({h \in Entries : stage'[h] \in Active}) <= workers
  <2> DEFINE before == {h \in Entries : stage[h] \in Active}
             after == {h \in Entries : stage'[h] \in Active}
  <2>1. IsFiniteSet(before)
    <3>1. IsFiniteSet(1..count)
      BY FS_Interval
    <3>2. before \subseteq 1..count
      BY DEF Entries
    <3> QED
      BY <3>1, <3>2, FS_Subset
  <2>2. after \subseteq before
    BY <1>2
  <2>3. /\ IsFiniteSet(after) /\ Cardinality(after) <= Cardinality(before)
        /\ Cardinality(after) \in Nat /\ Cardinality(before) \in Nat
    BY <2>1, <2>2, FS_Subset, FS_CardinalityType
  <2> QED
    BY <2>3
<1> QED
  BY <1>1, <1>2, <1>3, <1>4, <1>5 DEF ReplaceTyped

(* A spec of the innermost call is done, and doRun continues with some     *)
(* calls.                                                                  *)
LEMMA ContinueStep ==
  ASSUME EngineInv, NEW g \in Entries, stage[g] = "running",
         NEW fs, WellFormed(fs), Continue(g, fs), UNCHANGED <<count, workers>>, ReplaceTyped'
  PROVE  EngineInv'
<1> DEFINE rest == Returned(fs)
           s == IF rest = <<>> THEN "ok" ELSE "running"
<1>1. WellFormed(rest) /\ (rest # <<>> => Last(rest).todo # <<>>)
  BY ReturnedWellFormed
<1>2. Goto(g, s) /\ frames' = [frames EXCEPT ![g] = rest]
  BY DEF Continue
<1>3. s \in {"running", "ok", "failed"} /\ (s = "running") = (rest # <<>>)
  OBVIOUS
<1> HIDE DEF rest, s
<1>4. stage[g] \in Active
  BY DEF Active
<1> QED
  BY <1>1, <1>2, <1>3, <1>4, GoesOn

(* An error leaves the calls up to one whose spec ignores it, or ends the  *)
(* entry.                                                                  *)
LEMMA UnwindStep ==
  ASSUME EngineInv, NEW g \in Entries, stage[g] = "running",
         Unwind(g), UNCHANGED <<count, workers>>, ReplaceTyped'
  PROVE  EngineInv'
<1> DEFINE fs == Rest(g)
           catching == {i \in DOMAIN fs : fs[i].ignore}
<1>1. WellFormed(fs) /\ fs # <<>>
  BY RestWellFormed DEF EngineInv, Calls, TypeOK, ExecTypeOK
<1>2. CASE catching = {}
  <2>1. Goto(g, "failed") /\ frames' = [frames EXCEPT ![g] = <<>>]
    BY <1>2 DEF Unwind
  <2>2. WellFormed(<<>>)
    BY DEF WellFormed, IsSeq
  <2>3. stage[g] \in Active
    BY DEF Active
  <2> QED
    BY <2>1, <2>2, <2>3, GoesOn
<1>3. CASE catching # {}
  <2> DEFINE n == CHOOSE i \in catching : \A j \in catching : j <= i
  <2>1. Len(fs) \in Nat /\ DOMAIN fs = 1..Len(fs)
    BY <1>1 DEF WellFormed, IsSeq
  <2>2. n \in catching
    BY <1>3, <2>1, LastPosition
  <2>3. n - 1 \in 0..Len(fs)
    BY <2>1, <2>2
  <2>4. Continue(g, SubSeq(fs, 1, n - 1))
    BY <1>3 DEF Unwind
  <2> HIDE DEF n, fs
  <2>5. WellFormed(SubSeq(fs, 1, n - 1))
    BY <1>1, <2>3, PrefixWellFormed
  <2> QED
    BY <2>4, <2>5, ContinueStep
<1> QED
  BY <1>2, <1>3

(* A spec that is executed leaves the calls well-formed, whatever a        *)
(* callback returns and whether it fails or not.                           *)
LEMMA ExecutedStep ==
  ASSUME EngineInv, NEW g \in Entries, Executed(g) PROVE EngineInv'
<1>0. WellFormed(Rest(g)) /\ Rest(g) # <<>> /\ stage[g] = "running"
  BY RestWellFormed DEF Executed, EngineInv, Calls, TypeOK, ExecTypeOK
<1>1. ASSUME NEW data, NEW sub, Succeed(g, data, sub) PROVE EngineInv'
  <2> DEFINE call == [ignore |-> Current(g).ignore, todo |-> sub]
             fs == Append(Rest(g), call)
  <2>1. UNCHANGED <<count, workers>> /\ Continue(g, fs) /\ Keep(g, data, TRUE)
    BY <1>1 DEF Succeed
  <2>2. ReplaceTyped'
    BY <2>1, KeepStep DEF EngineInv
  <2>3. WellFormed(fs)
    <3> DEFINE rest == Rest(g)
    <3>1. rest \in Seq({rest[i] : i \in DOMAIN rest}) /\ Len(rest) \in Nat \ {0} /\ DOMAIN rest = 1..Len(rest)
      BY <1>0 DEF WellFormed, IsSeq
    <3>2. "ignore" \in DOMAIN call
      OBVIOUS
    <3>3. fs = [i \in 1..(Len(rest) + 1) |-> IF i = Len(rest) + 1 THEN call ELSE rest[i]]
      BY <3>1
    <3> HIDE DEF rest, call
    <3>4. IsSeq(fs) /\ DOMAIN fs = 1..(Len(rest) + 1)
      BY <3>1, <3>3 DEF IsSeq
    <3>5. \A i \in DOMAIN rest : "ignore" \in DOMAIN rest[i]
      BY <1>0 DEF WellFormed, rest
    <3>6. ~rest[1].ignore
      BY <1>0 DEF WellFormed, rest
    <3> QED
      BY <3>1, <3>2, <3>3, <3>4, <3>5, <3>6 DEF WellFormed
  <2> HIDE DEF fs
  <2> QED
    BY <1>0, <2>1, <2>2, <2>3, ContinueStep
<1>2. ASSUME NEW data, Fail(g, data) PROVE EngineInv'
  <2>1. UNCHANGED <<count, workers>> /\ Keep(g, data, FALSE)
    BY <1>2 DEF Fail
  <2>2. ReplaceTyped'
    BY <2>1, KeepStep DEF EngineInv
  <2>3. Continue(g, Rest(g)) \/ Unwind(g)
    BY <1>2 DEF Fail
  <2> QED
    BY <1>0, <2>1, <2>2, <2>3, ContinueStep, UnwindStep
<1>3. CASE NoToolCmd(g)
  <2>1. UNCHANGED <<count, workers>> /\ Unwind(g) /\ UNCHANGED replace
    BY <1>3 DEF NoToolCmd
  <2>2. ReplaceTyped'
    BY <2>1 DEF EngineInv, TypeOK, ExecTypeOK, ReplaceTyped, Entries
  <2> QED
    BY <1>0, <2>1, <2>2, UnwindStep
<1> QED
  BY <1>1, <1>2, <1>3 DEF Executed

(* Starting an entry, and what GetExecSpecs returns for it.                *)
LEMMA StartedStep ==
  ASSUME EngineInv, NEW g \in Entries,
         Start(g) \/ NotGenerated(g) \/ (\E specs : Generated(g, specs))
  PROVE  EngineInv'
<1> USE DEF EngineInv
<1>1. CASE Start(g)
  <2> USE DEF TypeOK, ExecTypeOK
  <2>1. UNCHANGED <<count, workers, frames, replace>> /\ Entries' = Entries
    BY <1>1 DEF Start, Entries
  <2>2. /\ DOMAIN stage' = Entries /\ stage[g] = "waiting" /\ stage'[g] = "started"
        /\ \A h \in Entries \ {g} : stage'[h] = stage[h]
    BY <1>1 DEF Start, Goto
  <2>3. Cardinality({h \in Entries : stage'[h] \in Active}) <= workers
    <3> DEFINE before == {h \in Entries : stage[h] \in Active}
    <3>1. IsFiniteSet(before) /\ g \notin before
      <4>1. IsFiniteSet(1..count)
        BY FS_Interval
      <4>2. before \subseteq 1..count /\ g \notin before
        BY <2>2 DEF Entries, Active
      <4> QED
        BY <4>1, <4>2, FS_Subset
    <3>2. {h \in Entries : stage'[h] \in Active} = before \cup {g}
      BY <2>2 DEF Active
    <3>3. Cardinality(before) \in Nat /\ Cardinality(before \cup {g}) = Cardinality(before) + 1
      BY <3>1, FS_CardinalityType, FS_AddElement
    <3>4. Cardinality(before) < workers
      BY <1>1 DEF Start
    <3>5. workers \in Nat
      OBVIOUS
    <3> HIDE DEF before, TypeOK, ExecTypeOK
    <3> QED
      BY <3>2, <3>3, <3>4, <3>5
  <2>4. ASSUME NEW h \in Entries
        PROVE stage'[h] \in Stages /\ (stage'[h] = "running") = (frames'[h] # <<>>)
    BY <2>1, <2>2 DEF Stages
  <2> QED
    BY <2>1, <2>2, <2>3, <2>4 DEF Calls
<1>2. ASSUME NEW specs, Generated(g, specs) PROVE EngineInv'
  <2> DEFINE call == [ignore |-> FALSE, todo |-> specs]
             fs == IF specs = <<>> THEN <<>> ELSE <<call>>
             s == IF specs = <<>> THEN "ok" ELSE "running"
  <2>1. Goto(g, s) /\ frames' = [frames EXCEPT ![g] = fs] /\ UNCHANGED <<count, workers, replace>>
    BY <1>2 DEF Generated
  <2>2. WellFormed(fs) /\ (fs # <<>> => Last(fs).todo # <<>>)
    <3>1. CASE specs = <<>>
      BY <3>1 DEF WellFormed, IsSeq
    <3>2. CASE specs # <<>>
      <4>1. Len(<<call>>) = 1 /\ DOMAIN <<call>> = {1} /\ <<call>>[1] = call /\ <<call>> \in Seq({call})
        OBVIOUS
      <4>2. {<<call>>[i] : i \in DOMAIN <<call>>} = {call}
        BY <4>1
      <4>3. call.ignore = FALSE /\ call.todo = specs /\ "ignore" \in DOMAIN call
        OBVIOUS
      <4> HIDE DEF call
      <4> QED
        BY <3>2, <4>1, <4>2, <4>3 DEF WellFormed, IsSeq, Last
    <3> QED
      BY <3>1, <3>2
  <2>3. s \in {"running", "ok", "failed"} /\ (s = "running") = (fs # <<>>)
    OBVIOUS
  <2>4. stage[g] \in Active
    BY <1>2 DEF Generated, Active
  <2>5. ReplaceTyped'
    BY <2>1 DEF ReplaceTyped, TypeOK, ExecTypeOK, Entries
  <2> HIDE DEF fs, s
  <2> QED
    BY <2>1, <2>2, <2>3, <2>4, <2>5, GoesOn
<1>3. CASE NotGenerated(g)
  <2>1. Goto(g, "failed") /\ stage[g] = "started" /\ UNCHANGED <<count, workers, frames, replace>>
    BY <1>3 DEF NotGenerated
  <2>2. frames[g] = <<>>
    BY <2>1 DEF TypeOK, ExecTypeOK
  <2>3. frames' = [frames EXCEPT ![g] = <<>>] /\ WellFormed(<<>>)
    BY <2>1, <2>2 DEF Calls
  <2>4. ReplaceTyped' /\ stage[g] \in Active
    BY <2>1 DEF ReplaceTyped, TypeOK, ExecTypeOK, Entries, Active
  <2> QED
    BY <2>1, <2>3, <2>4, GoesOn
<1> QED
  BY <1>1, <1>2, <1>3

(* No entry runs at first.                                                 *)
LEMMA InitEngine == Init => EngineInv
<1> SUFFICES ASSUME Init PROVE EngineInv
  OBVIOUS
<1>1. /\ job \in Jobs /\ count = Len(EntriesOf(job)) /\ workers = job.workers
      /\ stage = [g \in Entries |-> "waiting"] /\ frames = [g \in Entries |-> <<>>]
      /\ replace = [g \in Entries |-> <<>>]
  BY DEF Init, ExecInit, Entries
<1>2. count \in 1..MaxEntries /\ workers \in Nat \ {0}
  BY <1>1, JobsAssumption
<1>3. {g \in Entries : stage[g] \in Active} = {}
  BY <1>1 DEF Active
<1>4. Cardinality({g \in Entries : stage[g] \in Active}) <= workers
  BY <1>2, <1>3, FS_EmptySet
<1>5. WellFormed(<<>>)
  BY DEF WellFormed, IsSeq
<1>6. ASSUME NEW g \in Entries
      PROVE  stage[g] \in Stages /\ (stage[g] = "running") = (frames[g] # <<>>) /\ frames[g] = <<>> /\ DOMAIN replace[g] = {}
  BY <1>1 DEF Stages
<1> QED
  BY <1>1, <1>2, <1>4, <1>5, <1>6 DEF EngineInv, TypeOK, ExecTypeOK, Calls

(* Every step keeps the calls of all entries well-formed.                  *)
LEMMA NextEngine == EngineInv /\ [Next]_vars => EngineInv'
<1> SUFFICES ASSUME EngineInv, [Next]_vars PROVE EngineInv'
  OBVIOUS
<1>0. ASSUME UNCHANGED execVars PROVE EngineInv'
  <2>2. ExecTypeOK'
    BY <1>0 DEF execVars, EngineInv, TypeOK, ExecTypeOK, Entries
  <2>3. ReplaceTyped'
    BY <1>0 DEF execVars, EngineInv, TypeOK, ExecTypeOK, ReplaceTyped, Entries
  <2>4. Calls'
    BY <1>0 DEF execVars, EngineInv, Calls, Entries
  <2> QED
    BY <2>2, <2>3, <2>4 DEF EngineInv, TypeOK, ReplaceTyped
<1>1. ASSUME NEW g \in Entries, Engine(g) PROVE EngineInv'
  BY <1>0, <1>1, StartedStep, ExecutedStep DEF Engine, Inside
<1>2. ASSUME NEW g \in Entries, Start(g) PROVE EngineInv'
  BY <1>1, <1>2 DEF Engine
<1>3. CASE Terminated \/ UNCHANGED vars
  BY <1>0, <1>3 DEF Terminated, vars
<1> QED
  BY <1>1, <1>2, <1>3, BuildahEngine, DockerEngine, GoEngine, CosignEngine DEF Next

(* For any jobs: an entry runs while a doRun of its own has specs left, no *)
(* more of them at once than there are workers, and the calls and what     *)
(* they keep stay what doRun (run.go) takes them for.                      *)
THEOREM ToolRunTyped == Spec => []TypeOK
<1>1. EngineInv => TypeOK
  BY DEF EngineInv
<1> QED
  BY InitEngine, NextEngine, <1>1, PTL DEF Spec

-----------------------------------------------------------------------------

(* Sequences joined by FlattenSeq, whose recursive function the provers do *)
(* not unfold: that it exists, and what it has at each step, is shown by   *)
(* the least number for which it would not be so.                          *)

(* A set of numbers that is not empty has a least one.                     *)
LEMMA LeastNumber ==
  ASSUME NEW S \in SUBSET Nat, S # {}
  PROVE  \E n \in S : \A m \in S : n <= m
<1>1. PICK n \in S : \A m \in S : ~(<<m, n>> \in OpToRel(<, Nat))
  BY NatLessThanWellFounded, WFMin
<1>2. \A m \in S : ~(m < n)
  BY <1>1 DEF OpToRel
<1> QED
  BY <1>2

(* The recursive function FlattenSeq is defined by exists: a prefix of it  *)
(* can always be extended.                                                 *)
LEMMA FlattenExists ==
  ASSUME NEW seqs, NEW n \in Nat
  PROVE  \E f : Joins(seqs, n, f)
<1> DEFINE None == {k \in Nat : ~\E f : Joins(seqs, k, f)}
<1> SUFFICES ASSUME None # {} PROVE FALSE
  OBVIOUS
<1>1. PICK k \in None : \A m \in None : k <= m
  BY LeastNumber
<1>2. CASE k = 0
  <2>1. Joins(seqs, 0, <<>>)
    BY DEF Joins
  <2> QED
    BY <1>2, <2>1
<1>3. CASE k > 0
  <2>1. k - 1 \in Nat /\ k - 1 \notin None
    BY <1>1, <1>3
  <2>2. PICK f : Joins(seqs, k - 1, f)
    BY <2>1
  <2> DEFINE v == IF k = 1 THEN seqs[k] ELSE f[k - 1] \o seqs[k]
             h == [i \in 1..k |-> IF i = k THEN v ELSE f[i]]
  <2>3. ASSUME NEW i \in 1..k PROVE h[i] = IF i = 1 THEN seqs[i] ELSE h[i - 1] \o seqs[i]
    <3>1. CASE i = k
      BY <3>1, <1>3
    <3>2. CASE i # k
      <4>1. i \in 1..(k - 1) /\ (i # 1 => i - 1 \in 1..(k - 1))
        BY <3>2, <1>1
      <4>2. f[i] = IF i = 1 THEN seqs[i] ELSE f[i - 1] \o seqs[i]
        BY <4>1, <2>2 DEF Joins
      <4> QED
        BY <4>1, <4>2, <3>2
    <3> QED
      BY <3>1, <3>2
  <2>4. DOMAIN h = 1..k
    OBVIOUS
  <2>5. h = [i \in 1..k |-> h[i]]
    OBVIOUS
  <2> HIDE DEF h
  <2>6. Joins(seqs, k, h)
    BY <2>3, <2>5 DEF Joins
  <2> QED
    BY <2>6
<1> QED
  BY <1>1, <1>2, <1>3

(* FlattenSeq is what its recursive function has at the end.               *)
LEMMA FlattenJoins ==
  ASSUME NEW S, NEW seqs \in Seq(S), Len(seqs) # 0
  PROVE  \E f : Joins(seqs, Len(seqs), f) /\ FlattenSeq(seqs) = f[Len(seqs)]
<1>1. \E f : Joins(seqs, Len(seqs), f)
  BY FlattenExists, LenProperties
<1> DEFINE c == CHOOSE f : Joins(seqs, Len(seqs), f)
<1>2. Joins(seqs, Len(seqs), c)
  BY <1>1
<1>3. FlattenSeq(seqs) = c[Len(seqs)]
  BY DEF FlattenSeq, Joins
<1> QED
  BY <1>2, <1>3

(* The elements of a concatenation.                                        *)
LEMMA Concatenation ==
  ASSUME NEW S, NEW s \in Seq(S), NEW t \in Seq(S)
  PROVE  /\ s \o t \in Seq(S) /\ Len(s) \in Nat /\ Len(s \o t) = Len(s) + Len(t)
         /\ \A k \in 1..Len(s) : k \in 1..Len(s \o t) /\ (s \o t)[k] = s[k]
         /\ \A k \in 1..Len(t) : Len(s) + k \in 1..Len(s \o t) /\ (s \o t)[Len(s) + k] = t[k]
         /\ \A p \in 1..Len(s \o t) : p \in 1..Len(s) \/ \E k \in 1..Len(t) : p = Len(s) + k
<1>1. Len(s) \in Nat /\ Len(t) \in Nat /\ s \o t \in Seq(S) /\ Len(s \o t) = Len(s) + Len(t)
  OBVIOUS
<1>2. \A k \in 1..Len(s) : k \in 1..Len(s \o t) /\ (s \o t)[k] = s[k]
  BY <1>1
<1>3. \A k \in 1..Len(t) : Len(s) + k \in 1..Len(s \o t) /\ (s \o t)[Len(s) + k] = t[k]
  BY <1>1
<1>4. ASSUME NEW p \in 1..Len(s \o t), p \notin 1..Len(s)
      PROVE  p - Len(s) \in 1..Len(t) /\ p = Len(s) + (p - Len(s))
  BY <1>1, <1>4
<1> QED
  BY <1>1, <1>2, <1>3, <1>4

(* So FlattenSeq joins any sequences so.                                   *)
LEMMA FlattenBlocks ==
  ASSUME NEW S, NEW seqs \in Seq(Seq(S))
  PROVE  FlattenSeq(seqs) \in Seq(S) /\ \E off : Flattened(seqs, FlattenSeq(seqs), off)
<1>0. Len(seqs) \in Nat /\ DOMAIN seqs = 1..Len(seqs) /\ \A i \in 1..Len(seqs) : seqs[i] \in Seq(S)
  OBVIOUS
<1>1. CASE Len(seqs) = 0
  <2>1. FlattenSeq(seqs) = <<>> /\ seqs = <<>>
    BY <1>1 DEF FlattenSeq
  <2>2. Flattened(<<>>, <<>>, <<>>)
    BY DEF Flattened
  <2> QED
    BY <2>1, <2>2
<1>2. CASE Len(seqs) # 0
  <2>1. PICK f : Joins(seqs, Len(seqs), f) /\ FlattenSeq(seqs) = f[Len(seqs)]
    BY <1>2, FlattenJoins
  <2> DEFINE off == [i \in 1..Len(seqs) |-> IF i = 1 THEN 0 ELSE Len(f[i - 1])]
             Good(n) == /\ f[n] \in Seq(S)
                        /\ \A i \in 1..n : /\ off[i] \in Nat
                                           /\ \A k \in 1..Len(seqs[i]) : /\ off[i] + k \in 1..Len(f[n])
                                                                         /\ f[n][off[i] + k] = seqs[i][k]
                        /\ \A p \in 1..Len(f[n]) : \E i \in 1..n : \E k \in 1..Len(seqs[i]) : p = off[i] + k
                        /\ \A i \in 1..n : off[i] + Len(seqs[i]) <= Len(f[n])
                        /\ \A i, j \in 1..n : i < j => off[i] + Len(seqs[i]) <= off[j]
             Bad == {n \in 1..Len(seqs) : ~Good(n)}
  <2>2. \A n \in 1..Len(seqs) : f[n] = IF n = 1 THEN seqs[n] ELSE f[n - 1] \o seqs[n]
    BY <2>1 DEF Joins
  <2>3. Good(1)
    BY <1>0, <1>2, <2>2
  <2>4. ASSUME NEW n \in 2..Len(seqs), Good(n - 1) PROVE Good(n)
    <3> DEFINE s == f[n - 1]
               t == seqs[n]
    <3>0. n \in 1..Len(seqs) /\ n # 1
      BY <1>0
    <3>1. f[n] = s \o t /\ s \in Seq(S) /\ t \in Seq(S)
      BY <1>0, <2>2, <2>4, <3>0
    <3> HIDE DEF s, t
    <3>2. /\ f[n] \in Seq(S) /\ Len(s) \in Nat /\ Len(t) \in Nat /\ Len(f[n]) = Len(s) + Len(t)
          /\ \A k \in 1..Len(s) : k \in 1..Len(f[n]) /\ f[n][k] = s[k]
          /\ \A k \in 1..Len(t) : Len(s) + k \in 1..Len(f[n]) /\ f[n][Len(s) + k] = t[k]
          /\ \A p \in 1..Len(f[n]) : p \in 1..Len(s) \/ \E k \in 1..Len(t) : p = Len(s) + k
      BY <3>1, Concatenation, LenProperties
    <3> USE DEF s, t
    <3>3. off[n] = Len(f[n - 1])
      BY <1>0
    <3> HIDE DEF off
    <3>4. ASSUME NEW i \in 1..n
          PROVE  off[i] \in Nat /\ \A k \in 1..Len(seqs[i]) : off[i] + k \in 1..Len(f[n]) /\ f[n][off[i] + k] = seqs[i][k]
      <4>1. CASE i = n
        BY <4>1, <3>2, <3>3
      <4>2. CASE i # n
        <5>1. i \in 1..(n - 1)
          BY <4>2
        <5>2. /\ off[i] \in Nat
              /\ \A k \in 1..Len(seqs[i]) : off[i] + k \in 1..Len(f[n - 1]) /\ f[n - 1][off[i] + k] = seqs[i][k]
          BY <5>1, <2>4
        <5> QED
          BY <5>2, <3>2
      <4> QED
        BY <4>1, <4>2
    <3>5. ASSUME NEW p \in 1..Len(f[n]) PROVE \E i \in 1..n : \E k \in 1..Len(seqs[i]) : p = off[i] + k
      <4>1. CASE p \in 1..Len(f[n - 1])
        <5>1. \E i \in 1..(n - 1) : \E k \in 1..Len(seqs[i]) : p = off[i] + k
          BY <4>1, <2>4
        <5>2. 1..(n - 1) \subseteq 1..n
          OBVIOUS
        <5> QED
          BY <5>1, <5>2
      <4>2. CASE \E k \in 1..Len(seqs[n]) : p = Len(f[n - 1]) + k
        BY <4>2, <3>3
      <4> QED
        BY <4>1, <4>2, <3>2
    <3>6. ASSUME NEW i \in 1..n PROVE off[i] + Len(seqs[i]) <= Len(f[n])
      <4>1. PICK a, b, c : a = Len(f[n - 1]) /\ b = Len(seqs[n]) /\ c = Len(f[n])
        OBVIOUS
      <4>2. a \in Nat /\ b \in Nat /\ c = a + b
        BY <3>2, <4>1
      <4> HIDE DEF s, t
      <4>3. CASE i = n
        <5>1. a + b <= c
          BY <4>2
        <5> QED
          BY ONLY <3>3, <4>1, <4>3, <5>1, Zenon
      <4>4. CASE i # n
        <5>1. i \in 1..(n - 1) /\ i \in 1..Len(seqs)
          BY <3>0, <4>4
        <5>2. PICK x, y : x = off[i] /\ y = Len(seqs[i])
          OBVIOUS
        <5>3. x + y <= a /\ x \in Nat /\ y \in Nat
          BY <1>0, <2>4, <4>1, <5>1, <5>2, LenProperties
        <5>4. x + y <= c
          BY <4>2, <5>3
        <5> QED
          BY <4>1, <5>2, <5>4, Zenon
      <4> QED
        BY <4>3, <4>4
    <3>7. ASSUME NEW i \in 1..n, NEW j \in 1..n, i < j PROVE off[i] + Len(seqs[i]) <= off[j]
      <4>1. i \in 1..(n - 1)
        BY <3>7
      <4>2. CASE j = n
        BY <2>4, <3>3, <4>1, <4>2
      <4>3. CASE j # n
        BY <2>4, <3>7, <4>1, <4>3
      <4> QED
        BY <4>2, <4>3
    <3> QED
      BY <3>2, <3>4, <3>5, <3>6, <3>7
  <2> HIDE DEF Good
  <2>5. Bad = {}
    <3> SUFFICES ASSUME Bad # {} PROVE FALSE
      OBVIOUS
    <3>0. Bad \in SUBSET Nat
      OBVIOUS
    <3>1. PICK n \in Bad : \A m \in Bad : n <= m
      BY <3>0, LeastNumber
    <3>2. n # 1 /\ n \in 2..Len(seqs) /\ n - 1 \in 1..Len(seqs) /\ n - 1 \notin Bad
      BY <2>3, <3>1
    <3> QED
      BY <2>4, <3>1, <3>2
  <2>6. Good(Len(seqs))
    BY <1>0, <1>2, <2>5
  <2>7. Flattened(seqs, f[Len(seqs)], off)
    BY <2>6 DEF Good, Flattened
  <2> HIDE DEF off
  <2> QED
    BY <2>1, <2>6, <2>7 DEF Good
<1> QED
  BY <1>1, <1>2

-----------------------------------------------------------------------------

(* The triples                                                             *)

(* Where the Debian table has a triple it is GNU's, whose libc part is the *)
(* one of LLVM too.                                                        *)
LEMMA DebianAbi ==
  ASSUME NEW a, NEW libc \in {"gnu", "musl"}, GetDebianTripleName(a, libc) # <<>>
  PROVE  /\ a \in Archs
         /\ GetDebianTripleName(a, libc) =
              <<IF <<libc, a>> = <<"musl", "x86">> THEN "i386" ELSE GetArch("gnu", a), "linux", Abi(a, libc)>>
<1>1. a \in WithDebianMusl => a \in Archs
  BY DEF WithDebianMusl, Archs, Mips
<1>2. CASE libc = "musl"
  BY <1>1, <1>2 DEF GetDebianTripleName, Abi
<1>3. CASE libc = "gnu"
  BY <1>3 DEF GetDebianTripleName, Abi
<1> QED
  BY <1>2, <1>3

(* For every architecture, known or not: the tables of triple.go, written  *)
(* by hand one by one, name one target for a toolchain.                    *)
THEOREM ToolRunTriples == Spec => []TriplesAgree
<1>1. TriplesAgree
  <2> SUFFICES ASSUME NEW g \in Entries, NEW libc \in {"gnu", "musl"},
                      GetDebianTripleName(matrix[g].arch, libc) # <<>>
               PROVE  LET a == matrix[g].arch
                          debian == GetDebianTripleName(a, libc)
                      IN /\ <<libc, a>> # <<"musl", "x86">> => debian = GetGNUTripleName(a, libc)
                         /\ Last(debian) = Last(GetLLVMTripleName(a, "linux", libc))
    BY DEF TriplesAgree
  <2> DEFINE a == matrix[g].arch
  <2>1. /\ a \in Archs
        /\ GetDebianTripleName(a, libc) =
             <<IF <<libc, a>> = <<"musl", "x86">> THEN "i386" ELSE GetArch("gnu", a), "linux", Abi(a, libc)>>
    BY DebianAbi
  <2>2. GetLLVMTripleName(a, "linux", libc) = <<GetArch("llvm", a), "unknown", Sys("linux"), Abi(a, libc)>>
    BY <2>1 DEF GetLLVMTripleName
  <2>3. \A x, y, z, w : Last(<<x, y, z>>) = z /\ Last(<<x, y, z, w>>) = w
    BY DEF Last
  <2> HIDE DEF a
  <2>4. Last(GetDebianTripleName(a, libc)) = Last(GetLLVMTripleName(a, "linux", libc))
    BY <2>1, <2>2, <2>3
  <2>5. <<libc, a>> # <<"musl", "x86">> => GetDebianTripleName(a, libc) = GetGNUTripleName(a, libc)
    BY <2>1 DEF GetGNUTripleName
  <2> QED
    BY <2>4, <2>5 DEF a
<1> QED
  BY <1>1, PTL

-----------------------------------------------------------------------------

(***************************************************************************)
(* The rows of a product                                                   *)
(***************************************************************************)

ValuesIn(m) == UNION {ValuesOf(m[k]) : k \in Used(m)}

(* What there is for some keys.                                            *)
PartsOf(m, ks) == {p \in [ks -> ValuesIn(m)] : \A k \in ks : p[k] \in ValuesOf(m[k])}

BeforeIn(m, ks, a, b) ==
  \E k \in ks : /\ \E x, y \in DOMAIN m[k] : x < y /\ m[k][x] = a[k] /\ m[k][y] = b[k]
                /\ \A l \in ks : l < k => a[l] = b[l]

(* The rows for some keys: the points these have, in order.                *)
RowsAre(m, ks, rows) ==
  /\ rows \in Seq(PartsOf(m, ks))
  /\ ValuesOf(rows) = PartsOf(m, ks)
  /\ \A i, j \in DOMAIN rows : j < i => BeforeIn(m, ks, rows[j], rows[i])

(* The one row without keys.                                               *)
LEMMA NoKeys ==
  ASSUME NEW m
  PROVE  RowsAre(m, {}, << <<>> >>)
<1>1. PartsOf(m, {}) = {<<>>}
  <2>1. <<>> \in [{} -> ValuesIn(m)]
    OBVIOUS
  <2>2. \A p \in [{} -> ValuesIn(m)] : p = <<>>
    OBVIOUS
  <2> QED
    BY <2>1, <2>2 DEF PartsOf
<1>2. /\ << <<>> >> \in Seq({<<>>}) /\ DOMAIN << <<>> >> = {1} /\ << <<>> >>[1] = <<>>
  OBVIOUS
<1> QED
  BY <1>1, <1>2 DEF RowsAre, ValuesOf

(* An entry that gets a value for one more key.                            *)
LEMMA ExtendedPart ==
  ASSUME NEW m, NEW ks, NEW k \in Used(m), k \notin ks,
         NEW p \in PartsOf(m, ks), NEW v \in ValuesOf(m[k])
  PROVE  LET e == Extended(p, k, v)
         IN e \in PartsOf(m, ks \cup {k}) /\ e[k] = v /\ \A l \in ks : e[l] = p[l]
<1> DEFINE e == Extended(p, k, v)
<1>1. DOMAIN p = ks /\ \A l \in ks : p[l] \in ValuesIn(m) /\ p[l] \in ValuesOf(m[l])
  BY DEF PartsOf
<1>2. v \in ValuesIn(m)
  BY DEF ValuesIn
<1>3. e = [x \in ks \cup {k} |-> IF x = k THEN v ELSE p[x]]
  BY <1>1 DEF Extended
<1>4. e[k] = v /\ \A l \in ks : e[l] = p[l]
  BY <1>3
<1>5. e \in [ks \cup {k} -> ValuesIn(m)]
  BY <1>1, <1>2, <1>3
<1> QED
  BY <1>1, <1>4, <1>5 DEF PartsOf

(* An entry with one more key is one of the entries without it, extended.  *)
LEMMA RestrictedPart ==
  ASSUME NEW m, NEW ks, NEW k \in Used(m), k \notin ks,
         NEW e \in PartsOf(m, ks \cup {k})
  PROVE  \E p \in PartsOf(m, ks) : \E v \in ValuesOf(m[k]) : e = Extended(p, k, v)
<1> DEFINE p == [l \in ks |-> e[l]]
<1>1. /\ e = [x \in ks \cup {k} |-> e[x]] /\ e[k] \in ValuesOf(m[k])
      /\ \A l \in ks : e[l] \in ValuesIn(m) /\ e[l] \in ValuesOf(m[l])
  BY DEF PartsOf
<1>2. p \in PartsOf(m, ks)
  BY <1>1 DEF PartsOf
<1>3. Extended(p, k, e[k]) = [x \in ks \cup {k} |-> IF x = k THEN e[k] ELSE p[x]]
  BY DEF Extended
<1>4. \A x \in ks \cup {k} : e[x] = IF x = k THEN e[k] ELSE p[x]
  OBVIOUS
<1>5. e = Extended(p, k, e[k])
  BY <1>1, <1>3, <1>4
<1> QED
  BY <1>1, <1>2, <1>5

(* A function on the numbers up to n is a list of that length.             *)
LEMMA ListOf ==
  ASSUME NEW n \in Nat, NEW S, NEW f, f = [i \in 1..n |-> f[i]], \A i \in 1..n : f[i] \in S
  PROVE  f \in Seq(S) /\ Len(f) = n
  OBVIOUS

(* A place in a row starting at u that lies after a place of a row starting at
   w leaves no room for the first row, of n places, before the second. *)
LEMMA PastItsRow ==
  ASSUME NEW u \in Nat, NEW w \in Nat, NEW x \in Nat, NEW y \in Nat, NEW n \in Nat,
         x <= n, 1 <= y, w + y < u + x
  PROVE  ~(u + n <= w)
OBVIOUS

(* The rows with one more key, the last.                                   *)
LEMMA TimesRows ==
  ASSUME NEW m, NEW ks, ks \subseteq Nat, NEW k \in Used(m), IsSeq(m[k]), k \in Nat, \A l \in ks : l < k,
         NEW rows, RowsAre(m, ks, rows)
  PROVE  RowsAre(m, ks \cup {k}, Times(rows, k, m[k]))
<1> DEFINE vs == m[k]
           all == ks \cup {k}
           row(i) == [j \in DOMAIN vs |-> Extended(rows[i], k, vs[j])]
           seqs == [i \in DOMAIN rows |-> row(i)]
           S == PartsOf(m, all)
           flat == FlattenSeq(seqs)
<1>0. k \notin ks
  OBVIOUS
<1>1. /\ DOMAIN rows = 1..Len(rows) /\ Len(rows) \in Nat /\ \A i \in DOMAIN rows : rows[i] \in PartsOf(m, ks)
      /\ ValuesOf(rows) = PartsOf(m, ks)
  BY DEF RowsAre
<1>2. DOMAIN vs = 1..Len(vs) /\ Len(vs) \in Nat /\ \A j \in DOMAIN vs : vs[j] \in ValuesOf(vs)
  BY DEF IsSeq, ValuesOf
<1>3. ASSUME NEW i \in DOMAIN rows, NEW j \in DOMAIN vs
      PROVE  LET e == Extended(rows[i], k, vs[j])
             IN e \in S /\ e[k] = vs[j] /\ \A l \in ks : e[l] = rows[i][l]
  <2>1. PICK p \in PartsOf(m, ks), v \in ValuesOf(m[k]) : p = rows[i] /\ v = vs[j]
    BY <1>1, <1>2
  <2>2. LET e == Extended(p, k, v) IN e \in S /\ e[k] = v /\ \A l \in ks : e[l] = p[l]
    BY <1>0, ExtendedPart
  <2> QED
    BY <2>1, <2>2
<1>4. ASSUME NEW i \in DOMAIN rows PROVE row(i) \in Seq(S) /\ Len(row(i)) = Len(vs)
  <2>1. row(i) = [j \in 1..Len(vs) |-> Extended(rows[i], k, vs[j])]
    BY <1>2
  <2>2. \A j \in 1..Len(vs) : Extended(rows[i], k, vs[j]) \in S
    BY <1>2, <1>3
  <2> HIDE DEF row, vs, S
  <2> QED
    BY <1>2, <2>1, <2>2, ListOf
<1>5. seqs \in Seq(Seq(S)) /\ Len(seqs) = Len(rows)
  <2>1. seqs = [i \in 1..Len(rows) |-> row(i)]
    BY <1>1
  <2>2. \A i \in 1..Len(rows) : row(i) \in Seq(S)
    BY <1>1, <1>4
  <2> HIDE DEF seqs, row, S
  <2> QED
    BY <1>1, <2>1, <2>2, ListOf
<1>6. \A i \in 1..Len(rows) : Len(seqs[i]) = Len(vs) /\ \A j \in 1..Len(vs) : seqs[i][j] = Extended(rows[i], k, vs[j])
  BY <1>1, <1>2, <1>4
<1> HIDE DEF seqs
<1>7. flat \in Seq(S) /\ \E off : Flattened(seqs, flat, off)
  BY <1>5, FlattenBlocks
<1>8. PICK off : Flattened(seqs, flat, off)
  BY <1>7
<1>9. /\ \A i \in 1..Len(rows) : /\ off[i] \in Nat
                                 /\ \A j \in 1..Len(vs) : off[i] + j \in 1..Len(flat) /\ flat[off[i] + j] = Extended(rows[i], k, vs[j])
      /\ \A p \in 1..Len(flat) : \E i \in 1..Len(rows) : \E j \in 1..Len(vs) : p = off[i] + j
      /\ \A i, j \in 1..Len(rows) : i < j => off[i] + Len(vs) <= off[j]
  BY <1>5, <1>6, <1>8 DEF Flattened
<1> HIDE DEF flat, vs, row
<1>10. DOMAIN flat = 1..Len(flat) /\ Len(flat) \in Nat
  BY <1>7
<1>11. ValuesOf(flat) = S
  <2>1. ValuesOf(flat) \subseteq S
    BY <1>7 DEF ValuesOf
  <2>2. ASSUME NEW e \in S PROVE e \in ValuesOf(flat)
    <3>1. PICK p \in PartsOf(m, ks), v \in ValuesOf(vs) : e = Extended(p, k, v)
      BY <1>0, RestrictedPart DEF vs
    <3>2. PICK i \in 1..Len(rows), j \in 1..Len(vs) : p = rows[i] /\ v = vs[j]
      BY <1>1, <1>2 DEF ValuesOf
    <3>3. off[i] + j \in 1..Len(flat) /\ flat[off[i] + j] = e
      BY <1>9, <3>1, <3>2
    <3> QED
      BY <1>10, <3>3 DEF ValuesOf
  <2> QED
    BY <2>1, <2>2
<1>12. ASSUME NEW p \in 1..Len(flat), NEW q \in 1..Len(flat), q < p PROVE BeforeIn(m, all, flat[q], flat[p])
  <2>1. PICK i \in 1..Len(rows), x \in 1..Len(vs) : p = off[i] + x
    BY <1>9
  <2>2. PICK j \in 1..Len(rows), y \in 1..Len(vs) : q = off[j] + y
    BY <1>9
  <2> DEFINE a == Extended(rows[j], k, vs[y])
             b == Extended(rows[i], k, vs[x])
  <2>3. flat[p] = b /\ flat[q] = a
    BY <1>9, <2>1, <2>2
  <2>4. /\ a[k] = vs[y] /\ \A l \in ks : a[l] = rows[j][l]
        /\ b[k] = vs[x] /\ \A l \in ks : b[l] = rows[i][l]
    BY <1>1, <1>2, <1>3
  <2> HIDE DEF a, b
  <2>5. i \in Nat /\ j \in Nat /\ x \in Nat /\ y \in Nat /\ off[i] \in Nat /\ off[j] \in Nat /\ 1 <= x /\ y <= Len(vs)
    BY <1>1, <1>2, <1>9
  <2>6. ~(i < j)
    <3>1. i < j => off[i] + Len(vs) <= off[j]
      BY <1>9
    <3>2. off[i] \in Nat /\ off[j] \in Nat /\ x \in Nat /\ y \in Nat /\ Len(vs) \in Nat
      BY <1>2, <2>5
    <3>3. x <= Len(vs) /\ 1 <= y
      BY <1>2
    <3>4. off[j] + y < off[i] + x
      BY <1>12, <2>1, <2>2
    <3>5. ~(off[i] + Len(vs) <= off[j])
      BY <3>2, <3>3, <3>4, PastItsRow
    <3> QED
      BY <3>1, <3>5
  <2>7. CASE j < i
    <3>1. BeforeIn(m, ks, rows[j], rows[i])
      BY <1>1, <2>7 DEF RowsAre
    <3>2. PICK l \in ks : /\ \E s, t \in DOMAIN m[l] : s < t /\ m[l][s] = rows[j][l] /\ m[l][t] = rows[i][l]
                          /\ \A n \in ks : n < l => rows[j][n] = rows[i][n]
      BY <3>1 DEF BeforeIn
    <3>3. ASSUME NEW n \in all, n < l PROVE a[n] = b[n]
      <4>1. n \in ks
        BY <3>3
      <4> QED
        BY <2>4, <3>2, <3>3, <4>1
    <3>4. l \in all /\ \E s, t \in DOMAIN m[l] : s < t /\ m[l][s] = a[l] /\ m[l][t] = b[l]
      BY <2>4, <3>2
    <3> QED
      BY <2>3, <3>3, <3>4 DEF BeforeIn
  <2>8. CASE j = i
    <3>1. y < x
      BY <1>12, <2>1, <2>2, <2>5, <2>8
    <3>2. \E s, t \in DOMAIN m[k] : s < t /\ m[k][s] = a[k] /\ m[k][t] = b[k]
      BY <1>2, <2>4, <3>1 DEF vs
    <3>3. \A n \in all : n < k => a[n] = b[n]
      BY <2>4, <2>8
    <3> QED
      BY <2>3, <3>2, <3>3 DEF BeforeIn
  <2> QED
    BY <2>5, <2>6, <2>7, <2>8
<1>13. flat = Times(rows, k, m[k])
  BY DEF flat, seqs, Times, row, vs
<1>14. RowsAre(m, all, flat)
  BY <1>7, <1>10, <1>11, <1>12 DEF RowsAre
<1> QED
  BY <1>13, <1>14

(* Finitely many numbers have a last one: no least number of them could be *)
(* without.                                                                *)
LEMMA LastExists ==
  ASSUME NEW ks, IsFiniteSet(ks), ks \subseteq Nat, ks # {}
  PROVE  LastKey(ks) \in ks /\ \A l \in ks : l <= LastKey(ks)
<1> DEFINE HasLast(S) == \E k \in S : \A l \in S : l <= k
           None == {n \in Nat : \E S \in SUBSET Nat : IsFiniteSet(S) /\ S # {} /\ Cardinality(S) = n /\ ~HasLast(S)}
<1>1. None = {}
  <2> SUFFICES ASSUME None # {} PROVE FALSE
    OBVIOUS
  <2>1. PICK n \in None : \A o \in None : n <= o
    BY LeastNumber
  <2>2. PICK S \in SUBSET Nat : IsFiniteSet(S) /\ S # {} /\ Cardinality(S) = n /\ ~HasLast(S)
    OBVIOUS
  <2>3. PICK x \in S : TRUE
    BY <2>2
  <2> DEFINE T == S \ {x}
  <2>4. IsFiniteSet(T) /\ Cardinality(T) = n - 1 /\ n # 0
    BY <2>2, FS_RemoveElement, FS_EmptySet
  <2>5. CASE T = {}
    BY <2>2, <2>5
  <2>6. CASE T # {}
    <3>1. n - 1 \in Nat /\ n - 1 \notin None
      BY <2>1, <2>4
    <3>2. HasLast(T)
      BY <2>4, <2>6, <3>1
    <3>3. PICK k \in T : \A l \in T : l <= k
      BY <3>2
    <3>4. k \in Nat /\ x \in Nat
      BY <3>3
    <3>5. CASE x <= k
      BY <2>2, <3>3, <3>5
    <3>6. CASE ~(x <= k)
      <4>1. \A l \in S : l <= x
        BY <3>3, <3>4, <3>6
      <4> QED
        BY <2>2, <4>1
    <3> QED
      BY <3>5, <3>6
  <2> QED
    BY <2>5, <2>6
<1>2. Cardinality(ks) \in Nat
  BY FS_CardinalityType
<1>3. HasLast(ks)
  BY <1>1, <1>2
<1> QED
  BY <1>3 DEF LastKey

(* What the recursive function of CartesianProduct has for the keys.       *)
RowsOf(m, rows, ks) ==
  IF ks = {} THEN << <<>> >> ELSE Times(rows[ks \ {LastKey(ks)}], LastKey(ks), m[LastKey(ks)])

(* That function up to n keys.                                             *)
RowsUpTo(m, n, rows) ==
  rows = [ks \in {ks \in SUBSET Used(m) : Cardinality(ks) <= n} |-> RowsOf(m, rows, ks)]

(* Keys without their last one.                                            *)
LEMMA FewerKeys ==
  ASSUME NEW m, MatrixTyped(m), NEW ks \in SUBSET Used(m), ks # {}
  PROVE  LET k == LastKey(ks)
             fewer == ks \ {k}
         IN /\ IsFiniteSet(ks) /\ Cardinality(ks) \in Nat \ {0}
            /\ k \in Used(m) /\ k \in ks /\ k \in Nat /\ ks = fewer \cup {k}
            /\ fewer \in SUBSET Used(m) /\ fewer \subseteq Nat /\ Cardinality(fewer) = Cardinality(ks) - 1
            /\ \A l \in fewer : l < k
<1>1. IsFiniteSet(ks) /\ ks \subseteq Nat
  BY FS_Subset DEF MatrixTyped, Used
<1>2. LastKey(ks) \in ks /\ \A l \in ks : l <= LastKey(ks)
  BY <1>1, LastExists
<1>3. Cardinality(ks) \in Nat /\ Cardinality(ks) # 0
  BY <1>1, FS_CardinalityType, FS_EmptySet
<1>4. Cardinality(ks \ {LastKey(ks)}) = Cardinality(ks) - 1
  BY <1>1, <1>2, FS_RemoveElement
<1>5. ASSUME NEW l \in ks \ {LastKey(ks)} PROVE l < LastKey(ks)
  <2>1. l <= LastKey(ks) /\ l # LastKey(ks) /\ l \in Nat /\ LastKey(ks) \in Nat
    BY <1>1, <1>2
  <2> QED
    BY <2>1
<1> QED
  BY <1>1, <1>2, <1>3, <1>4, <1>5

(* It exists, up to any number.                                            *)
LEMMA RowsExist ==
  ASSUME NEW m, MatrixTyped(m), NEW n \in Nat
  PROVE  \E rows : RowsUpTo(m, n, rows)
<1> DEFINE Keys(i) == {ks \in SUBSET Used(m) : Cardinality(ks) <= i}
           None == {i \in Nat : ~\E rows : RowsUpTo(m, i, rows)}
<1> SUFFICES ASSUME None # {} PROVE FALSE
  OBVIOUS
<1>1. PICK i \in None : \A j \in None : i <= j
  BY LeastNumber
<1>2. CASE i = 0
  <2> DEFINE h == [ks \in Keys(0) |-> << <<>> >>]
  <2>1. ASSUME NEW ks \in Keys(0), ks # {} PROVE FALSE
    <3>1. Cardinality(ks) \in Nat \ {0}
      BY <2>1, FewerKeys
    <3> QED
      BY <3>1
  <2>2. \A ks \in Keys(0) : h[ks] = RowsOf(m, h, ks)
    BY <2>1 DEF RowsOf
  <2>3. h = [ks \in Keys(0) |-> h[ks]]
    OBVIOUS
  <2> HIDE DEF h
  <2>4. RowsUpTo(m, 0, h)
    BY <2>2, <2>3 DEF RowsUpTo
  <2> QED
    BY <1>2, <2>4
<1>3. CASE i > 0
  <2>1. i - 1 \in Nat /\ i - 1 \notin None
    BY <1>1, <1>3
  <2>2. PICK f : RowsUpTo(m, i - 1, f)
    BY <2>1
  <2> DEFINE h == [ks \in Keys(i) |-> IF ks \in Keys(i - 1) THEN f[ks] ELSE RowsOf(m, f, ks)]
  <2>4. \A ks \in Keys(i - 1) \cap Keys(i) : h[ks] = f[ks]
    OBVIOUS
  <2>5. ASSUME NEW ks \in Keys(i) PROVE h[ks] = RowsOf(m, f, ks)
    BY <2>2, <2>5 DEF RowsUpTo
  <2>6. h = [ks \in Keys(i) |-> h[ks]]
    OBVIOUS
  <2> HIDE DEF h
  <2>7. ASSUME NEW ks \in Keys(i) PROVE h[ks] = RowsOf(m, h, ks)
    <3>1. CASE ks = {}
      BY <2>5, <3>1 DEF RowsOf
    <3>2. CASE ks # {}
      <4> DEFINE fewer == ks \ {LastKey(ks)}
      <4>1. fewer \in SUBSET Used(m) /\ Cardinality(fewer) = Cardinality(ks) - 1 /\ Cardinality(ks) \in Nat
        BY <3>2, FewerKeys
      <4>2. fewer \in Keys(i - 1) /\ fewer \in Keys(i)
        BY <2>1, <4>1
      <4>3. h[fewer] = f[fewer]
        BY <2>4, <4>2
      <4> QED
        BY <2>5, <3>2, <4>3 DEF RowsOf
    <3> QED
      BY <3>1, <3>2
  <2>8. RowsUpTo(m, i, h)
    BY <2>6, <2>7 DEF RowsUpTo
  <2> QED
    BY <2>8
<1> QED
  BY <1>1, <1>2, <1>3

(* And has, for any keys, the rows for these.                              *)
LEMMA RowsRight ==
  ASSUME NEW m, MatrixTyped(m), NEW rows, \A ks \in SUBSET Used(m) : rows[ks] = RowsOf(m, rows, ks),
         NEW keys \in SUBSET Used(m)
  PROVE  RowsAre(m, keys, rows[keys])
<1> DEFINE Bad == {n \in Nat : \E ks \in SUBSET Used(m) : Cardinality(ks) = n /\ ~RowsAre(m, ks, rows[ks])}
<1>1. Bad = {}
  <2> SUFFICES ASSUME Bad # {} PROVE FALSE
    OBVIOUS
  <2>1. PICK n \in Bad : \A o \in Bad : n <= o
    BY LeastNumber
  <2>2. PICK ks \in SUBSET Used(m) : Cardinality(ks) = n /\ ~RowsAre(m, ks, rows[ks])
    OBVIOUS
  <2>3. CASE ks = {}
    BY <2>2, <2>3, NoKeys DEF RowsOf
  <2>4. CASE ks # {}
    <3> DEFINE k == LastKey(ks)
               fewer == ks \ {k}
    <3>1. /\ k \in Used(m) /\ k \in Nat /\ ks = fewer \cup {k} /\ fewer \in SUBSET Used(m) /\ fewer \subseteq Nat
          /\ Cardinality(fewer) = n - 1 /\ n \in Nat \ {0} /\ \A l \in fewer : l < k
      BY <2>2, <2>4, FewerKeys
    <3>2. n - 1 \in Nat /\ n - 1 \notin Bad
      BY <2>1, <3>1
    <3>3. RowsAre(m, fewer, rows[fewer])
      BY <3>1, <3>2
    <3>4. rows[ks] = Times(rows[fewer], k, m[k])
      BY <2>4 DEF RowsOf
    <3>5. IsSeq(m[k])
      BY <3>1 DEF MatrixTyped, Used
    <3> HIDE DEF k, fewer
    <3>6. RowsAre(m, fewer \cup {k}, Times(rows[fewer], k, m[k]))
      BY <3>1, <3>3, <3>5, TimesRows
    <3> QED
      BY <2>2, <3>1, <3>4, <3>6
  <2> QED
    BY <2>3, <2>4
<1>2. IsFiniteSet(Used(m))
  BY FS_Subset DEF MatrixTyped, Used
<1>3. Cardinality(keys) \in Nat
  BY <1>2, FS_Subset, FS_CardinalityType
<1> QED
  BY <1>1, <1>3

(* CartesianProduct gives the points of a matrix, in order.                *)
LEMMA ProductIs ==
  ASSUME NEW m, MatrixTyped(m)
  PROVE  /\ IsSeq(CartesianProduct(m)) /\ ValuesOf(CartesianProduct(m)) = PointsOf(m)
         /\ Used(m) # {} => RowsAre(m, Used(m), CartesianProduct(m))
<1> DEFINE all == Used(m)
           F == CHOOSE f : f = [ks \in SUBSET all |-> RowsOf(m, f, ks)]
<1>1. IsFiniteSet(all)
  BY FS_Subset DEF MatrixTyped, Used
<1>2. PICK n \in Nat : n = Cardinality(all)
  BY <1>1, FS_CardinalityType
<1>3. PICK rows : RowsUpTo(m, n, rows)
  BY RowsExist
<1>4. {ks \in SUBSET all : Cardinality(ks) <= n} = SUBSET all
  BY <1>1, <1>2, FS_Subset
<1>5. rows = [ks \in SUBSET all |-> RowsOf(m, rows, ks)]
  BY <1>3, <1>4 DEF RowsUpTo
<1>6. F = [ks \in SUBSET all |-> RowsOf(m, F, ks)]
  BY <1>5
<1>7. CartesianProduct(m) = IF all = {} THEN <<>> ELSE F[all]
  BY DEF CartesianProduct, RowsOf
<1> HIDE DEF F
<1>8. \A ks \in SUBSET all : F[ks] = RowsOf(m, F, ks)
  BY <1>6
<1>9. RowsAre(m, all, F[all])
  BY <1>8, RowsRight
<1>10. CASE all = {}
  <2>1. CartesianProduct(m) = <<>>
    BY <1>7, <1>10
  <2>2. PointsOf(m) = {} /\ IsSeq(<<>>) /\ ValuesOf(<<>>) = {}
    BY <1>10 DEF PointsOf, IsSeq, ValuesOf
  <2> QED
    BY <1>10, <2>1, <2>2
<1>11. CASE all # {}
  <2>1. CartesianProduct(m) = F[all]
    BY <1>7, <1>11
  <2>2. PointsOf(m) = PartsOf(m, all)
    BY <1>11 DEF PointsOf, PartsOf, ValuesIn
  <2>3. IsSeq(F[all]) /\ ValuesOf(F[all]) = PartsOf(m, all)
    BY <1>9 DEF RowsAre, IsSeq, ValuesOf
  <2> QED
    BY <1>9, <2>1, <2>2, <2>3
<1> QED
  BY <1>10, <1>11

(***************************************************************************)
(* Patterns and filters                                                    *)
(***************************************************************************)

(* What joining products gives.                                            *)
LEMMA ProductsAre ==
  ASSUME NEW items, MatricesTyped(items)
  PROVE  IsSeq(Products(items)) /\ ValuesOf(Products(items)) = UNION {PointsOf(items[i]) : i \in DOMAIN items}
<1> DEFINE S == UNION {PointsOf(items[i]) : i \in DOMAIN items}
           seqs == [i \in DOMAIN items |-> CartesianProduct(items[i])]
           flat == FlattenSeq(seqs)
<1>1. DOMAIN items = 1..Len(items) /\ Len(items) \in Nat
  BY DEF MatricesTyped, IsSeq
<1>2. ASSUME NEW i \in DOMAIN items
      PROVE  CartesianProduct(items[i]) \in Seq(S) /\ ValuesOf(CartesianProduct(items[i])) = PointsOf(items[i])
  <2>1. IsSeq(CartesianProduct(items[i])) /\ ValuesOf(CartesianProduct(items[i])) = PointsOf(items[i])
    BY ProductIs DEF MatricesTyped
  <2>2. PointsOf(items[i]) \subseteq S
    OBVIOUS
  <2>3. CartesianProduct(items[i]) \in Seq(PointsOf(items[i]))
    BY <2>1 DEF IsSeq, ValuesOf
  <2> HIDE DEF S
  <2> QED
    BY <2>1, <2>2, <2>3
<1> HIDE DEF S
<1>3. seqs = [i \in 1..Len(items) |-> CartesianProduct(items[i])] /\ \A i \in 1..Len(items) : seqs[i] \in Seq(S)
  BY <1>1, <1>2
<1>4. seqs \in Seq(Seq(S)) /\ Len(seqs) = Len(items)
  BY <1>1, <1>3, ListOf
<1>5. \A i \in 1..Len(items) : seqs[i] = CartesianProduct(items[i])
  BY <1>3
<1> HIDE DEF seqs
<1>6. flat \in Seq(S) /\ \E off : Flattened(seqs, flat, off)
  BY <1>4, FlattenBlocks
<1>7. PICK off : Flattened(seqs, flat, off)
  BY <1>6
<1>8. flat = Products(items)
  BY DEF Products, seqs
<1> HIDE DEF flat
<1>9. ASSUME NEW e \in S PROVE e \in ValuesOf(flat)
  <2>1. PICK i \in DOMAIN items : e \in PointsOf(items[i])
    BY DEF S
  <2>2. seqs[i] \in Seq(S) /\ i \in 1..Len(seqs) /\ e \in ValuesOf(seqs[i])
    BY <1>1, <1>2, <1>3, <1>4, <1>5, <2>1
  <2>3. PICK k \in 1..Len(seqs[i]) : seqs[i][k] = e
    BY <2>2 DEF ValuesOf
  <2>4. off[i] + k \in 1..Len(flat) /\ flat[off[i] + k] = e
    BY <1>7, <2>2, <2>3 DEF Flattened
  <2> QED
    BY <1>6, <2>4 DEF ValuesOf
<1>10. ValuesOf(flat) \subseteq S /\ IsSeq(flat)
  BY <1>6 DEF ValuesOf, IsSeq
<1> QED
  BY <1>8, <1>9, <1>10 DEF S

(* A point is part of an entry if it matches as a pattern.                 *)
LEMMA PointMatches ==
  ASSUME NEW m, NEW p \in PointsOf(m), NEW e
  PROVE  Match(e, p) <=> Agrees(e, p)
<1>1. DOMAIN p = Used(m) /\ Used(m) # {}
  BY DEF PointsOf
<1> QED
  BY <1>1 DEF Match, Agrees

(* An entry matches a product if a point of it is part of the entry.       *)
LEMMA MatchesPoint ==
  ASSUME NEW m, MatrixTyped(m), NEW e
  PROVE  MatchesAny(e, CartesianProduct(m)) <=> \E p \in PointsOf(m) : Agrees(e, p)
<1>1. ValuesOf(CartesianProduct(m)) = PointsOf(m)
  BY ProductIs
<1> QED
  BY <1>1, PointMatches DEF MatchesAny, ValuesOf

LEMMA MatchesPoints ==
  ASSUME NEW items, MatricesTyped(items), NEW e
  PROVE  MatchesAny(e, Products(items)) <=> \E i \in DOMAIN items : \E p \in PointsOf(items[i]) : Agrees(e, p)
<1>1. ValuesOf(Products(items)) = UNION {PointsOf(items[i]) : i \in DOMAIN items}
  BY ProductsAre
<1>2. MatchesAny(e, Products(items)) <=> \E p \in ValuesOf(Products(items)) : Match(e, p)
  BY DEF MatchesAny, ValuesOf
<1> QED
  BY <1>1, <1>2, PointMatches

(* The filter wants an entry if it selects it.                             *)
LEMMA WantedIsSelected ==
  ASSUME NEW f, MatrixTyped(f.match), NEW e
  PROVE  Wanted(e, f) <=> Selected(e, f)
<1> DEFINE ps == CartesianProduct(f.match)
<1>1. ps = <<>> <=> PointsOf(f.match) = {}
  <2>1. IsSeq(ps) /\ ValuesOf(ps) = PointsOf(f.match)
    BY ProductIs
  <2> HIDE DEF ps
  <2>2. ps = <<>> <=> DOMAIN ps = {}
    BY <2>1 DEF IsSeq
  <2> QED
    BY <2>1, <2>2 DEF ValuesOf
<1>2. MatchesAny(e, ps) <=> \E p \in PointsOf(f.match) : Agrees(e, p)
  BY MatchesPoint
<1>3. ASSUME NEW i \in DOMAIN f.ignore
      PROVE  Agrees(e, [k \in {f.ignore[i][1]} |-> f.ignore[i][2]]) <=> Get(e, f.ignore[i][1]) = f.ignore[i][2]
  BY DEF Agrees
<1> QED
  BY <1>1, <1>2, <1>3 DEF Wanted, Selected

(***************************************************************************)
(* The entries                                                             *)
(***************************************************************************)

AllOf(spec) == CartesianProduct(spec.vectors) \o Products(spec.include)

(* What the recursive function of GenerateEntries has for n entries.       *)
ResultOf(spec, f, res, n) ==
  CASE n = 0 -> <<>>
    [] n \in 1..Len(CartesianProduct(spec.vectors)) -> AddProduct(res[n - 1], AllOf(spec)[n], f, Products(spec.exclude))
    [] OTHER -> AddIncluded(res[n - 1], AllOf(spec)[n], f)

ResultsUpTo(spec, f, n, res) == res = [i \in 0..n |-> ResultOf(spec, f, res, i)]

(* That function exists, for any number of entries.                        *)
LEMMA ResultsExist ==
  ASSUME NEW spec, NEW f, NEW n \in Nat
  PROVE  \E res : ResultsUpTo(spec, f, n, res)
<1> DEFINE None == {k \in Nat : ~\E res : ResultsUpTo(spec, f, k, res)}
<1> SUFFICES ASSUME None # {} PROVE FALSE
  OBVIOUS
<1>1. PICK k \in None : \A l \in None : k <= l
  BY LeastNumber
<1>2. CASE k = 0
  <2> DEFINE h == [i \in 0..0 |-> <<>>]
  <2>1. h = [i \in 0..0 |-> h[i]] /\ \A i \in 0..0 : h[i] = <<>> /\ i = 0
    OBVIOUS
  <2> HIDE DEF h
  <2>2. \A i \in 0..0 : h[i] = ResultOf(spec, f, h, i)
    BY <2>1 DEF ResultOf
  <2>3. ResultsUpTo(spec, f, 0, h)
    BY <2>1, <2>2 DEF ResultsUpTo
  <2> QED
    BY <1>2, <2>3
<1>3. CASE k > 0
  <2>1. k - 1 \in Nat /\ k - 1 \notin None
    BY <1>1, <1>3
  <2>2. PICK r : ResultsUpTo(spec, f, k - 1, r)
    BY <2>1
  <2> DEFINE h == [i \in 0..k |-> IF i = k THEN ResultOf(spec, f, r, k) ELSE r[i]]
  <2>3. h = [i \in 0..k |-> h[i]] /\ h[k] = ResultOf(spec, f, r, k) /\ \A i \in 0..(k - 1) : h[i] = r[i]
    BY <2>1
  <2> HIDE DEF h
  <2>4. ASSUME NEW i \in 0..k PROVE h[i] = ResultOf(spec, f, h, i)
    <3>1. h[i] = ResultOf(spec, f, r, i)
      <4>1. CASE i = k
        BY <2>3, <4>1
      <4>2. CASE i # k
        <5>1. i \in 0..(k - 1)
          BY <2>1, <4>2
        <5> QED
          BY <2>2, <2>3, <5>1 DEF ResultsUpTo
      <4> QED
        BY <4>1, <4>2
    <3>2. CASE i = 0
      BY <3>1, <3>2 DEF ResultOf
    <3>3. CASE i # 0
      <4>1. i - 1 \in 0..(k - 1)
        BY <2>1, <3>3
      <4>2. h[i - 1] = r[i - 1]
        BY <2>3, <4>1
      <4> QED
        BY <3>1, <4>2 DEF ResultOf
    <3> QED
      BY <3>2, <3>3
  <2>5. ResultsUpTo(spec, f, k, h)
    BY <2>3, <2>4 DEF ResultsUpTo
  <2> QED
    BY <2>5
<1> QED
  BY <1>1, <1>2, <1>3

(* The first n entries that are kept.                                      *)
KeptOf(spec, f, n) ==
  {AllOf(spec)[i] : i \in {i \in 1..n :
     /\ Wanted(AllOf(spec)[i], f)
     /\ i <= Len(CartesianProduct(spec.vectors)) => ~MatchesAny(AllOf(spec)[i], Products(spec.exclude))}}

(* Of two entries of the result the later one is after the other, or has   *)
(* been included because it was not there.                                 *)
InPlace(spec, f, a, b) ==
  LET kept == KeptOf(spec, f, Len(CartesianProduct(spec.vectors)))
  IN \/ a \in kept /\ b \in kept /\ BeforeIn(spec.vectors, Used(spec.vectors), a, b)
     \/ b \notin kept /\ a # b

ResultRight(spec, f, n, es) ==
  /\ es \in Seq(ValuesOf(AllOf(spec)))
  /\ ValuesOf(es) = KeptOf(spec, f, n)
  /\ \A i, j \in DOMAIN es : j < i => InPlace(spec, f, es[j], es[i])

(* A list with one more element.                                           *)
LEMMA OneMore ==
  ASSUME NEW S, NEW s \in Seq(S), NEW x \in S
  PROVE  /\ Append(s, x) \in Seq(S) /\ ValuesOf(Append(s, x)) = ValuesOf(s) \cup {x}
         /\ DOMAIN Append(s, x) = 1..(Len(s) + 1) /\ Len(s) \in Nat /\ DOMAIN s = 1..Len(s)
         /\ \A i \in 1..Len(s) : Append(s, x)[i] = s[i]
         /\ Append(s, x)[Len(s) + 1] = x
<1>1. /\ Append(s, x) \in Seq(S) /\ DOMAIN Append(s, x) = 1..(Len(s) + 1) /\ Len(s) \in Nat /\ DOMAIN s = 1..Len(s)
      /\ \A i \in 1..Len(s) : Append(s, x)[i] = s[i]
      /\ Append(s, x)[Len(s) + 1] = x
  OBVIOUS
<1>2. 1..(Len(s) + 1) = 1..Len(s) \cup {Len(s) + 1}
  BY <1>1
<1>3. ValuesOf(Append(s, x)) = ValuesOf(s) \cup {x}
  BY <1>1, <1>2 DEF ValuesOf
<1> QED
  BY <1>1, <1>3

(* So it does not matter where an entry is added that is in place.         *)
LEMMA AddedInPlace ==
  ASSUME NEW spec, NEW f, NEW es \in Seq(ValuesOf(AllOf(spec))), NEW x \in ValuesOf(AllOf(spec)),
         \A i, j \in DOMAIN es : j < i => InPlace(spec, f, es[j], es[i]),
         \A a \in ValuesOf(es) : InPlace(spec, f, a, x)
  PROVE  \A i, j \in DOMAIN Append(es, x) : j < i => InPlace(spec, f, Append(es, x)[j], Append(es, x)[i])
<1> DEFINE t == Append(es, x)
<1>1. /\ DOMAIN t = 1..(Len(es) + 1) /\ Len(es) \in Nat /\ DOMAIN es = 1..Len(es)
      /\ \A i \in 1..Len(es) : t[i] = es[i] /\ es[i] \in ValuesOf(es)
      /\ t[Len(es) + 1] = x
  BY OneMore DEF ValuesOf
<1> HIDE DEF t
<1>2. ASSUME NEW i \in DOMAIN t, NEW j \in DOMAIN t, j < i PROVE InPlace(spec, f, t[j], t[i])
  <2>1. j \in 1..Len(es)
    BY <1>1, <1>2
  <2>2. CASE i \in 1..Len(es)
    BY <1>1, <1>2, <2>1, <2>2
  <2>3. CASE i = Len(es) + 1
    BY <1>1, <2>1, <2>3
  <2> QED
    BY <1>1, <2>2, <2>3
<1> QED
  BY <1>2 DEF t

(* The entries of the product come first, each after those before it.      *)
LEMMA AllListed ==
  ASSUME NEW spec, NEW f, SpecTyped(spec, f)
  PROVE  LET product == CartesianProduct(spec.vectors)
             included == Products(spec.include)
             all == AllOf(spec)
         IN /\ Len(product) \in Nat /\ Len(all) \in Nat /\ Len(product) <= Len(all)
            /\ \A i \in 1..Len(all) : all[i] \in ValuesOf(all)
            /\ {all[i] : i \in 1..Len(product)} = ValuesOf(product)
            /\ {all[i] : i \in (Len(product) + 1)..Len(all)} = ValuesOf(included)
            /\ \A i, j \in 1..Len(product) : j < i => BeforeIn(spec.vectors, Used(spec.vectors), all[j], all[i])
<1> DEFINE product == CartesianProduct(spec.vectors)
           included == Products(spec.include)
           all == AllOf(spec)
           S == ValuesOf(product) \cup ValuesOf(included)
<1>1. IsSeq(product) /\ IsSeq(included)
  BY ProductIs, ProductsAre DEF SpecTyped
<1>2. product \in Seq(S) /\ included \in Seq(S)
  <2>1. product \in Seq(ValuesOf(product)) /\ included \in Seq(ValuesOf(included))
    BY <1>1 DEF IsSeq, ValuesOf
  <2> HIDE DEF product, included
  <2> QED
    BY <2>1
<1>3. all = product \o included
  BY DEF AllOf
<1>4. Used(spec.vectors) = {} => product = <<>>
  BY DEF CartesianProduct
<1>5. Used(spec.vectors) # {} => RowsAre(spec.vectors, Used(spec.vectors), product)
  BY ProductIs DEF SpecTyped
<1> HIDE DEF product, included, all, S
<1>6. /\ all \in Seq(S) /\ Len(product) \in Nat /\ Len(included) \in Nat /\ Len(all) = Len(product) + Len(included)
      /\ DOMAIN product = 1..Len(product) /\ DOMAIN included = 1..Len(included) /\ DOMAIN all = 1..Len(all)
      /\ \A k \in 1..Len(product) : all[k] = product[k]
      /\ \A k \in 1..Len(included) : all[Len(product) + k] = included[k]
  BY <1>2, <1>3, Concatenation
<1>7. \A i \in 1..Len(all) : all[i] \in ValuesOf(all)
  BY <1>6 DEF ValuesOf
<1>8. {all[i] : i \in 1..Len(product)} = ValuesOf(product)
  BY <1>6 DEF ValuesOf
<1>9. {all[i] : i \in (Len(product) + 1)..Len(all)} = ValuesOf(included)
  <2>1. ASSUME NEW i \in (Len(product) + 1)..Len(all) PROVE all[i] \in ValuesOf(included)
    <3>1. i - Len(product) \in 1..Len(included) /\ i = Len(product) + (i - Len(product))
      BY <1>6
    <3>2. all[i] = included[i - Len(product)]
      BY <1>6, <3>1
    <3> QED
      BY <1>6, <3>1, <3>2 DEF ValuesOf
  <2>2. ASSUME NEW k \in 1..Len(included) PROVE \E i \in (Len(product) + 1)..Len(all) : all[i] = included[k]
    <3>1. Len(product) + k \in (Len(product) + 1)..Len(all)
      BY <1>6
    <3> QED
      BY <1>6, <3>1
  <2> QED
    BY <1>6, <2>1, <2>2 DEF ValuesOf
<1>10. ASSUME NEW i \in 1..Len(product), NEW j \in 1..Len(product), j < i
       PROVE  BeforeIn(spec.vectors, Used(spec.vectors), all[j], all[i])
  <2>1. product # <<>>
    BY <1>6
  <2>2. BeforeIn(spec.vectors, Used(spec.vectors), product[j], product[i])
    BY <1>4, <1>5, <1>6, <1>10, <2>1 DEF RowsAre
  <2> QED
    BY <1>6, <2>2
<1> QED
  BY <1>6, <1>7, <1>8, <1>9, <1>10 DEF product, included, all

(* No entry yet.                                                           *)
LEMMA NoResult ==
  ASSUME NEW spec, NEW f
  PROVE  ResultRight(spec, f, 0, <<>>)
<1>1. <<>> \in Seq(ValuesOf(AllOf(spec))) /\ DOMAIN <<>> = {} /\ 1..0 = {}
  OBVIOUS
<1> QED
  BY <1>1 DEF ResultRight, KeptOf, ValuesOf

(* The next entry is kept or not.                                          *)
LEMMA ResultStep ==
  ASSUME NEW spec, NEW f, SpecTyped(spec, f), NEW n \in 1..Len(AllOf(spec)), NEW res,
         ResultRight(spec, f, n - 1, res[n - 1])
  PROVE  ResultRight(spec, f, n, ResultOf(spec, f, res, n))
<1> DEFINE all == AllOf(spec)
           e == all[n]
           es == res[n - 1]
           ends == Len(CartesianProduct(spec.vectors))
           removed == Products(spec.exclude)
           keeps(i) == Wanted(all[i], f) /\ (i <= ends => ~MatchesAny(all[i], removed))
           kept(k) == KeptOf(spec, f, k)
<1>0. n \in Nat /\ n # 0 /\ ends \in Nat /\ Len(all) \in Nat /\ ends <= Len(all) /\ n - 1 \in Nat
  BY AllListed
<1>1. es \in Seq(ValuesOf(all)) /\ e \in ValuesOf(all) /\ ValuesOf(es) = kept(n - 1)
  BY AllListed DEF ResultRight
<1>2. \A i, j \in DOMAIN es : j < i => InPlace(spec, f, es[j], es[i])
  BY DEF ResultRight
<1>3. 1..n = 1..(n - 1) \cup {n}
  BY <1>0
<1>4. \A k : kept(k) = {all[i] : i \in {i \in 1..k : keeps(i)}}
  BY DEF KeptOf
<1>5. kept(n) = kept(n - 1) \cup IF keeps(n) THEN {e} ELSE {}
  BY <1>3, <1>4
<1>6. ResultOf(spec, f, res, n) = IF n <= ends THEN AddProduct(es, e, f, removed) ELSE AddIncluded(es, e, f)
  BY <1>0 DEF ResultOf
<1>7. CASE n <= ends
  <2>1. ResultOf(spec, f, res, n) = IF keeps(n) THEN Append(es, e) ELSE es
    BY <1>6, <1>7 DEF AddProduct
  <2>2. CASE ~keeps(n)
    BY <1>1, <1>2, <1>5, <2>1, <2>2 DEF ResultRight
  <2>3. CASE keeps(n)
    <3>1. e \in kept(ends)
      BY <1>0, <1>4, <1>7, <2>3
    <3>2. ASSUME NEW a \in ValuesOf(es) PROVE InPlace(spec, f, a, e)
      <4>1. PICK i \in 1..(n - 1) : a = all[i] /\ keeps(i)
        BY <1>1, <1>4
      <4>2. i \in 1..ends /\ n \in 1..ends /\ i < n
        BY <1>0, <1>7, <4>1
      <4>3. BeforeIn(spec.vectors, Used(spec.vectors), a, e)
        BY <4>1, <4>2, AllListed
      <4>4. a \in kept(ends)
        BY <1>4, <4>1, <4>2
      <4> QED
        BY <3>1, <4>3, <4>4 DEF InPlace
    <3> HIDE DEF e, es, all
    <3>3. \A i, j \in DOMAIN Append(es, e) : j < i => InPlace(spec, f, Append(es, e)[j], Append(es, e)[i])
      BY <1>1, <1>2, <3>2, AddedInPlace DEF all
    <3>4. Append(es, e) \in Seq(ValuesOf(all)) /\ ValuesOf(Append(es, e)) = kept(n)
      BY <1>1, <1>5, <2>3, OneMore
    <3> QED
      BY <2>1, <2>3, <3>3, <3>4 DEF ResultRight, all
  <2> QED
    BY <2>2, <2>3
<1>8. CASE ~(n <= ends)
  <2> DEFINE new == \A i \in DOMAIN es : es[i] # e
  <2>1. ResultOf(spec, f, res, n) = IF keeps(n) /\ new THEN Append(es, e) ELSE es
    BY <1>6, <1>8 DEF AddIncluded
  <2>2. new <=> e \notin ValuesOf(es)
    BY DEF ValuesOf
  <2>3. CASE ~(keeps(n) /\ new)
    <3>1. kept(n) = ValuesOf(es)
      BY <1>1, <1>5, <2>2, <2>3
    <3> QED
      BY <1>1, <1>2, <2>1, <2>3, <3>1 DEF ResultRight
  <2>4. CASE keeps(n) /\ new
    <3>1. kept(ends) \subseteq kept(n - 1)
      <4>1. 1..ends \subseteq 1..(n - 1)
        BY <1>0, <1>8
      <4> QED
        BY <1>4, <4>1
    <3>2. e \notin kept(ends)
      BY <1>1, <2>2, <2>4, <3>1
    <3>3. ASSUME NEW a \in ValuesOf(es) PROVE InPlace(spec, f, a, e)
      BY <2>2, <2>4, <3>2 DEF InPlace
    <3> HIDE DEF e, es, all
    <3>4. \A i, j \in DOMAIN Append(es, e) : j < i => InPlace(spec, f, Append(es, e)[j], Append(es, e)[i])
      BY <1>1, <1>2, <3>3, AddedInPlace DEF all
    <3>5. Append(es, e) \in Seq(ValuesOf(all)) /\ ValuesOf(Append(es, e)) = kept(n)
      BY <1>1, <1>5, <2>4, OneMore
    <3> QED
      BY <2>1, <2>4, <3>4, <3>5 DEF ResultRight, all
  <2> QED
    BY <2>3, <2>4
<1> QED
  BY <1>7, <1>8

(* So it has come out right when all have been looked at.                  *)
LEMMA ResultIsRight ==
  ASSUME NEW spec, NEW f, SpecTyped(spec, f), NEW here, HasUserValue(spec)
  PROVE  ResultRight(spec, f, Len(AllOf(spec)), GenerateEntries(spec, f, here))
<1> DEFINE N == Len(AllOf(spec))
           F == CHOOSE r : r = [n \in 0..N |-> ResultOf(spec, f, r, n)]
           Bad == {n \in 0..N : ~ResultRight(spec, f, n, F[n])}
<1>1. N \in Nat
  BY AllListed
<1>2. PICK res : ResultsUpTo(spec, f, N, res)
  BY <1>1, ResultsExist
<1>3. F = [n \in 0..N |-> ResultOf(spec, f, F, n)]
  BY <1>2 DEF ResultsUpTo
<1>4. GenerateEntries(spec, f, here) = F[N]
  BY DEF GenerateEntries, ResultOf, AllOf
<1> HIDE DEF F
<1>5. \A n \in 0..N : F[n] = ResultOf(spec, f, F, n)
  BY <1>3
<1>6. Bad = {}
  <2> SUFFICES ASSUME Bad # {} PROVE FALSE
    OBVIOUS
  <2>1. PICK n \in Bad : \A k \in Bad : n <= k
    <3>1. Bad \in SUBSET Nat
      OBVIOUS
    <3> QED
      BY <3>1, LeastNumber
  <2>2. CASE n = 0
    <3>1. F[0] = <<>>
      BY <1>1, <1>5 DEF ResultOf
    <3> QED
      BY <2>2, <3>1, NoResult
  <2>3. CASE n # 0
    <3>1. n \in 1..N /\ n - 1 \in 0..N /\ ~(n <= n - 1)
      BY <1>1, <2>3
    <3>2. ResultRight(spec, f, n - 1, F[n - 1])
      BY <2>1, <3>1
    <3>3. ResultRight(spec, f, n, ResultOf(spec, f, F, n))
      BY <3>1, <3>2, ResultStep
    <3> QED
      BY <1>5, <3>1, <3>3
  <2> QED
    BY <2>2, <2>3
<1> QED
  BY <1>1, <1>4, <1>6

(* The values of a list without repeats: their places are their ranks.     *)
LEMMA BeforeRanks ==
  ASSUME NEW m, MatrixTyped(m), \A k \in Used(m) : IsInjective(m[k]),
         NEW a, NEW b, BeforeIn(m, Used(m), a, b)
  PROVE  Before(m, a, b) /\ a # b
<1>1. PICK k \in Used(m) : /\ \E x, y \in DOMAIN m[k] : x < y /\ m[k][x] = a[k] /\ m[k][y] = b[k]
                           /\ \A l \in Used(m) : l < k => a[l] = b[l]
  BY DEF BeforeIn
<1>2. PICK x \in DOMAIN m[k], y \in DOMAIN m[k] : x < y /\ m[k][x] = a[k] /\ m[k][y] = b[k]
  BY <1>1
<1>3. IsInjective(m[k]) /\ DOMAIN m[k] \subseteq Nat
  BY <1>1 DEF MatrixTyped, Used, IsSeq
<1>4. \A j \in DOMAIN m[k] : (m[k][j] = a[k] <=> j = x) /\ (m[k][j] = b[k] <=> j = y)
  BY <1>2, <1>3 DEF IsInjective
<1>5. (CHOOSE j \in DOMAIN m[k] : m[k][j] = a[k]) = x /\ (CHOOSE j \in DOMAIN m[k] : m[k][j] = b[k]) = y
  BY <1>4
<1>6. Before(m, a, b)
  BY <1>1, <1>2, <1>5 DEF Before
<1>7. a[k] # b[k]
  BY <1>2, <1>3, <1>4
<1> QED
  BY <1>6, <1>7

(* A list without repeats is as long as it has values.                     *)
LEMMA LengthCounts ==
  ASSUME NEW S, NEW s \in Seq(S), \A i, j \in DOMAIN s : j < i => s[j] # s[i]
  PROVE  Len(s) = Cardinality(ValuesOf(s))
<1>1. DOMAIN s = 1..Len(s) /\ Len(s) \in Nat
  OBVIOUS
<1>2. \A i, j \in 1..Len(s) : i # j => s[i] # s[j]
  BY <1>1
<1>3. [i \in 1..Len(s) |-> s[i]] \in Bijection(1..Len(s), ValuesOf(s))
  BY <1>1, <1>2 DEF Bijection, Injection, Surjection, IsInjective, ValuesOf
<1>4. IsFiniteSet(1..Len(s)) /\ Cardinality(1..Len(s)) = Len(s)
  BY <1>1, FS_Interval
<1> QED
  BY <1>3, <1>4, FS_Bijection DEF ExistsBijection

(* GenerateEntries gives what the matrix and the filter describe, whatever *)
(* they are.                                                               *)
LEMMA EntriesAreExact ==
  ASSUME NEW spec, NEW f, NEW here, SpecTyped(spec, f)
  PROVE  EntriesExact(spec, f, here)
<1> DEFINE es == GenerateEntries(spec, f, here)
           m == spec.vectors
           all == AllOf(spec)
           ends == Len(CartesianProduct(m))
           product == {e \in PointsOf(m) :
                         /\ Selected(e, f)
                         /\ \A i \in DOMAIN spec.exclude : ~\E p \in PointsOf(spec.exclude[i]) : Agrees(e, p)}
           included == {e \in UNION {PointsOf(spec.include[i]) : i \in DOMAIN spec.include} : Selected(e, f)}
<1>1. CASE ~HasUserValue(spec)
  <2>1. es = <<here>>
    BY <1>1 DEF GenerateEntries
  <2> QED
    BY <1>1, <2>1 DEF EntriesExact
<1>2. CASE HasUserValue(spec)
  <2>1. ResultRight(spec, f, Len(all), es)
    BY <1>2, ResultIsRight
  <2>2. /\ ends \in Nat /\ Len(all) \in Nat /\ ends <= Len(all)
        /\ {all[i] : i \in 1..ends} = PointsOf(m)
        /\ {all[i] : i \in (ends + 1)..Len(all)} = UNION {PointsOf(spec.include[i]) : i \in DOMAIN spec.include}
    <3>1. ValuesOf(CartesianProduct(m)) = PointsOf(m)
      BY ProductIs DEF SpecTyped
    <3>2. ValuesOf(Products(spec.include)) = UNION {PointsOf(spec.include[i]) : i \in DOMAIN spec.include}
      BY ProductsAre DEF SpecTyped
    <3> QED
      BY <3>1, <3>2, AllListed
  <2>3. \A e : Wanted(e, f) <=> Selected(e, f)
    BY WantedIsSelected DEF SpecTyped
  <2>4. \A e : MatchesAny(e, Products(spec.exclude)) <=>
                 \E i \in DOMAIN spec.exclude : \E p \in PointsOf(spec.exclude[i]) : Agrees(e, p)
    BY MatchesPoints DEF SpecTyped
  <2> DEFINE keeps(i) == Selected(all[i], f) /\ (i <= ends => all[i] \in product)
  <2>5. \A k \in 0..Len(all) : KeptOf(spec, f, k) = {all[i] : i \in {i \in 1..k : keeps(i)}}
    <3>1. \A i \in 1..Len(all) :
            keeps(i) <=> Wanted(all[i], f) /\ (i <= ends => ~MatchesAny(all[i], Products(spec.exclude)))
      BY <2>2, <2>3, <2>4
    <3> HIDE DEF keeps, all, ends
    <3> QED
      BY <3>1 DEF KeptOf, all, ends
  <2>6. KeptOf(spec, f, ends) = product
    <3>1. ends \in 0..Len(all) /\ \A i \in 1..ends : i <= ends
      BY <2>2
    <3>2. KeptOf(spec, f, ends) = {all[i] : i \in {i \in 1..ends : keeps(i)}}
      BY <2>5, <3>1
    <3>3. \A i \in 1..ends : keeps(i) <=> all[i] \in product
      BY <3>1
    <3>4. \A e \in product : \E i \in 1..ends : e = all[i]
      BY <2>2
    <3> HIDE DEF keeps, all, ends, product
    <3> QED
      BY <3>2, <3>3, <3>4
  <2>7. KeptOf(spec, f, Len(all)) = product \cup included
    <3>1. Len(all) \in 0..Len(all) /\ 1..Len(all) = 1..ends \cup (ends + 1)..Len(all)
      BY <2>2
    <3>2. \A i \in (ends + 1)..Len(all) : ~(i <= ends)
      BY <2>2
    <3>3. {all[i] : i \in {i \in (ends + 1)..Len(all) : keeps(i)}} = included
      BY <2>2, <3>2
    <3>4. {all[i] : i \in {i \in 1..ends : keeps(i)}} = product
      BY <2>2, <2>5, <2>6
    <3> HIDE DEF keeps, all, ends, product, included
    <3> QED
      BY <2>5, <3>1, <3>3, <3>4
  <2> HIDE DEF es, all, ends, product, included, keeps
  <2>8. /\ es \in Seq(ValuesOf(all)) /\ ValuesOf(es) = product \cup included
        /\ \A i, j \in DOMAIN es : j < i =>
             \/ es[j] \in product /\ es[i] \in product /\ BeforeIn(m, Used(m), es[j], es[i])
             \/ es[i] \notin product /\ es[j] # es[i]
    BY <2>1, <2>6, <2>7 DEF ResultRight, InPlace, all, ends, m
  <2>9. ASSUME \A k \in Used(m) : IsInjective(m[k])
        PROVE  /\ Len(es) = Cardinality(product \cup included)
               /\ \A i, j \in DOMAIN es : es[i] \in product /\ i > j => es[j] \in product /\ Before(m, es[j], es[i])
    <3>1. \A a, b : BeforeIn(m, Used(m), a, b) => Before(m, a, b) /\ a # b
      BY <2>9, BeforeRanks DEF SpecTyped
    <3>2. \A i, j \in DOMAIN es : j < i => es[j] # es[i]
      BY <2>8, <3>1
    <3>3. Len(es) = Cardinality(product \cup included)
      BY <2>8, <3>2, LengthCounts
    <3>4. DOMAIN es \subseteq Nat
      BY <2>8
    <3>5. ASSUME NEW i \in DOMAIN es, NEW j \in DOMAIN es, es[i] \in product, i > j
          PROVE  es[j] \in product /\ Before(m, es[j], es[i])
      <4>1. j < i
        BY <3>4, <3>5
      <4> QED
        BY <2>8, <3>1, <3>5, <4>1
    <3> QED
      BY <3>3, <3>5
  <2> QED
    BY <1>2, <2>8, <2>9 DEF EntriesExact, es, product, included
<1> QED
  BY <1>1, <1>2

(* For any jobs: the entries a task is run for are those its matrix and    *)
(* the filter describe, in the order of the matrix and each once if no     *)
(* vector repeats a value (GenerateEntries of matrix.go).                  *)
THEOREM ToolRunMatrix == Spec => []MatrixExact
<1>1. Init => job \in Jobs
  BY DEF Init
<1>2. job \in Jobs /\ [Next]_vars => (job \in Jobs)'
  BY DEF Next, BuildahNext, DockerNext, GoNext, CosignNext, Terminated, vars
<1>3. job \in Jobs => MatrixExact
  BY MatrixAssumption, EntriesAreExact DEF MatrixExact
<1> QED
  BY <1>1, <1>2, <1>3, PTL DEF Spec

-----------------------------------------------------------------------------

(* An entry whose callbacks return no specs goes through a list            *)

(* A call without its current spec.                                        *)
LEMMA CallLeft ==
  ASSUME NEW s, NEW t
  PROVE  [[ignore |-> FALSE, todo |-> s] EXCEPT !.todo = t] = [ignore |-> FALSE, todo |-> t]
<1> DEFINE r == [ignore |-> FALSE, todo |-> s]
           e == [r EXCEPT !.todo = t]
           f == [ignore |-> FALSE, todo |-> t]
<1>1. DOMAIN r = {"ignore", "todo"} /\ DOMAIN f = {"ignore", "todo"}
  OBVIOUS
<1>2. r.ignore = FALSE /\ f.ignore = FALSE /\ f.todo = t
  OBVIOUS
<1>3. DOMAIN e = DOMAIN r
  <2> HIDE DEF r
  <2> QED
    OBVIOUS
<1>4. e.ignore = FALSE /\ e.todo = t
  <2> HIDE DEF r
  <2> QED
    BY <1>1, <1>2
<1>5. e = [x \in DOMAIN e |-> e[x]] /\ f = [x \in DOMAIN f |-> f[x]]
  OBVIOUS
<1> HIDE DEF r, e, f
<1>6. e = f
  BY <1>1, <1>2, <1>3, <1>4, <1>5
<1> QED
  BY <1>6 DEF e, f, r

(* The first element of a sequence.                                        *)
LEMMA FirstOnly ==
  ASSUME NEW S, NEW s \in Seq(S), s # <<>>
  PROVE  SubSeq(s, 1, 1) = <<s[1]>>
<1>1. SubSeq(s, 1, 1) = [i \in 1..1 |-> s[i]]
  OBVIOUS
<1>2. \A x : <<x>> = [i \in 1..1 |-> x]
  OBVIOUS
<1>3. [i \in 1..1 |-> s[i]] = [i \in 1..1 |-> s[1]]
  OBVIOUS
<1> QED
  BY <1>1, <1>2, <1>3

(* The spec come to, and what is left after it.                            *)
LEMMA CurrentSpec ==
  ASSUME NEW g, NEW specs, IsSeq(specs), NEW p, AtSpec(g, specs, p)
  PROVE  /\ Current(g) = specs[p]
         /\ Rest(g) = <<[ignore |-> FALSE, todo |-> SubSeq(specs, p + 1, Len(specs))]>>
<1> DEFINE n == Len(specs)
           call == [ignore |-> FALSE, todo |-> SubSeq(specs, p, n)]
<1>1. n \in Nat /\ p \in 1..n /\ frames[g] = <<call>>
  BY LenProperties DEF IsSeq, AtSpec
<1>2. Head(SubSeq(specs, p, n)) = specs[p] /\ Tail(SubSeq(specs, p, n)) = SubSeq(specs, p + 1, n)
  <2> DEFINE S == {specs[i] : i \in DOMAIN specs}
  <2>1. specs \in Seq(S)
    BY DEF IsSeq
  <2> HIDE DEF S
  <2>2. 1 <= p /\ p <= n /\ p \in 1..n /\ n \in 1..Len(specs)
    BY <1>1
  <2> HIDE DEF n, call
  <2> QED
    BY <2>1, <2>2, HeadTailOfSubSeq
<1>3. call.todo = SubSeq(specs, p, n) /\ [call EXCEPT !.todo = Tail(@)] = [ignore |-> FALSE, todo |-> SubSeq(specs, p + 1, n)]
  BY <1>2, CallLeft
<1> HIDE DEF call
<1>4. Last(<<call>>) = call /\ Front(<<call>>) = <<>>
  BY DEF Last, Front
<1> HIDE DEF n
<1>5. Current(g) = specs[p]
  BY <1>1, <1>2, <1>3, <1>4 DEF Current
<1>6. Rest(g) = Append(<<>>, [ignore |-> FALSE, todo |-> SubSeq(specs, p + 1, n)])
  BY <1>1, <1>3, <1>4 DEF Rest
<1> QED
  BY <1>5, <1>6 DEF n

(* The spec succeeds and adds none: the next one is come to.               *)
LEMMA LinearSucceed ==
  ASSUME EngineInv, NEW g \in Entries, NEW specs, IsSeq(specs), NEW p, AtSpec(g, specs, p),
         NEW data, Succeed(g, data, <<>>)
  PROVE  /\ Through(g, specs, p + 1)'
         /\ \A h \in Entries \ {g} : stage'[h] = stage[h] /\ frames'[h] = frames[h]
<1> DEFINE n == Len(specs)
           rest == [ignore |-> FALSE, todo |-> SubSeq(specs, p + 1, n)]
           none == [ignore |-> Current(g).ignore, todo |-> <<>>]
           fs == Append(Rest(g), none)
<1>1. n \in Nat /\ p \in 1..n
  BY LenProperties DEF IsSeq, AtSpec
<1>2. Rest(g) = <<rest>>
  BY CurrentSpec
<1>3. Continue(g, fs)
  BY DEF Succeed
<1>4. rest.todo = SubSeq(specs, p + 1, n) /\ none.todo = <<>>
  OBVIOUS
<1>5. DOMAIN stage = Entries /\ DOMAIN frames = Entries
  BY DEF EngineInv, TypeOK, ExecTypeOK
<1> HIDE DEF fs, rest, none
<1>6. \A h \in Entries \ {g} : stage'[h] = stage[h] /\ frames'[h] = frames[h]
  BY <1>3, <1>5 DEF Continue, Goto
<1>7. {i \in DOMAIN fs : fs[i].todo # <<>>} = IF rest.todo = <<>> THEN {} ELSE {1}
  <2>1. DOMAIN fs = {1, 2} /\ fs[1] = rest /\ fs[2] = none
    BY <1>2 DEF fs
  <2> QED
    BY <2>1, <1>4
<1>8. CASE p = n
  <2>1. rest.todo = <<>>
    BY <1>1, <1>4, <1>8, SubSeqEmpty
  <2>2. Returned(fs) = SubSeq(fs, 1, 0)
    BY <1>7, <2>1 DEF Returned
  <2>3. Returned(fs) = <<>>
    BY <2>2, SubSeqEmpty
  <2>4. stage'[g] = "ok"
    BY <1>3, <1>5, <2>3 DEF Continue, Goto
  <2> QED
    BY <1>1, <1>6, <1>8, <2>4 DEF Through
<1>9. CASE p # n
  <2>0. p + 1 \in 1..n
    BY <1>1, <1>9
  <2>1. Len(SubSeq(specs, p + 1, n)) = n - p
    BY <1>1, <2>0
  <2>2. rest.todo # <<>>
    <3>1. n - p # 0
      BY <1>1, <1>9
    <3> QED
      BY <1>4, <2>1, <3>1, EmptySeq
  <2>3. (CHOOSE i \in {1} : \A j \in {1} : j <= i) = 1
    OBVIOUS
  <2>4. Returned(fs) = SubSeq(fs, 1, 1)
    BY <1>7, <2>2, <2>3 DEF Returned
  <2>5. Returned(fs) = <<rest>>
    <3>1. fs[1] = rest
      BY <1>2 DEF fs
    <3>2. fs \in Seq({rest, none}) /\ fs # <<>>
      BY <1>2 DEF fs
    <3>3. SubSeq(fs, 1, 1) = <<fs[1]>>
      BY <3>2, FirstOnly
    <3> QED
      BY <2>4, <3>1, <3>3
  <2>6. stage'[g] = "running" /\ frames'[g] = <<rest>>
    BY <1>3, <1>5, <2>5 DEF Continue, Goto
  <2> QED
    BY <1>6, <2>0, <2>6 DEF Through, AtSpec, rest
<1> QED
  BY <1>8, <1>9

(* The spec fails, and its error is not ignored: so does the entry.        *)
LEMMA LinearFail ==
  ASSUME EngineInv, NEW g \in Entries, NEW specs, IsSeq(specs), NEW p, AtSpec(g, specs, p),
         NoToolCmd(g) \/ (~Current(g).ignore /\ \E data : Fail(g, data))
  PROVE  /\ stage'[g] = "failed"
         /\ \A h \in Entries \ {g} : stage'[h] = stage[h] /\ frames'[h] = frames[h]
<1> DEFINE call == [ignore |-> FALSE, todo |-> SubSeq(specs, p + 1, Len(specs))]
<1>1. Rest(g) = <<call>> /\ ~call.ignore
  BY CurrentSpec
<1>2. Unwind(g)
  BY DEF NoToolCmd, Fail
<1> HIDE DEF call
<1>3. {i \in DOMAIN Rest(g) : Rest(g)[i].ignore} = {}
  BY <1>1
<1>4. Goto(g, "failed") /\ frames' = [frames EXCEPT ![g] = <<>>]
  BY <1>2, <1>3 DEF Unwind
<1> QED
  BY <1>4 DEF Goto, EngineInv, TypeOK, ExecTypeOK

(* What GetExecSpecs returned is gone through from its first.              *)
LEMMA LinearStart ==
  ASSUME EngineInv, NEW g \in Entries, NEW specs, IsSeq(specs), Generated(g, specs)
  PROVE  /\ Through(g, specs, 1)'
         /\ \A h \in Entries \ {g} : stage'[h] = stage[h] /\ frames'[h] = frames[h]
<1>1. Len(specs) \in Nat /\ (Len(specs) = 0 <=> specs = <<>>) /\ SubSeq(specs, 1, Len(specs)) = specs
  BY LenProperties, EmptySeq, SubSeqFull DEF IsSeq
<1>2. DOMAIN stage = Entries /\ DOMAIN frames = Entries
  BY DEF EngineInv, TypeOK, ExecTypeOK
<1>3. CASE specs = <<>>
  BY <1>1, <1>2, <1>3 DEF Generated, Goto, Through
<1>4. CASE specs # <<>>
  <2>1. 1 \in 1..Len(specs)
    BY <1>1, <1>4
  <2>2. stage'[g] = "running" /\ frames'[g] = <<[ignore |-> FALSE, todo |-> specs]>>
    BY <1>2, <1>4 DEF Generated, Goto
  <2> QED
    BY <1>1, <1>2, <2>1, <2>2 DEF Generated, Goto, Through, AtSpec
<1> QED
  BY <1>3, <1>4

-----------------------------------------------------------------------------

(* cosign                                                                  *)

(* The fields of a command.                                                *)
LEMMA CmdFields ==
  ASSUME NEW op, NEW args
  PROVE  /\ Cmd(op, args).op = op /\ Cmd(op, args).args = args /\ Cmd(op, args).out = NoToken
         /\ ~Cmd(op, args).ignore /\ Cmd(op, args).env = <<>>
BY DEF Cmd, CmdInto

(* They are the same when it suggests variables.                           *)
LEMMA EnvFields ==
  ASSUME NEW op, NEW args, NEW e
  PROVE  LET c == WithEnv(Cmd(op, args), e)
         IN c.op = op /\ c.args = args /\ c.out = NoToken /\ ~c.ignore /\ c.env = e
<1> DEFINE c == Cmd(op, args)
<1>1. DOMAIN c = {"op", "args", "out", "ignore", "env"}
  BY DEF Cmd, CmdInto
<1>2. c.op = op /\ c.args = args /\ c.out = NoToken /\ ~c.ignore
  BY CmdFields
<1> HIDE DEF c
<1>3. /\ [c EXCEPT !.env = e].op = op /\ [c EXCEPT !.env = e].args = args
      /\ [c EXCEPT !.env = e].out = NoToken /\ ~[c EXCEPT !.env = e].ignore
      /\ [c EXCEPT !.env = e].env = e
  BY <1>1, <1>2
<1> QED
  BY <1>3 DEF WithEnv, c

(* A sequence with an element in front.                                    *)
LEMMA Prepended ==
  ASSUME NEW S, NEW x \in S, NEW t \in Seq(S), NEW u \in Seq(S),
         Len(u) = Len(t) + 1, u[1] = x, \A i \in 1..Len(t) : u[i + 1] = t[i]
  PROVE  <<x>> \o t = u
<1> DEFINE s == <<x>>
<1>1. s \in Seq(S) /\ Len(s) = 1 /\ s[1] = x
  OBVIOUS
<1> HIDE DEF s
<1>2. s \o t \in Seq(S) /\ Len(s \o t) = Len(u) /\ Len(t) \in Nat
  <2>1. s \o t \in Seq(S) /\ Len(s \o t) = Len(s) + Len(t) /\ Len(t) \in Nat
    BY <1>1, ConcatProperties, LenProperties
  <2> QED
    BY <1>1, <2>1
<1>3. \A i \in 1..Len(u) : (s \o t)[i] = u[i]
  <2> TAKE i \in 1..Len(u)
  <2>1. CASE i = 1
    BY <1>1, <1>2, <2>1
  <2>2. CASE i # 1
    <3>1. i - 1 \in 1..Len(t) /\ u[(i - 1) + 1] = t[i - 1] /\ (i - 1) + 1 = i
      BY <1>2, <2>2
    <3>2. (s \o t)[i] = t[i - 1]
      BY <1>1, <1>2, <2>2
    <3> QED
      BY <3>1, <3>2
  <2> QED
    BY <2>1, <2>2
<1>4. s \o t = u
  BY <1>2, <1>3, SeqEqual
<1> QED
  BY <1>4 DEF s

(* The specs of one target.                                                *)
LEMMA TargetSpecsAre ==
  ASSUME NEW g, NEW t
  PROVE  LET b == TargetSpecs(g, t)
         IN /\ IsSeq(b)
            /\ \A k \in 1..Len(b) : CosignSpec(g, t, b[k]) /\ Verifiable(b, k)
            /\ signTask.verify /\ Signs => \E k \in 1..Len(b) : b[k].op = "verify"
<1> DEFINE up == Cmd("upload", <<t>>)
           sg == WithEnv(Cmd("sign", <<t>>), RepoEnv)
           op == IF signMatrix[g].public = "" THEN "public-key" ELSE "write-public-key"
           pk == Cmd(op, <<>>)
           vf == Cmd("verify", <<t>>)
           b == TargetSpecs(g, t)
<1>1. CosignSpec(g, t, up) /\ up.op = "upload"
  <2>1. /\ up.op = "upload" /\ up.args = <<t>> /\ up.out = NoToken
        /\ ~up.ignore /\ up.env = <<>>
    BY CmdFields
  <2> HIDE DEF up
  <2> QED
    BY <2>1 DEF CosignSpec, CosignCommands, Publishing
<1>2. sg.op = "sign" /\ sg.args = <<t>> /\ (Signs => CosignSpec(g, t, sg))
  <2>1. /\ sg.op = "sign" /\ sg.args = <<t>> /\ sg.out = NoToken
        /\ ~sg.ignore /\ sg.env = RepoEnv
    BY EnvFields
  <2> HIDE DEF sg
  <2> QED
    BY <2>1 DEF CosignSpec, CosignCommands, Publishing
<1>3. pk.op \in Publishing /\ (Signs => CosignSpec(g, t, pk))
  <2> HIDE DEF op
  <2>1. pk.op = op /\ pk.out = NoToken /\ ~pk.ignore /\ pk.env = <<>>
    BY CmdFields
  <2> HIDE DEF pk
  <2> QED
    BY <2>1 DEF op, CosignSpec, CosignCommands, Publishing
<1>4. CosignSpec(g, t, vf) /\ vf.op = "verify" /\ vf.args = <<t>>
  <2>1. /\ vf.op = "verify" /\ vf.args = <<t>> /\ vf.out = NoToken
        /\ ~vf.ignore /\ vf.env = <<>>
    BY CmdFields
  <2> HIDE DEF vf
  <2> QED
    BY <2>1 DEF CosignSpec, CosignCommands, Publishing
<1>5. b = (IF signTask.kind = "upload" THEN <<up>> ELSE <<>>)
          \o (IF Signs THEN <<sg>> \o (IF ~signTask.verify THEN <<>> ELSE <<pk, vf>>) ELSE <<>>)
  BY DEF TargetSpecs, genSignAndVerifySpec, Signs
<1> HIDE DEF up, sg, pk, vf, b
<1>9. /\ <<>> \o <<up>> = <<up>> /\ <<up>> \o <<>> = <<up>> /\ <<>> \o <<>> = <<>>
      /\ <<sg>> \o <<>> = <<sg>> /\ <<>> \o <<sg>> = <<sg>> /\ <<up>> \o <<sg>> = <<up, sg>>
      /\ <<sg>> \o <<pk, vf>> = <<sg, pk, vf>> /\ <<>> \o <<sg, pk, vf>> = <<sg, pk, vf>>
      /\ <<up>> \o <<sg, pk, vf>> = <<up, sg, pk, vf>>
  <2> DEFINE S == {up, sg, pk, vf}
  <2>1. <<sg>> \o <<pk, vf>> = <<sg, pk, vf>>
    <3> DEFINE u == <<sg, pk, vf>>
               v == <<pk, vf>>
    <3>1. v \in Seq(S) /\ u \in Seq(S) /\ Len(u) = Len(v) + 1 /\ u[1] = sg /\ \A i \in 1..Len(v) : u[i + 1] = v[i]
      OBVIOUS
    <3> HIDE DEF u, v
    <3>2. <<sg>> \o v = u
      BY <3>1, Prepended
    <3> QED
      BY <3>2 DEF u, v
  <2>2. <<up>> \o <<sg, pk, vf>> = <<up, sg, pk, vf>>
    <3> DEFINE u == <<up, sg, pk, vf>>
               v == <<sg, pk, vf>>
    <3>1. v \in Seq(S) /\ u \in Seq(S) /\ Len(u) = Len(v) + 1 /\ u[1] = up /\ \A i \in 1..Len(v) : u[i + 1] = v[i]
      OBVIOUS
    <3> HIDE DEF u, v
    <3>2. <<up>> \o v = u
      BY <3>1, Prepended
    <3> QED
      BY <3>2 DEF u, v
  <2>3. <<>> \o <<sg, pk, vf>> = <<sg, pk, vf>>
    BY ConcatEmptySeq
  <2>4. /\ <<up>> \in Seq(S) /\ <<sg>> \in Seq(S) /\ <<>> \in Seq(S) /\ Len(<<>>) = 0
        /\ <<up, sg>> \in Seq(S) /\ Len(<<up, sg>>) = 2 /\ Len(<<sg>>) = 1
    OBVIOUS
  <2>5. /\ <<>> \o <<up>> = <<up>> /\ <<up>> \o <<>> = <<up>> /\ <<>> \o <<>> = <<>>
        /\ <<sg>> \o <<>> = <<sg>> /\ <<>> \o <<sg>> = <<sg>>
    BY <2>4, ConcatEmptySeq
  <2>6. <<up>> \o <<sg>> = <<up, sg>>
    <3> DEFINE u == <<up, sg>>
               v == <<sg>>
    <3>1. v \in Seq(S) /\ u \in Seq(S) /\ Len(u) = Len(v) + 1 /\ u[1] = up /\ \A i \in 1..Len(v) : u[i + 1] = v[i]
      OBVIOUS
    <3> HIDE DEF u, v
    <3>2. <<up>> \o v = u
      BY <3>1, Prepended
    <3> QED
      BY <3>2 DEF u, v
  <2> QED
    BY <2>1, <2>2, <2>3, <2>5, <2>6
<1> DEFINE Good(x) ==
      /\ IsSeq(x)
      /\ \A k \in 1..Len(x) : CosignSpec(g, t, x[k]) /\ Verifiable(x, k)
      /\ signTask.verify /\ Signs => \E k \in 1..Len(x) : x[k].op = "verify"
<1>6. CASE ~Signs
  <2>1. b = <<up>> \/ b = <<>>
    BY <1>5, <1>6, <1>9
  <2>2. Good(<<>>)
    BY <1>6 DEF IsSeq
  <2>3. Good(<<up>>)
    BY <1>1, <1>6 DEF Verifiable, IsSeq
  <2> QED
    BY <2>1, <2>2, <2>3 DEF b
<1>7. CASE Signs /\ ~signTask.verify
  <2>1. b = <<up, sg>> \/ b = <<sg>>
    BY <1>5, <1>7, <1>9
  <2>2. ASSUME NEW x, x = <<up, sg>> \/ x = <<sg>> PROVE Good(x)
    <3>1. IsSeq(x)
      BY <2>2 DEF IsSeq
    <3>2. \A k \in 1..Len(x) : x[k] \in {up, sg}
      BY <2>2
    <3> QED
      BY <1>1, <1>2, <1>7, <3>1, <3>2 DEF Verifiable
  <2> QED
    BY <2>1, <2>2 DEF b
<1>8. CASE Signs /\ signTask.verify
  <2>1. b = <<up, sg, pk, vf>> \/ b = <<sg, pk, vf>>
    BY <1>5, <1>8, <1>9
  <2>2. Good(<<up, sg, pk, vf>>)
    <3> DEFINE x == <<up, sg, pk, vf>>
    <3>1. IsSeq(x) /\ Len(x) = 4 /\ x[1] = up /\ x[2] = sg /\ x[3] = pk /\ x[4] = vf
      BY DEF IsSeq
    <3> HIDE DEF x
    <3>2. \A k \in 1..Len(x) : CosignSpec(g, t, x[k])
      BY <1>1, <1>2, <1>3, <1>4, <1>8, <3>1
    <3>3. \A k \in 1..Len(x) : Verifiable(x, k)
      <4>1. Verifiable(x, 4)
        BY <1>2, <1>3, <1>4, <3>1 DEF Verifiable
      <4>2. \A k \in 1..3 : Verifiable(x, k)
        BY <1>1, <1>2, <1>3, <3>1 DEF Verifiable, Publishing
      <4> QED
        BY <4>1, <4>2, <3>1
    <3> QED
      BY <1>4, <3>1, <3>2, <3>3 DEF x
  <2>3. Good(<<sg, pk, vf>>)
    <3> DEFINE x == <<sg, pk, vf>>
    <3>1. IsSeq(x) /\ Len(x) = 3 /\ x[1] = sg /\ x[2] = pk /\ x[3] = vf
      BY DEF IsSeq
    <3> HIDE DEF x
    <3>2. \A k \in 1..Len(x) : CosignSpec(g, t, x[k])
      BY <1>2, <1>3, <1>4, <1>8, <3>1
    <3>3. \A k \in 1..Len(x) : Verifiable(x, k)
      <4>1. Verifiable(x, 3)
        BY <1>2, <1>3, <1>4, <3>1 DEF Verifiable
      <4>2. \A k \in 1..2 : Verifiable(x, k)
        BY <1>2, <1>3, <3>1 DEF Verifiable, Publishing
      <4> QED
        BY <4>1, <4>2, <3>1
    <3> QED
      BY <1>4, <3>1, <3>2, <3>3 DEF x
  <2> QED
    BY <2>1, <2>2, <2>3 DEF b
<1> QED
  BY <1>6, <1>7, <1>8

(* A sequence over some set is one of its own elements.                    *)
LEMMA SeqIsSeq ==
  ASSUME NEW S, NEW s \in Seq(S) PROVE IsSeq(s)
<1>1. s \in [1..Len(s) -> S] /\ Len(s) \in Nat /\ DOMAIN s = 1..Len(s)
  BY LenProperties
<1> DEFINE T == {s[i] : i \in DOMAIN s}
<1>2. s \in [1..Len(s) -> T]
  BY <1>1
<1> HIDE DEF T
<1>3. s \in Seq(T)
  BY <1>1, <1>2
<1> QED
  BY <1>3 DEF IsSeq, T

(* The specs of all targets, one after the other.                          *)
LEMMA CosignSpecsAre ==
  ASSUME NEW g, signTask.targets \in Seq(Range(signTask.targets))
  PROVE  LET specs == CosignSpecs(g)
         IN /\ IsSeq(specs)
            /\ \A p \in 1..Len(specs) : /\ \E i \in DOMAIN signTask.targets : CosignSpec(g, Target(i, g), specs[p])
                                        /\ Verifiable(specs, p)
            /\ signTask.verify /\ Signs =>
                 \A i \in DOMAIN signTask.targets :
                   \E p \in 1..Len(specs) : specs[p].op = "verify" /\ specs[p].args = <<Target(i, g)>>
<1> DEFINE D == DOMAIN signTask.targets
           n == Len(signTask.targets)
           block(i) == TargetSpecs(g, Target(i, g))
           seqs == [i \in D |-> block(i)]
           S == UNION {{block(i)[k] : k \in DOMAIN block(i)} : i \in D}
           specs == CosignSpecs(g)
<1>1. n \in Nat /\ D = 1..n
  BY LenProperties
<1>2. \A i \in D : /\ IsSeq(block(i))
                   /\ \A k \in 1..Len(block(i)) : CosignSpec(g, Target(i, g), block(i)[k]) /\ Verifiable(block(i), k)
                   /\ signTask.verify /\ Signs => \E k \in 1..Len(block(i)) : block(i)[k].op = "verify"
  BY TargetSpecsAre
<1>3. ASSUME NEW i \in D PROVE block(i) \in Seq(S)
  <2> DEFINE T == {block(i)[k] : k \in DOMAIN block(i)}
  <2>1. block(i) \in Seq(T)
    BY <1>2 DEF IsSeq
  <2>2. T \subseteq S
    OBVIOUS
  <2> HIDE DEF T, S
  <2> QED
    BY <2>1, <2>2
<1>4. specs = FlattenSeq(seqs)
  BY DEF CosignSpecs
<1>5. seqs \in Seq(Seq(S)) /\ Len(seqs) = n /\ \A i \in 1..n : seqs[i] = block(i)
  <2>1. seqs \in [1..n -> Seq(S)]
    BY <1>1, <1>3
  <2> HIDE DEF S, n
  <2> QED
    BY <1>1, <2>1
<1> HIDE DEF specs, seqs, S, n, D, block
<1>6. specs \in Seq(S)
  BY <1>4, <1>5, FlattenBlocks
<1>7. PICK off : Flattened(seqs, specs, off)
  BY <1>4, <1>5, FlattenBlocks
<1>8. \A i \in D : \A k \in 1..Len(block(i)) : off[i] \in Nat /\ off[i] + k \in 1..Len(specs) /\ specs[off[i] + k] = block(i)[k]
  BY <1>1, <1>5, <1>7 DEF Flattened
<1>9. \A p \in 1..Len(specs) : \E i \in D : \E k \in 1..Len(block(i)) : p = off[i] + k
  BY <1>1, <1>5, <1>7 DEF Flattened
<1>10. ASSUME NEW p \in 1..Len(specs)
       PROVE  (\E i \in D : CosignSpec(g, Target(i, g), specs[p])) /\ Verifiable(specs, p)
  <2>0. PICK i \in D : \E k \in 1..Len(block(i)) : p = off[i] + k
    BY <1>9
  <2>1. PICK k \in 1..Len(block(i)) : p = off[i] + k
    BY <2>0
  <2>2. specs[p] = block(i)[k] /\ off[i] \in Nat
    BY <1>8, <2>1
  <2>3. CosignSpec(g, Target(i, g), block(i)[k]) /\ Verifiable(block(i), k)
    BY <1>2
  <2>4. k \in Nat /\ k <= Len(block(i)) /\ Len(block(i)) \in Nat
    BY <1>3, LenProperties
  <2>5. ASSUME NEW j \in 1..(k - 1)
        PROVE  off[i] + j \in 1..(p - 1) /\ specs[off[i] + j] = block(i)[j]
    BY <1>8, <2>1, <2>2, <2>4
  <2>6. Verifiable(specs, p)
    BY <2>2, <2>3, <2>5 DEF Verifiable
  <2> QED
    BY <2>2, <2>3, <2>6
<1>11. ASSUME signTask.verify, Signs, NEW i \in D
       PROVE  \E p \in 1..Len(specs) : specs[p].op = "verify" /\ specs[p].args = <<Target(i, g)>>
  <2>1. PICK k \in 1..Len(block(i)) : block(i)[k].op = "verify"
    BY <1>2, <1>11
  <2>2. block(i)[k].args = <<Target(i, g)>>
    BY <1>2, <2>1 DEF CosignSpec
  <2> QED
    BY <1>8, <2>1, <2>2
<1> QED
  BY <1>6, <1>10, <1>11, SeqIsSeq DEF specs, D

(* The specs of an entry do not change.                                    *)
LEMMA CosignFixedSpecs ==
  ASSUME UNCHANGED cosignFixed, NEW g
  PROVE  CosignSpecs(g)' = CosignSpecs(g) /\ Signs' = Signs /\ KeyFile(g)' = KeyFile(g)
BY DEF cosignFixed, CosignSpecs, TargetSpecs, genSignAndVerifySpec, RepoEnv, Target, Signs, KeyFile, PrivateKey

(* What a spec has achieved stays so.                                      *)
LEMMA AchievedStays ==
  ASSUME NEW h, NEW s, Stays(h), Achieved(h, s) PROVE Achieved(h, s)'
BY DEF Stays, Achieved

(* An entry that does not move keeps what it has achieved.                 *)
LEMMA EntryStays ==
  ASSUME UNCHANGED cosignFixed, NEW h, CosignEntry(h), Stays(h), DOMAIN keyFiles \subseteq DOMAIN keyFiles',
         stage'[h] = stage[h], frames'[h] = frames[h], h \in publishing' => h \in publishing
  PROVE  CosignEntry(h)'
<1>1. PICK specs : specs = CosignSpecs(h)
  OBVIOUS
<1>2. CosignSpecs(h)' = specs /\ Signs' = Signs /\ KeyFile(h)' = KeyFile(h)
  BY <1>1, CosignFixedSpecs
<1>3. ASSUME NEW p, Achieving(h, specs, p) PROVE Achieving(h, specs, p)'
  <2>1. Through(h, specs, p)'
    BY <1>3 DEF Achieving, Through, AtSpec
  <2>2. \A q \in 1..(p - 1) : Achieved(h, specs[q])'
    BY <1>3, AchievedStays DEF Achieving
  <2> QED
    BY <2>1, <2>2 DEF Achieving
<1>4. Current(h)' = Current(h)
  BY DEF Current
<1> QED
  BY <1>1, <1>2, <1>3, <1>4 DEF CosignEntry

(* A step of one entry.                                                    *)
LEMMA OthersStay ==
  ASSUME CosignInv, UNCHANGED <<count, cosignFixed>>, NEW g \in Entries,
         \A h \in Entries \ {g} : stage'[h] = stage[h] /\ frames'[h] = frames[h],
         publishing' \subseteq publishing \cup {g},
         DOMAIN keyFiles \subseteq DOMAIN keyFiles', \A h \in Entries : Stays(h),
         CosignEntry(g)', KeysInOrder', NothingKept'
  PROVE  CosignInv'
<1>1. Entries' = Entries /\ signTask' = signTask
  BY DEF Entries, cosignFixed
<1>2. \A h \in Entries \ {g} : CosignEntry(h)'
  BY EntryStays DEF CosignInv
<1> QED
  BY <1>1, <1>2 DEF CosignInv

(* Where an entry finds a signature does not change once it is there: the  *)
(* variable is set by then, or is never.                                   *)
LEMMA SignedStays ==
  ASSUME UNCHANGED cosignFixed, NEW h, DOMAIN signatures \subseteq DOMAIN signatures',
         \/ env'[h] = env[h]
         \/ env'[h] = Suggested(h) /\ Current(h).env \in {RepoEnv, <<>>}
  PROVE  \A t : Signed(h, t) => Signed(h, t)'
<1>0. RepoEnv' = RepoEnv /\ (RepoEnv = <<>> \/ DOMAIN RepoEnv = {"COSIGN_REPOSITORY"})
  BY DEF RepoEnv, cosignFixed
<1>1. CASE env'[h] = env[h]
  BY <1>0, <1>1 DEF Signed
<1>2. CASE env'[h] = Suggested(h) /\ Current(h).env \in {RepoEnv, <<>>}
  <2> DEFINE e == Current(h).env
             f == Suggested(h)
  <2>1. /\ DOMAIN f = DOMAIN env[h] \cup DOMAIN e
        /\ \A x \in DOMAIN env[h] : f[x] = env[h][x]
    BY DEF Suggested
  <2>2. DOMAIN <<>> = {}
    OBVIOUS
  <2> HIDE DEF f, e
  <2>3. ASSUME NEW t, Signed(h, t) PROVE Repo(f) = Repo(env[h]) /\ (RepoEnv = <<>> \/ "COSIGN_REPOSITORY" \in DOMAIN f)
    <3>1. CASE "COSIGN_REPOSITORY" \in DOMAIN env[h]
      BY <2>1, <3>1 DEF Repo
    <3>2. CASE "COSIGN_REPOSITORY" \notin DOMAIN env[h]
      <4>1. RepoEnv = <<>>
        BY <2>3, <3>2 DEF Signed
      <4>2. DOMAIN e = {}
        BY <1>2, <2>2, <4>1 DEF e
      <4> QED
        BY <2>1, <3>2, <4>1, <4>2 DEF Repo
    <3> QED
      BY <3>1, <3>2
  <2> QED
    BY <1>0, <1>2, <2>3 DEF Signed, f
<1> QED
  BY <1>1, <1>2

(* The public key beside a private key stays, or is being written again,   *)
(* if every entry that has the private key has the public one of it.       *)
LEMMA PublishedStays ==
  ASSUME UNCHANGED <<count, cosignFixed>>, NEW h,
         \A f \in DOMAIN keyFiles : f \in DOMAIN keyFiles',
         KeysAgree(h) /\ PubKeyFile(h) \in DOMAIN keyFiles =>
           \/ keyFiles'[PubKeyFile(h)] = keyFiles[PubKeyFile(h)] /\ publishing \subseteq publishing'
           \/ keyFiles'[PubKeyFile(h)] = PublicKey(PrivateKey(h))
           \/ /\ keyFiles'[PubKeyFile(h)] = TORN_PUBLIC
              /\ \E x \in publishing' : PrivateKey(x) = PrivateKey(h)
  PROVE  Published(h) => Published(h)'
<1>1. KeysAgree(h)' = KeysAgree(h) /\ PubKeyFile(h)' = PubKeyFile(h) /\ PublicKey(PrivateKey(h))' = PublicKey(PrivateKey(h))
  BY DEF cosignFixed, KeysAgree, PubKeyFile, PublicKey, PrivateKey, Entries
<1>2. BeingWritten(h)' = \E x \in publishing' : PrivateKey(x) = PrivateKey(h)
  BY DEF BeingWritten, PrivateKey, cosignFixed
<1> QED
  BY <1>1, <1>2 DEF Published, BeingWritten

(* So does the file of another private key.                                *)
LEMMA PublishedElsewhere ==
  ASSUME UNCHANGED <<count, cosignFixed>>, NEW h,
         PubKeyFile(h) \in DOMAIN keyFiles =>
           PubKeyFile(h) \in DOMAIN keyFiles' /\ keyFiles'[PubKeyFile(h)] = keyFiles[PubKeyFile(h)],
         BeingWritten(h) => \E x \in publishing' : PrivateKey(x) = PrivateKey(h)
  PROVE  Published(h) => Published(h)'
<1>1. KeysAgree(h)' = KeysAgree(h) /\ PubKeyFile(h)' = PubKeyFile(h) /\ PublicKey(PrivateKey(h))' = PublicKey(PrivateKey(h))
  BY DEF cosignFixed, KeysAgree, PubKeyFile, PublicKey, PrivateKey, Entries
<1>2. BeingWritten(h)' = \E x \in publishing' : PrivateKey(x) = PrivateKey(h)
  BY DEF BeingWritten, PrivateKey, cosignFixed
<1> QED
  BY <1>1, <1>2 DEF Published

(* What was verified stays so.                                             *)
LEMMA VerifiedStays ==
  ASSUME UNCHANGED <<count, cosignFixed>>, NEW h,
         \A x \in DOMAIN verified : x \in DOMAIN verified' /\
           (verified'[x] = verified[x] \/ \A t : x = <<h, t>> => (KeysAgree(h) => verified'[x] = PrivateKey(h)))
  PROVE  \A t : Verified(h, t) => Verified(h, t)'
<1>1. KeysAgree(h)' = KeysAgree(h) /\ PrivateKey(h)' = PrivateKey(h)
  BY DEF cosignFixed, KeysAgree, PrivateKey, Entries
<1>2. ASSUME NEW t, Verified(h, t) PROVE Verified(h, t)'
  <2> DEFINE x == <<h, t>>
  <2>1. x \in DOMAIN verified /\ (KeysAgree(h) => verified[x] = PrivateKey(h))
    BY <1>2 DEF Verified
  <2>2. x \in DOMAIN verified' /\ (KeysAgree(h) => verified'[x] = PrivateKey(h))
    BY <2>1
  <2> QED
    BY <1>1, <2>2 DEF Verified
<1> QED
  BY <1>2

(* A file of a private key is written by who has the key.                  *)
LEMMA KeysInOrderStays ==
  ASSUME KeysInOrder, UNCHANGED <<count, cosignFixed, signatures>>,
         \A k : <<"private", k>> \in DOMAIN keyFiles' =>
           \/ <<"private", k>> \in DOMAIN keyFiles /\ keyFiles'[<<"private", k>>] = keyFiles[<<"private", k>>]
           \/ keyFiles'[<<"private", k>>] \in {k, TORN}
  PROVE  KeysInOrder'
BY DEF KeysInOrder, cosignFixed, Entries, Target, PrivateKey

(* GenCosign: the private key is in its file before a spec is executed.    *)
LEMMA CosignGenerates ==
  ASSUME EngineInv, CosignInv, NEW g \in Entries, GenCosign(g)
  PROVE  CosignInv'
<1>0. /\ UNCHANGED <<count, cosignFixed, replace, env, publishing, signatures, verified>>
      /\ stage[g] = "started" /\ g \notin publishing
  BY DEF GenCosign, NotGenerated, Generated, CosignInv, CosignEntry
<1>1. keyFiles' = keyFiles \/ \E v \in {PrivateKey(g), TORN} : keyFiles' = Update(keyFiles, KeyFile(g), v) /\ KeyFile(g) \notin DOMAIN keyFiles
  BY DEF GenCosign, NoPrivateKey, EnsurePrivateKey
<1>2. DOMAIN keyFiles \subseteq DOMAIN keyFiles' /\ \A f \in DOMAIN keyFiles : keyFiles'[f] = keyFiles[f]
  BY <1>1 DEF Update
<1>3. \A h \in Entries : Stays(h)
  <2> TAKE h \in Entries
  <2>1. \A t : Signed(h, t) => Signed(h, t)'
    BY <1>0, SignedStays
  <2>2. Published(h) => Published(h)'
    BY <1>0, <1>2, PublishedStays
  <2>3. \A t : Verified(h, t) => Verified(h, t)'
    BY <1>0, VerifiedStays
  <2> QED
    BY <2>1, <2>2, <2>3 DEF Stays
<1>4. KeysInOrder'
  <2>1. ASSUME NEW k, <<"private", k>> \in DOMAIN keyFiles', <<"private", k>> \notin DOMAIN keyFiles
        PROVE  keyFiles'[<<"private", k>>] \in {k, TORN}
    <3>1. PICK v \in {PrivateKey(g), TORN} : keyFiles' = Update(keyFiles, KeyFile(g), v)
      BY <1>1, <2>1
    <3>2. <<"private", k>> = KeyFile(g) /\ keyFiles'[<<"private", k>>] = v
      BY <2>1, <3>1 DEF Update
    <3>3. k = PrivateKey(g)
      BY <3>2 DEF KeyFile
    <3> QED
      BY <3>2, <3>3
  <2> QED
    BY <1>0, <1>2, <2>1, KeysInOrderStays DEF CosignInv
<1>5. NothingKept'
  BY <1>0 DEF CosignInv, NothingKept, Entries
<1>6. CosignEntry(g)' /\ \A h \in Entries \ {g} : stage'[h] = stage[h] /\ frames'[h] = frames[h]
  <2>1. CASE NotGenerated(g)
    BY <1>0, <2>1 DEF NotGenerated, Goto, EngineInv, TypeOK, ExecTypeOK, CosignEntry
  <2>2. CASE ~NotGenerated(g)
    <3>1. PICK specs : specs = CosignSpecs(g)
      OBVIOUS
    <3>2. Generated(g, specs) /\ (Signs => keyFiles' = IF KeyFile(g) \in DOMAIN keyFiles THEN keyFiles
                                                     ELSE Update(keyFiles, KeyFile(g), PrivateKey(g)))
      BY <2>2, <3>1 DEF GenCosign, EnsurePrivateKey, Signs
    <3>3. IsSeq(specs)
      BY <3>1, CosignSpecsAre DEF CosignInv
    <3>4. Through(g, specs, 1)' /\ \A h \in Entries \ {g} : stage'[h] = stage[h] /\ frames'[h] = frames[h]
      BY <3>2, <3>3, LinearStart
    <3>5. Achieving(g, specs, 1)'
      BY <3>4 DEF Achieving
    <3>6. Signs => KeyFile(g) \in DOMAIN keyFiles'
      BY <3>2 DEF Update
    <3>7. CosignSpecs(g)' = specs /\ Signs' = Signs /\ KeyFile(g)' = KeyFile(g)
      BY <1>0, <3>1, CosignFixedSpecs
    <3> QED
      BY <1>0, <3>4, <3>5, <3>6, <3>7 DEF CosignEntry
  <2> QED
    BY <2>1, <2>2
<1> QED
  BY <1>0, <1>2, <1>3, <1>4, <1>5, <1>6, OthersStay

(* An entry that runs has come to a spec of its list.                      *)
LEMMA CosignCurrent ==
  ASSUME EngineInv, CosignInv, NEW g \in Entries, stage[g] = "running"
  PROVE  \E specs, p : /\ specs = CosignSpecs(g) /\ IsSeq(specs) /\ AtSpec(g, specs, p) /\ Achieving(g, specs, p)
                       /\ Current(g) = specs[p] /\ Verifiable(specs, p)
                       /\ \E i \in DOMAIN signTask.targets : CosignSpec(g, Target(i, g), specs[p])
<1>1. PICK specs : specs = CosignSpecs(g)
  OBVIOUS
<1>2. PICK p : Achieving(g, specs, p)
  BY <1>1 DEF CosignInv, CosignEntry
<1>3. AtSpec(g, specs, p)
  BY <1>2 DEF Achieving, Through
<1>4. IsSeq(specs)
  BY <1>1, CosignSpecsAre DEF CosignInv
<1>5. Current(g) = specs[p]
  BY <1>3, <1>4, CurrentSpec
<1>6. p \in 1..Len(specs)
  BY <1>3 DEF AtSpec
<1>7. Verifiable(specs, p) /\ \E i \in DOMAIN signTask.targets : CosignSpec(g, Target(i, g), specs[p])
  BY <1>1, <1>6, CosignSpecsAre DEF CosignInv
<1> QED
  BY <1>1, <1>2, <1>3, <1>4, <1>5, <1>7

(* What is executed has its arguments as they are, and its environment is  *)
(* the entry's or has the repository besides.                              *)
LEMMA CosignArgs ==
  ASSUME EngineInv, CosignInv, NEW g \in Entries, stage[g] = "running"
  PROVE  /\ Arg(g, 1) = Current(g).args[1]
         /\ Current(g).env \in {RepoEnv, <<>>} /\ Current(g).out = NoToken /\ ~Current(g).ignore
         /\ Current(g).op \in {"sign", "verify"} => \E i \in DOMAIN signTask.targets : Current(g).args = <<Target(i, g)>>
         /\ Current(g).op \in Publishing \cup {"sign"} => KeyFile(g) \in DOMAIN keyFiles
         /\ Current(g).op = "write-public-key" => signMatrix[g].public # ""
<1>1. Arg(g, 1) = Current(g).args[1]
  BY DEF Arg, Value, CosignInv, NothingKept
<1>2. PICK i \in DOMAIN signTask.targets : CosignSpec(g, Target(i, g), Current(g))
  BY CosignCurrent
<1> QED
  BY <1>1, <1>2 DEF CosignSpec, CosignInv, CosignEntry

(* An entry goes on when its spec has achieved what it is for.             *)
LEMMA CosignSucceeds ==
  ASSUME EngineInv, CosignInv, NEW g \in Entries, stage[g] = "running", NEW data, Succeed(g, data, <<>>),
         UNCHANGED cosignFixed, DOMAIN keyFiles \subseteq DOMAIN keyFiles', \A h \in Entries : Stays(h), KeysInOrder',
         publishing' \subseteq publishing, Current(g).op \in Publishing => g \notin publishing',
         \A s : s = Current(g) => Achieved(g, s)'
  PROVE  CosignInv'
<1>1. PICK specs, p : /\ specs = CosignSpecs(g) /\ IsSeq(specs) /\ AtSpec(g, specs, p) /\ Achieving(g, specs, p)
                      /\ Current(g) = specs[p]
  BY CosignCurrent
<1>2. Through(g, specs, p + 1)' /\ \A h \in Entries \ {g} : stage'[h] = stage[h] /\ frames'[h] = frames[h]
  BY <1>1, LinearSucceed
<1>3. Achieving(g, specs, p + 1)'
  <2>1. p \in Nat
    BY <1>1, LenProperties DEF AtSpec, IsSeq
  <2>2. ASSUME NEW q \in 1..((p + 1) - 1) PROVE Achieved(g, specs[q])'
    <3>1. CASE q = p
      BY <1>1, <3>1
    <3>2. CASE q # p
      <4>1. q \in 1..(p - 1)
        BY <2>1, <3>2
      <4>2. Achieved(g, specs[q])
        BY <1>1, <4>1 DEF Achieving
      <4> QED
        BY <4>2, AchievedStays
    <3> QED
      BY <3>1, <3>2
  <2> QED
    BY <1>2, <2>2 DEF Achieving
<1>4. UNCHANGED <<count, replace>> /\ env' = [env EXCEPT ![g] = Suggested(g)]
  BY CosignArgs DEF Succeed, Keep, Suggest
<1>5. NothingKept'
  BY <1>4 DEF CosignInv, NothingKept, Entries
<1>6. CosignEntry(g)'
  <2>1. CosignSpecs(g)' = specs /\ Signs' = Signs /\ KeyFile(g)' = KeyFile(g)
    BY <1>1, CosignFixedSpecs
  <2>2. Signs => KeyFile(g) \in DOMAIN keyFiles'
    BY DEF CosignInv, CosignEntry
  <2>3. g \notin publishing'
    BY DEF CosignInv, CosignEntry
  <2> QED
    BY <1>3, <2>1, <2>2, <2>3 DEF CosignEntry
<1> QED
  BY <1>2, <1>4, <1>5, <1>6, OthersStay

(* The environment changes for the entry alone.                            *)
LEMMA EnvStep ==
  ASSUME EngineInv, CosignInv, NEW g \in Entries, stage[g] = "running",
         UNCHANGED cosignFixed, env' = [env EXCEPT ![g] = Suggested(g)],
         DOMAIN signatures \subseteq DOMAIN signatures', NEW h \in Entries
  PROVE  \A t : Signed(h, t) => Signed(h, t)'
<1>1. CASE h = g
  BY <1>1, SignedStays, CosignArgs DEF CosignInv, NothingKept
<1>2. CASE h # g
  BY <1>2, SignedStays DEF CosignInv, NothingKept
<1> QED
  BY <1>1, <1>2

(* The steps of the tool, one by one.                                      *)
LEMMA CosignUploads ==
  ASSUME EngineInv, CosignInv, NEW g \in Entries, Upload(g) PROVE CosignInv'
<1>1. /\ stage[g] = "running" /\ Current(g).op = "upload" /\ Succeed(g, Empty, <<>>)
      /\ UNCHANGED <<cosignVars, cosignFixed, keyFiles, publishing, signatures, verified, count>>
      /\ env' = [env EXCEPT ![g] = Suggested(g)]
  BY DEF Upload, At, cosignVars, Succeed, Suggest
<1>2. \A h \in Entries : Stays(h)
  BY <1>1, EnvStep, PublishedStays, VerifiedStays DEF Stays
<1>3. KeysInOrder'
  BY <1>1, KeysInOrderStays DEF CosignInv
<1>4. \A s : s = Current(g) => Achieved(g, s)'
  BY <1>1 DEF Achieved, Publishing
<1> QED
  BY <1>1, <1>2, <1>3, <1>4, CosignSucceeds DEF Publishing

(* The signature is of the key of the file, which is the own key of the    *)
(* entry.                                                                  *)
LEMMA CosignSigns ==
  ASSUME EngineInv, CosignInv, NEW g \in Entries, Sign(g) PROVE CosignInv'
<1>1. /\ stage[g] = "running" /\ Current(g).op = "sign" /\ Succeed(g, Empty, <<>>)
      /\ UNCHANGED <<cosignFixed, keyFiles, publishing, verified, count>>
      /\ env' = [env EXCEPT ![g] = Suggested(g)]
      /\ keyFiles[KeyFile(g)] # TORN
  BY DEF Sign, At, Succeed, Suggest
<1>2. PICK i \in DOMAIN signTask.targets : Current(g).args = <<Target(i, g)>>
  BY <1>1, CosignArgs
<1> DEFINE t == Target(i, g)
           e == Suggested(g)
           pl == <<Repo(e), t>>
<1>3. Current(g).args[1] = t /\ Arg(g, 1) = t
  <2>1. \A x : <<x>>[1] = x
    OBVIOUS
  <2>2. Arg(g, 1) = Current(g).args[1]
    BY <1>1, CosignArgs
  <2> QED
    BY <1>2, <2>1, <2>2
<1>4. keyFiles[KeyFile(g)] = PrivateKey(g)
  BY <1>1, CosignArgs DEF CosignInv, KeysInOrder, KeyFile
<1>5. signatures' = Update(signatures, pl, [by |-> g, key |-> PrivateKey(g)])
  BY <1>3, <1>4 DEF Sign, Place, Repo
<1>6. /\ DOMAIN signatures' = DOMAIN signatures \cup {pl} /\ signatures'[pl].key = PrivateKey(g)
      /\ \A x \in DOMAIN signatures : x # pl => signatures'[x] = signatures[x]
  BY <1>5 DEF Update
<1>7. \A h \in Entries : Stays(h)
  BY <1>1, <1>6, EnvStep, PublishedStays, VerifiedStays DEF Stays
<1>8. KeysInOrder'
  <2>1. \A x \in DOMAIN signatures' : \E h \in Entries : \E j \in DOMAIN signTask.targets :
          x[2] = Target(j, h) /\ signatures'[x].key = PrivateKey(h)
    <3> TAKE x \in DOMAIN signatures'
    <3>1. CASE x = pl
      BY <1>6, <3>1
    <3>2. CASE x # pl
      BY <1>6, <3>2 DEF CosignInv, KeysInOrder
    <3> QED
      BY <3>1, <3>2
  <2>2. \A h, j : Target(j, h)' = Target(j, h) /\ PrivateKey(h)' = PrivateKey(h)
    BY <1>1 DEF Target, PrivateKey, cosignFixed
  <2> QED
    BY <1>1, <2>1, <2>2 DEF CosignInv, KeysInOrder, Entries, cosignFixed
<1>9. \A s : s = Current(g) => Achieved(g, s)'
  <2>1. RepoEnv = <<>> \/ "COSIGN_REPOSITORY" \in DOMAIN e
    <3>1. Current(g).env = RepoEnv
      BY <1>1, CosignCurrent DEF CosignSpec
    <3>2. DOMAIN Current(g).env \subseteq DOMAIN e
      BY DEF Suggested
    <3> QED
      BY <3>1, <3>2 DEF RepoEnv
  <2>2. env'[g] = e /\ RepoEnv' = RepoEnv
    BY <1>1 DEF CosignInv, NothingKept, RepoEnv, cosignFixed
  <2>3. <<Repo(env'[g]), t>> \in DOMAIN signatures'
    BY <1>6, <2>2
  <2> HIDE DEF t, e
  <2>4. \A s : s = Current(g) => s.args[1] = t /\ s.op = "sign"
    BY <1>1, <1>3
  <2> QED
    BY <2>1, <2>2, <2>3, <2>4 DEF Achieved, Signed, Publishing
<1> QED
  BY <1>1, <1>6, <1>7, <1>8, <1>9, CosignSucceeds DEF Publishing

(* Entries whose keys are in order give one public key for a private key.  *)
LEMMA OneKey ==
  ASSUME NEW g, NEW h \in Entries, KeysAgree(g), PubKeyFile(h) = PubKeyFile(g)
  PROVE  PrivateKey(h) = PrivateKey(g) /\ Checking(h) = PublicKey(PrivateKey(g))
<1>1. PrivateKey(h) = PrivateKey(g)
  BY DEF PubKeyFile
<1>2. signMatrix[h].public \in {"", PrivateKey(g)}
  BY <1>1 DEF KeysAgree
<1> QED
  BY <1>1, <1>2 DEF Checking

(* The file is torn while an entry writes it.                              *)
LEMMA CosignTruncates ==
  ASSUME EngineInv, CosignInv, NEW g \in Entries, TruncateKey(g) PROVE CosignInv'
<1>1. /\ stage[g] = "running" /\ Current(g).op \in Publishing
      /\ UNCHANGED <<cosignFixed, signatures, verified, count, stage, frames, replace, env>>
      /\ publishing' = publishing \cup {g} /\ keyFiles' = Update(keyFiles, PubKeyFile(g), TORN_PUBLIC)
  BY DEF TruncateKey, At, execVars, Publishing
<1>2. /\ DOMAIN keyFiles' = DOMAIN keyFiles \cup {PubKeyFile(g)} /\ keyFiles'[PubKeyFile(g)] = TORN_PUBLIC
      /\ \A f \in DOMAIN keyFiles : f # PubKeyFile(g) => keyFiles'[f] = keyFiles[f]
  BY <1>1 DEF Update
<1>3. \A h \in Entries : Stays(h)
  <2> TAKE h \in Entries
  <2>1. \A t : Signed(h, t) => Signed(h, t)'
    BY <1>1, SignedStays
  <2>2. PubKeyFile(h) = PubKeyFile(g) => PrivateKey(g) = PrivateKey(h)
    BY DEF PubKeyFile
  <2>3. Published(h) => Published(h)'
    BY <1>1, <1>2, <2>2, PublishedStays
  <2>4. \A t : Verified(h, t) => Verified(h, t)'
    BY <1>1, VerifiedStays
  <2> QED
    BY <2>1, <2>3, <2>4 DEF Stays
<1>4. KeysInOrder'
  BY <1>1, <1>2, KeysInOrderStays DEF CosignInv, PubKeyFile
<1>5. NothingKept'
  BY <1>1 DEF CosignInv, NothingKept, Entries
<1>6. CosignEntry(g)'
  <2>1. PICK specs : specs = CosignSpecs(g)
    OBVIOUS
  <2>2. CosignSpecs(g)' = specs /\ Signs' = Signs /\ KeyFile(g)' = KeyFile(g)
    BY <1>1, <2>1, CosignFixedSpecs
  <2>3. PICK p : Achieving(g, specs, p)
    BY <1>1, <2>1 DEF CosignInv, CosignEntry
  <2>4. Through(g, specs, p)'
    BY <1>1, <2>3 DEF Achieving, Through, AtSpec
  <2>5. \A q \in 1..(p - 1) : Achieved(g, specs[q])'
    BY <1>3, <2>3, AchievedStays DEF Achieving
  <2>6. Achieving(g, specs, p)'
    BY <2>4, <2>5 DEF Achieving
  <2>7. Current(g)' = Current(g) /\ (Signs => KeyFile(g) \in DOMAIN keyFiles')
    BY <1>1, <1>2 DEF Current, CosignInv, CosignEntry
  <2> QED
    BY <1>1, <2>2, <2>6, <2>7 DEF CosignEntry
<1> QED
  BY <1>1, <1>2, <1>3, <1>4, <1>5, <1>6, OthersStay

(* The public key is that of the private key, if the keys are in order.    *)
LEMMA CosignPublishes ==
  ASSUME EngineInv, CosignInv, NEW g \in Entries, PublishKey(g) PROVE CosignInv'
<1>1. /\ stage[g] = "running" /\ Current(g).op \in Publishing /\ Succeed(g, Empty, <<>>)
      /\ UNCHANGED <<cosignFixed, signatures, verified, count>>
      /\ env' = [env EXCEPT ![g] = Suggested(g)]
      /\ publishing' = publishing \ {g}
  BY DEF PublishKey, At, Succeed, Suggest, Publishing
<1>2. PICK key : /\ keyFiles' = Update(keyFiles, PubKeyFile(g), key)
                 /\ key = Checking(g) \/ Mixed(g)
  BY DEF PublishKey
<1>3. /\ DOMAIN keyFiles' = DOMAIN keyFiles \cup {PubKeyFile(g)} /\ keyFiles'[PubKeyFile(g)] = key
      /\ \A f \in DOMAIN keyFiles : f # PubKeyFile(g) => keyFiles'[f] = keyFiles[f]
  BY <1>2 DEF Update
<1>4. ASSUME NEW h \in Entries, KeysAgree(h), PubKeyFile(h) = PubKeyFile(g)
      PROVE  keyFiles'[PubKeyFile(h)] = PublicKey(PrivateKey(h))
  <2>1. Checking(g) = PublicKey(PrivateKey(h))
    BY <1>4, OneKey
  <2>2. \A x \in Entries : PubKeyFile(x) = PubKeyFile(g) => Checking(x) = PublicKey(PrivateKey(h))
    BY <1>4, OneKey
  <2>3. ~Mixed(g)
    BY <2>1, <2>2 DEF Mixed
  <2> QED
    BY <1>2, <1>3, <1>4, <2>1, <2>3
<1>5. \A h \in Entries : Stays(h)
  <2> TAKE h \in Entries
  <2>1. \A t : Signed(h, t) => Signed(h, t)'
    BY <1>1, EnvStep
  <2>2. Published(h) => Published(h)'
    <3>1. CASE PubKeyFile(h) = PubKeyFile(g)
      BY <1>1, <1>3, <1>4, <3>1, PublishedStays
    <3>2. CASE PubKeyFile(h) # PubKeyFile(g)
      <4>1. PrivateKey(g) # PrivateKey(h)
        BY <3>2 DEF PubKeyFile
      <4>2. BeingWritten(h) => \E x \in publishing' : PrivateKey(x) = PrivateKey(h)
        BY <1>1, <4>1 DEF BeingWritten
      <4> QED
        BY <1>1, <1>3, <3>2, <4>2, PublishedElsewhere
    <3> QED
      BY <3>1, <3>2
  <2>3. \A t : Verified(h, t) => Verified(h, t)'
    BY <1>1, VerifiedStays
  <2> QED
    BY <2>1, <2>2, <2>3 DEF Stays
<1>6. KeysInOrder'
  BY <1>1, <1>3, KeysInOrderStays DEF CosignInv, PubKeyFile
<1>7. \A s : s = Current(g) => Achieved(g, s)'
  <2>1. Published(g)'
    <3>1. KeysAgree(g)' = KeysAgree(g) /\ PubKeyFile(g)' = PubKeyFile(g) /\ PublicKey(PrivateKey(g))' = PublicKey(PrivateKey(g))
      BY <1>1 DEF cosignFixed, KeysAgree, PubKeyFile, PublicKey, PrivateKey, Entries
    <3> QED
      BY <1>3, <1>4, <3>1 DEF Published
  <2> QED
    BY <1>1, <2>1 DEF Achieved, Publishing
<1> QED
  BY <1>1, <1>3, <1>5, <1>6, <1>7, CosignSucceeds

(* What is verified is the signature of a target the entry has published   *)
(* the key of.                                                             *)
LEMMA CosignVerifies ==
  ASSUME EngineInv, CosignInv, NEW g \in Entries, Verify(g) PROVE CosignInv'
<1>1. /\ stage[g] = "running" /\ Current(g).op = "verify" /\ Succeed(g, Empty, <<>>)
      /\ UNCHANGED <<cosignFixed, signatures, keyFiles, publishing, count>>
      /\ env' = [env EXCEPT ![g] = Suggested(g)]
      /\ Accepted(g)
  BY DEF Verify, At, Succeed, Suggest
<1> DEFINE x == <<g, Arg(g, 1)>>
           v == signatures[Place(g, env[g])].key
<1>2. verified' = Update(verified, x, v)
  BY DEF Verify
<1>3. ASSUME KeysAgree(g) PROVE v = PrivateKey(g)
  <2>1. Published(g)
    <3>1. PICK specs, p : Achieving(g, specs, p) /\ Current(g) = specs[p] /\ Verifiable(specs, p)
      BY <1>1, CosignCurrent
    <3>2. PICK q \in 1..(p - 1) : specs[q].op \in Publishing
      BY <1>1, <3>1 DEF Verifiable
    <3> QED
      BY <3>1, <3>2 DEF Achieving, Achieved
  <2>2. PublicKey(v) # TORN_PUBLIC
    BY DEF PublicKey, TORN_PUBLIC
  <2>3. PublicKey(v) = PublicKey(PrivateKey(g))
    BY <1>1, <1>3, <2>1, <2>2 DEF Accepted, Published
  <2> HIDE DEF v
  <2> QED
    BY <2>3 DEF PublicKey
<1> HIDE DEF x, v
<1>4. /\ DOMAIN verified' = DOMAIN verified \cup {x} /\ verified'[x] = v
      /\ \A y \in DOMAIN verified : y # x => verified'[y] = verified[y]
  BY <1>2 DEF Update
<1>5. \A h \in Entries : Stays(h)
  <2> TAKE h \in Entries
  <2>1. \A t : Signed(h, t) => Signed(h, t)'
    BY <1>1, EnvStep
  <2>2. Published(h) => Published(h)'
    BY <1>1, PublishedStays
  <2>3. \A t : <<h, t>> = x => h = g
    BY DEF x
  <2>4. \A y \in DOMAIN verified : y \in DOMAIN verified' /\
           (verified'[y] = verified[y] \/ \A t : y = <<h, t>> => (KeysAgree(h) => verified'[y] = PrivateKey(h)))
    BY <1>3, <1>4, <2>3
  <2>5. \A t : Verified(h, t) => Verified(h, t)'
    BY <1>1, <2>4, VerifiedStays
  <2> QED
    BY <2>1, <2>2, <2>5 DEF Stays
<1>6. KeysInOrder'
  BY <1>1, KeysInOrderStays DEF CosignInv
<1>7. \A s : s = Current(g) => Achieved(g, s)'
  <2>1. KeysAgree(g)' = KeysAgree(g) /\ PrivateKey(g)' = PrivateKey(g)
    BY <1>1 DEF cosignFixed, KeysAgree, PrivateKey, Entries
  <2>2. Arg(g, 1) = Current(g).args[1]
    BY <1>1, CosignArgs
  <2>3. \A t : t = Arg(g, 1) => Verified(g, t)'
    BY <1>3, <1>4, <2>1 DEF Verified, x
  <2>4. \A s : s = Current(g) => s.args[1] = Arg(g, 1) /\ s.op = "verify"
    BY <1>1, <2>2
  <2> QED
    BY <2>3, <2>4 DEF Achieved, Publishing
<1> QED
  BY <1>1, <1>5, <1>6, <1>7, CosignSucceeds DEF Publishing

(* A spec that fails ends its entry.                                       *)
LEMMA CosignFailed ==
  ASSUME EngineInv, CosignInv, NEW g \in Entries, CosignFails(g) PROVE CosignInv'
<1>1. /\ stage[g] = "running"
      /\ Fail(g, Empty) \/ NoToolCmd(g)
      /\ UNCHANGED <<cosignFixed, publishing, signatures, verified, count>>
      /\ env' = [env EXCEPT ![g] = Suggested(g)]
      /\ \/ keyFiles' = keyFiles
         \/ g \in publishing /\ Mixed(g) /\ keyFiles' = Update(keyFiles, PubKeyFile(g), TORN_PUBLIC)
  BY DEF CosignFails, Fail, NoToolCmd, Suggest
<1>0. /\ DOMAIN keyFiles \subseteq DOMAIN keyFiles' /\ DOMAIN keyFiles' \subseteq DOMAIN keyFiles \cup {PubKeyFile(g)}
      /\ \A f \in DOMAIN keyFiles : f # PubKeyFile(g) => keyFiles'[f] = keyFiles[f]
      /\ \/ keyFiles' = keyFiles
         \/ g \in publishing /\ keyFiles'[PubKeyFile(g)] = TORN_PUBLIC
  BY <1>1 DEF Update
<1>2. \A h \in Entries : Stays(h)
  <2> TAKE h \in Entries
  <2>1. \A t : Signed(h, t) => Signed(h, t)'
    BY <1>1, EnvStep
  <2>2. PubKeyFile(h) = PubKeyFile(g) => PrivateKey(g) = PrivateKey(h)
    BY DEF PubKeyFile
  <2>3. Published(h) => Published(h)'
    BY <1>0, <1>1, <2>2, PublishedStays
  <2>4. \A t : Verified(h, t) => Verified(h, t)'
    BY <1>1, VerifiedStays
  <2> QED
    BY <2>1, <2>3, <2>4 DEF Stays
<1>3. KeysInOrder'
  BY <1>0, <1>1, KeysInOrderStays DEF CosignInv, PubKeyFile
<1>4. ~Current(g).ignore /\ Current(g).out = NoToken
  BY <1>1, CosignArgs
<1>5. PICK specs, p : IsSeq(specs) /\ AtSpec(g, specs, p)
  BY <1>1, CosignCurrent
<1>6. stage'[g] = "failed" /\ \A h \in Entries \ {g} : stage'[h] = stage[h] /\ frames'[h] = frames[h]
  BY <1>1, <1>4, <1>5, LinearFail
<1>7. UNCHANGED replace
  BY <1>1, <1>4 DEF Fail, NoToolCmd, Keep
<1>8. NothingKept' /\ CosignEntry(g)'
  BY <1>1, <1>6, <1>7 DEF CosignInv, NothingKept, CosignEntry, Entries
<1> QED
  BY <1>0, <1>1, <1>2, <1>3, <1>6, <1>8, OthersStay

(* Nothing is signed at first.                                             *)
LEMMA InitSign == Init => SignInv
<1> SUFFICES ASSUME Init PROVE SignInv
  OBVIOUS
<1>1. EngineInv
  BY InitEngine
<1>2. CASE job.tool # "cosign"
  BY <1>1, <1>2 DEF SignInv, NoTask, Init
<1>3. CASE job.tool = "cosign"
  <2>1. /\ job \in Jobs /\ signTask = job.task /\ keyFiles = job.keyFiles /\ signatures = <<>> /\ publishing = {}
        /\ stage = [g \in Entries |-> "waiting"] /\ replace = [g \in Entries |-> <<>>]
        /\ env = [g \in Entries |-> job.env]
    BY <1>3 DEF Init, ExecInit, Entries
  <2>2. signTask.targets \in Seq(Range(signTask.targets))
    BY <1>3, <2>1, CosignAssumption
  <2>3. KeysInOrder
    <3>1. \A f \in DOMAIN keyFiles : f[1] = "private" => keyFiles[f] \in {f[2], TORN}
      BY <1>3, <2>1, CosignAssumption
    <3>2. \A k : <<"private", k>>[1] = "private" /\ <<"private", k>>[2] = k
      OBVIOUS
    <3>3. DOMAIN signatures = {}
      BY <2>1
    <3> QED
      BY <3>1, <3>2, <3>3 DEF KeysInOrder
  <2>4. NothingKept
    BY <2>1 DEF NothingKept
  <2>5. \A g \in Entries : CosignEntry(g)
    BY <2>1 DEF CosignEntry
  <2> QED
    BY <1>1, <1>3, <2>2, <2>3, <2>4, <2>5 DEF SignInv, CosignInv
<1> QED
  BY <1>2, <1>3

(* Every step of any tool keeps the signatures in order.                   *)
LEMMA NextSign == SignInv /\ [Next]_vars => SignInv'
<1> SUFFICES ASSUME SignInv, [Next]_vars PROVE SignInv'
  OBVIOUS
<1>1. EngineInv /\ EngineInv'
  BY NextEngine DEF SignInv
<1>2. job' = job
  BY DEF Next, BuildahNext, DockerNext, GoNext, CosignNext, Terminated, vars
<1>3. CASE UNCHANGED cosignVars /\ job.tool # "cosign"
  BY <1>1, <1>2, <1>3 DEF SignInv, cosignVars, cosignFixed
<1>4. CASE UNCHANGED vars
  <2>1. UNCHANGED <<cosignFixed, signTask, signMatrix, keyFiles, publishing, signatures, verified,
                    count, stage, frames, replace, env>>
    BY <1>4 DEF vars, execVars, cosignVars, cosignFixed
  <2>2. CASE job.tool = "cosign"
    <3>1. CosignInv
      BY <2>2 DEF SignInv
    <3>2. \A h \in Entries : Stays(h)
      BY <2>1, SignedStays, PublishedStays, VerifiedStays DEF Stays
    <3>3. KeysInOrder' /\ NothingKept'
      BY <2>1, <3>1, KeysInOrderStays DEF CosignInv, NothingKept, Entries
    <3>4. \A g \in Entries : CosignEntry(g)'
      BY <2>1, <3>1, <3>2, EntryStays DEF CosignInv
    <3>5. CosignInv'
      BY <2>1, <3>1, <3>3, <3>4 DEF CosignInv, Entries
    <3> QED
      BY <1>1, <1>2, <2>2, <3>5 DEF SignInv
  <2>3. CASE job.tool # "cosign"
    BY <1>1, <1>2, <2>1, <2>3 DEF SignInv
  <2> QED
    BY <2>2, <2>3
<1>5. ASSUME NEW g \in Entries, Start(g), UNCHANGED cosignVars, job.tool = "cosign"
      PROVE  CosignInv'
  <2>1. /\ UNCHANGED <<cosignFixed, signTask, signMatrix, keyFiles, publishing, signatures, verified,
                       count, frames, replace, env>>
        /\ stage[g] = "waiting"
        /\ stage' = [stage EXCEPT ![g] = "started"]
    BY <1>5 DEF Start, Goto, cosignVars, cosignFixed
  <2>2. CosignInv /\ DOMAIN stage = Entries
    BY <1>5 DEF SignInv, EngineInv, TypeOK, ExecTypeOK
  <2>3. \A h \in Entries : Stays(h)
    BY <2>1, SignedStays, PublishedStays, VerifiedStays DEF Stays
  <2>4. KeysInOrder' /\ NothingKept'
    BY <2>1, <2>2, KeysInOrderStays DEF CosignInv, NothingKept, Entries
  <2>5. CosignEntry(g)'
    <3>1. CosignEntry(g)
      BY <1>5, <2>2 DEF CosignInv
    <3> QED
      BY <2>1, <2>2, <3>1 DEF CosignEntry
  <2> QED
    BY <2>1, <2>2, <2>3, <2>4, <2>5, OthersStay
<1>6. ASSUME NEW g \in Entries, CosignNext(g), job.tool = "cosign" PROVE CosignInv'
  <2>1. CosignInv
    BY <1>6 DEF SignInv
  <2> QED
    BY <1>1, <1>6, <2>1, CosignGenerates, CosignUploads, CosignSigns, CosignTruncates, CosignPublishes, CosignVerifies, CosignFailed
       DEF CosignNext, CosignStep
<1>7. CASE Terminated
  BY <1>4, <1>7 DEF Terminated
<1>8. ASSUME NEW g \in Entries,
             \/ Start(g) /\ UNCHANGED <<buildahVars, goVars, cosignVars, job>>
             \/ job.tool = "buildah" /\ BuildahNext(g)
             \/ job.tool = "docker" /\ DockerNext(g)
             \/ job.tool = "golang" /\ GoNext(g)
             \/ job.tool = "cosign" /\ CosignNext(g)
      PROVE  SignInv'
  <2>1. CASE job.tool = "cosign"
    <3>1. CosignInv'
      BY <1>5, <1>6, <1>8, <2>1
    <3> QED
      BY <1>1, <1>2, <2>1, <3>1 DEF SignInv
  <2>2. CASE job.tool # "cosign"
    <3>1. UNCHANGED cosignVars
      BY <1>8, <2>2 DEF BuildahNext, DockerNext, GoNext
    <3> QED
      BY <1>3, <2>2, <3>1
  <2> QED
    BY <2>1, <2>2
<1> QED
  BY <1>4, <1>7, <1>8 DEF Next

(* For any task of cosign, any keys and any files its cache held before: a *)
(* signature is found where it was made, and checked with the public key   *)
(* of its own private key, or with a file another entry with that key has  *)
(* truncated; an entry that ended well has had all it signed verified      *)
(* (task_sign.go and task_sign_image.go of pkg/tools/cosign, EnvSuggest in *)
(* run.go).                                                                *)
THEOREM ToolRunSignatures == Spec => []SignaturesVerified
<1>1. SignInv => SignaturesVerified
  <2> SUFFICES ASSUME SignInv, NEW g \in Entries, signTask.kind # "none", KeysAgree(g)
               PROVE  /\ At(g, "verify") =>
                           \A i \in DOMAIN signTask.targets :
                             Arg(g, 1) = Target(i, g) /\ OwnTarget(i, g) =>
                               /\ Place(g, env[g]) \in DOMAIN signatures
                               /\ signatures[Place(g, env[g])].key = PrivateKey(g)
                               /\ Accepted(g) \/ TornByOther(g)
                      /\ stage[g] = "ok" /\ signTask.verify /\ (signTask.kind # "upload" \/ signTask.signing) =>
                           \A i \in DOMAIN signTask.targets :
                             /\ <<g, Target(i, g)>> \in DOMAIN verified
                             /\ verified[<<g, Target(i, g)>>] = PrivateKey(g)
    BY DEF SignaturesVerified
  <2>0. EngineInv /\ CosignInv
    BY DEF SignInv
  <2>1. ASSUME At(g, "verify"), NEW i \in DOMAIN signTask.targets, Arg(g, 1) = Target(i, g), OwnTarget(i, g)
        PROVE  /\ Place(g, env[g]) \in DOMAIN signatures
               /\ signatures[Place(g, env[g])].key = PrivateKey(g)
               /\ Accepted(g) \/ TornByOther(g)
    <3>1. stage[g] = "running" /\ Current(g).op = "verify"
      BY <2>1 DEF At
    <3>2. PICK specs, p : Achieving(g, specs, p) /\ Current(g) = specs[p] /\ Verifiable(specs, p)
      BY <2>0, <3>1, CosignCurrent
    <3>3. Published(g)
      <4>1. PICK q \in 1..(p - 1) : specs[q].op \in Publishing
        BY <3>1, <3>2 DEF Verifiable
      <4> QED
        BY <3>2, <4>1 DEF Achieving, Achieved
    <3>4. Signed(g, Arg(g, 1))
      <4>1. PICK q \in 1..(p - 1) : specs[q].op = "sign" /\ specs[q].args = Current(g).args
        BY <3>1, <3>2 DEF Verifiable
      <4>2. Signed(g, specs[q].args[1])
        BY <3>2, <4>1 DEF Achieving, Achieved
      <4> QED
        BY <2>0, <3>1, <4>1, <4>2, CosignArgs
    <3> DEFINE pl == Place(g, env[g])
    <3>5. pl = <<Repo(env[g]), Arg(g, 1)>> /\ pl \in DOMAIN signatures
      BY <3>4 DEF Signed, Place, Repo
    <3>6. PICK h \in Entries : \E j \in DOMAIN signTask.targets : pl[2] = Target(j, h) /\ signatures[pl].key = PrivateKey(h)
      BY <2>0, <3>5 DEF CosignInv, KeysInOrder
    <3>7. PICK j \in DOMAIN signTask.targets : pl[2] = Target(j, h) /\ signatures[pl].key = PrivateKey(h)
      BY <3>6
    <3>8. pl[2] = Target(i, g)
      BY <2>1, <3>5
    <3>9. Target(i, h) = Target(i, g)
      BY <3>7, <3>8 DEF Target
    <3>10. PrivateKey(h) = PrivateKey(g)
      BY <2>1, <3>9 DEF OwnTarget
    <3>11. g \notin publishing
      BY <2>0, <3>1 DEF CosignInv, CosignEntry, Publishing
    <3>12. CASE keyFiles[PubKeyFile(g)] = PublicKey(PrivateKey(g))
      <4> HIDE DEF pl
      <4>1. PubKeyFile(g) \in DOMAIN keyFiles
        BY <3>3 DEF Published
      <4> QED
        BY <3>5, <3>7, <3>10, <3>12, <4>1 DEF Accepted, pl
    <3>13. CASE keyFiles[PubKeyFile(g)] # PublicKey(PrivateKey(g))
      <4>1. keyFiles[PubKeyFile(g)] = TORN_PUBLIC /\ BeingWritten(g)
        BY <3>3, <3>13 DEF Published
      <4>2. TornByOther(g)
        BY <3>11, <4>1 DEF BeingWritten, TornByOther
      <4> QED
        BY <3>5, <3>7, <3>10, <4>2
    <3> QED
      BY <3>12, <3>13
  <2>2. ASSUME stage[g] = "ok", signTask.verify, Signs, NEW i \in DOMAIN signTask.targets
        PROVE  <<g, Target(i, g)>> \in DOMAIN verified /\ verified[<<g, Target(i, g)>>] = PrivateKey(g)
    <3>1. PICK specs : specs = CosignSpecs(g)
      OBVIOUS
    <3>2. PICK p : Achieving(g, specs, p)
      BY <2>0, <2>2, <3>1 DEF CosignInv, CosignEntry
    <3>3. p = Len(specs) + 1
      BY <2>2, <3>2 DEF Achieving, Through, AtSpec
    <3>4. IsSeq(specs) /\ \E q \in 1..Len(specs) : specs[q].op = "verify" /\ specs[q].args = <<Target(i, g)>>
      BY <2>0, <2>2, <3>1, CosignSpecsAre DEF CosignInv
    <3>5. PICK q \in 1..Len(specs) : specs[q].op = "verify" /\ specs[q].args = <<Target(i, g)>>
      BY <3>4
    <3>6. q \in 1..(p - 1)
      BY <3>3, <3>4, LenProperties DEF IsSeq
    <3>7. Verified(g, specs[q].args[1])
      BY <3>2, <3>5, <3>6 DEF Achieving, Achieved
    <3>8. specs[q].args[1] = Target(i, g)
      BY <3>5
    <3> QED
      BY <3>7, <3>8 DEF Verified
  <2> QED
    BY <2>1, <2>2 DEF Signs
<1> QED
  BY InitSign, NextSign, <1>1, PTL DEF Spec

-----------------------------------------------------------------------------

(* With one worker the entries take turns                                  *)

(* doRun ends an entry or goes on with it, and touches no other.           *)
LEMMA ExecutedStage ==
  ASSUME EngineInv, NEW g \in Entries, Executed(g)
  PROVE  /\ stage'[g] \in {"running", "ok", "failed"} /\ UNCHANGED <<count, workers>>
         /\ \A h \in Entries \ {g} : stage'[h] = stage[h] /\ frames'[h] = frames[h]
<1>0. DOMAIN stage = Entries /\ DOMAIN frames = Entries
  BY DEF EngineInv, TypeOK, ExecTypeOK
<1>1. ASSUME NEW fs, Continue(g, fs)
      PROVE  /\ stage'[g] \in {"running", "ok", "failed"}
             /\ \A h \in Entries \ {g} : stage'[h] = stage[h] /\ frames'[h] = frames[h]
  BY <1>0, <1>1 DEF Continue, Goto
<1>2. ASSUME Unwind(g)
      PROVE  /\ stage'[g] \in {"running", "ok", "failed"}
             /\ \A h \in Entries \ {g} : stage'[h] = stage[h] /\ frames'[h] = frames[h]
  BY <1>0, <1>1, <1>2 DEF Goto, Unwind
<1> QED
  BY <1>1, <1>2 DEF Executed, Succeed, Fail, NoToolCmd

(* A step of an entry moves no other, and none but Start ends the waiting. *)
LEMMA EngineStage ==
  ASSUME EngineInv, NEW g \in Entries, Engine(g)
  PROVE  /\ stage'[g] # "waiting" /\ UNCHANGED <<count, workers>>
         /\ stage[g] \in Active \/ (Start(g) /\ stage[g] = "waiting")
         /\ \A h \in Entries \ {g} : stage'[h] = stage[h]
<1>0. DOMAIN stage = Entries
  BY DEF EngineInv, TypeOK, ExecTypeOK
<1>1. CASE Start(g)
  BY <1>0, <1>1 DEF Start, Goto
<1>2. CASE NotGenerated(g)
  BY <1>0, <1>2 DEF NotGenerated, Goto, Active
<1>3. ASSUME NEW specs, Generated(g, specs)
      PROVE  /\ stage'[g] # "waiting" /\ UNCHANGED <<count, workers>> /\ stage[g] \in Active
             /\ \A h \in Entries \ {g} : stage'[h] = stage[h]
  BY <1>0, <1>3 DEF Generated, Goto, Active
<1>4. CASE Executed(g)
  BY <1>4, ExecutedStage DEF Executed, Active
<1>5. CASE Inside(g)
  BY <1>5 DEF Inside, Active, execVars
<1> QED
  BY <1>1, <1>2, <1>3, <1>4, <1>5 DEF Engine

(* With one worker the entries take turns.                                 *)
LEMMA TurnsKept ==
  ASSUME EngineInv, workers = 1, InTurn, NEW g \in Entries, Engine(g)
  PROVE  InTurn'
<1>1. /\ stage'[g] # "waiting" /\ count' = count
      /\ stage[g] \in Active \/ (Start(g) /\ stage[g] = "waiting")
      /\ \A h \in Entries \ {g} : stage'[h] = stage[h]
  BY EngineStage
<1>2. Entries' = Entries /\ Entries = 1..count /\ count \in Nat
  BY <1>1 DEF Entries, EngineInv, TypeOK, ExecTypeOK
<1>3. \A h \in Entries : stage[h] \in Stages
  BY DEF EngineInv, TypeOK, ExecTypeOK
<1>4. \A h \in Entries : h < g => stage[h] \in Ended
  <2>1. CASE stage[g] \in Active
    BY <2>1 DEF InTurn, Active
  <2>2. CASE Start(g)
    <3> DEFINE A == {h \in Entries : stage[h] \in Active}
    <3>1. Cardinality(A) < 1 /\ \A h \in Entries : h < g => stage[h] # "waiting"
      BY <2>2 DEF Start
    <3>2. IsFiniteSet(Entries) /\ A \subseteq Entries
      BY <1>2, FS_Interval
    <3>3. IsFiniteSet(A) /\ Cardinality(A) \in Nat
      BY <3>2, FS_Subset, FS_CardinalityType
    <3> HIDE DEF A
    <3>4. A = {}
      BY <3>1, <3>3, FS_EmptySet
    <3> QED
      BY <1>3, <3>1, <3>4 DEF A, Stages, Active, Ended
  <2> QED
    BY <1>1, <2>1, <2>2
<1>5. \A h \in Entries : h > g => stage[h] = "waiting"
  <2> SUFFICES ASSUME NEW h \in Entries, h > g, stage[h] # "waiting" PROVE FALSE
    OBVIOUS
  <2>1. stage[g] \in Ended
    BY <1>2 DEF InTurn
  <2> QED
    BY <1>1, <2>1 DEF Active, Ended
<1>6. ASSUME NEW x \in Entries, NEW y \in Entries, y < x, stage'[x] # "waiting" PROVE stage'[y] \in Ended
  <2>1. CASE x = g
    BY <1>1, <1>2, <1>4, <1>6, <2>1
  <2>2. CASE x # g
    <3>1. stage[x] # "waiting"
      BY <1>1, <1>6, <2>2
    <3>2. y # g
      BY <1>5, <1>6, <3>1
    <3> QED
      BY <1>1, <1>6, <3>1, <3>2 DEF InTurn
  <2> QED
    BY <2>1, <2>2
<1> QED
  BY <1>2, <1>6 DEF InTurn

(* All entries after the one that is active wait.                          *)
LEMMA LaterWait ==
  ASSUME EngineInv, InTurn, NEW g \in Entries, stage[g] \in Active, NEW h \in Entries, h # g
  PROVE  IF h < g THEN stage[h] \in Ended ELSE stage[h] = "waiting"
<1>1. Entries = 1..count /\ count \in Nat
  BY DEF Entries, EngineInv, TypeOK, ExecTypeOK
<1>2. CASE h < g
  BY <1>2 DEF InTurn, Active
<1>3. CASE h > g
  BY <1>3 DEF InTurn, Active, Ended
<1> QED
  BY <1>1, <1>2, <1>3

(***************************************************************************)
(* The push of the manifests                                               *)
(***************************************************************************)

(* A function on 1..n is a sequence.                                       *)
LEMMA FunctionIsSeq ==
  ASSUME NEW S, NEW n \in Nat, NEW f \in [1..n -> S] PROVE f \in Seq(S) /\ Len(f) = n
OBVIOUS

(* The targets are a list, even if no name is given.                       *)
LEMMA TargetsListed ==
  ASSUME IsSeq(task.names)
  PROVE  IsSeq(Targets) /\ DOMAIN Targets = 1..Len(Targets) /\ Len(Targets) \in Nat
<1>1. IsSeq(Targets)
  <2> DEFINE t == [image |-> "untagged", manifest |-> "none", fqdn |-> FALSE]
  <2>1. Targets = task.names \/ Targets = <<t>>
    BY DEF Targets
  <2> HIDE DEF t
  <2>2. IsSeq(<<t>>)
    BY DEF IsSeq
  <2> QED
    BY <2>1, <2>2
<1> QED
  BY <1>1, LenProperties DEF IsSeq

(* So there are finitely many of a kind.                                   *)
LEMMA NamedFinite ==
  ASSUME IsSeq(task.names), NEW field PROVE IsFiniteSet(Named(field))
<1>1. Named(field) \subseteq 1..Len(Targets) /\ Len(Targets) \in Nat
  BY TargetsListed DEF Named
<1>2. IsFiniteSet(1..Len(Targets))
  BY <1>1, FS_Interval
<1> QED
  BY <1>1, <1>2, FS_Subset

(* The image names are a list, of those of the targets that name an image. *)
LEMMA ImageNamesListed ==
  ASSUME IsSeq(task.names), NEW g
  PROVE  /\ DOMAIN ImageNames(g) = 1..Len(ImageNames(g)) /\ Len(ImageNames(g)) \in Nat
         /\ \A k \in DOMAIN ImageNames(g) : \E i \in Named("image") : ImageNames(g)[k] = <<i, ImageName(i, g)>>
<1> DEFINE n == Len(Targets)
           pair(i) == <<i, ImageName(i, g)>>
           block(i) == IF i \in Named("image") THEN <<pair(i)>> ELSE <<>>
           seqs == [i \in DOMAIN Targets |-> block(i)]
           S == {pair(i) : i \in Named("image")}
<1>1. n \in Nat /\ DOMAIN Targets = 1..n
  BY TargetsListed
<1>2. \A i \in Named("image") : pair(i) \in S
  OBVIOUS
<1> HIDE DEF S, pair
<1>3. \A i \in 1..n : block(i) \in Seq(S)
  BY <1>2
<1> HIDE DEF block
<1>4. seqs \in [1..n -> Seq(S)]
  BY <1>1, <1>3
<1> HIDE DEF n
<1>5. seqs \in Seq(Seq(S))
  BY <1>1, <1>4
<1>6. ImageNames(g) = FlattenSeq(seqs)
  BY DEF ImageNames, seqs, block, pair
<1> HIDE DEF seqs
<1>7. ImageNames(g) \in Seq(S)
  BY <1>5, <1>6, FlattenBlocks
<1>8. \A k \in DOMAIN ImageNames(g) : ImageNames(g)[k] \in S
  BY <1>7, LenProperties
<1> QED
  BY <1>7, <1>8, LenProperties DEF S, pair

(* There are as many names as manifests.                                   *)
LEMMA NamesCounted ==
  ASSUME NEW C, ByName(C)
  PROVE  LET names == {m.name : m \in C}
         IN Cardinality(names) = Cardinality(C) /\ Cardinality(C) \in Nat
<1> DEFINE names == {m.name : m \in C}
           f == [m \in C |-> m.name]
<1>1. f \in Bijection(C, names)
  BY DEF ByName, Bijection, Injection, Surjection, IsInjective
<1>2. ExistsBijection(C, names)
  BY <1>1 DEF ExistsBijection
<1> HIDE DEF names
<1>3. Cardinality(names) = Cardinality(C) /\ Cardinality(C) \in Nat
  BY <1>2, FS_Bijection, FS_CardinalityType DEF ByName
<1> QED
  BY <1>3 DEF names

(* A set put in some order has all its elements.                           *)
LEMMA AllInOrder ==
  ASSUME NEW C, IsFiniteSet(C), NEW ms \in SetToSeqs(C)
  PROVE  /\ Cardinality(C) \in Nat /\ ms \in [1..Cardinality(C) -> C]
         /\ {ms[k] : k \in 1..Cardinality(C)} = C
<1> DEFINE n == Cardinality(C)
           D == 1..n
<1>1. n \in Nat
  BY FS_CardinalityType
<1>2. ms \in [D -> C] /\ \A i, j \in D : i # j => ms[i] # ms[j]
  BY DEF SetToSeqs
<1>3. IsFiniteSet(D) /\ Cardinality(D) = n
  BY <1>1, FS_Interval
<1>4. ms \in Injection(D, C)
  BY <1>2 DEF Injection, IsInjective
<1>5. ms \in Surjection(D, C)
  BY <1>3, <1>4, FS_Injection
<1> QED
  BY <1>1, <1>2, <1>5 DEF Surjection

(* What the last entry generates pushes the manifests last, in any order   *)
(* the sort may put them.                                                  *)
LEMMA PushListed ==
  ASSUME IsSeq(task.names), NEW g, NEW C, ByName(C), {m.name : m \in C} = ManifestNames, NEW ms \in Sorted(C)
  PROVE  PushList(PushImageSpecs(g) \o ManifestPushSpecs(ms))
<1> DEFINE n == Len(ImageNames(g))
           N == Counted
           cmd(k) == Cmd("push", <<idFiles[ImageNames(g)[k][2]], ImageNames(g)[k][2]>>)
           push(k) == Cmd("manifest-push", <<ms[k].name>>)
           a == PushImageSpecs(g)
           b == ManifestPushSpecs(ms)
           S == {cmd(k) : k \in 1..n} \cup {push(k) : k \in 1..N}
<1>1. n \in Nat /\ DOMAIN ImageNames(g) = 1..n
  BY ImageNamesListed
<1>2. N \in Nat /\ ms \in [1..N -> C] /\ {ms[k] : k \in 1..N} = C
  <2>1. Cardinality(C) = N
    BY NamesCounted DEF Counted
  <2>2. ms \in SetToSeqs(C)
    BY DEF Sorted
  <2> HIDE DEF N
  <2> QED
    BY <2>1, <2>2, AllInOrder DEF ByName
<1>3. a = [k \in 1..n |-> cmd(k)] /\ b = [k \in 1..N |-> push(k)]
  BY <1>1, <1>2 DEF PushImageSpecs, ManifestPushSpecs
<1>4. \A k \in 1..n : cmd(k).op = "push" /\ cmd(k).out = NoToken /\ ~cmd(k).ignore
  BY CmdFields
<1>5. \A k \in 1..N : /\ push(k).op = "manifest-push" /\ push(k).out = NoToken /\ ~push(k).ignore
                      /\ push(k).args = <<ms[k].name>>
  BY CmdFields
<1>6. \A k \in 1..N : Last(push(k).args) = ms[k].name
  <2>1. \A x : Last(<<x>>) = x
    BY DEF Last
  <2> HIDE DEF push
  <2> QED
    BY <1>5, <2>1
<1>7. (\A k \in 1..n : cmd(k) \in S) /\ (\A k \in 1..N : push(k) \in S)
  OBVIOUS
<1>8. \A s \in S : s.op \in {"push", "manifest-push"} /\ s.out = NoToken /\ ~s.ignore
  BY <1>4, <1>5
<1> HIDE DEF cmd, push, S, n, N, a, b
<1>9. a \in Seq(S) /\ b \in Seq(S) /\ Len(a) = n /\ Len(b) = N
  BY <1>1, <1>2, <1>3, <1>7, FunctionIsSeq
<1> DEFINE specs == a \o b
<1>10. /\ specs \in Seq(S) /\ Len(specs) = n + N
       /\ \A k \in 1..N : specs[n + k] = push(k)
  <2>1. \A k \in 1..N : b[k] = push(k)
    BY <1>3
  <2>2. /\ a \o b \in Seq(S) /\ Len(a \o b) = Len(a) + Len(b)
        /\ \A k \in 1..Len(b) : (a \o b)[Len(a) + k] = b[k]
    <3>1. a \in Seq(S) /\ b \in Seq(S)
      BY <1>9
    <3> QED
      BY <3>1, Concatenation
  <2> QED
    BY <1>9, <2>1, <2>2
<1> HIDE DEF specs
<1>11. IsSeq(specs)
  BY <1>10, SeqIsSeq
<1>12. \A q \in DOMAIN specs : specs[q] \in S
  BY <1>10, LenProperties
<1>13. {Last(specs[Len(specs) - N + q].args) : q \in 1..N} = {ms[q].name : q \in 1..N}
  <2>1. \A q \in 1..N : Len(specs) - N + q = n + q
    BY <1>1, <1>2, <1>10
  <2> QED
    BY <1>6, <1>10, <2>1
<1>14. {ms[q].name : q \in 1..N} = ManifestNames
  BY <1>2
<1>15. N \in 0..Len(specs)
  BY <1>1, <1>2, <1>10
<1> QED
  BY <1>8, <1>11, <1>12, <1>13, <1>14, <1>15 DEF PushList, specs, a, b, N

(* The names of the task are fixed.                                        *)
LEMMA NamesStay ==
  ASSUME UNCHANGED <<task, matrix>>
  PROVE  /\ \A field : Named(field)' = Named(field)
         /\ \A i, h : ManifestName(i, h)' = ManifestName(i, h)
BY DEF Named, Targets, ManifestName, Tag, GetDefaultTag

(* What is collected stays so.                                             *)
LEMMA CollectedStays ==
  ASSUME UNCHANGED <<count, task, matrix, mcache>>, Begun' = Begun, Collected
  PROVE  Collected'
<1>1. NamesOf(Begun)' = NamesOf(Begun)
  BY NamesStay DEF NamesOf
<1> QED
  BY <1>1 DEF Collected

(* A list that ends with the manifests does not cease to.                  *)
LEMMA PushListStays ==
  ASSUME UNCHANGED <<count, task, matrix>>, NEW specs, PushList(specs) PROVE PushList(specs)'
<1>1. ManifestNames' = ManifestNames
  BY NamesStay DEF ManifestNames, Entries
<1> QED
  BY <1>1 DEF PushList, Counted

(* A step after which the same entries have generated their specs, the     *)
(* last of them as before.                                                 *)
LEMMA PushesStay ==
  ASSUME PushesInTurn, InTurn', IsSeq(pushed)', UNCHANGED <<count, task, matrix, mcache>>,
         NoneFailed' => NoneFailed, NoneFailed' => Begun' = Begun,
         count \in Begun => UNCHANGED pushed /\ stage'[count] = stage[count] /\ frames'[count] = frames[count]
  PROVE  PushesInTurn'
<1> SUFFICES ASSUME NoneFailed' PROVE IF count \in Begun' THEN LastPushes' ELSE Collected'
  BY DEF PushesInTurn
<1>1. NoneFailed /\ Begun' = Begun
  OBVIOUS
<1>2. CASE count \in Begun
  <2>1. PICK specs, p : PushList(specs) /\ Through(count, specs, p) /\ PushedUpTo(specs, p)
    BY <1>1, <1>2 DEF PushesInTurn, LastPushes
  <2>2. PushList(specs)'
    BY <2>1, PushListStays
  <2>3. Through(count, specs, p)' /\ PushedUpTo(specs, p)'
    BY <1>2, <2>1 DEF Through, AtSpec, PushedUpTo
  <2>4. LastPushes'
    BY <1>1, <1>2, <2>2, <2>3 DEF LastPushes, PushesInTurn
  <2> QED
    BY <1>1, <1>2, <2>4
<1>3. CASE count \notin Begun
  BY <1>1, <1>3, CollectedStays DEF PushesInTurn
<1> QED
  BY <1>2, <1>3

(* What a sequence has when an element is appended.                        *)
LEMMA Appended ==
  ASSUME NEW s, IsSeq(s), NEW x
  PROVE  /\ IsSeq(Append(s, x)) /\ Len(s) \in Nat /\ Len(Append(s, x)) = Len(s) + 1
         /\ Append(s, x)[Len(s) + 1] = x /\ \A i \in 1..Len(s) : Append(s, x)[i] = s[i]
<1> DEFINE S == {s[i] : i \in DOMAIN s}
           T == S \cup {x}
<1>1. s \in Seq(T) /\ x \in T
  <2>1. s \in Seq(S) /\ S \subseteq T
    BY DEF IsSeq
  <2> HIDE DEF S, T
  <2>2. s \in Seq(T)
    BY <2>1
  <2> QED
    BY <2>2 DEF T
<1> HIDE DEF T
<1>2. Append(s, x) \in Seq(T)
  BY <1>1
<1>3. IsSeq(Append(s, x))
  BY <1>2, SeqIsSeq
<1> QED
  BY <1>1, <1>3

(* The last entry pushes.                                                  *)
LEMMA LastPushStep ==
  ASSUME PushInv, PushTask, workers = 1, BuildahStep(count), InTurn', NoneFailed'
  PROVE  count \in Begun' /\ LastPushes' /\ IsSeq(pushed)'
<1>0. EngineInv /\ count \in Entries /\ PushesInTurn /\ Entries' = Entries /\ count' = count
  <2>1. count \in Entries
    BY DEF PushInv, EngineInv, TypeOK, ExecTypeOK, Entries
  <2>2. count' = count
    BY <2>1, BuildahExecuted, ExecutedStage DEF PushInv
  <2> QED
    BY <2>1, <2>2 DEF PushInv, Entries
<1>1. stage[count] = "running" /\ \A h \in Entries \ {count} : stage'[h] = stage[h] /\ frames'[h] = frames[h]
  BY <1>0, BuildahExecuted, ExecutedStage DEF Executed
<1>2. NoneFailed /\ count \in Begun
  BY <1>0, <1>1 DEF NoneFailed, Begun
<1>3. PICK specs, p : PushList(specs) /\ Through(count, specs, p) /\ PushedUpTo(specs, p)
  BY <1>0, <1>2 DEF PushesInTurn, LastPushes
<1>4. AtSpec(count, specs, p) /\ IsSeq(specs) /\ p \in 1..Len(specs) /\ Len(specs) \in Nat
  BY <1>1, <1>3, LenProperties DEF Through, AtSpec, PushList, IsSeq
<1>5. Current(count) = specs[p]
  BY <1>4, CurrentSpec
<1>6. Current(count).op \in {"push", "manifest-push"} /\ Current(count).out = NoToken /\ ~Current(count).ignore
  <2>1. DOMAIN specs = 1..Len(specs)
    BY <1>4, LenProperties DEF IsSeq
  <2> QED
    BY <1>3, <1>4, <1>5, <2>1 DEF PushList
<1>7. CASE CommandFails(count)
  <2>1. NoToolCmd(count) \/ Fail(count, Empty)
    BY <1>7 DEF CommandFails
  <2>2. stage'[count] = "failed"
    BY <1>0, <1>4, <1>6, <2>1, LinearFail
  <2> QED
    BY <1>0, <2>2 DEF NoneFailed
<1>8. CASE Push(count)
  <2>1. Succeed(count, Empty, <<>>) /\ pushed' = Append(pushed, Last(specs[p].args))
    BY <1>5, <1>6, <1>8 DEF Push, At
  <2>2. Through(count, specs, p + 1)'
    BY <1>0, <1>4, <2>1, LinearSucceed
  <2>3. /\ IsSeq(pushed') /\ Len(pushed) \in Nat /\ Len(pushed') = Len(pushed) + 1
        /\ pushed'[Len(pushed) + 1] = Last(specs[p].args)
        /\ \A i \in 1..Len(pushed) : pushed'[i] = pushed[i]
    BY <1>0, <2>1, Appended DEF PushesInTurn
  <2>4. PushedUpTo(specs, p + 1)'
    <3>1. (p + 1) - 1 = p /\ p <= Len(pushed') /\ p \in Nat
      BY <1>3, <1>4, <2>3 DEF PushedUpTo
    <3>2. ASSUME NEW q \in 1..p PROVE pushed'[Len(pushed') - p + q] = Last(specs[q].args)
      <4>1. CASE q = p
        BY <2>3, <3>1, <4>1
      <4>2. CASE q # p
        <5>1. q \in 1..(p - 1) /\ Len(pushed') - p + q = Len(pushed) - (p - 1) + q
          BY <1>4, <2>3, <4>2
        <5>2. Len(pushed) - (p - 1) + q \in 1..Len(pushed)
          BY <1>3, <1>4, <2>3, <5>1 DEF PushedUpTo
        <5>3. pushed[Len(pushed) - (p - 1) + q] = Last(specs[q].args)
          BY <1>3, <5>1 DEF PushedUpTo
        <5> QED
          BY <2>3, <5>1, <5>2, <5>3
      <4> QED
        BY <4>1, <4>2
    <3> QED
      BY <3>1, <3>2 DEF PushedUpTo
  <2>5. UNCHANGED <<task, matrix, mcache, count>>
    BY <1>0 DEF BuildahStep, fixed
  <2>6. PushList(specs)'
    BY <1>3, <2>5, PushListStays
  <2>7. mcache = {}
    BY <1>0, <1>2 DEF PushesInTurn, LastPushes
  <2>8. LastPushes'
    BY <1>0, <2>2, <2>4, <2>5, <2>6, <2>7 DEF LastPushes
  <2>9. count \in Begun'
    BY <1>0, <2>2 DEF Through, AtSpec, Begun
  <2> QED
    BY <2>3, <2>8, <2>9
<1> QED
  BY <1>6, <1>7, <1>8 DEF BuildahStep, Pull, From, InspectContainer, Run, CopyIn, Copy, Rm, KeepCurrent,
     DeleteContainers, WriteFile, Commit, Bud, ReadIidFile, TagImage, InspectImage, ManifestCreate,
     ManifestInspect, ManifestUpdate, ManifestRemove, ManifestAdd, Login, At

(* The names of an entry that finds all its image id files are in the      *)
(* cache, in place of those of other entries.                              *)
LEMMA CachedNames ==
  ASSUME IsSeq(task.names), Collected, NEW g, NoIdFile(g) = {}
  PROVE  ByName(Cached(g)) /\ {m.name : m \in Cached(g)} = NamesOf(Begun \cup {g})
<1> DEFINE entry(i) == [name |-> ManifestName(i, g), sub |-> i, seq |-> g]
           mine == {entry(i) : i \in Reached(g)}
           others == {m \in mcache : \A n \in mine : n.name # m.name}
<1>1. Reached(g) = Named("manifest")
  BY DEF Reached
<1>2. \A i : entry(i).name = ManifestName(i, g)
  OBVIOUS
<1>3. \A i, j : entry(i).name = entry(j).name => i = j
  BY DEF ManifestName
<1>4. Cached(g) = others \cup mine
  BY DEF Cached
<1> HIDE DEF entry
<1>5. \A m, n \in mine : m.name = n.name => m = n
  BY <1>3
<1>6. IsFiniteSet(mine)
  <2> DEFINE D == Reached(g)
             f == [i \in D |-> entry(i)]
  <2>1. f \in Surjection(D, mine)
    BY DEF Surjection
  <2>2. IsFiniteSet(D)
    BY <1>1, NamedFinite
  <2> HIDE DEF D, mine, f
  <2> QED
    BY <2>1, <2>2, FS_Surjection
<1>7. IsFiniteSet(others) /\ \A m, n \in others : m.name = n.name => m = n
  <2>1. others \subseteq mcache /\ IsFiniteSet(mcache)
    BY DEF Collected, ByName
  <2>2. IsFiniteSet(others)
    BY <2>1, FS_Subset
  <2> QED
    BY <2>1, <2>2 DEF Collected, ByName
<1>8. \A m \in others, n \in mine : m.name # n.name
  OBVIOUS
<1>9. {m.name : m \in mine} = NamesOf({g})
  BY <1>1, <1>2 DEF NamesOf
<1>10. {m.name : m \in others} \cup {m.name : m \in mine} = {m.name : m \in mcache} \cup {m.name : m \in mine}
  OBVIOUS
<1> HIDE DEF others, mine
<1>11. ByName(Cached(g))
  <2>1. IsFiniteSet(others \cup mine)
    BY <1>6, <1>7, FS_Union
  <2> QED
    BY <1>4, <1>5, <1>7, <1>8, <2>1 DEF ByName
<1>12. {m.name : m \in Cached(g)} = {m.name : m \in others} \cup {m.name : m \in mine}
  BY <1>4
<1>13. NamesOf(Begun \cup {g}) = NamesOf(Begun) \cup NamesOf({g})
  BY DEF NamesOf
<1> QED
  BY <1>9, <1>10, <1>11, <1>12, <1>13 DEF Collected

(* GetExecSpecs of a push.                                                 *)
LEMMA PushGenerates ==
  ASSUME PushInv, PushTask, workers = 1, NEW g \in Entries, GenBuildah(g), InTurn'
  PROVE  PushesInTurn'
<1>0. EngineInv /\ PushesInTurn /\ IsSeq(task.names) /\ stage[g] = "started"
  BY DEF PushInv, GenBuildah, GenPush, NotGenerated, Generated
<1>1. UNCHANGED <<count, task, matrix, pushed>>
  BY DEF GenBuildah, GenPush, NotGenerated, Generated
<1>2. Entries' = Entries /\ Entries = 1..count /\ count \in Entries
  BY <1>0, <1>1 DEF Entries, EngineInv, TypeOK, ExecTypeOK
<1>3. InTurn' /\ IsSeq(pushed)'
  BY <1>0, <1>1 DEF PushesInTurn
<1>4. SUFFICES ASSUME NoneFailed' PROVE IF count \in Begun' THEN LastPushes' ELSE Collected'
  BY <1>1, <1>3 DEF PushesInTurn
<1>5. \A h \in Entries \ {g} : IF h < g THEN stage[h] \in Ended ELSE stage[h] = "waiting"
  BY <1>0, LaterWait DEF Active, PushesInTurn
<1>6. DOMAIN stage = Entries
  BY <1>0 DEF EngineInv, TypeOK, ExecTypeOK
<1>7. ~NotGenerated(g)
  BY <1>2, <1>4, <1>6 DEF NotGenerated, Goto, NoneFailed
<1>8. GenPush(g) /\ NoIdFile(g) = {}
  BY <1>7 DEF GenBuildah, GenPush, PushTask
<1>9. PICK specs : Generated(g, specs)
  BY <1>8 DEF GenPush
<1>10. stage'[g] \in {"running", "ok"} /\ \A h \in Entries \ {g} : stage'[h] = stage[h]
  BY <1>6, <1>9 DEF Generated, Goto
<1>11. Begun' = Begun \cup {g} /\ NoneFailed /\ count \notin Begun
  <2>1. NoneFailed
    BY <1>0, <1>2, <1>4, <1>10 DEF NoneFailed
  <2>2. count \notin Begun
    BY <1>0, <1>2, <1>5 DEF Begun
  <2> QED
    BY <1>2, <1>10, <2>1, <2>2 DEF Begun
<1>12. Collected
  BY <1>0, <1>11 DEF PushesInTurn
<1>13. ByName(Cached(g)) /\ {m.name : m \in Cached(g)} = NamesOf(Begun \cup {g})
  BY <1>0, <1>8, <1>12, CachedNames
<1>14. CASE g # count
  <2>1. mcache' = Cached(g)
    BY <1>8, <1>14 DEF GenPush, IsLast
  <2>2. \A G : NamesOf(G)' = NamesOf(G')
    BY <1>1, NamesStay DEF NamesOf
  <2>3. NamesOf(Begun)' = NamesOf(Begun \cup {g})
    BY <1>1, <1>11, NamesStay DEF NamesOf
  <2>4. Collected'
    BY <1>13, <2>1, <2>3 DEF Collected, ByName
  <2> QED
    BY <1>11, <1>14, <2>4
<1>15. CASE g = count
  <2>1. PICK ms \in Sorted(Cached(g)) : Generated(g, PushImageSpecs(g) \o ManifestPushSpecs(ms)) /\ mcache' = {}
    BY <1>8, <1>15 DEF GenPush, IsLast
  <2>2. PICK list : list = PushImageSpecs(g) \o ManifestPushSpecs(ms)
    OBVIOUS
  <2>3. Begun \cup {g} = Entries
    BY <1>2, <1>5, <1>11, <1>15 DEF Begun, NoneFailed, Ended
  <2>4. NamesOf(Entries) = ManifestNames
    BY DEF NamesOf, ManifestNames
  <2>5. PushList(list)
    BY <1>0, <1>13, <2>2, <2>3, <2>4, PushListed
  <2>6. Generated(g, list) /\ IsSeq(list)
    BY <2>1, <2>2, <2>5 DEF PushList
  <2>7. Through(g, list, 1)'
    BY <1>0, <2>6, LinearStart
  <2>8. PushList(list)'
    BY <1>1, <2>5, PushListStays
  <2>9. PushedUpTo(list, 1)'
    BY <1>0, <1>1, LenProperties DEF PushedUpTo, PushesInTurn, IsSeq
  <2>10. LastPushes'
    BY <1>1, <1>15, <2>1, <2>7, <2>8, <2>9 DEF LastPushes
  <2> QED
    BY <1>11, <1>15, <2>10
<1> QED
  BY <1>14, <1>15

(* Another step of an entry of a push.                                     *)
LEMMA PushStep ==
  ASSUME PushInv, PushTask, workers = 1, NEW g \in Entries, BuildahStep(g), InTurn'
  PROVE  PushesInTurn'
<1>0. EngineInv /\ PushesInTurn
  BY DEF PushInv
<1>1. /\ stage[g] = "running" /\ stage'[g] \in {"running", "ok", "failed"} /\ count' = count
      /\ \A h \in Entries \ {g} : stage'[h] = stage[h] /\ frames'[h] = frames[h]
  BY <1>0, BuildahExecuted, ExecutedStage DEF Executed
<1>2. Entries' = Entries /\ count \in Entries /\ Entries = 1..count
  BY <1>0, <1>1 DEF Entries, EngineInv, TypeOK, ExecTypeOK
<1>3. UNCHANGED <<task, matrix, mcache>>
  BY DEF BuildahStep, fixed
<1>4. IsSeq(pushed')
  <2>1. UNCHANGED pushed \/ \E x : pushed' = Append(pushed, x)
    BY DEF BuildahStep, Pull, From, InspectContainer, Run, CopyIn, Copy, InContainer, Rm, KeepCurrent,
       DeleteContainers, WriteFile, Commit, Bud, ReadIidFile, TagImage, InspectImage, ManifestCreate,
       ManifestInspect, ManifestUpdate, ManifestRemove, ManifestAdd, Push, Login, CommandFails, host
  <2> QED
    BY <1>0, <2>1, Appended DEF PushesInTurn
<1>5. NoneFailed' => NoneFailed /\ Begun' = Begun
  <2> SUFFICES ASSUME NoneFailed' PROVE NoneFailed /\ Begun' = Begun
    OBVIOUS
  <2>1. stage'[g] \in {"running", "ok"}
    BY <1>1, <1>2 DEF NoneFailed
  <2> QED
    BY <1>1, <1>2, <2>1 DEF NoneFailed, Begun
<1>6. CASE g # count
  <2>1. count \notin Begun
    BY <1>0, <1>1, <1>2, <1>6, LaterWait DEF Active, Begun, PushesInTurn
  <2> QED
    BY <1>0, <1>1, <1>3, <1>4, <1>5, <2>1, PushesStay
<1>7. CASE g = count
  BY <1>1, <1>4, <1>7, LastPushStep DEF PushesInTurn
<1> QED
  BY <1>6, <1>7

(* Nothing is pushed at first.                                             *)
LEMMA InitPush == Init => PushInv
<1> SUFFICES ASSUME Init PROVE PushInv
  OBVIOUS
<1>1. /\ job \in Jobs /\ stage = [g \in Entries |-> "waiting"] /\ pushed = <<>> /\ mcache = {}
      /\ task = IF job.tool \in {"buildah", "docker"} THEN job.task ELSE NoTask
  BY DEF Init, ExecInit, Entries
<1>2. EngineInv
  BY InitEngine
<1>3. IsSeq(task.names)
  <2>1. CASE job.tool \in {"buildah", "docker"}
    BY <1>1, <2>1, SeqIsSeq, NamesAssumption
  <2>2. CASE job.tool \notin {"buildah", "docker"}
    BY <1>1, <2>2 DEF IsSeq, NoTask
  <2> QED
    BY <2>1, <2>2
<1>4. job.tool \notin {"buildah", "docker"} => task.kind = "none"
  BY <1>1 DEF NoTask
<1>5. Begun = {}
  BY <1>1 DEF Begun
<1>6. count \in Entries
  BY <1>2 DEF EngineInv, TypeOK, ExecTypeOK, Entries
<1>7. PushesInTurn
  <2>1. InTurn /\ IsSeq(pushed)
    BY <1>1 DEF InTurn, IsSeq
  <2>2. Collected
    <3>1. ByName(mcache)
      BY <1>1, FS_EmptySet DEF ByName
    <3>2. NamesOf({}) = {} /\ {m.name : m \in {}} = {}
      BY DEF NamesOf
    <3> QED
      BY <1>1, <1>5, <3>1, <3>2 DEF Collected
  <2> QED
    BY <1>5, <2>1, <2>2 DEF PushesInTurn
<1> QED
  BY <1>2, <1>3, <1>4, <1>5, <1>7 DEF PushInv

(* Every step of any tool keeps the order of the pushes.                   *)
LEMMA NextPush == PushInv /\ [Next]_vars => PushInv'
<1> SUFFICES ASSUME PushInv, [Next]_vars PROVE PushInv'
  OBVIOUS
<1>1. EngineInv /\ EngineInv'
  BY NextEngine DEF PushInv
<1>2. job' = job
  BY DEF Next, BuildahNext, DockerNext, GoNext, CosignNext, Terminated, vars
<1>3. UNCHANGED <<task, matrix>>
  BY DEF Next, BuildahNext, DockerNext, GoNext, CosignNext, Terminated, vars, buildahVars, GenBuildah, GenDocker,
     BuildahStep, DockerStep, fixed
<1> DEFINE Done == /\ job.tool = "docker" /\ task.kind = "push" => Begun' = {}
                   /\ PushTask /\ workers = 1 => workers' = workers /\ PushesInTurn'
<1>4. SUFFICES Done
  <2>1. PushTask' = PushTask
    BY <1>2, <1>3 DEF PushTask
  <2>2. Done => workers' = workers \/ ~(PushTask /\ workers = 1)
    OBVIOUS
  <2>3. UNCHANGED workers
    <3>1. ASSUME NEW g \in Entries, Engine(g) PROVE UNCHANGED workers
      BY <1>1, <3>1, EngineStage
    <3>2. Terminated \/ UNCHANGED vars => UNCHANGED workers
      BY DEF Terminated, vars, execVars
    <3>3. ASSUME NEW g \in Entries, Start(g) PROVE UNCHANGED workers
      BY <3>3 DEF Start
    <3> QED
      BY <3>1, <3>2, <3>3, BuildahEngine, DockerEngine, GoEngine, CosignEngine DEF Next
  <2> QED
    BY <1>1, <1>2, <1>3, <2>1, <2>3 DEF PushInv
<1>5. CASE UNCHANGED vars
  <2>1. UNCHANGED <<count, workers, stage, frames, task, matrix, mcache, pushed>>
    BY <1>5 DEF vars, execVars, buildahVars
  <2>2. Begun' = Begun /\ NoneFailed' = NoneFailed /\ InTurn' = InTurn
    BY <2>1 DEF Begun, NoneFailed, InTurn, Entries
  <2>3. PushesInTurn => PushesInTurn'
    BY <2>1, <2>2, PushesStay DEF PushesInTurn
  <2> QED
    BY <2>1, <2>2, <2>3 DEF PushInv
<1>6. ASSUME NEW g \in Entries, Start(g), UNCHANGED buildahVars PROVE Done
  <2>1. /\ UNCHANGED <<count, workers, frames, task, matrix, mcache, pushed>> /\ stage[g] = "waiting"
        /\ stage'[g] = "started" /\ \A h \in Entries \ {g} : stage'[h] = stage[h]
    BY <1>1, <1>6 DEF Start, Goto, buildahVars, EngineInv, TypeOK, ExecTypeOK
  <2>2. Begun' = Begun /\ (NoneFailed' => NoneFailed)
    BY <2>1 DEF Begun, NoneFailed, Entries
  <2>3. ASSUME PushTask, workers = 1 PROVE PushesInTurn'
    <3>1. PushesInTurn
      BY <2>3 DEF PushInv
    <3>2. InTurn'
      BY <1>1, <1>6, <2>3, <3>1, TurnsKept DEF Engine, PushesInTurn
    <3>3. count \in Begun => count # g /\ count \in Entries
      BY <2>1 DEF Begun
    <3>4. count \in Begun => stage'[count] = stage[count] /\ frames'[count] = frames[count]
      BY <2>1, <3>3
    <3> QED
      BY <2>1, <2>2, <3>1, <3>2, <3>4, PushesStay DEF PushesInTurn
  <2> QED
    BY <2>1, <2>2, <2>3 DEF PushInv
<1>7. ASSUME NEW g \in Entries, job.tool = "buildah", BuildahNext(g) PROVE Done
  <2>1. ASSUME PushTask, workers = 1 PROVE workers' = workers /\ PushesInTurn'
    <3>1. Engine(g) /\ InTurn
      BY <1>7, <2>1, BuildahEngine DEF PushInv, PushesInTurn
    <3>2. InTurn' /\ workers' = workers
      BY <1>1, <2>1, <3>1, TurnsKept, EngineStage
    <3> QED
      BY <1>7, <2>1, <3>2, PushGenerates, PushStep DEF BuildahNext
  <2> QED
    BY <1>7, <2>1
<1>8. ASSUME NEW g \in Entries, job.tool = "docker", DockerNext(g) PROVE Done
  <2> SUFFICES ASSUME task.kind = "push" PROVE Begun' = {}
    BY <1>8 DEF PushTask
  <2>1. Begun = {}
    BY <1>8 DEF PushInv
  <2>2. stage[g] # "running"
    BY <2>1 DEF Begun
  <2>3. NotGenerated(g)
    BY <1>8, <2>2 DEF DockerNext, GenDocker, DockerStep, DockerBuild, DockerManifestLink,
       DockerManifestAnnotate, DockerPush, DockerLogin, DockerFails, At
  <2> QED
    BY <1>1, <2>1, <2>3 DEF NotGenerated, Goto, Begun, Entries, EngineInv, TypeOK, ExecTypeOK
<1>9. job.tool \notin {"buildah", "docker"} => Done
  BY DEF PushInv, PushTask
<1>10. CASE Terminated
  BY <1>5, <1>10 DEF Terminated
<1>11. ASSUME NEW g \in Entries,
             \/ Start(g) /\ UNCHANGED <<buildahVars, goVars, cosignVars, job>>
             \/ job.tool = "buildah" /\ BuildahNext(g)
             \/ job.tool = "docker" /\ DockerNext(g)
             \/ job.tool = "golang" /\ GoNext(g)
             \/ job.tool = "cosign" /\ CosignNext(g)
      PROVE  Done
  <2>1. CASE job.tool \notin {"buildah", "docker"}
    BY <1>9, <2>1
  <2>2. CASE job.tool \in {"buildah", "docker"}
    BY <1>6, <1>7, <1>8, <1>11, <2>2
  <2> QED
    BY <2>1, <2>2
<1> QED
  BY <1>5, <1>10, <1>11 DEF Next

(* For any push by one worker, of any names: the manifests come last, each *)
(* once, and none is left in the cache for the next run (task_push.go).    *)
THEOREM ToolRunManifestsLast == Spec => []ManifestsPushedLast
<1>1. PushInv => ManifestsPushedLast
  <2> SUFFICES ASSUME PushInv, task.kind = "push", workers = 1, \A g \in Entries : stage[g] = "ok"
               PROVE  /\ mcache = {}
                      /\ {SubSeq(pushed, Len(pushed) - Counted + 1, Len(pushed))[k] : k \in 1..Counted} = ManifestNames
    BY DEF ManifestsPushedLast, Counted
  <2>1. count \in Begun /\ NoneFailed
    BY DEF PushInv, EngineInv, TypeOK, ExecTypeOK, Entries, Begun, NoneFailed
  <2>2. PushTask /\ PushesInTurn
    BY <2>1 DEF PushInv, PushTask
  <2>3. mcache = {} /\ IsSeq(pushed)
    BY <2>1, <2>2 DEF PushesInTurn, LastPushes
  <2>4. PICK specs, p : PushList(specs) /\ Through(count, specs, p) /\ PushedUpTo(specs, p)
    BY <2>1, <2>2 DEF PushesInTurn, LastPushes
  <2>5. p = Len(specs) + 1
    BY <2>1, <2>4 DEF Through, AtSpec, Begun
  <2> DEFINE n == Len(specs)
             N == Counted
             l == Len(pushed)
  <2>6. n \in Nat /\ l \in Nat /\ N \in 0..n /\ p = n + 1 /\ n <= l
    BY <2>3, <2>4, <2>5, LenProperties DEF PushList, IsSeq, PushedUpTo
  <2> HIDE DEF N, l, n
  <2>7. ASSUME NEW k \in 1..N PROVE SubSeq(pushed, l - N + 1, l)[k] = Last(specs[n - N + k].args)
    <3>1. n - N + k \in 1..(p - 1) /\ l - (p - 1) + (n - N + k) = l - N + k
      BY <2>6
    <3>2. pushed[l - N + k] = Last(specs[n - N + k].args)
      BY <2>4, <3>1 DEF PushedUpTo, l
    <3>3. SubSeq(pushed, l - N + 1, l)[k] = pushed[l - N + k]
      BY <2>3, <2>6 DEF l, IsSeq
    <3> QED
      BY <3>2, <3>3
  <2>8. {Last(specs[n - N + q].args) : q \in 1..N} = ManifestNames
    BY <2>4 DEF PushList, n, N
  <2>9. {SubSeq(pushed, l - N + 1, l)[k] : k \in 1..N} = ManifestNames
    BY <2>7, <2>8
  <2> QED
    BY <2>3, <2>9 DEF l, N
<1> QED
  BY InitPush, NextPush, <1>1, PTL DEF Spec

-----------------------------------------------------------------------------

(* Calls one in the other                                                  *)

(* The calls of an entry with its first spec taken away.                   *)
LEMMA RestCalls ==
  ASSUME NEW S, NEW g, frames[g] \in CallsOf(S), frames[g] # <<>>, Last(frames[g]).todo # <<>>,
         NEW N, N = Len(frames[g])
  PROVE  /\ N \in Nat \ {0} /\ DOMAIN frames[g] = 1..N
         /\ frames[g][N].todo \in Seq(S) /\ frames[g][N].todo # <<>>
         /\ Current(g) = frames[g][N].todo[1] /\ Current(g) \in S
         /\ Rest(g) \in CallsOf(S) /\ Len(Rest(g)) = N
         /\ \A i \in 1..N : /\ Rest(g)[i].ignore = frames[g][i].ignore
                            /\ Rest(g)[i].todo = IF i = N THEN Tail(frames[g][N].todo) ELSE frames[g][i].todo
<1> DEFINE C == [ignore : BOOLEAN, todo : Seq(S)]
           fs == frames[g]
           new == [fs[N] EXCEPT !.todo = Tail(@)]
<1>1. fs \in Seq(C) /\ N \in Nat \ {0} /\ DOMAIN fs = 1..N /\ fs[N] \in C /\ Last(fs) = fs[N]
  <2>1. fs \in Seq(C)
    BY DEF CallsOf
  <2> HIDE DEF C
  <2>2. N \in Nat /\ DOMAIN fs = 1..N /\ N # 0
    BY <2>1, EmptySeq, LenProperties
  <2>3. fs[N] \in C
    BY <2>1, <2>2, ElementOfSeq
  <2> QED
    BY <2>1, <2>2, <2>3 DEF Last
<1>2. fs[N].todo \in Seq(S) /\ fs[N].todo # <<>> /\ fs[N].ignore \in BOOLEAN
  BY <1>1
<1>3. Current(g) = fs[N].todo[1] /\ Current(g) \in S
  <2>1. Current(g) = Head(fs[N].todo)
    BY <1>1 DEF Current
  <2> HIDE DEF fs
  <2> QED
    BY <1>2, <2>1, HeadTailProperties DEF Current
<1>4. Tail(fs[N].todo) \in Seq(S)
  BY <1>2, HeadTailProperties
<1>5. new \in C /\ new.todo = Tail(fs[N].todo) /\ new.ignore = fs[N].ignore
  <2> HIDE DEF fs
  <2> QED
    BY <1>1, <1>4
<1>6. Front(fs) = [i \in 1..(N - 1) |-> fs[i]]
  BY <1>1 DEF Front
<1>7. Rest(g) = [i \in 1..N |-> IF i = N THEN new ELSE fs[i]]
  BY <1>1, <1>6 DEF Rest, Last
<1>8. \A i \in 1..N : fs[i] \in C
  BY <1>1, ElementOfSeq
<1> HIDE DEF new, fs, C
<1>9. Rest(g) \in Seq(C) /\ Len(Rest(g)) = N
  BY <1>1, <1>5, <1>7, <1>8
<1> QED
  BY <1>1, <1>2, <1>3, <1>5, <1>7, <1>9 DEF CallsOf, C, fs

(* The calls that have returned had no more to do.                         *)
LEMMA ReturnedCalls ==
  ASSUME NEW S, NEW fs \in CallsOf(S)
  PROVE  \E n \in 0..Len(fs) :
           /\ Returned(fs) \in CallsOf(S) /\ Len(Returned(fs)) = n
           /\ \A i \in 1..n : Returned(fs)[i] = fs[i]
           /\ \A i \in (n + 1)..Len(fs) : fs[i].todo = <<>>
           /\ n > 0 => fs[n].todo # <<>>
<1> DEFINE left == {i \in DOMAIN fs : fs[i].todo # <<>>}
           C == [ignore : BOOLEAN, todo : Seq(S)]
<1>1. Len(fs) \in Nat /\ DOMAIN fs = 1..Len(fs) /\ fs \in Seq(C)
  BY LenProperties DEF CallsOf
<1>2. PICK n \in 0..Len(fs) : /\ Returned(fs) = SubSeq(fs, 1, n)
                              /\ \A i \in (n + 1)..Len(fs) : fs[i].todo = <<>>
                              /\ n > 0 => fs[n].todo # <<>>
  <2>1. CASE left = {}
    BY <1>1, <2>1 DEF Returned
  <2>2. CASE left # {}
    <3> DEFINE n == CHOOSE i \in left : \A j \in left : j <= i
    <3>1. n \in left /\ \A j \in left : j <= n
      BY <1>1, <2>2, LastPosition
    <3>2. Returned(fs) = SubSeq(fs, 1, n)
      BY <2>2 DEF Returned
    <3> HIDE DEF n
    <3>3. n \in 1..Len(fs) /\ fs[n].todo # <<>>
      BY <1>1, <3>1
    <3>4. ASSUME NEW i \in (n + 1)..Len(fs) PROVE fs[i].todo = <<>>
      <4>1. i \in 1..Len(fs) /\ ~(i <= n)
        BY <1>1, <3>3
      <4> QED
        BY <1>1, <3>1, <4>1
    <3> QED
      BY <1>1, <3>2, <3>3, <3>4
  <2> QED
    BY <2>1, <2>2
<1> HIDE DEF left, C
<1>3. SubSeq(fs, 1, n) \in Seq(C) /\ Len(SubSeq(fs, 1, n)) = n /\ \A i \in 1..n : SubSeq(fs, 1, n)[i] = fs[i]
  BY <1>1, <1>2
<1> QED
  BY <1>2, <1>3 DEF CallsOf, C

(* An entry that goes on has the same left to do.                          *)
LEMMA ContinueCalls ==
  ASSUME EngineInv, NEW g \in Entries, NEW S, NEW fs \in CallsOf(S), Continue(g, fs)
  PROVE  /\ frames'[g] \in CallsOf(S) /\ Len(frames'[g]) <= Len(fs)
         /\ \A i \in DOMAIN frames'[g] : i \in DOMAIN fs /\ frames'[g][i] = fs[i]
         /\ Len(frames'[g]) = Len(fs) => fs = <<>> \/ fs[Len(fs)].todo # <<>>
         /\ \A i \in Nat : Todo(frames'[g], i) = Todo(fs, i)
         /\ stage'[g] = "running" \/ (stage'[g] = "ok" /\ frames'[g] = <<>>)
<1>1. /\ frames'[g] = Returned(fs)
      /\ stage'[g] = IF Returned(fs) = <<>> THEN "ok" ELSE "running"
  BY DEF Continue, Goto, EngineInv, TypeOK, ExecTypeOK
<1>2. PICK n \in 0..Len(fs) :
           /\ Returned(fs) \in CallsOf(S) /\ Len(Returned(fs)) = n
           /\ \A i \in 1..n : Returned(fs)[i] = fs[i]
           /\ \A i \in (n + 1)..Len(fs) : fs[i].todo = <<>>
           /\ n > 0 => fs[n].todo # <<>>
  BY ReturnedCalls
<1>3. /\ Len(fs) \in Nat /\ DOMAIN fs = 1..Len(fs) /\ DOMAIN Returned(fs) = 1..n
      /\ Len(fs) = 0 => fs = <<>>
  BY <1>2, LenProperties, EmptySeq DEF CallsOf
<1>4. ASSUME NEW i \in Nat PROVE Todo(Returned(fs), i) = Todo(fs, i)
  <2>1. CASE i \in 1..n
    BY <1>2, <1>3, <2>1 DEF Todo
  <2>2. CASE i \notin 1..n /\ i \in 1..Len(fs)
    BY <1>2, <1>3, <2>2 DEF Todo
  <2>3. CASE i \notin 1..Len(fs)
    BY <1>2, <1>3, <2>3 DEF Todo
  <2> QED
    BY <2>1, <2>2, <2>3
<1>5. \A i \in 1..n : i \in 1..Len(fs)
  BY <1>2, <1>3
<1>6. n = Len(fs) => fs = <<>> \/ fs[Len(fs)].todo # <<>>
  BY <1>2, <1>3
<1> DEFINE now == frames'[g]
<1>7. now = Returned(fs) /\ DOMAIN now = 1..n /\ Len(now) = n
  BY <1>1, <1>2, <1>3
<1> HIDE DEF now
<1>8. now \in CallsOf(S) /\ Len(now) <= Len(fs)
  BY <1>2, <1>3, <1>7
<1>9. \A i \in DOMAIN now : i \in DOMAIN fs /\ now[i] = fs[i]
  BY <1>2, <1>3, <1>5, <1>7
<1>10. Len(now) = Len(fs) => fs = <<>> \/ fs[Len(fs)].todo # <<>>
  BY <1>6, <1>7
<1>11. \A i \in Nat : Todo(now, i) = Todo(fs, i)
  BY <1>4, <1>7
<1>12. stage'[g] = "running" \/ (stage'[g] = "ok" /\ now = <<>>)
  BY <1>1, <1>7
<1> QED
  BY <1>8, <1>9, <1>10, <1>11, <1>12 DEF now

(* A spec that succeeds makes way for what its callback returned.          *)
LEMMA SucceedCalls ==
  ASSUME EngineInv, NEW g \in Entries, stage[g] = "running", NEW S,
         frames[g] \in CallsOf(S), NoneIgnores(frames[g]),
         NEW data, NEW sub \in Seq(S), Succeed(g, data, sub),
         Current(g).ignore \in BOOLEAN, Current(g).ignore => sub = <<>>
  PROVE  Stepped(g, S, sub)
<1>0. PICK N : N = Len(frames[g])
  OBVIOUS
<1> DEFINE new == [ignore |-> Current(g).ignore, todo |-> sub]
           fs == Append(Rest(g), new)
           C == [ignore : BOOLEAN, todo : Seq(S)]
<1>1. frames[g] # <<>> /\ Last(frames[g]).todo # <<>>
  BY DEF EngineInv, TypeOK, ExecTypeOK
<1>2. /\ N \in Nat \ {0} /\ DOMAIN frames[g] = 1..N
      /\ Rest(g) \in CallsOf(S) /\ Len(Rest(g)) = N
      /\ \A i \in 1..N : /\ Rest(g)[i].ignore = frames[g][i].ignore
                         /\ Rest(g)[i].todo = IF i = N THEN Tail(frames[g][N].todo) ELSE frames[g][i].todo
  BY <1>0, <1>1, RestCalls
<1>3. Continue(g, fs)
  BY DEF Succeed
<1>4. new \in C /\ new.ignore = Current(g).ignore /\ new.todo = sub
  OBVIOUS
<1> HIDE DEF new
<1>5. /\ fs \in Seq(C) /\ Len(fs) = N + 1 /\ fs[N + 1] = new
      /\ \A i \in 1..N : fs[i] = Rest(g)[i]
  <2>1. Rest(g) \in Seq(C)
    BY <1>2 DEF CallsOf
  <2> HIDE DEF C
  <2> QED
    BY <1>2, <1>4, <2>1, AppendProperties
<1>6. fs \in CallsOf(S) /\ DOMAIN fs = 1..(N + 1)
  <2>1. fs \in CallsOf(S)
    BY <1>5 DEF CallsOf
  <2> QED
    <3>1. fs \in Seq(C) /\ Len(fs) = N + 1
      BY <1>5
    <3> HIDE DEF fs, C
    <3> QED
      BY <3>1, <2>1, LenProperties
<1> HIDE DEF fs, C
<1> DEFINE now == frames'[g]
<1>7. /\ now \in CallsOf(S) /\ Len(now) <= N + 1
      /\ \A i \in DOMAIN now : i \in DOMAIN fs /\ now[i] = fs[i]
      /\ Len(now) = N + 1 => fs = <<>> \/ fs[N + 1].todo # <<>>
      /\ \A i \in Nat : Todo(now, i) = Todo(fs, i)
      /\ stage'[g] = "running" \/ (stage'[g] = "ok" /\ now = <<>>)
  BY <1>3, <1>5, <1>6, ContinueCalls
<1> HIDE DEF now
<1>8. Len(now) \in Nat /\ DOMAIN now = 1..Len(now)
  BY <1>7, LenProperties DEF CallsOf
<1>9. fs # <<>>
  BY <1>2, <1>5
<1>10. ASSUME NEW i \in DOMAIN now PROVE ~now[i].ignore
  <2>1. i \in 1..(N + 1) /\ now[i] = fs[i]
    BY <1>6, <1>7, <1>10
  <2>2. CASE i = N + 1
    <3>1. Len(now) = N + 1
      <4>1. N + 1 \in 1..Len(now) /\ Len(now) <= N + 1
        BY <1>7, <1>8, <1>10, <2>2
      <4>2. PICK n, m : N = n /\ Len(now) = m /\ n \in Nat /\ m \in Nat
        BY <1>2, <1>8
      <4>3. n + 1 \in 1..m /\ m <= n + 1
        BY <4>1, <4>2
      <4>4. m = n + 1
        BY <4>2, <4>3
      <4> QED
        BY <4>2, <4>4
    <3>2. sub # <<>>
      BY <1>4, <1>5, <1>7, <1>9, <3>1
    <3> QED
      BY <1>4, <1>5, <2>1, <2>2, <3>2
  <2>3. CASE i # N + 1
    BY <1>2, <1>5, <2>1, <2>3 DEF NoneIgnores
  <2> QED
    BY <2>2, <2>3
<1>11. ASSUME NEW i \in Nat
       PROVE  Todo(fs, i) = IF i < N THEN Todo(frames[g], i) ELSE IF i = N THEN Tail(Todo(frames[g], i))
                            ELSE IF i = N + 1 THEN sub ELSE <<>>
  <2>1. CASE i = 0
    BY <1>2, <1>6, <2>1 DEF Todo
  <2>2. CASE i \in 1..N
    <3>1. fs[i] = Rest(g)[i] /\ i \in 1..(N + 1) /\ i \in DOMAIN frames[g]
      BY <1>2, <1>5, <2>2
    <3>2. Todo(fs, i) = Rest(g)[i].todo /\ Todo(frames[g], i) = frames[g][i].todo
      BY <1>6, <3>1 DEF Todo
    <3>3. Todo(fs, i) = IF i = N THEN Tail(Todo(frames[g], i)) ELSE Todo(frames[g], i)
      BY <1>2, <2>2, <3>2
    <3> QED
      BY <1>2, <2>2, <3>3
  <2>3. CASE i = N + 1
    <3>1. Todo(fs, i) = sub
      BY <1>2, <1>4, <1>5, <1>6, <2>3 DEF Todo
    <3> QED
      BY <1>2, <2>3, <3>1
  <2>4. CASE i > N + 1
    BY <1>2, <1>6, <2>4 DEF Todo
  <2> QED
    BY <1>2, <2>1, <2>2, <2>3, <2>4
<1> QED
  BY <1>0, <1>7, <1>10, <1>11 DEF Stepped, NoneIgnores, now

(* A spec that fails, and may, leaves the specs after it.                  *)
LEMMA IgnoredCalls ==
  ASSUME EngineInv, NEW g \in Entries, stage[g] = "running", NEW S,
         frames[g] \in CallsOf(S), NoneIgnores(frames[g]),
         NEW data, Fail(g, data), Current(g).ignore
  PROVE  Stepped(g, S, <<>>)
<1>0. PICK N : N = Len(frames[g])
  OBVIOUS
<1> DEFINE fs == Rest(g)
<1>1. frames[g] # <<>> /\ Last(frames[g]).todo # <<>>
  BY DEF EngineInv, TypeOK, ExecTypeOK
<1>2. /\ N \in Nat \ {0} /\ DOMAIN frames[g] = 1..N
      /\ fs \in CallsOf(S) /\ Len(fs) = N
      /\ \A i \in 1..N : /\ fs[i].ignore = frames[g][i].ignore
                         /\ fs[i].todo = IF i = N THEN Tail(frames[g][N].todo) ELSE frames[g][i].todo
  BY <1>0, <1>1, RestCalls
<1>3. Continue(g, fs)
  BY DEF Fail
<1> HIDE DEF fs
<1>4. DOMAIN fs = 1..N
  BY <1>2, LenProperties DEF CallsOf
<1> DEFINE now == frames'[g]
<1>5. /\ now \in CallsOf(S)
      /\ \A i \in DOMAIN now : i \in DOMAIN fs /\ now[i] = fs[i]
      /\ \A i \in Nat : Todo(now, i) = Todo(fs, i)
      /\ stage'[g] = "running" \/ (stage'[g] = "ok" /\ now = <<>>)
  BY <1>2, <1>3, ContinueCalls
<1> HIDE DEF now
<1>6. ASSUME NEW i \in DOMAIN now PROVE ~now[i].ignore
  BY <1>2, <1>4, <1>5, <1>6 DEF NoneIgnores
<1>7. ASSUME NEW i \in Nat
      PROVE  Todo(fs, i) = IF i < N THEN Todo(frames[g], i) ELSE IF i = N THEN Tail(Todo(frames[g], i))
                           ELSE IF i = N + 1 THEN <<>> ELSE <<>>
  <2>1. CASE i \in 1..N
    <3>1. Todo(fs, i) = fs[i].todo /\ Todo(frames[g], i) = frames[g][i].todo
      BY <1>2, <1>4, <2>1 DEF Todo
    <3>2. Todo(fs, i) = IF i = N THEN Tail(Todo(frames[g], i)) ELSE Todo(frames[g], i)
      BY <1>2, <2>1, <3>1
    <3> QED
      BY <1>2, <2>1, <3>2
  <2>2. CASE i \notin 1..N
    BY <1>2, <1>4, <2>2 DEF Todo
  <2> QED
    BY <2>1, <2>2
<1> QED
  BY <1>0, <1>5, <1>6, <1>7 DEF Stepped, NoneIgnores, now

(* Where no call ignores errors, one that is not ignored ends the entry.   *)
LEMMA FailCalls ==
  ASSUME EngineInv, NEW g \in Entries, stage[g] = "running", NEW S,
         frames[g] \in CallsOf(S), NoneIgnores(frames[g]),
         NoToolCmd(g) \/ (~Current(g).ignore /\ \E data : Fail(g, data))
  PROVE  stage'[g] = "failed"
<1>1. frames[g] # <<>> /\ Last(frames[g]).todo # <<>>
  BY DEF EngineInv, TypeOK, ExecTypeOK
<1>0. PICK N : N = Len(frames[g])
  OBVIOUS
<1> DEFINE fs == Rest(g)
<1>2. /\ DOMAIN frames[g] = 1..N
      /\ fs \in CallsOf(S) /\ Len(fs) = N
      /\ \A i \in 1..N : fs[i].ignore = frames[g][i].ignore
  BY <1>0, <1>1, RestCalls
<1> HIDE DEF fs
<1>3. DOMAIN fs = 1..N
  BY <1>2, LenProperties DEF CallsOf
<1>4. {i \in DOMAIN fs : fs[i].ignore} = {}
  BY <1>2, <1>3 DEF NoneIgnores
<1>5. Unwind(g)
  BY DEF NoToolCmd, Fail
<1>6. Goto(g, "failed")
  BY <1>4, <1>5 DEF Unwind, fs
<1> QED
  BY <1>6 DEF Goto, EngineInv, TypeOK, ExecTypeOK

-----------------------------------------------------------------------------

(* go test                                                                 *)

(* One that suggests variables, and one whose errors are ignored.          *)
LEMMA SuggestingFields ==
  ASSUME NEW c, NEW e, DOMAIN c = {"op", "args", "out", "ignore", "env"}
  PROVE  /\ WithEnv(c, e).op = c.op /\ WithEnv(c, e).args = c.args /\ WithEnv(c, e).out = c.out
         /\ WithEnv(c, e).ignore = c.ignore /\ WithEnv(c, e).env = e
BY DEF WithEnv

(* An ignored spec is the same but for its errors.                         *)
LEMMA IgnoredFields ==
  ASSUME NEW c, DOMAIN c = {"op", "args", "out", "ignore", "env"}
  PROVE  /\ Ignored(c).op = c.op /\ Ignored(c).args = c.args /\ Ignored(c).out = c.out
         /\ Ignored(c).ignore = TRUE /\ Ignored(c).env = c.env
BY DEF Ignored

(* The specs of a package, and those it may add when it is run.            *)
LEMMA CompileSpecsAre ==
  ASSUME NEW g, NEW p, NEW S, Range(CompileSpecs(g, p)) \subseteq S
  PROVE  LET s == CompileSpecs(g, p)
         IN /\ s \in Seq(S) /\ Len(s) = 3 /\ \A k \in 1..3 : PackageSpec(g, s[k], p)
            /\ s[1].op = "remove-binary" /\ s[2].op = "compile" /\ s[3].op = "chmod"
<1> DEFINE a == Cmd("remove-binary", <<p>>)
           b == WithEnv(CmdInto("compile", <<p>>, COMPILE(p)), BuildEnv(g))
           c == Ignored(Cmd("chmod", <<p>>))
           s == CompileSpecs(g, p)
<1>1. PackageSpec(g, a, p) /\ a.op = "remove-binary"
  <2>1. a.op = "remove-binary" /\ a.args = <<p>> /\ a.out = NoToken /\ a.ignore = FALSE /\ a.env = <<>>
    BY DEF Cmd, CmdInto
  <2> HIDE DEF a
  <2> QED
    BY <2>1 DEF PackageSpec, PackageOps
<1>2. PackageSpec(g, b, p) /\ b.op = "compile"
  <2>1. b.op = "compile" /\ b.args = <<p>> /\ b.out = COMPILE(p) /\ b.ignore = FALSE /\ b.env = BuildEnv(g)
    <3> DEFINE d == CmdInto("compile", <<p>>, COMPILE(p))
    <3>1. /\ d.op = "compile" /\ d.args = <<p>> /\ d.out = COMPILE(p) /\ d.ignore = FALSE
          /\ DOMAIN d = {"op", "args", "out", "ignore", "env"}
      BY DEF CmdInto
    <3> HIDE DEF d
    <3>2. b = WithEnv(d, BuildEnv(g))
      BY DEF d
    <3> QED
      BY <3>1, <3>2, SuggestingFields
  <2> HIDE DEF b
  <2> QED
    BY <2>1 DEF PackageSpec, PackageOps
<1>3. PackageSpec(g, c, p) /\ c.op = "chmod"
  <2>1. c.op = "chmod" /\ c.args = <<p>> /\ c.out = NoToken /\ c.ignore = TRUE /\ c.env = <<>>
    <3> DEFINE d == Cmd("chmod", <<p>>)
    <3>1. /\ d.op = "chmod" /\ d.args = <<p>> /\ d.out = NoToken /\ d.env = <<>>
          /\ DOMAIN d = {"op", "args", "out", "ignore", "env"}
      BY DEF Cmd, CmdInto
    <3> HIDE DEF d
    <3>2. c = Ignored(d)
      BY DEF d
    <3> QED
      BY <3>1, <3>2, IgnoredFields
  <2> HIDE DEF c
  <2> QED
    BY <2>1 DEF PackageSpec, PackageOps
<1>4. s = <<a, b, c>>
  BY DEF CompileSpecs
<1> HIDE DEF a, b, c, s
<1>5. Len(s) = 3 /\ DOMAIN s = 1..3 /\ s[1] = a /\ s[2] = b /\ s[3] = c /\ s \in Seq({a, b, c})
  BY <1>4
<1>6. Range(s) \subseteq S
  BY DEF s
<1>7. a \in S /\ b \in S /\ c \in S
  BY <1>5, <1>6 DEF Range
<1>8. s \in Seq(S)
  BY <1>4, <1>7
<1> QED
  BY <1>1, <1>2, <1>3, <1>5, <1>8 DEF s

(* generateRunSpecs: one spec, that plans the test.                        *)
LEMMA RunSpecsAre ==
  ASSUME NEW g, NEW p, NEW S, Range(RunSpecsOf(p)) \subseteq S
  PROVE  LET s == RunSpecsOf(p)
         IN s \in Seq(S) /\ Len(s) = 1 /\ PackageSpec(g, s[1], p) /\ s[1].op = "plan-run"
<1> DEFINE a == Cmd("plan-run", <<p>>)
           s == RunSpecsOf(p)
<1>1. PackageSpec(g, a, p) /\ a.op = "plan-run"
  <2>1. a.op = "plan-run" /\ a.args = <<p>> /\ a.out = NoToken /\ a.ignore = FALSE /\ a.env = <<>>
    BY DEF Cmd, CmdInto
  <2> HIDE DEF a
  <2> QED
    BY <2>1 DEF PackageSpec, PackageOps
<1>4. s = <<a>>
  BY DEF RunSpecsOf
<1> HIDE DEF a, s
<1>5. Len(s) = 1 /\ DOMAIN s = 1..1 /\ s[1] = a
  BY <1>4
<1>6. Range(s) \subseteq S
  BY DEF s
<1>7. a \in S
  BY <1>5, <1>6 DEF Range
<1>8. s \in Seq(S)
  BY <1>4, <1>7
<1> QED
  BY <1>1, <1>5, <1>8 DEF s

(* What the plan of a test returns begins with running it.                 *)
LEMMA TestSpecsAre ==
  ASSUME NEW p, NEW S, Range(TestSpecs(p)) \subseteq S
  PROVE  LET s == TestSpecs(p)
         IN /\ s \in Seq(S) /\ Len(s) \in Nat /\ \A k \in 1..Len(s) : TestSpec(s[k], p)
            /\ 1 \in 1..Len(s) /\ s[1].op = "run-test"
<1> DEFINE a == CmdInto("run-test", <<p>>, RESULT(p))
           b == Cmd("plan-json", <<p>>)
           c == Cmd("run-test", <<p>>)
           s == TestSpecs(p)
<1>1. TestSpec(a, p) /\ a.op = "run-test"
  <2>1. a.op = "run-test" /\ a.args = <<p>> /\ a.out = RESULT(p) /\ a.ignore = FALSE /\ a.env = <<>>
    BY DEF CmdInto
  <2> HIDE DEF a
  <2> QED
    BY <2>1 DEF TestSpec, TestOps
<1>2. TestSpec(b, p)
  <2>1. b.op = "plan-json" /\ b.args = <<p>> /\ b.out = NoToken /\ b.ignore = FALSE /\ b.env = <<>>
    BY DEF Cmd, CmdInto
  <2> HIDE DEF b
  <2> QED
    BY <2>1 DEF TestSpec, TestOps
<1>3. TestSpec(c, p) /\ c.op = "run-test"
  <2>1. c.op = "run-test" /\ c.args = <<p>> /\ c.out = NoToken /\ c.ignore = FALSE /\ c.env = <<>>
    BY DEF Cmd, CmdInto
  <2> HIDE DEF c
  <2> QED
    BY <2>1 DEF TestSpec, TestOps
<1>4. s = <<a, b>> \/ s = <<c>>
  BY DEF TestSpecs
<1>5. Range(s) \subseteq S
  BY DEF s
<1> HIDE DEF a, b, c, s
<1>6. CASE s = <<a, b>>
  <2>1. Len(s) = 2 /\ DOMAIN s = 1..2 /\ s[1] = a /\ s[2] = b
    BY <1>6
  <2>2. a \in S /\ b \in S
    BY <1>5, <2>1 DEF Range
  <2>3. s \in Seq(S)
    BY <1>6, <2>2
  <2> QED
    BY <1>1, <1>2, <2>1, <2>3 DEF s
<1>7. CASE s = <<c>>
  <2>1. Len(s) = 1 /\ DOMAIN s = 1..1 /\ s[1] = c
    BY <1>7
  <2>2. c \in S
    BY <1>5, <2>1 DEF Range
  <2>3. s \in Seq(S)
    BY <1>7, <2>2
  <2> QED
    BY <1>3, <2>1, <2>3 DEF s
<1> QED
  BY <1>4, <1>6, <1>7

(* What json_output_file adds runs no test.                                *)
LEMMA JsonSpecsAre ==
  ASSUME NEW p, NEW S, Range(JsonSpecs(p)) \subseteq S
  PROVE  LET s == JsonSpecs(p)
         IN s \in Seq(S) /\ Len(s) = 2 /\ \A k \in 1..2 : TestSpec(s[k], p) /\ s[k].op # "run-test"
<1> DEFINE a == CmdInto("test2json", <<RESULT(p)>>, JSON(p))
           b == Cmd("write-json", <<JSON(p)>>)
           s == JsonSpecs(p)
<1>1. TestSpec(a, p) /\ a.op = "test2json"
  <2>1. a.op = "test2json" /\ a.args = <<RESULT(p)>> /\ a.out = JSON(p) /\ a.ignore = FALSE /\ a.env = <<>>
    BY DEF CmdInto
  <2> HIDE DEF a
  <2> QED
    BY <2>1 DEF TestSpec, TestOps
<1>2. TestSpec(b, p) /\ b.op = "write-json"
  <2>1. b.op = "write-json" /\ b.args = <<JSON(p)>> /\ b.out = NoToken /\ b.ignore = FALSE /\ b.env = <<>>
    BY DEF Cmd, CmdInto
  <2> HIDE DEF b
  <2> QED
    BY <2>1 DEF TestSpec, TestOps
<1>4. s = <<a, b>>
  BY DEF JsonSpecs
<1>5. Range(s) \subseteq S
  BY DEF s
<1> HIDE DEF a, b, s
<1>6. Len(s) = 2 /\ DOMAIN s = 1..2 /\ s[1] = a /\ s[2] = b
  BY <1>4
<1>7. a \in S /\ b \in S
  BY <1>5, <1>6 DEF Range
<1>8. s \in Seq(S)
  BY <1>4, <1>7
<1> QED
  BY <1>1, <1>2, <1>6, <1>8 DEF s

(* What GetExecSpecs returns for a test: the packages are listed.          *)
LEMMA ListSpecsAre ==
  ASSUME NEW S, Range(GoTestSpecs) \subseteq S
  PROVE  GoTestSpecs \in Seq(S) /\ Len(GoTestSpecs) = 3 /\ (\A k \in 1..3 : ListSpec(GoTestSpecs[k]))
         /\ GoTestSpecs[1].op = "list-module" /\ GoTestSpecs[2].op = "list-packages" /\ GoTestSpecs[3].op = "plan"
<1> DEFINE a == CmdInto("list-module", <<>>, MODULE_NAME)
           b == Ignored(CmdInto("list-packages", <<>>, PACKAGES))
           c == Cmd("plan", <<>>)
           s == GoTestSpecs
<1>1. ListSpec(a) /\ a.op = "list-module"
  <2>1. a.op = "list-module" /\ a.args = <<>> /\ a.out = MODULE_NAME /\ a.ignore = FALSE /\ a.env = <<>>
    BY DEF CmdInto
  <2> HIDE DEF a
  <2> QED
    BY <2>1 DEF ListSpec, ListOps
<1>2. ListSpec(b) /\ b.op = "list-packages"
  <2>1. b.op = "list-packages" /\ b.args = <<>> /\ b.out = PACKAGES /\ b.ignore = TRUE /\ b.env = <<>>
    <3> DEFINE d == CmdInto("list-packages", <<>>, PACKAGES)
    <3>1. /\ d.op = "list-packages" /\ d.args = <<>> /\ d.out = PACKAGES /\ d.env = <<>>
          /\ DOMAIN d = {"op", "args", "out", "ignore", "env"}
      BY DEF Cmd, CmdInto
    <3> HIDE DEF d
    <3>2. b = Ignored(d)
      BY DEF d
    <3> QED
      BY <3>1, <3>2, IgnoredFields
  <2> HIDE DEF b
  <2> QED
    BY <2>1 DEF ListSpec, ListOps
<1>3. ListSpec(c) /\ c.op = "plan"
  <2>1. c.op = "plan" /\ c.args = <<>> /\ c.out = NoToken /\ c.ignore = FALSE /\ c.env = <<>>
    BY DEF Cmd, CmdInto
  <2> HIDE DEF c
  <2> QED
    BY <2>1 DEF ListSpec, ListOps
<1>4. s = <<a, b, c>>
  BY DEF GoTestSpecs
<1> HIDE DEF a, b, c, s
<1>5. Len(s) = 3 /\ DOMAIN s = 1..3 /\ s[1] = a /\ s[2] = b /\ s[3] = c
  BY <1>4
<1>6. Range(s) \subseteq S
  BY DEF s
<1>7. a \in S /\ b \in S /\ c \in S
  BY <1>5, <1>6 DEF Range
<1>8. s \in Seq(S)
  BY <1>4, <1>7
<1> QED
  BY <1>1, <1>2, <1>3, <1>5, <1>8 DEF s

(* Where the specs of an entry come from.                                  *)
LEMMA GoSpecsHas ==
  ASSUME NEW g
  PROVE  /\ Range(GoTestSpecs) \subseteq GoSpecs(g)
         /\ \A p \in Packages : /\ Range(CompileSpecs(g, p)) \subseteq GoSpecs(g)
                              /\ Range(RunSpecsOf(p)) \subseteq GoSpecs(g)
                              /\ Range(TestSpecs(p)) \subseteq GoSpecs(g)
                              /\ Range(JsonSpecs(p)) \subseteq GoSpecs(g)
BY DEF GoSpecs

(* generateCompileSpecs of all packages, then generateRunSpecs of all.     *)
LEMMA PackageSpecsAre ==
  ASSUME PackagesGiven, NEW g, NEW P, P = PackageSpecs(g)
  PROVE  P \in Seq(GoSpecs(g)) /\ PackageList(g, P)
<1> DEFINE ps == goTask.packages
           S == GoSpecs(g)
           c == [k \in DOMAIN ps |-> CompileSpecs(g, ps[k])]
           u == [k \in DOMAIN ps |-> RunSpecsOf(ps[k])]
<1>0. PICK n : n = Len(ps)
  OBVIOUS
<1>1. n \in Nat /\ DOMAIN ps = 1..n /\ \A k \in 1..n : ps[k] \in Packages
  BY <1>0, LenProperties DEF PackagesGiven
<1>2. \A p \in Packages : \E k \in 1..n : ps[k] = p
  BY <1>1 DEF Packages, Range
<1>3. ASSUME NEW k \in 1..n
      PROVE  /\ c[k] \in Seq(S) /\ Len(c[k]) = 3 /\ \A j \in 1..3 : PackageSpec(g, c[k][j], ps[k])
             /\ c[k][1].op = "remove-binary" /\ c[k][2].op = "compile" /\ c[k][3].op = "chmod"
             /\ u[k] \in Seq(S) /\ Len(u[k]) = 1 /\ PackageSpec(g, u[k][1], ps[k]) /\ u[k][1].op = "plan-run"
  <2>1. c[k] = CompileSpecs(g, ps[k]) /\ u[k] = RunSpecsOf(ps[k]) /\ ps[k] \in Packages
    BY <1>1
  <2>2. Range(CompileSpecs(g, ps[k])) \subseteq S /\ Range(RunSpecsOf(ps[k])) \subseteq S
    BY <2>1, GoSpecsHas
  <2> HIDE DEF S, c, u, ps
  <2> QED
    BY <2>1, <2>2, CompileSpecsAre, RunSpecsAre
<1>4. DOMAIN c = 1..n /\ DOMAIN u = 1..n /\ c = [k \in 1..n |-> c[k]] /\ u = [k \in 1..n |-> u[k]]
  BY <1>1
<1>5. P = FlattenSeq(c) \o FlattenSeq(u)
  BY DEF PackageSpecs
<1> HIDE DEF c, u, S, ps
<1>6. c \in Seq(Seq(S)) /\ Len(c) = n /\ u \in Seq(Seq(S)) /\ Len(u) = n
  BY <1>1, <1>3, <1>4, FunctionIsSeq
<1>7. PICK A : A = FlattenSeq(c)
  OBVIOUS
<1>8. PICK B : B = FlattenSeq(u)
  OBVIOUS
<1>9. A \in Seq(S) /\ \E off : Flattened(c, A, off)
  BY <1>6, <1>7, FlattenBlocks
<1>10. B \in Seq(S) /\ \E off : Flattened(u, B, off)
  BY <1>6, <1>8, FlattenBlocks
<1>11. PICK ca : Flattened(c, A, ca)
  BY <1>9
<1>12. PICK cb : Flattened(u, B, cb)
  BY <1>10
<1>13. PICK a : a = Len(A)
  OBVIOUS
<1>14. PICK m : m = Len(P)
  OBVIOUS
<1>15. /\ P \in Seq(S) /\ a \in Nat /\ m = a + Len(B) /\ Len(B) \in Nat
       /\ \A k \in 1..a : k \in 1..m /\ P[k] = A[k]
       /\ \A k \in 1..Len(B) : a + k \in 1..m /\ P[a + k] = B[k]
       /\ \A p \in 1..m : p \in 1..a \/ \E k \in 1..Len(B) : p = a + k
  <2>1. P = A \o B
    BY <1>5, <1>7, <1>8
  <2>2. Len(B) \in Nat
    BY <1>10, LenProperties
  <2>3. /\ A \o B \in Seq(S) /\ Len(A) \in Nat /\ Len(A \o B) = Len(A) + Len(B)
        /\ \A k \in 1..Len(A) : k \in 1..Len(A \o B) /\ (A \o B)[k] = A[k]
        /\ \A k \in 1..Len(B) : Len(A) + k \in 1..Len(A \o B) /\ (A \o B)[Len(A) + k] = B[k]
        /\ \A p \in 1..Len(A \o B) : p \in 1..Len(A) \/ \E k \in 1..Len(B) : p = Len(A) + k
    BY <1>9, <1>10, Concatenation
  <2> QED
    BY <1>13, <1>14, <2>1, <2>2, <2>3
<1>16. ASSUME NEW k \in 1..n
       PROVE  /\ ca[k] \in Nat /\ \A j \in 1..3 : ca[k] + j \in 1..m /\ ca[k] + j <= a /\ P[ca[k] + j] = c[k][j]
              /\ cb[k] \in Nat /\ a + (cb[k] + 1) \in 1..m /\ P[a + (cb[k] + 1)] = u[k][1]
  <2>1. ca[k] \in Nat /\ \A j \in 1..3 : ca[k] + j \in 1..a /\ A[ca[k] + j] = c[k][j]
    <3>1. k \in 1..Len(c) /\ Len(c[k]) = 3
      BY <1>3, <1>6
    <3>2. ca[k] \in Nat /\ \A j \in 1..Len(c[k]) : ca[k] + j \in 1..Len(A) /\ A[ca[k] + j] = c[k][j]
      BY <1>11, <3>1 DEF Flattened
    <3> QED
      BY <1>13, <3>1, <3>2
  <2>2. cb[k] \in Nat /\ cb[k] + 1 \in 1..Len(B) /\ B[cb[k] + 1] = u[k][1]
    BY <1>3, <1>6, <1>12 DEF Flattened
  <2>3. \A j \in 1..3 : ca[k] + j \in 1..m /\ ca[k] + j <= a /\ P[ca[k] + j] = c[k][j]
    <3> TAKE j \in 1..3
    <3>1. PICK x : x = ca[k] + j
      OBVIOUS
    <3>2. x \in 1..a /\ A[x] = c[k][j]
      BY <2>1, <3>1
    <3>3. x \in 1..m /\ x <= a /\ P[x] = A[x]
      BY <1>15, <3>2
    <3> QED
      BY <3>1, <3>2, <3>3
  <2>4. a + (cb[k] + 1) \in 1..m /\ P[a + (cb[k] + 1)] = u[k][1]
    BY <1>15, <2>2
  <2> QED
    BY <2>1, <2>2, <2>3, <2>4
<1>17. ASSUME NEW r \in 1..m
       PROVE  \/ \E k \in 1..n, j \in 1..3 : r = ca[k] + j
              \/ \E k \in 1..n : r = a + (cb[k] + 1)
  <2>1. CASE r \in 1..a
    <3>1. \E k \in 1..Len(c) : \E j \in 1..Len(c[k]) : r = ca[k] + j
      BY <1>11, <1>13, <2>1 DEF Flattened
    <3>2. PICK k \in 1..n : \E j \in 1..Len(c[k]) : r = ca[k] + j
      BY <1>6, <3>1
    <3>3. Len(c[k]) = 3
      BY <1>3
    <3> QED
      BY <3>2, <3>3
  <2>2. ASSUME NEW x \in 1..Len(B), r = a + x PROVE \E k \in 1..n : r = a + (cb[k] + 1)
    <3>1. PICK k \in 1..n : \E j \in 1..Len(u[k]) : x = cb[k] + j
      BY <1>6, <1>12 DEF Flattened
    <3>2. x = cb[k] + 1
      <4>1. \A j \in 1..1 : j = 1
        OBVIOUS
      <4> QED
        BY <1>3, <3>1, <4>1
    <3> QED
      BY <2>2, <3>2
  <2> QED
    BY <1>15, <2>1, <2>2
<1>18. ASSUME NEW k \in 1..n
       PROVE  /\ \A j \in 1..3 : PackageSpec(g, P[ca[k] + j], ps[k])
              /\ P[ca[k] + 1].op = "remove-binary" /\ P[ca[k] + 2].op = "compile" /\ P[ca[k] + 3].op = "chmod"
              /\ PackageSpec(g, P[a + (cb[k] + 1)], ps[k]) /\ P[a + (cb[k] + 1)].op = "plan-run"
  <2>1. 1 \in 1..3 /\ 2 \in 1..3 /\ 3 \in 1..3
    OBVIOUS
  <2> QED
    BY <1>3, <1>16, <2>1
<1>19. ASSUME NEW r \in 1..m PROVE \E p \in Packages : PackageSpec(g, P[r], p)
  BY <1>1, <1>17, <1>18 DEF ps
<1>20. ASSUME NEW r \in 1..m, P[r].op = "remove-binary"
       PROVE  r + 1 \in 1..m /\ P[r + 1].op = "compile" /\ P[r + 1].args = P[r].args
  <2>1. PICK k \in 1..n : r = ca[k] + 1
    <3>1. PICK k \in 1..n : (\E j \in 1..3 : r = ca[k] + j) \/ r = a + (cb[k] + 1)
      BY <1>17
    <3>2. r # a + (cb[k] + 1) /\ r # ca[k] + 2 /\ r # ca[k] + 3
      BY <1>18, <1>20
    <3>3. \A j \in 1..3 : j = 1 \/ j = 2 \/ j = 3
      OBVIOUS
    <3> QED
      BY <3>1, <3>2, <3>3
  <2>2. r + 1 = ca[k] + 2 /\ 1 \in 1..3 /\ 2 \in 1..3
    BY <1>16, <2>1
  <2>3. ca[k] + 2 \in 1..m
    BY <1>16, <2>2
  <2>4. PackageSpec(g, P[r], ps[k]) /\ PackageSpec(g, P[ca[k] + 2], ps[k]) /\ P[ca[k] + 2].op = "compile"
    BY <1>18, <2>1, <2>2
  <2> QED
    BY <2>2, <2>3, <2>4 DEF PackageSpec
<1>21. ASSUME NEW r \in 1..m, P[r].op = "plan-run"
       PROVE  \E s \in 1..(r - 1) : P[s].op = "compile" /\ P[s].args = P[r].args
  <2>1. PICK k \in 1..n : r = a + (cb[k] + 1)
    <3>1. PICK k \in 1..n : (\E j \in 1..3 : r = ca[k] + j) \/ r = a + (cb[k] + 1)
      BY <1>17
    <3>2. r # ca[k] + 1 /\ r # ca[k] + 2 /\ r # ca[k] + 3
      BY <1>18, <1>21
    <3>3. \A j \in 1..3 : j = 1 \/ j = 2 \/ j = 3
      OBVIOUS
    <3> QED
      BY <3>1, <3>2, <3>3
  <2>2. 2 \in 1..3
    OBVIOUS
  <2>3. ca[k] \in Nat /\ cb[k] \in Nat /\ ca[k] + 2 \in 1..m /\ ca[k] + 2 <= a
    BY <1>16, <2>2
  <2>4. ca[k] + 2 \in 1..(r - 1)
    <3>1. PICK x, y : x = ca[k] /\ y = cb[k]
      OBVIOUS
    <3>2. x \in Nat /\ y \in Nat /\ x + 2 <= a /\ r = a + (y + 1)
      BY <2>1, <2>3, <3>1
    <3>3. x + 2 \in 1..(r - 1)
      BY <1>15, <3>2
    <3> QED
      BY <3>1, <3>3
  <2>5. PackageSpec(g, P[r], ps[k]) /\ PackageSpec(g, P[ca[k] + 2], ps[k]) /\ P[ca[k] + 2].op = "compile"
    BY <1>18, <2>1, <2>2
  <2> QED
    BY <2>4, <2>5 DEF PackageSpec
<1>22. ASSUME NEW p \in Packages PROVE \E r \in 1..m : P[r].op = "plan-run" /\ P[r].args = <<p>>
  <2>1. PICK k \in 1..n : ps[k] = p
    BY <1>2
  <2> QED
    BY <1>16, <1>18, <2>1 DEF PackageSpec
<1> QED
  BY <1>14, <1>15, <1>19, <1>20, <1>21, <1>22 DEF PackageList, S

(* An entry that runs has come to the first spec of its innermost call.    *)
LEMMA TodoNow ==
  ASSUME EngineInv, NEW g \in Entries, stage[g] = "running", NEW S, frames[g] \in CallsOf(S),
         NEW N, N = Len(frames[g])
  PROVE  /\ N \in Nat \ {0} /\ Todo(frames[g], N) \in Seq(S) /\ Todo(frames[g], N) # <<>>
         /\ Current(g) = Todo(frames[g], N)[1] /\ Current(g) \in S
         /\ \A i \in Nat : i > N => Todo(frames[g], i) = <<>>
<1>1. frames[g] # <<>> /\ Last(frames[g]).todo # <<>>
  BY DEF EngineInv, TypeOK, ExecTypeOK
<1>2. /\ N \in Nat \ {0} /\ DOMAIN frames[g] = 1..N
      /\ frames[g][N].todo \in Seq(S) /\ frames[g][N].todo # <<>>
      /\ Current(g) = frames[g][N].todo[1] /\ Current(g) \in S
  BY <1>1, RestCalls
<1>3. Todo(frames[g], N) = frames[g][N].todo
  BY <1>2 DEF Todo
<1>4. \A i \in Nat : i > N => Todo(frames[g], i) = <<>>
  BY <1>2 DEF Todo
<1> QED
  BY <1>2, <1>3, <1>4

(* The elements of the rest of a list.                                     *)
LEMMA TailElements ==
  ASSUME NEW S, NEW s \in Seq(S), s # <<>>
  PROVE  /\ Len(s) \in Nat \ {0} /\ Tail(s) \in Seq(S) /\ Len(Tail(s)) = Len(s) - 1
         /\ \A k \in 1..Len(Tail(s)) : k + 1 \in 1..Len(s) /\ Tail(s)[k] = s[k + 1]
BY EmptySeq, HeadTailProperties

(* The rest of a list, from q on, begins with its element q.               *)
LEMMA SuffixElements ==
  ASSUME NEW S, NEW s \in Seq(S), NEW q \in 1..(Len(s) + 1), SubSeq(s, q, Len(s)) # <<>>
  PROVE  /\ q \in 1..Len(s) /\ SubSeq(s, q, Len(s))[1] = s[q]
         /\ Tail(SubSeq(s, q, Len(s))) = SubSeq(s, q + 1, Len(s))
<1>0. PICK n : n = Len(s)
  OBVIOUS
<1>1. n \in Nat
  BY <1>0, LenProperties
<1>2. q # n + 1
  <2> SUFFICES ASSUME q = n + 1 PROVE FALSE
    OBVIOUS
  <2>1. q > n
    BY <1>1
  <2>2. SubSeq(s, q, n) = <<>>
    BY <1>1, <2>1, SubSeqEmpty
  <2> QED
    BY <1>0, <2>2
<1>3. q \in 1..n /\ 1 <= q /\ q <= n /\ n \in 1..Len(s)
  BY <1>0, <1>1, <1>2
<1>4. Tail(SubSeq(s, q, n)) = SubSeq(s, q + 1, n) /\ Head(SubSeq(s, q, n)) = s[q]
  BY <1>0, <1>3, HeadTailOfSubSeq
<1>5. SubSeq(s, q, n)[1] = s[q]
  BY <1>0, <1>1, <1>3
<1> QED
  BY <1>0, <1>3, <1>4, <1>5

(* The spec an entry that lists the packages has come to.                  *)
LEMMA ListingCurrent ==
  ASSUME EngineInv, NEW g \in Entries, stage[g] = "running", frames[g] \in CallsOf(GoSpecs(g)),
         NEW k, Listing(g, k)
  PROVE  /\ Len(frames[g]) = 1 /\ k \in 1..3 /\ Current(g) = GoTestSpecs[k]
         /\ Tail(Todo(frames[g], 1)) = SubSeq(GoTestSpecs, k + 1, 3)
<1> DEFINE S == GoSpecs(g)
<1>0. PICK N : N = Len(frames[g])
  OBVIOUS
<1> HIDE DEF S
<1>1. /\ N \in Nat \ {0} /\ Todo(frames[g], N) # <<>> /\ Current(g) = Todo(frames[g], N)[1]
  BY <1>0, TodoNow DEF S
<1>2. N = 1
  BY <1>1 DEF Listing
<1>3. GoTestSpecs \in Seq(S) /\ Len(GoTestSpecs) = 3
  BY GoSpecsHas, ListSpecsAre DEF S
<1>4. k \in 1..(Len(GoTestSpecs) + 1) /\ Todo(frames[g], 1) = SubSeq(GoTestSpecs, k, Len(GoTestSpecs))
  BY <1>3 DEF Listing
<1> QED
  BY <1>0, <1>1, <1>2, <1>3, <1>4, SuffixElements

(* The spec an entry has come to after the list: one for a package, or of  *)
(* a test.                                                                 *)
LEMMA PackagedCurrent ==
  ASSUME EngineInv, NEW g \in Entries, stage[g] = "running", frames[g] \in CallsOf(GoSpecs(g)),
         NEW P \in Seq(GoSpecs(g)), NEW q, Packaged(g, P, q)
  PROVE  Outer(g, P, q) \/ Inner(g, P, q)
<1> DEFINE S == GoSpecs(g)
<1>0. PICK N : N = Len(frames[g])
  OBVIOUS
<1> HIDE DEF S
<1>1. /\ N \in Nat \ {0} /\ Todo(frames[g], N) \in Seq(S) /\ Todo(frames[g], N) # <<>>
      /\ Current(g) = Todo(frames[g], N)[1] /\ \A i \in Nat : i > N => Todo(frames[g], i) = <<>>
  BY <1>0, TodoNow DEF S
<1>2. N # 1
  BY <1>1 DEF Packaged
<1>3. CASE N = 2
  <2>1. SubSeq(P, q, Len(P)) # <<>> /\ q \in 1..(Len(P) + 1) /\ Todo(frames[g], 2) = SubSeq(P, q, Len(P))
    BY <1>1, <1>3 DEF Packaged
  <2>2. q \in 1..Len(P) /\ Todo(frames[g], 2)[1] = P[q] /\ Tail(Todo(frames[g], 2)) = SubSeq(P, q + 1, Len(P))
    BY <2>1, SuffixElements
  <2> QED
    BY <1>0, <1>1, <1>3, <2>2 DEF Outer
<1>4. CASE N > 2
  <2>1. 1 \in 1..Len(Todo(frames[g], N))
    BY <1>1, TailElements
  <2> QED
    BY <1>0, <1>1, <1>4, <2>1 DEF Inner, Packaged
<1> QED
  BY <1>1, <1>2, <1>3, <1>4

(* The list goes on, and ends with the specs for the packages.             *)
LEMMA ListingMoves ==
  ASSUME EngineInv, NEW g \in Entries, stage[g] = "running", frames[g] \in CallsOf(GoSpecs(g)),
         NEW k, Listing(g, k), NEW sub, Stepped(g, GoSpecs(g), sub)
  PROVE  /\ sub = <<>> => Listing(g, k + 1)'
         /\ \A P \in Seq(GoSpecs(g)) : k = 3 /\ sub = P => Packaged(g, P, 1)'
<1>1. /\ Len(frames[g]) = 1 /\ k \in 1..3 /\ Current(g) = GoTestSpecs[k]
      /\ Tail(Todo(frames[g], 1)) = SubSeq(GoTestSpecs, k + 1, 3)
  BY ListingCurrent
<1> DEFINE new(i) == Todo(frames'[g], i)
<1>2. new(1) = SubSeq(GoTestSpecs, k + 1, 3) /\ new(2) = sub /\ \A i \in Nat : i > 2 => new(i) = <<>>
  <2>1. \A i \in Nat : new(i) = IF i < 1 THEN Todo(frames[g], i) ELSE IF i = 1 THEN Tail(Todo(frames[g], i))
                                ELSE IF i = 1 + 1 THEN sub ELSE <<>>
    BY <1>1 DEF Stepped
  <2> HIDE DEF new
  <2>2. new(1) = Tail(Todo(frames[g], 1))
    BY <2>1
  <2>3. new(2) = sub
    BY <2>1
  <2>4. \A i \in Nat : i > 2 => new(i) = <<>>
    BY <2>1
  <2> QED
    BY <1>1, <2>2, <2>3, <2>4
<1> HIDE DEF new
<1>3. ASSUME sub = <<>> PROVE Listing(g, k + 1)'
  BY <1>1, <1>2, <1>3 DEF Listing, new
<1>4. ASSUME NEW P \in Seq(GoSpecs(g)), k = 3, sub = P PROVE Packaged(g, P, 1)'
  <2>1. SubSeq(P, 1, Len(P)) = P /\ Len(P) \in Nat
    BY SubSeqFull, LenProperties
  <2>2. new(1) = <<>>
    BY <1>2, <1>4, SubSeqEmpty
  <2>3. Len(<<>>) = 0
    OBVIOUS
  <2>4. \A i \in Nat : i > 2 => \A j \in 1..Len(new(i)) : FALSE
    BY <1>2, <2>3
  <2>5. 1 \in 1..(Len(P) + 1)
    BY <2>1
  <2> QED
    BY <1>2, <1>4, <2>1, <2>2, <2>4, <2>5 DEF Packaged, new
<1> QED
  BY <1>3, <1>4

(* After a spec for a package come what its callback returned, and the     *)
(* next.                                                                   *)
LEMMA OuterMoves ==
  ASSUME EngineInv, NEW g \in Entries, NEW P \in Seq(GoSpecs(g)), NEW q, Packaged(g, P, q), Outer(g, P, q),
         NEW sub \in Seq(GoSpecs(g)), \A k \in 1..Len(sub) : Testing(P, q + 1, sub[k]),
         Stepped(g, GoSpecs(g), sub), goTask' = goTask
  PROVE  /\ Packaged(g, P, q + 1)' /\ ~Pending(g)
         /\ 1 \in 1..Len(sub) /\ sub[1].op = "run-test" => Pending(g)'
<1> DEFINE new(i) == Todo(frames'[g], i)
           old(i) == Todo(frames[g], i)
<1>0. Len(P) \in Nat /\ q \in 1..Len(P) /\ q + 1 \in 1..(Len(P) + 1)
  BY LenProperties DEF Outer
<1>1. old(1) = <<>> /\ Tail(old(2)) = SubSeq(P, q + 1, Len(P)) /\ \A i \in Nat : i > 2 => old(i) = <<>>
  BY DEF Outer, Packaged
<1>2. new(1) = <<>> /\ new(2) = SubSeq(P, q + 1, Len(P)) /\ new(3) = sub /\ \A i \in Nat : i > 3 => new(i) = <<>>
  <2>1. \A i \in Nat : new(i) = IF i < 2 THEN old(i) ELSE IF i = 2 THEN Tail(old(i))
                                ELSE IF i = 2 + 1 THEN sub ELSE <<>>
    BY DEF Stepped, Outer
  <2> HIDE DEF new, old
  <2>2. new(1) = old(1)
    BY <2>1
  <2>3. new(2) = Tail(old(2))
    BY <2>1
  <2>4. new(3) = sub
    BY <2>1
  <2>5. \A i \in Nat : i > 3 => new(i) = <<>>
    BY <2>1
  <2> QED
    BY <1>1, <2>2, <2>3, <2>4, <2>5
<1> HIDE DEF new, old
<1>3. Len(<<>>) = 0
  OBVIOUS
<1>4. ASSUME NEW i \in Nat, i > 2, NEW k \in 1..Len(new(i)) PROVE Testing(P, q + 1, new(i)[k])
  <2>1. CASE i = 3
    BY <1>2, <1>4, <2>1
  <2>2. CASE i # 3
    <3>1. i > 3
      BY <1>4, <2>2
    <3>2. Len(new(i)) = 0
      BY <1>2, <1>3, <3>1
    <3> QED
      BY <1>4, <3>2
  <2> QED
    BY <2>1, <2>2
<1>5. \A s : Testing(P, q + 1, s)' = Testing(P, q + 1, s)
  BY DEF Testing, Packages
<1>6. Packaged(g, P, q + 1)'
  BY <1>0, <1>2, <1>4, <1>5 DEF Packaged, new
<1>7. ~Pending(g)
  BY <1>1, <1>3 DEF Pending, old
<1>8. 1 \in 1..Len(sub) /\ sub[1].op = "run-test" => Pending(g)'
  BY <1>2 DEF Pending, new
<1> QED
  BY <1>6, <1>7, <1>8

(* After a spec of a test the others of it are left, and the same for the  *)
(* packages.                                                               *)
LEMMA InnerMoves ==
  ASSUME EngineInv, NEW g \in Entries, stage[g] = "running", frames[g] \in CallsOf(GoSpecs(g)),
         NEW P \in Seq(GoSpecs(g)), NEW q, Packaged(g, P, q), Inner(g, P, q),
         NEW sub \in Seq(GoSpecs(g)), \A k \in 1..Len(sub) : Testing(P, q, sub[k]),
         Stepped(g, GoSpecs(g), sub), goTask' = goTask
  PROVE  Packaged(g, P, q)' /\ (Pending(g) => Current(g).op = "run-test" \/ Pending(g)')
<1> DEFINE new(i) == Todo(frames'[g], i)
           old(i) == Todo(frames[g], i)
           S == GoSpecs(g)
<1>0. PICK N : N = Len(frames[g])
  OBVIOUS
<1>1. N \in Nat /\ N > 2
  BY <1>0 DEF Inner
<1>2. \A i \in Nat : new(i) = IF i < N THEN old(i) ELSE IF i = N THEN Tail(old(i))
                              ELSE IF i = N + 1 THEN sub ELSE <<>>
  BY <1>0 DEF Stepped
<1> HIDE DEF S
<1>3. old(N) \in Seq(S) /\ old(N) # <<>> /\ Current(g) = old(N)[1] /\ \A i \in Nat : i > N => old(i) = <<>>
  BY <1>0, TodoNow DEF S
<1>4. /\ q \in 1..(Len(P) + 1) /\ old(1) = <<>> /\ old(2) = SubSeq(P, q, Len(P))
      /\ \A i \in Nat : i > 2 => \A k \in 1..Len(old(i)) : Testing(P, q, old(i)[k])
  BY DEF Packaged
<1>5. Pending(g) => \E i \in Nat : i > 2 /\ \E k \in 1..Len(old(i)) : old(i)[k].op = "run-test"
  BY DEF Pending
<1> HIDE DEF new, old
<1>6. new(1) = <<>> /\ new(2) = SubSeq(P, q, Len(P))
  BY <1>1, <1>2, <1>4
<1>7. Len(<<>>) = 0
  OBVIOUS
<1>8. /\ Len(old(N)) \in Nat \ {0} /\ Len(Tail(old(N))) = Len(old(N)) - 1
      /\ \A k \in 1..Len(Tail(old(N))) : k + 1 \in 1..Len(old(N)) /\ Tail(old(N))[k] = old(N)[k + 1]
  BY <1>3, TailElements
<1>9. ASSUME NEW i \in Nat, i > 2, NEW k \in 1..Len(new(i)) PROVE Testing(P, q, new(i)[k])
  <2>1. CASE i < N
    BY <1>2, <1>4, <1>9, <2>1
  <2>2. CASE i = N
    <3>1. new(i) = Tail(old(N))
      BY <1>1, <1>2, <2>2
    <3>2. k + 1 \in 1..Len(old(N)) /\ new(i)[k] = old(N)[k + 1]
      BY <1>8, <1>9, <3>1
    <3> QED
      BY <1>1, <1>4, <3>2
  <2>3. CASE i = N + 1
    BY <1>1, <1>2, <1>9, <2>3
  <2>4. CASE i > N + 1
    BY <1>1, <1>2, <1>7, <1>9, <2>4
  <2> QED
    BY <1>1, <2>1, <2>2, <2>3, <2>4
<1>10. \A s : Testing(P, q, s)' = Testing(P, q, s)
  BY DEF Testing, Packages
<1>11. Packaged(g, P, q)'
  BY <1>4, <1>6, <1>9, <1>10 DEF Packaged, new
<1>12. ASSUME Pending(g), Current(g).op # "run-test" PROVE Pending(g)'
  <2>1. PICK i \in Nat : i > 2 /\ \E k \in 1..Len(old(i)) : old(i)[k].op = "run-test"
    BY <1>5, <1>12
  <2>2. PICK k \in 1..Len(old(i)) : old(i)[k].op = "run-test"
    BY <2>1
  <2>3. ~(i > N)
    BY <1>3, <1>7, <2>2
  <2>4. CASE i < N
    <3>1. new(i) = old(i)
      BY <1>2, <2>4
    <3> QED
      BY <2>1, <2>2, <3>1 DEF Pending, new
  <2>5. CASE i = N
    <3>1. new(i) = Tail(old(N)) /\ k # 1
      BY <1>1, <1>2, <1>3, <1>12, <2>2, <2>5
    <3>2. k - 1 \in 1..Len(new(i)) /\ new(i)[k - 1] = old(N)[(k - 1) + 1] /\ (k - 1) + 1 = k
      BY <1>8, <2>2, <2>5, <3>1
    <3> QED
      BY <2>1, <2>2, <2>5, <3>2 DEF Pending, new
  <2> QED
    BY <1>1, <2>3, <2>4, <2>5
<1> QED
  BY <1>11, <1>12

(* What depends on the task and the matrix alone does not change.          *)
LEMMA GoTestFixed ==
  ASSUME UNCHANGED <<goFixed, job>>, NEW g
  PROVE  /\ PackageSpecs(g)' = PackageSpecs(g) /\ GoSpecs(g)' = GoSpecs(g) /\ BuildEnv(g)' = BuildEnv(g)
         /\ Packages' = Packages /\ goTask' = goTask /\ WantedArch(g)' = WantedArch(g)
<1>1. goTask' = goTask /\ goMatrix' = goMatrix /\ job' = job
  BY DEF goFixed
<1>2. BuildEnv(g)' = BuildEnv(g)
  BY <1>1 DEF BuildEnv
<1>3. Packages' = Packages
  BY <1>1 DEF Packages
<1>4. PackageSpecs(g)' = PackageSpecs(g)
  BY <1>1, <1>2 DEF PackageSpecs, CompileSpecs
<1>5. GoSpecs(g)' = GoSpecs(g)
  BY <1>1, <1>2, <1>3 DEF GoSpecs, CompileSpecs, TestSpecs
<1>6. WantedArch(g)' = WantedArch(g)
  BY <1>1 DEF WantedArch
<1> QED
  BY <1>1, <1>2, <1>3, <1>4, <1>5, <1>6

(* With one worker no more than one entry is active.                       *)
LEMMA OnlyOne ==
  ASSUME EngineInv, workers = 1, NEW g \in Entries, NEW h \in Entries,
         stage[g] \in Active, stage[h] \in Active
  PROVE  g = h
<1> DEFINE A == {x \in Entries : stage[x] \in Active}
<1>1. IsFiniteSet(A) /\ Cardinality(A) <= 1
  <2>0. Cardinality(A) <= workers
    BY DEF EngineInv, TypeOK, ExecTypeOK
  <2>1. count \in Nat /\ Entries = 1..count
    BY DEF EngineInv, TypeOK, ExecTypeOK, Entries
  <2>2. IsFiniteSet(Entries)
    BY <2>1, FS_Interval
  <2>3. A \subseteq Entries
    OBVIOUS
  <2> QED
    BY <2>0, <2>2, <2>3, FS_Subset
<1>2. g \in A /\ h \in A
  OBVIOUS
<1> HIDE DEF A
<1> SUFFICES ASSUME g # h PROVE FALSE
  OBVIOUS
<1>3. IsFiniteSet({g}) /\ Cardinality({g}) = 1
  BY FS_Singleton
<1>4. IsFiniteSet({g} \cup {h}) /\ Cardinality({g} \cup {h}) = 2
  BY <1>3, FS_AddElement
<1>5. {g} \cup {h} \subseteq A
  BY <1>2
<1>6. Cardinality({g} \cup {h}) <= Cardinality(A) /\ Cardinality(A) \in Nat
  BY <1>1, <1>5, FS_Subset, FS_CardinalityType
<1> QED
  BY <1>1, <1>4, <1>6

(* An entry that does not move keeps what it has.                          *)
LEMMA GoEntryStays ==
  ASSUME GoTestInv, UNCHANGED <<goFixed, job, workers>>, NEW h \in Entries,
         stage'[h] = stage[h], frames'[h] = frames[h], replace'[h] = replace[h], env'[h] = env[h],
         \A p : <<h, p>> \in DOMAIN ran' <=> <<h, p>> \in DOMAIN ran,
         \A p : <<h, p>> \in DOMAIN ran => ran'[<<h, p>>] = ran[<<h, p>>],
         workers = 1 /\ stage[h] = "running" => binaries' = binaries
  PROVE  GoTestEntry(h)'
<1>1. PICK P : P = PackageSpecs(h)
  OBVIOUS
<1>2. PICK S : S = GoSpecs(h)
  OBVIOUS
<1>3. /\ PackageSpecs(h)' = P /\ GoSpecs(h)' = S /\ Packages' = Packages /\ goTask' = goTask
      /\ WantedArch(h)' = WantedArch(h) /\ job' = job
  BY <1>1, <1>2, GoTestFixed
<1>4. GoTestEntry(h)
  BY DEF GoTestInv
<1>5. \A e : EnvRight(h, e)' = EnvRight(h, e)
  BY <1>3 DEF EnvRight
<1>6. \A x : OwnTest(h, x)' = OwnTest(h, x)
  BY <1>5 DEF OwnTest
<1>7. NoneRun(h)' = NoneRun(h) /\ Kept(h)' = Kept(h) /\ Pending(h)' = Pending(h)
  BY <1>3 DEF NoneRun, Kept, Pending
<1>8. RanOwn(h) => RanOwn(h)'
  BY <1>3, <1>6 DEF RanOwn
<1>9. ASSUME NEW k, Listed(h, k) PROVE Listed(h, k)'
  BY <1>7, <1>9 DEF Listed, Listing
<1>10. ASSUME NEW q, Tests(h, P, q) PROVE Tests(h, P, q)'
  <2>1. Packaged(h, P, q)'
    BY <1>3, <1>10 DEF Tests, Packaged, Testing
  <2>2. AllTested(h, P, q)'
    BY <1>3, <1>7, <1>10 DEF Tests, AllTested, Tested
  <2>3. ASSUME workers = 1, stage[h] = "running" PROVE AllMade(h, P, q)'
    <3>1. AllMade(h, P, q) /\ binaries' = binaries
      BY <1>10, <2>3 DEF Tests
    <3>2. \A p : Made(h, p)' = Made(h, p)
      BY <1>3, <1>6, <3>1 DEF Made
    <3> QED
      BY <3>1, <3>2 DEF AllMade
  <2> QED
    BY <1>10, <2>1, <2>2, <2>3 DEF Tests
<1>11. EnvRight(h, env[h])'
  BY <1>4, <1>5 DEF GoTestEntry
<1> QED
  BY <1>1, <1>2, <1>3, <1>4, <1>7, <1>8, <1>9, <1>10, <1>11 DEF GoTestEntry

(* setReplaceEntry: the output of a spec is kept under its token.          *)
LEMMA KeptOutput ==
  ASSUME EngineInv, NEW g \in Entries, NEW data, NEW ok \in BOOLEAN, Keep(g, data, ok)
  PROVE  /\ \A h \in Entries \ {g} : replace'[h] = replace[h]
         /\ Current(g).out = NoToken => replace'[g] = replace[g]
         /\ Current(g).out # NoToken => replace'[g] = Update(replace[g], Current(g).out, [data |-> data, ok |-> ok])
BY DEF Keep, EngineInv, TypeOK, ExecTypeOK

(* What a spec that does not end its entry leaves alone, and what it       *)
(* keeps.                                                                  *)
LEMMA MoveFacts ==
  ASSUME EngineInv, GoTestInv, NEW g \in Entries, stage[g] = "running", NEW data, NEW sub, Moves(g, data, sub)
  PROVE  /\ UNCHANGED <<count, workers>> /\ DOMAIN env' = Entries /\ env'[g] = Suggested(g)
         /\ \A h \in Entries \ {g} : /\ stage'[h] = stage[h] /\ frames'[h] = frames[h]
                                     /\ replace'[h] = replace[h] /\ env'[h] = env[h]
         /\ Current(g).out = NoToken => replace'[g] = replace[g]
         /\ Current(g).out # NoToken =>
              \E ok \in BOOLEAN : replace'[g] = Update(replace[g], Current(g).out, [data |-> data, ok |-> ok])
<1>1. Executed(g)
  BY DEF Executed, Moves
<1>2. UNCHANGED <<count, workers>> /\ \A h \in Entries \ {g} : stage'[h] = stage[h] /\ frames'[h] = frames[h]
  BY <1>1, ExecutedStage
<1>3. env' = [env EXCEPT ![g] = Suggested(g)]
  BY DEF Moves, Succeed, Fail, Suggest
<1>4. DOMAIN env = Entries
  BY DEF GoTestInv
<1>5. DOMAIN env' = Entries /\ env'[g] = Suggested(g) /\ \A h \in Entries \ {g} : env'[h] = env[h]
  BY <1>3, <1>4
<1>6. PICK ok \in BOOLEAN : Keep(g, data, ok)
  BY DEF Moves, Succeed, Fail
<1>7. /\ \A h \in Entries \ {g} : replace'[h] = replace[h]
      /\ Current(g).out = NoToken => replace'[g] = replace[g]
      /\ Current(g).out # NoToken => replace'[g] = Update(replace[g], Current(g).out, [data |-> data, ok |-> ok])
  BY <1>6, KeptOutput
<1> QED
  BY <1>2, <1>5, <1>7

(* The variables of a spec are those of the build, or none.                *)
LEMMA SuggestedRight ==
  ASSUME NEW g, EnvRight(g, env[g]), GoSpec(g, Current(g))
  PROVE  /\ EnvRight(g, Suggested(g))
         /\ Current(g).op = "compile" => OwnTest(g, Compiled(g))
<1> DEFINE e == Current(g).env
           f == Suggested(g)
           b == BuildEnv(g)
<1>1. e = <<>> \/ e = b
  BY DEF GoSpec, ListSpec, PackageSpec, TestSpec
<1>2. Current(g).op = "compile" => e = b
  BY DEF GoSpec, ListSpec, ListOps, PackageSpec, TestSpec, TestOps
<1>3. "GOARCH" \in DOMAIN b /\ b.GOARCH = GoArch(goMatrix[g].arch)
  BY DEF BuildEnv, createBuildEnv
<1>4. /\ DOMAIN f = DOMAIN env[g] \cup DOMAIN e
      /\ \A x \in DOMAIN f : f[x] = IF x \in DOMAIN env[g] THEN env[g][x] ELSE e[x]
  BY DEF Suggested
<1>5. DOMAIN <<>> = {}
  OBVIOUS
<1>6. Compiled(g).by = g /\ Compiled(g).env = f
  BY DEF Compiled
<1> HIDE DEF b, e, f
<1>7. EnvRight(g, f)
  BY <1>1, <1>3, <1>4, <1>5 DEF EnvRight, WantedArch
<1> QED
  BY <1>2, <1>3, <1>4, <1>6, <1>7 DEF OwnTest, f

(* The tokens of the specs are different.                                  *)
LEMMA GoTokens ==
  ASSUME NEW p
  PROVE  COMPILE(p) \notin {NoToken, PACKAGES, MODULE_NAME} /\ PACKAGES \notin {NoToken, MODULE_NAME}
<1>1. COMPILE(p) \notin {NoToken, PACKAGES, MODULE_NAME}
  BY DEF COMPILE, NoToken, PACKAGES, MODULE_NAME
<1>2. PACKAGES \notin {NoToken, MODULE_NAME}
  BY DEF NoToken, PACKAGES, MODULE_NAME
<1> QED
  BY <1>1, <1>2

(* What a test prints is not kept in the place of what the others have.    *)
LEMMA TestTokens ==
  ASSUME NEW p, NEW r
  PROVE  /\ RESULT(r) # COMPILE(p) /\ JSON(r) # COMPILE(p)
         /\ RESULT(r) # PACKAGES /\ JSON(r) # PACKAGES
<1>1. RESULT(r) # COMPILE(p) /\ JSON(r) # COMPILE(p)
  BY DEF COMPILE, RESULT, JSON
<1>2. RESULT(r) # PACKAGES /\ JSON(r) # PACKAGES
  BY DEF PACKAGES, RESULT, JSON
<1> QED
  BY <1>1, <1>2

(* What the compiler printed is kept for each package.                     *)
LEMMA CompileToken ==
  ASSUME NEW p, NEW r, COMPILE(p) = COMPILE(r)
  PROVE  p = r
<1>1. COMPILE(p)[2] = p /\ COMPILE(r)[2] = r
  BY DEF COMPILE
<1> QED
  BY <1>1

(* An entry that moves keeps its part of the invariant, if it has come to  *)
(* its next spec, and so do the others.                                    *)
LEMMA GoMove ==
  ASSUME EngineInv, GoTestInv, NEW g \in Entries, stage[g] = "running", NEW data, NEW sub \in Seq(GoSpecs(g)),
         Moves(g, data, sub), Current(g).ignore => sub = <<>>, GoSpec(g, Current(g)),
         UNCHANGED <<goFixed, job>>,
         \A h \in Entries \ {g} : \A p : <<h, p>> \in DOMAIN ran' <=> <<h, p>> \in DOMAIN ran,
         \A h \in Entries \ {g} : \A p : <<h, p>> \in DOMAIN ran => ran'[<<h, p>>] = ran[<<h, p>>],
         RanOwn(g)',
         \A p \in goTask.tested : Current(g).out = COMPILE(p) => data # <<"no test files">>,
         Stepped(g, GoSpecs(g), sub) =>
           (\E k : Listed(g, k)') \/ \E q, P : P = PackageSpecs(g) /\ Tests(g, P, q)'
  PROVE  GoTestInv'
<1>1. PICK S : S = GoSpecs(g)
  OBVIOUS
<1>2. PICK P : P = PackageSpecs(g)
  OBVIOUS
<1>3. /\ PackageSpecs(g)' = P /\ GoSpecs(g)' = S /\ Packages' = Packages /\ goTask' = goTask
      /\ WantedArch(g)' = WantedArch(g)
  BY <1>1, <1>2, GoTestFixed
<1>4. /\ UNCHANGED <<count, workers>> /\ DOMAIN env' = Entries /\ env'[g] = Suggested(g)
      /\ \A h \in Entries \ {g} : /\ stage'[h] = stage[h] /\ frames'[h] = frames[h]
                                  /\ replace'[h] = replace[h] /\ env'[h] = env[h]
      /\ Current(g).out = NoToken => replace'[g] = replace[g]
      /\ Current(g).out # NoToken =>
           \E ok \in BOOLEAN : replace'[g] = Update(replace[g], Current(g).out, [data |-> data, ok |-> ok])
  BY MoveFacts
<1>5. GoTestEntry(g) /\ frames[g] \in CallsOf(S) /\ NoneIgnores(frames[g]) /\ Kept(g) /\ EnvRight(g, env[g])
  BY <1>1 DEF GoTestInv, GoTestEntry
<1>6. Stepped(g, S, sub)
  <2>1. Current(g).ignore \in BOOLEAN
    <3>1. \A a, b : (a = b) \in BOOLEAN
      OBVIOUS
    <3>2. CASE ListSpec(Current(g))
      BY <3>1, <3>2 DEF ListSpec
    <3>3. ASSUME NEW p, PackageSpec(g, Current(g), p) PROVE Current(g).ignore \in BOOLEAN
      BY <3>1, <3>3 DEF PackageSpec
    <3>4. ASSUME NEW p, TestSpec(Current(g), p) PROVE Current(g).ignore \in BOOLEAN
      BY <3>4 DEF TestSpec
    <3> QED
      BY <3>2, <3>3, <3>4 DEF GoSpec
  <2>2. CASE Succeed(g, data, sub)
    BY <1>1, <1>5, <2>1, <2>2, SucceedCalls
  <2>3. CASE Fail(g, data) /\ Current(g).ignore /\ sub = <<>>
    BY <1>1, <1>5, <2>1, <2>3, IgnoredCalls
  <2> QED
    BY <2>2, <2>3 DEF Moves
<1>7. frames'[g] \in CallsOf(S) /\ NoneIgnores(frames'[g]) /\ stage'[g] \in {"running", "ok"}
  BY <1>6 DEF Stepped
<1>8. EnvRight(g, env[g])'
  <2>1. EnvRight(g, Suggested(g))
    BY <1>5, SuggestedRight
  <2>2. PICK f : f = Suggested(g)
    OBVIOUS
  <2>3. env'[g] = f /\ EnvRight(g, f)
    BY <1>4, <2>1, <2>2
  <2> QED
    BY <1>3, <2>3 DEF EnvRight
<1>9. Kept(g)'
  <2>1. CASE Current(g).out = NoToken
    BY <1>3, <1>4, <1>5, <2>1 DEF Kept
  <2>2. CASE Current(g).out # NoToken
    <3>1. PICK ok \in BOOLEAN : replace'[g] = Update(replace[g], Current(g).out, [data |-> data, ok |-> ok])
      BY <1>4, <2>2
    <3>2. ASSUME NEW p \in goTask.tested, COMPILE(p) \in DOMAIN replace'[g]
          PROVE  replace'[g][COMPILE(p)].data # <<"no test files">>
      <4>0. PICK v : v = [data |-> data, ok |-> ok]
        OBVIOUS
      <4>1. v.data = data
        BY <4>0
      <4>2. PICK t : t = COMPILE(p)
        OBVIOUS
      <4>3. replace'[g][t] = IF t = Current(g).out THEN v ELSE replace[g][t]
        BY <3>1, <3>2, <4>0, <4>2 DEF Update
      <4>4. t # Current(g).out => t \in DOMAIN replace[g]
        BY <3>1, <3>2, <4>0, <4>2 DEF Update
      <4> QED
        BY <1>5, <4>1, <4>2, <4>3, <4>4 DEF Kept
    <3> QED
      BY <1>3, <3>2 DEF Kept
  <2> QED
    BY <2>1, <2>2
<1>10. GoTestEntry(g)'
  <2>1. (\E k : Listed(g, k)') \/ \E q : Tests(g, P, q)'
    BY <1>1, <1>2, <1>6
  <2> QED
    BY <1>3, <1>7, <1>8, <1>9, <2>1 DEF GoTestEntry
<1>11. ASSUME NEW h \in Entries \ {g} PROVE GoTestEntry(h)'
  BY <1>4, GoEntryStays, OnlyOne DEF Active
<1>12. Entries' = Entries
  BY <1>4 DEF Entries
<1>13. PackagesGiven'
  BY <1>3 DEF GoTestInv, PackagesGiven
<1> QED
  BY <1>4, <1>10, <1>11, <1>12, <1>13 DEF GoTestInv

(* An entry that does not go on is none of the invariant's.                *)
LEMMA GoEnds ==
  ASSUME EngineInv, GoTestInv, NEW g \in Entries, stage[g] \in Active, stage'[g] = "failed",
         UNCHANGED <<goFixed, job, count, workers>>, DOMAIN env' = Entries, EnvRight(g, env'[g]),
         \A h \in Entries \ {g} : /\ stage'[h] = stage[h] /\ frames'[h] = frames[h]
                                  /\ replace'[h] = replace[h] /\ env'[h] = env[h],
         \A h \in Entries \ {g} : \A p : <<h, p>> \in DOMAIN ran' <=> <<h, p>> \in DOMAIN ran,
         \A h \in Entries \ {g} : \A p : <<h, p>> \in DOMAIN ran => ran'[<<h, p>>] = ran[<<h, p>>]
  PROVE  GoTestInv'
<1>1. ASSUME NEW h \in Entries \ {g} PROVE GoTestEntry(h)'
  BY GoEntryStays, OnlyOne DEF Active
<1>2. Packages' = Packages /\ goTask' = goTask /\ WantedArch(g)' = WantedArch(g) /\ job' = job
  BY GoTestFixed
<1>3. GoTestEntry(g)'
  BY <1>2 DEF GoTestEntry, EnvRight
<1>4. Entries' = Entries /\ PackagesGiven'
  BY <1>2 DEF Entries, GoTestInv, PackagesGiven
<1> QED
  BY <1>1, <1>3, <1>4 DEF GoTestInv

(* A spec that fails, and may not, ends its entry.                         *)
LEMMA GoSpecFails ==
  ASSUME EngineInv, GoTestInv, NEW g \in Entries, stage[g] = "running",
         GoSpec(g, Current(g)), ~Current(g).ignore,
         NoToolCmd(g) \/ \E data : Fail(g, data),
         UNCHANGED <<goFixed, job>>,
         \A h \in Entries \ {g} : \A p : <<h, p>> \in DOMAIN ran' <=> <<h, p>> \in DOMAIN ran,
         \A h \in Entries \ {g} : \A p : <<h, p>> \in DOMAIN ran => ran'[<<h, p>>] = ran[<<h, p>>]
  PROVE  GoTestInv'
<1>1. PICK S : S = GoSpecs(g)
  OBVIOUS
<1>2. frames[g] \in CallsOf(S) /\ NoneIgnores(frames[g]) /\ EnvRight(g, env[g]) /\ DOMAIN env = Entries
  BY <1>1 DEF GoTestInv, GoTestEntry
<1>3. stage'[g] = "failed"
  BY <1>2, FailCalls
<1>4. Executed(g)
  BY DEF Executed
<1>5. UNCHANGED <<count, workers>> /\ \A h \in Entries \ {g} : stage'[h] = stage[h] /\ frames'[h] = frames[h]
  BY <1>4, ExecutedStage
<1>6. env' = [env EXCEPT ![g] = Suggested(g)]
  BY DEF NoToolCmd, Fail, Suggest
<1>7. EnvRight(g, Suggested(g))
  BY <1>2, SuggestedRight
<1>8. DOMAIN env' = Entries /\ env'[g] = Suggested(g) /\ \A h \in Entries \ {g} : env'[h] = env[h]
  BY <1>2, <1>6
<1>9. \A h \in Entries \ {g} : replace'[h] = replace[h]
  BY KeptOutput DEF NoToolCmd, Fail
<1> QED
  BY <1>3, <1>5, <1>7, <1>8, <1>9, GoEnds DEF Active

(* The outermost call has all the specs to do.                             *)
LEMMA FirstCall ==
  ASSUME NEW S, NEW specs \in Seq(S), NEW fs, fs = << [ignore |-> FALSE, todo |-> specs] >>
  PROVE  /\ fs \in CallsOf(S) /\ NoneIgnores(fs) /\ Todo(fs, 1) = specs
         /\ \A i \in Nat : i > 1 => Todo(fs, i) = <<>>
<1> DEFINE c == [ignore |-> FALSE, todo |-> specs]
           C == [ignore : BOOLEAN, todo : Seq(S)]
<1>1. c \in C /\ c.ignore = FALSE /\ c.todo = specs
  OBVIOUS
<1>2. fs = <<c>>
  OBVIOUS
<1> HIDE DEF c, C
<1>3. fs \in Seq(C) /\ DOMAIN fs = {1} /\ fs[1] = c
  <2>1. fs \in Seq(C)
    <3>1. c \in C
      BY <1>1
    <3>2. \A s, T : s \in T => <<s>> \in Seq(T)
      OBVIOUS
    <3> QED
      BY <1>2, <3>1, <3>2
  <2>2. DOMAIN <<c>> = {1} /\ <<c>>[1] = c
    OBVIOUS
  <2> QED
    BY <1>2, <2>1, <2>2
<1> QED
  BY <1>1, <1>3 DEF CallsOf, NoneIgnores, Todo, C

(* GenGo: the entry starts with the list of the packages.                  *)
LEMMA GoTestGenerates ==
  ASSUME EngineInv, GoTestInv, goTask.kind = "gotest", NEW g \in Entries, GenGo(g), job' = job
  PROVE  GoTestInv'
<1>0. UNCHANGED <<goFixed, ran, count, workers, env, replace>> /\ stage[g] = "started"
  BY DEF GenGo, goVars, Generated, NotGenerated
<1>1. GoTestEntry(g) /\ DOMAIN env = Entries
  BY DEF GoTestInv
<1>2. EnvRight(g, env[g]) /\ NoneRun(g) /\ DOMAIN replace[g] = {}
  BY <1>0, <1>1 DEF GoTestEntry
<1>3. CASE NotGenerated(g)
  <2>1. stage'[g] = "failed" /\ frames' = frames /\ \A h \in Entries \ {g} : stage'[h] = stage[h]
    BY <1>3 DEF NotGenerated, Goto, EngineInv, TypeOK, ExecTypeOK
  <2> QED
    BY <1>0, <1>1, <1>2, <2>1, GoEnds DEF Active
<1>4. CASE Generated(g, GoTestSpecs)
  <2>1. PICK S : S = GoSpecs(g)
    OBVIOUS
  <2>2. GoTestSpecs \in Seq(S) /\ Len(GoTestSpecs) = 3
    BY <2>1, GoSpecsHas, ListSpecsAre
  <2>3. GoTestSpecs # <<>>
    BY <2>2
  <2>4. /\ frames'[g] = << [ignore |-> FALSE, todo |-> GoTestSpecs] >> /\ stage'[g] = "running"
        /\ \A h \in Entries \ {g} : stage'[h] = stage[h] /\ frames'[h] = frames[h]
    BY <1>4, <2>3 DEF Generated, Goto, EngineInv, TypeOK, ExecTypeOK
  <2>5. /\ frames'[g] \in CallsOf(S) /\ NoneIgnores(frames'[g]) /\ Todo(frames'[g], 1) = GoTestSpecs
        /\ \A i \in Nat : i > 1 => Todo(frames'[g], i) = <<>>
    <3>1. PICK fs : fs = << [ignore |-> FALSE, todo |-> GoTestSpecs] >>
      OBVIOUS
    <3>2. /\ fs \in CallsOf(S) /\ NoneIgnores(fs) /\ Todo(fs, 1) = GoTestSpecs
          /\ \A i \in Nat : i > 1 => Todo(fs, i) = <<>>
      BY <2>2, <3>1, FirstCall
    <3> QED
      BY <2>4, <3>1, <3>2
  <2>6. SubSeq(GoTestSpecs, 1, 3) = GoTestSpecs
    BY <2>2, SubSeqFull
  <2>7. /\ GoSpecs(g)' = S /\ Packages' = Packages /\ goTask' = goTask /\ WantedArch(g)' = WantedArch(g) /\ job' = job
    BY <1>0, <2>1, GoTestFixed
  <2>8. Listed(g, 1)'
    BY <1>0, <1>2, <2>5, <2>6 DEF Listed, Listing, NoneRun
  <2>9. EnvRight(g, env[g])' /\ Kept(g)' /\ RanOwn(g)'
    BY <1>0, <1>2, <2>7 DEF EnvRight, Kept, RanOwn, NoneRun
  <2>10. GoTestEntry(g)'
    BY <2>4, <2>5, <2>7, <2>8, <2>9 DEF GoTestEntry
  <2>11. ASSUME NEW h \in Entries \ {g} PROVE GoTestEntry(h)'
    BY <1>0, <2>4, GoEntryStays, OnlyOne DEF Active
  <2>12. Entries' = Entries /\ PackagesGiven'
    BY <1>0, <2>7 DEF Entries, GoTestInv, PackagesGiven
  <2> QED
    BY <1>0, <1>1, <2>10, <2>11, <2>12 DEF GoTestInv
<1> QED
  BY <1>3, <1>4 DEF GenGo

(* What an entry that runs has come to.                                    *)
LEMMA GoCurrent ==
  ASSUME EngineInv, GoTestInv, NEW g \in Entries, stage[g] = "running", NEW P, P = PackageSpecs(g)
  PROVE  /\ P \in Seq(GoSpecs(g)) /\ PackageList(g, P) /\ frames[g] \in CallsOf(GoSpecs(g))
         /\ Kept(g) /\ RanOwn(g)
         /\ GoSpec(g, Current(g))
         /\ \/ \E k \in 1..3 : Listed(g, k) /\ Current(g) = GoTestSpecs[k] /\ ListSpec(Current(g))
            \/ \E q : /\ Tests(g, P, q)
                      /\ \/ Outer(g, P, q) /\ \E p \in Packages : PackageSpec(g, Current(g), p)
                         \/ Inner(g, P, q)
<1>1. P \in Seq(GoSpecs(g)) /\ PackageList(g, P)
  BY PackageSpecsAre DEF GoTestInv
<1>2. /\ frames[g] \in CallsOf(GoSpecs(g)) /\ Kept(g) /\ RanOwn(g)
      /\ (\E k : Listed(g, k)) \/ \E q : Tests(g, P, q)
  BY DEF GoTestInv, GoTestEntry
<1>3. ASSUME NEW k, Listed(g, k) PROVE k \in 1..3 /\ Current(g) = GoTestSpecs[k] /\ ListSpec(Current(g))
  <2>1. k \in 1..3 /\ Current(g) = GoTestSpecs[k]
    BY <1>2, <1>3, ListingCurrent DEF Listed
  <2>2. \A j \in 1..3 : ListSpec(GoTestSpecs[j])
    BY GoSpecsHas, ListSpecsAre
  <2> QED
    BY <2>1, <2>2
<1>4. ASSUME NEW q, Tests(g, P, q)
      PROVE  \/ Outer(g, P, q) /\ \E p \in Packages : PackageSpec(g, Current(g), p)
             \/ Inner(g, P, q) /\ \E p \in Packages : TestSpec(Current(g), p)
  <2>1. Outer(g, P, q) \/ Inner(g, P, q)
    BY <1>1, <1>2, <1>4, PackagedCurrent DEF Tests
  <2>2. CASE Outer(g, P, q)
    BY <1>1, <2>2 DEF Outer, PackageList
  <2>3. CASE Inner(g, P, q)
    BY <2>3 DEF Inner, Testing
  <2> QED
    BY <2>1, <2>2, <2>3
<1>5. GoSpec(g, Current(g))
  BY <1>2, <1>3, <1>4 DEF GoSpec
<1> QED
  BY <1>1, <1>2, <1>3, <1>4, <1>5

(* By its kind, a spec is of the list, for a package, or of its test.      *)
LEMMA GoByKind ==
  ASSUME EngineInv, GoTestInv, NEW g \in Entries, stage[g] = "running", NEW P, P = PackageSpecs(g)
  PROVE  /\ Current(g).op = "list-module" => Listed(g, 1) /\ ListSpec(Current(g))
         /\ Current(g).op = "list-packages" => Listed(g, 2) /\ ListSpec(Current(g))
         /\ Current(g).op = "plan" => Listed(g, 3) /\ ListSpec(Current(g))
         /\ Current(g).op \in PackageOps =>
              \E q : Tests(g, P, q) /\ Outer(g, P, q) /\ \E p \in Packages : PackageSpec(g, Current(g), p)
         /\ Current(g).op \in TestOps => \E q : Tests(g, P, q) /\ Inner(g, P, q)
         /\ Current(g).op # "go-build"
<1> DEFINE op == Current(g).op
<1>1. GoTestSpecs[1].op = "list-module" /\ GoTestSpecs[2].op = "list-packages" /\ GoTestSpecs[3].op = "plan"
  BY GoSpecsHas, ListSpecsAre
<1>2. ASSUME NEW k \in 1..3, Listed(g, k), Current(g) = GoTestSpecs[k], ListSpec(Current(g))
      PROVE  /\ op = "list-module" => Listed(g, 1)
             /\ op = "list-packages" => Listed(g, 2)
             /\ op = "plan" => Listed(g, 3)
             /\ op \in ListOps
  BY <1>1, <1>2 DEF ListSpec
<1>3. ASSUME NEW q, Tests(g, P, q), Outer(g, P, q), NEW p \in Packages, PackageSpec(g, Current(g), p)
      PROVE  op \in PackageOps
  BY <1>3 DEF PackageSpec
<1>4. ASSUME NEW q, Inner(g, P, q) PROVE op \in TestOps
  BY <1>4 DEF Inner, Testing, TestSpec
<1>5. \/ \E k \in 1..3 : Listed(g, k) /\ Current(g) = GoTestSpecs[k] /\ ListSpec(Current(g))
      \/ \E q : /\ Tests(g, P, q)
                /\ \/ Outer(g, P, q) /\ \E p \in Packages : PackageSpec(g, Current(g), p)
                   \/ Inner(g, P, q)
  BY GoCurrent
<1> HIDE DEF op
<1>6. /\ op \in ListOps => op \notin PackageOps /\ op \notin TestOps /\ op # "go-build"
      /\ op \in PackageOps => op \notin TestOps /\ op # "go-build"
      /\ op \in TestOps => op # "go-build"
      /\ op \in {"list-module", "list-packages", "plan"} => op \in ListOps
  BY DEF ListOps, PackageOps, TestOps
<1>7. CASE \E k \in 1..3 : Listed(g, k) /\ Current(g) = GoTestSpecs[k] /\ ListSpec(Current(g))
  BY <1>2, <1>6, <1>7 DEF op
<1>8. CASE \E q : Tests(g, P, q) /\ Outer(g, P, q) /\ \E p \in Packages : PackageSpec(g, Current(g), p)
  BY <1>3, <1>6, <1>8 DEF op
<1>9. CASE \E q : Tests(g, P, q) /\ Inner(g, P, q)
  BY <1>4, <1>6, <1>9 DEF op
<1> QED
  BY <1>5, <1>7, <1>8, <1>9

(* Nothing is run.                                                         *)
LEMMA RanStays ==
  ASSUME GoTestInv, NEW g \in Entries, stage[g] = "running", UNCHANGED <<goFixed, job, workers, ran>>
  PROVE  RanOwn(g)'
<1>1. RanOwn(g)
  BY DEF GoTestInv, GoTestEntry
<1>2. goTask' = goTask /\ WantedArch(g)' = WantedArch(g) /\ job' = job
  BY GoTestFixed
<1> QED
  BY <1>1, <1>2 DEF RanOwn, OwnTest, EnvRight

(* The specs of the list: what `plan` gives is for the packages listed.    *)
LEMMA GoLists ==
  ASSUME EngineInv, GoTestInv, NEW g \in Entries, job' = job, ListModule(g) \/ ListPackages(g) \/ Plan(g)
  PROVE  GoTestInv'
<1>0. stage[g] = "running" /\ UNCHANGED <<goFixed, job, ran, binaries>>
  BY DEF ListModule, ListPackages, Plan, At, goVars
<1>1. PICK P : P = PackageSpecs(g)
  OBVIOUS
<1>2. PICK S : S = GoSpecs(g)
  OBVIOUS
<1>3. P \in Seq(S) /\ GoSpec(g, Current(g)) /\ frames[g] \in CallsOf(S)
  BY <1>0, <1>1, <1>2, GoCurrent
<1>4. <<>> \in Seq(S)
  OBVIOUS
<1>5. ASSUME NEW k, Listed(g, k), k \in 1..3, ListSpec(Current(g)), NEW data, NEW sub \in Seq(S),
             Moves(g, data, sub), Current(g).ignore => sub = <<>>,
             \/ sub = <<>> /\ (k # 1 => PACKAGES \in DOMAIN replace'[g]) /\ (k = 3 => ~replace'[g][PACKAGES].ok)
             \/ sub = P /\ k = 3 /\ PACKAGES \in DOMAIN replace'[g] /\ replace'[g][PACKAGES].ok
      PROVE  GoTestInv'
  <2>1. UNCHANGED <<count, workers>>
    BY <1>0, <1>5, MoveFacts
  <2>2. RanOwn(g)'
    BY <1>0, <2>1, RanStays
  <2>3. ASSUME Stepped(g, S, sub) PROVE (\E j : Listed(g, j)') \/ \E q : Tests(g, P, q)'
    <3>1. /\ sub = <<>> => Listing(g, k + 1)'
          /\ \A Q \in Seq(S) : k = 3 /\ sub = Q => Packaged(g, Q, 1)'
      BY <1>0, <1>2, <1>3, <1>5, <2>3, ListingMoves DEF Listed
    <3>2. CASE sub = <<>> /\ (k # 1 => PACKAGES \in DOMAIN replace'[g]) /\ (k = 3 => ~replace'[g][PACKAGES].ok)
      <4>1. (k + 1 > 2 => k # 1) /\ (k + 1 = 4 => k = 3)
        BY <1>5
      <4>2. Listed(g, k + 1)'
        BY <1>0, <1>5, <3>1, <3>2, <4>1 DEF Listed, NoneRun
      <4> QED
        BY <4>2
    <3>3. CASE sub = P /\ k = 3 /\ PACKAGES \in DOMAIN replace'[g] /\ replace'[g][PACKAGES].ok
      <4>1. Packaged(g, P, 1)'
        BY <1>3, <3>1, <3>3
      <4>2. AllTested(g, P, 1)' /\ AllMade(g, P, 1)'
        BY DEF AllTested, AllMade
      <4> QED
        BY <3>3, <4>1, <4>2 DEF Tests
    <3> QED
      BY <1>5, <2>3, <3>2, <3>3
  <2>4. \A p \in goTask.tested : Current(g).out = COMPILE(p) => data # <<"no test files">>
    <3>1. \A p : COMPILE(p) # NoToken /\ COMPILE(p) # PACKAGES /\ COMPILE(p) # MODULE_NAME
      BY GoTokens
    <3>2. Current(g).out \in {NoToken, PACKAGES, MODULE_NAME}
      BY <1>5 DEF ListSpec
    <3> QED
      BY <3>1, <3>2
  <2> QED
    BY <1>0, <1>1, <1>2, <1>3, <1>5, <2>2, <2>3, <2>4, GoMove
<1>9. ASSUME NEW k, Listed(g, k), k \in 1..3, ListSpec(Current(g)), NEW data, Moves(g, data, <<>>),
             k # 1 => PACKAGES \in DOMAIN replace'[g], k = 3 => ~replace'[g][PACKAGES].ok
      PROVE  GoTestInv'
  <2>1. PICK sub : sub = <<>>
    OBVIOUS
  <2>2. sub \in Seq(S) /\ Moves(g, data, sub)
    BY <1>4, <1>9, <2>1
  <2> QED
    BY <1>5, <1>9, <2>1, <2>2
<1>6. CASE ListModule(g)
  <2>1. Listed(g, 1) /\ ListSpec(Current(g)) /\ Succeed(g, <<"module">>, <<>>) /\ Current(g).op = "list-module"
    BY <1>0, <1>1, <1>6, GoByKind DEF ListModule, At
  <2>2. Moves(g, <<"module">>, <<>>)
    BY <2>1 DEF Moves
  <2> QED
    BY <1>9, <2>1, <2>2
<1>7. CASE ListPackages(g)
  <2>1. Listed(g, 2) /\ ListSpec(Current(g)) /\ Current(g).op = "list-packages"
    BY <1>0, <1>1, <1>7, GoByKind DEF ListPackages, At
  <2>2. Current(g).ignore /\ Current(g).out = PACKAGES
    BY <2>1 DEF ListSpec
  <2>3. PICK data : Moves(g, data, <<>>)
    BY <1>7, <2>2 DEF ListPackages, Moves
  <2>4. PACKAGES \in DOMAIN replace'[g]
    <3>1. Current(g).out # NoToken
      BY <2>2, GoTokens
    <3>2. \E ok \in BOOLEAN : replace'[g] = Update(replace[g], Current(g).out, [data |-> data, ok |-> ok])
      BY <1>0, <2>3, <3>1, MoveFacts
    <3> QED
      BY <2>2, <3>2 DEF Update
  <2> QED
    BY <1>9, <2>1, <2>3, <2>4
<1>8. CASE Plan(g)
  <2>1. Listed(g, 3) /\ ListSpec(Current(g)) /\ Current(g).op = "plan"
    BY <1>0, <1>1, <1>8, GoByKind DEF Plan, At
  <2>2. ~Current(g).ignore /\ Current(g).out = NoToken /\ PACKAGES \in DOMAIN replace[g]
    <3>1. ~Current(g).ignore /\ Current(g).out = NoToken
      BY <2>1 DEF ListSpec
    <3>2. PACKAGES \in DOMAIN replace[g]
      BY <2>1 DEF Listed
    <3> QED
      BY <3>1, <3>2
  <2>3. ASSUME NEW sub \in Seq(S), Succeed(g, Empty, sub) PROVE replace'[g] = replace[g] /\ Moves(g, Empty, sub)
    BY <1>0, <2>2, <2>3, MoveFacts DEF Moves
  <2>4. CASE replace[g][PACKAGES].ok /\ Succeed(g, Empty, P)
    BY <1>3, <1>5, <2>1, <2>2, <2>3, <2>4
  <2>5. CASE ~replace[g][PACKAGES].ok /\ Succeed(g, Empty, <<>>)
    <3>1. PICK sub : sub = <<>>
      OBVIOUS
    <3>2. sub \in Seq(S) /\ Succeed(g, Empty, sub)
      BY <1>4, <2>5, <3>1
    <3>3. replace'[g] = replace[g] /\ Moves(g, Empty, sub)
      BY <2>3, <3>2
    <3>4. PACKAGES \in DOMAIN replace'[g] /\ ~replace'[g][PACKAGES].ok /\ 3 \in 1..3
      BY <2>2, <2>5, <3>3
    <3> QED
      BY <1>5, <2>1, <2>2, <3>1, <3>2, <3>3, <3>4
  <2>6. CASE Fail(g, Empty)
    BY <1>0, <1>3, <2>2, <2>6, GoSpecFails
  <2> QED
    BY <1>1, <1>8, <2>4, <2>5, <2>6 DEF Plan
<1> QED
  BY <1>6, <1>7, <1>8

(* A place in a list, and those before the one after it.                   *)
LEMMA Places ==
  ASSUME NEW T, NEW s \in Seq(T), NEW q \in 1..Len(s)
  PROVE  /\ q \in Nat /\ q > 0 /\ q \in 1..q /\ (q + 1) - 1 = q
         /\ \A r \in 1..q : r = q \/ r \in 1..(q - 1)
         /\ \A r \in 1..(q - 1) : r \in 1..q /\ r \in 1..Len(s) /\ q - 1 \in 1..Len(s) /\ (q - 1) + 1 = q
<1>1. Len(s) \in Nat
  BY LenProperties
<1>2. PICK n : n = Len(s)
  OBVIOUS
<1>3. n \in Nat /\ q \in 1..n
  BY <1>1, <1>2
<1> QED
  BY <1>3

(* A spec for a package: the entry comes to the next of them.              *)
LEMMA GoPackage ==
  ASSUME EngineInv, GoTestInv, NEW g \in Entries, stage[g] = "running", NEW P, P = PackageSpecs(g),
         NEW q, Tests(g, P, q), Outer(g, P, q), NEW p \in Packages, PackageSpec(g, Current(g), p),
         NEW data, NEW sub \in Seq(GoSpecs(g)), Moves(g, data, sub), Current(g).ignore => sub = <<>>,
         UNCHANGED <<goFixed, job, ran>>,
         \A k \in 1..Len(sub) : Testing(P, q + 1, sub[k]),
         P[q].op = "plan-run" => Tested(g, P[q].args[1]) \/ (1 \in 1..Len(sub) /\ sub[1].op = "run-test"),
         workers = 1 => AllMade(g, P, q + 1)',
         \A x \in goTask.tested : Current(g).out = COMPILE(x) => data # <<"no test files">>
  PROVE  GoTestInv'
<1>1. PICK S : S = GoSpecs(g)
  OBVIOUS
<1>2. P \in Seq(S) /\ frames[g] \in CallsOf(S) /\ GoSpec(g, Current(g))
  BY <1>1, GoCurrent
<1>3. UNCHANGED <<count, workers>>
  BY MoveFacts
<1>4. RanOwn(g)'
  BY <1>3, RanStays
<1>5. PACKAGES \in DOMAIN replace'[g] /\ replace'[g][PACKAGES].ok
  <2>1. PACKAGES \in DOMAIN replace[g] /\ replace[g][PACKAGES].ok
    BY DEF Tests
  <2>2. Current(g).out # PACKAGES
    BY GoTokens DEF PackageSpec
  <2>3. CASE Current(g).out = NoToken
    BY <2>1, <2>3, MoveFacts
  <2>4. CASE Current(g).out # NoToken
    <3>1. \E ok \in BOOLEAN : replace'[g] = Update(replace[g], Current(g).out, [data |-> data, ok |-> ok])
      BY <2>4, MoveFacts
    <3> QED
      BY <2>1, <2>2, <3>1 DEF Update
  <2> QED
    BY <2>3, <2>4
<1>6. ASSUME Stepped(g, S, sub) PROVE Tests(g, P, q + 1)'
  <2>0. goTask' = goTask /\ Packages' = Packages
    BY GoTestFixed
  <2>1. /\ Packaged(g, P, q + 1)' /\ ~Pending(g)
        /\ 1 \in 1..Len(sub) /\ sub[1].op = "run-test" => Pending(g)'
    BY <1>1, <1>2, <1>6, <2>0, OuterMoves DEF Tests
  <2>2. (q + 1) - 1 = q /\ \A r \in 1..q : r = q \/ r \in 1..(q - 1)
    BY <1>2, Places DEF Outer
  <2>3. AllTested(g, P, q + 1)'
    <3>1. \A x : Tested(g, x) => Tested(g, x)'
      BY <2>0 DEF Tested
    <3>2. ASSUME NEW r \in 1..q, P[r].op = "plan-run" PROVE Tested(g, P[r].args[1])' \/ (r = q /\ Pending(g)')
      <4>1. CASE r = q
        BY <2>1, <3>1, <3>2, <4>1
      <4>2. CASE r # q
        <5>1. r \in 1..(q - 1)
          BY <2>2, <4>2
        <5> QED
          BY <2>1, <3>1, <3>2, <5>1 DEF Tests, AllTested
      <4> QED
        BY <4>1, <4>2
    <3>3. (q + 1) - 1 = q
      BY <2>2
    <3> QED
      BY <3>2, <3>3 DEF AllTested
  <2> QED
    BY <1>3, <1>5, <2>1, <2>3 DEF Tests
<1> QED
  BY <1>1, <1>2, <1>4, <1>6, GoMove

(* A spec that came with a test.                                           *)
LEMMA GoTested ==
  ASSUME EngineInv, GoTestInv, NEW g \in Entries, stage[g] = "running", NEW P, P = PackageSpecs(g),
         NEW q, Tests(g, P, q), Inner(g, P, q),
         NEW data, NEW sub \in Seq(GoSpecs(g)), Moves(g, data, sub),
         UNCHANGED <<goFixed, job, binaries>>,
         \A k \in 1..Len(sub) : Testing(P, q, sub[k]),
         \A h \in Entries \ {g} : \A p : <<h, p>> \in DOMAIN ran' <=> <<h, p>> \in DOMAIN ran,
         \A h \in Entries \ {g} : \A p : <<h, p>> \in DOMAIN ran => ran'[<<h, p>>] = ran[<<h, p>>],
         \A p : <<g, p>> \in DOMAIN ran => <<g, p>> \in DOMAIN ran',
         Current(g).op = "run-test" => <<g, Current(g).args[1]>> \in DOMAIN ran',
         RanOwn(g)'
  PROVE  GoTestInv'
<1>1. PICK S : S = GoSpecs(g)
  OBVIOUS
<1>2. P \in Seq(S) /\ frames[g] \in CallsOf(S) /\ GoSpec(g, Current(g))
  BY <1>1, GoCurrent
<1>3. UNCHANGED <<count, workers>>
  BY MoveFacts
<1>4. PICK p \in Packages : q > 1 /\ P[q - 1].op = "plan-run" /\ P[q - 1].args = <<p>> /\ TestSpec(Current(g), p)
  BY DEF Inner, Testing
<1>5. Current(g).ignore = FALSE /\ Current(g).out # PACKAGES /\ \A x : Current(g).out # COMPILE(x)
  BY <1>4, TestTokens, GoTokens DEF TestSpec
<1>6. PACKAGES \in DOMAIN replace'[g] /\ replace'[g][PACKAGES].ok
  <2>1. PACKAGES \in DOMAIN replace[g] /\ replace[g][PACKAGES].ok
    BY DEF Tests
  <2>3. CASE Current(g).out = NoToken
    BY <2>1, <2>3, MoveFacts
  <2>4. CASE Current(g).out # NoToken
    <3>1. \E ok \in BOOLEAN : replace'[g] = Update(replace[g], Current(g).out, [data |-> data, ok |-> ok])
      BY <2>4, MoveFacts
    <3> QED
      BY <1>5, <2>1, <3>1 DEF Update
  <2> QED
    BY <2>3, <2>4
<1>7. ASSUME Stepped(g, S, sub) PROVE Tests(g, P, q)'
  <2>0. goTask' = goTask /\ Packages' = Packages /\ WantedArch(g)' = WantedArch(g) /\ job' = job
    BY GoTestFixed
  <2>1. Packaged(g, P, q)' /\ (Pending(g) => Current(g).op = "run-test" \/ Pending(g)')
    BY <1>1, <1>2, <1>7, <2>0, InnerMoves DEF Tests
  <2>2. AllTested(g, P, q)'
    <3>1. \A x : Tested(g, x) => Tested(g, x)'
      BY <2>0 DEF Tested
    <3>2. Current(g).op = "run-test" => Tested(g, p)'
      BY <1>4 DEF Tested, TestSpec
    <3>3. P[q - 1].args[1] = p
      BY <1>4
    <3> QED
      BY <2>1, <3>1, <3>2, <3>3 DEF Tests, AllTested
  <2>3. AllMade(g, P, q) => AllMade(g, P, q)'
    BY <2>0 DEF AllMade, Made, OwnTest, EnvRight
  <2> QED
    BY <1>3, <1>6, <2>1, <2>2, <2>3 DEF Tests
<1> QED
  BY <1>1, <1>2, <1>5, <1>7, GoMove

(* The tests that were made stay, but for what is removed to be compiled   *)
(* next.                                                                   *)
LEMMA MadeNext ==
  ASSUME NEW g, NEW T, NEW P \in Seq(T), PackageList(g, P), NEW q \in 1..Len(P), AllMade(g, P, q),
         NEW p, P[q].args = <<p>>, UNCHANGED <<goFixed, job>>,
         \A x : x # p => (TestPath(x) \in DOMAIN binaries' <=> TestPath(x) \in DOMAIN binaries),
         \A x : x # p /\ TestPath(x) \in DOMAIN binaries => binaries'[TestPath(x)] = binaries[TestPath(x)],
         \/ P[q].op = "remove-binary"
         \/ P[q].op = "compile" /\ Made(g, p)'
         \/ P[q].op \notin {"remove-binary", "compile"} /\ binaries' = binaries
  PROVE  AllMade(g, P, q + 1)'
<1>1. goTask' = goTask /\ WantedArch(g)' = WantedArch(g) /\ job' = job
  BY GoTestFixed
<1>2. \A x : OwnTest(g, x)' = OwnTest(g, x)
  BY <1>1 DEF OwnTest, EnvRight
<1>3. ASSUME NEW x, x # p, Made(g, x) PROVE Made(g, x)'
  BY <1>1, <1>2, <1>3 DEF Made
<1>4. ASSUME NEW x, binaries' = binaries, Made(g, x) PROVE Made(g, x)'
  BY <1>1, <1>2, <1>4 DEF Made
<1>5. ASSUME NEW r \in 1..(q - 1), P[q - 1].op = "remove-binary" PROVE P[q].op = "compile" /\ P[q].args = P[q - 1].args
  <2>1. q - 1 \in 1..Len(P) /\ (q - 1) + 1 = q
    BY <1>5, Places
  <2> QED
    BY <1>5, <2>1 DEF PackageList
<1>6. <<p>>[1] = p
  OBVIOUS
<1>7. ASSUME NEW r \in 1..q, P[r].op = "compile"
      PROVE  Made(g, P[r].args[1])' \/ (P[q].op = "remove-binary" /\ P[q].args = P[r].args)
  <2>1. CASE r = q
    BY <1>6, <1>7, <2>1
  <2>2. CASE r # q
    <3>1. r \in 1..(q - 1) /\ r \in 1..Len(P)
      BY <1>7, <2>2, Places
    <3>2. Made(g, P[r].args[1]) \/ (P[q - 1].op = "remove-binary" /\ P[q - 1].args = P[r].args)
      BY <1>7, <3>1 DEF AllMade
    <3>3. PICK x : P[r].args = <<x>> /\ P[r].args[1] = x
      BY <3>1 DEF PackageList, PackageSpec
    <3>4. CASE P[q - 1].op = "remove-binary" /\ P[q - 1].args = P[r].args
      BY <1>5, <1>6, <3>1, <3>4
    <3>5. CASE Made(g, x) /\ P[q - 1].op # "remove-binary"
      <4>1. CASE x # p
        BY <1>3, <3>3, <3>5, <4>1
      <4>2. CASE x = p
        BY <1>4, <3>3, <3>5, <4>2
      <4> QED
        BY <4>1, <4>2
    <3>6. CASE Made(g, x) /\ P[q - 1].op = "remove-binary"
      <4>1. P[q].op = "compile"
        BY <1>5, <3>1, <3>6
      <4>2. CASE x # p
        BY <1>3, <3>3, <3>6, <4>2
      <4>3. CASE x = p
        BY <3>3, <4>1, <4>3
      <4> QED
        BY <4>2, <4>3
    <3> QED
      BY <3>2, <3>3, <3>4, <3>5, <3>6
  <2> QED
    BY <2>1, <2>2
<1>8. (q + 1) - 1 = q
  BY Places
<1> QED
  BY <1>7, <1>8 DEF AllMade

(* The tests of two packages are at two paths.                             *)
LEMMA TestPaths ==
  ASSUME NEW p, NEW r, TestPath(p) = TestPath(r)
  PROVE  p = r
<1>1. TestPath(p)[2] = p /\ TestPath(r)[2] = r
  BY DEF TestPath
<1> QED
  BY <1>1

(* The specs of a package: its test is compiled, and run if it has one.    *)
LEMMA GoPackages ==
  ASSUME EngineInv, GoTestInv, NEW g \in Entries, job' = job,
         RemoveBinary(g) \/ (Compile(g) /\ UNCHANGED goFixed) \/ Chmod(g) \/ PlanRun(g)
  PROVE  GoTestInv'
<1>0. /\ stage[g] = "running" /\ UNCHANGED <<goFixed, job, ran>> /\ Current(g).op \in PackageOps
  BY DEF RemoveBinary, Compile, Chmod, PlanRun, At, goVars, PackageOps
<1>1. PICK P : P = PackageSpecs(g)
  OBVIOUS
<1>2. PICK S : S = GoSpecs(g)
  OBVIOUS
<1>3. P \in Seq(S) /\ PackageList(g, P) /\ Kept(g) /\ GoSpec(g, Current(g)) /\ EnvRight(g, env[g])
  BY <1>0, <1>1, <1>2, GoCurrent DEF GoTestInv, GoTestEntry
<1>4. PICK q : Tests(g, P, q) /\ Outer(g, P, q) /\ \E p \in Packages : PackageSpec(g, Current(g), p)
  BY <1>0, <1>1, GoByKind
<1>5. PICK p \in Packages : PackageSpec(g, Current(g), p)
  BY <1>4
<1>6. /\ Package(g) = p /\ P[q] = Current(g) /\ q \in 1..Len(P) /\ P[q].args = <<p>>
      /\ Current(g).ignore = (Current(g).op = "chmod")
  BY <1>4, <1>5 DEF Package, Outer, PackageSpec
<1>7. workers = 1 => AllMade(g, P, q)
  BY <1>0, <1>4 DEF Tests
<1>8. PICK none \in Seq(S) : none = <<>> /\ \A k \in 1..Len(none) : FALSE
  <2>1. \A T : <<>> \in Seq(T)
    OBVIOUS
  <2>2. Len(<<>>) = 0
    OBVIOUS
  <2>3. \A k \in 1..Len(<<>>) : FALSE
    BY <2>2
  <2> QED
    BY <2>1, <2>3
<1>9. \A x \in goTask.tested : Current(g).out = COMPILE(x) => x = p /\ Current(g).op = "compile"
  BY <1>5, GoTokens, CompileToken DEF PackageSpec
<1>10. \A x : x # p => TestPath(x) # TestPath(p)
  BY TestPaths
<1>11. CASE RemoveBinary(g)
  <2>1. Current(g).op = "remove-binary" /\ ~Current(g).ignore
    BY <1>6, <1>11 DEF RemoveBinary, At
  <2>2. CASE Fail(g, Empty)
    BY <1>0, <1>3, <2>1, <2>2, GoSpecFails
  <2>3. ASSUME Succeed(g, Empty, none), binaries' = [x \in DOMAIN binaries \ {TestPath(p)} |-> binaries[x]]
        PROVE  GoTestInv'
    <3>1. workers = 1 => AllMade(g, P, q + 1)'
      BY <1>0, <1>3, <1>6, <1>7, <1>10, <2>1, <2>3, MadeNext
    <3>2. Moves(g, Empty, none)
      BY <2>3 DEF Moves
    <3> QED
      BY <1>0, <1>1, <1>2, <1>4, <1>5, <1>6, <1>8, <1>9, <2>1, <3>1, <3>2, GoPackage
  <2> QED
    BY <1>6, <1>8, <1>11, <2>2, <2>3 DEF RemoveBinary
<1>12. CASE Compile(g) /\ UNCHANGED goFixed
  <2>1. Current(g).op = "compile"
    BY <1>12 DEF Compile, At
  <2>2. OwnTest(g, Compiled(g))
    BY <1>3, <2>1, SuggestedRight
  <2>3. goTask' = goTask /\ WantedArch(g)' = WantedArch(g) /\ job' = job
    BY <1>0, GoTestFixed
  <2>4. CASE p \in goTask.tested
    <3>1. Succeed(g, Empty, none) /\ binaries' = Update(binaries, TestPath(p), Compiled(g))
      BY <1>6, <1>8, <1>12, <2>4 DEF Compile
    <3>2. PICK c : c = Compiled(g)
      OBVIOUS
    <3>3. Made(g, p)'
      BY <2>2, <2>3, <3>1, <3>2 DEF Made, Update, OwnTest, EnvRight
    <3>4. /\ \A x : x # p => (TestPath(x) \in DOMAIN binaries' <=> TestPath(x) \in DOMAIN binaries)
          /\ \A x : x # p /\ TestPath(x) \in DOMAIN binaries => binaries'[TestPath(x)] = binaries[TestPath(x)]
      BY <1>10, <3>1 DEF Update
    <3>5. workers = 1 => AllMade(g, P, q + 1)'
      BY <1>0, <1>3, <1>6, <1>7, <2>1, <3>3, <3>4, MadeNext
    <3>6. Moves(g, Empty, none)
      BY <3>1 DEF Moves
    <3>7. Empty # <<"no test files">>
      BY DEF Empty
    <3> QED
      BY <1>0, <1>1, <1>2, <1>4, <1>5, <1>6, <1>8, <2>1, <3>5, <3>6, <3>7, GoPackage
  <2>5. CASE p \notin goTask.tested
    <3>1. PICK data : Succeed(g, data, none) /\ binaries' = binaries
      BY <1>6, <1>8, <1>12, <2>5 DEF Compile
    <3>2. Made(g, p)'
      BY <2>3, <2>5 DEF Made
    <3>3. workers = 1 => AllMade(g, P, q + 1)'
      BY <1>0, <1>3, <1>6, <1>7, <2>1, <3>1, <3>2, MadeNext
    <3>4. Moves(g, data, none)
      BY <3>1 DEF Moves
    <3> QED
      BY <1>0, <1>1, <1>2, <1>4, <1>5, <1>6, <1>8, <1>9, <2>1, <2>5, <3>3, <3>4, GoPackage
  <2> QED
    BY <2>4, <2>5
<1>13. CASE Chmod(g)
  <2>1. Current(g).op = "chmod" /\ binaries' = binaries /\ (Succeed(g, Empty, none) \/ Fail(g, Empty))
    BY <1>8, <1>13 DEF Chmod, At, goVars
  <2>2. workers = 1 => AllMade(g, P, q + 1)'
    BY <1>0, <1>3, <1>6, <1>7, <2>1, MadeNext
  <2>3. Moves(g, Empty, none)
    BY <1>6, <1>8, <2>1 DEF Moves
  <2> QED
    BY <1>0, <1>1, <1>2, <1>4, <1>5, <1>6, <1>8, <1>9, <2>1, <2>2, <2>3, GoPackage
<1>14. CASE PlanRun(g)
  <2>1. Current(g).op = "plan-run" /\ binaries' = binaries
    BY <1>14 DEF PlanRun, At, goVars
  <2>2. workers = 1 => AllMade(g, P, q + 1)'
    BY <1>0, <1>3, <1>6, <1>7, <2>1, MadeNext
  <2>3. P[q].args[1] = p /\ (q + 1) - 1 = q /\ q + 1 > 1
    BY <1>3, <1>6, Places
  <2>4. CASE Succeed(g, Empty, TestSpecs(p))
    <3>1. PICK s : s = TestSpecs(p)
      OBVIOUS
    <3>2. Range(s) \subseteq S
      BY <1>2, <3>1, GoSpecsHas
    <3>3. /\ s \in Seq(S) /\ (\A k \in 1..Len(s) : TestSpec(s[k], p))
          /\ 1 \in 1..Len(s) /\ s[1].op = "run-test"
      BY <3>1, <3>2, TestSpecsAre
    <3>4. \A k \in 1..Len(s) : Testing(P, q + 1, s[k])
      BY <1>5, <1>6, <2>1, <2>3, <3>3 DEF Testing
    <3>5. Moves(g, Empty, s)
      BY <2>4, <3>1 DEF Moves
    <3> QED
      BY <1>0, <1>1, <1>2, <1>4, <1>5, <1>6, <1>9, <2>1, <2>2, <3>3, <3>4, <3>5, GoPackage
  <2>5. CASE p \notin goTask.tested /\ Succeed(g, Empty, none)
    <3>1. Tested(g, P[q].args[1])
      BY <2>3, <2>5 DEF Tested
    <3>2. Moves(g, Empty, none)
      BY <2>5 DEF Moves
    <3> QED
      BY <1>0, <1>1, <1>2, <1>4, <1>5, <1>6, <1>8, <1>9, <2>1, <2>2, <3>1, <3>2, GoPackage
  <2> QED
    BY <1>3, <1>6, <1>8, <1>14, <2>4, <2>5 DEF PlanRun, Kept
<1> QED
  BY <1>11, <1>12, <1>13, <1>14

(* What comes with a test: it is run, what it prints may be converted.     *)
LEMMA GoTestSteps ==
  ASSUME EngineInv, GoTestInv, NEW g \in Entries, job' = job,
         RunTest(g) \/ PlanJson(g) \/ Test2Json(g) \/ WriteJson(g)
  PROVE  GoTestInv'
<1>0. stage[g] = "running" /\ UNCHANGED <<goFixed, job, binaries>> /\ Current(g).op \in TestOps
  BY DEF RunTest, PlanJson, Test2Json, WriteJson, At, goVars, TestOps
<1>1. PICK P : P = PackageSpecs(g)
  OBVIOUS
<1>2. PICK S : S = GoSpecs(g)
  OBVIOUS
<1>3. P \in Seq(S) /\ PackageList(g, P) /\ RanOwn(g) /\ GoSpec(g, Current(g))
  BY <1>0, <1>1, <1>2, GoCurrent
<1>4. PICK q : Tests(g, P, q) /\ Inner(g, P, q)
  BY <1>0, <1>1, GoByKind
<1>5. PICK p \in Packages : q > 1 /\ P[q - 1].op = "plan-run" /\ P[q - 1].args = <<p>> /\ TestSpec(Current(g), p)
  BY <1>4 DEF Inner, Testing
<1>6. ~Current(g).ignore /\ (Current(g).op \in {"run-test", "plan-json"} => Package(g) = p /\ Current(g).args[1] = p)
  BY <1>5 DEF TestSpec, Package
<1>7. PICK none \in Seq(S) : none = <<>> /\ \A k \in 1..Len(none) : Testing(P, q, none[k])
  <2>1. \A T : <<>> \in Seq(T)
    OBVIOUS
  <2>2. Len(<<>>) = 0
    OBVIOUS
  <2>3. \A k \in 1..Len(<<>>) : FALSE
    BY <2>2
  <2> QED
    BY <2>1, <2>3
<1>8. ASSUME NEW data, Fail(g, data),
             \A h \in Entries \ {g} : \A x : <<h, x>> \in DOMAIN ran' <=> <<h, x>> \in DOMAIN ran,
             \A h \in Entries \ {g} : \A x : <<h, x>> \in DOMAIN ran => ran'[<<h, x>>] = ran[<<h, x>>]
      PROVE  GoTestInv'
  BY <1>0, <1>3, <1>6, <1>8, GoSpecFails
<1>9. ASSUME NEW data, NEW sub \in Seq(S), Succeed(g, data, sub), ran' = ran, Current(g).op # "run-test",
             \A k \in 1..Len(sub) : Testing(P, q, sub[k])
      PROVE  GoTestInv'
  <2>1. Moves(g, data, sub)
    BY <1>9 DEF Moves
  <2>2. UNCHANGED <<count, workers>>
    BY <1>0, <2>1, MoveFacts
  <2>3. RanOwn(g)'
    BY <1>0, <1>9, <2>2, RanStays
  <2> QED
    BY <1>0, <1>1, <1>2, <1>4, <1>9, <2>1, <2>3, GoTested
<1>10. CASE RunTest(g)
  <2>1. /\ Current(g).op = "run-test" /\ Package(g) = p /\ ran' = Update(ran, <<g, p>>, binaries[TestPath(p)])
        /\ \E data : Succeed(g, data, none) \/ Fail(g, data)
    BY <1>6, <1>7, <1>10 DEF RunTest, At
  <2>2. \A h, x : h # g \/ x # p => <<h, x>> # <<g, p>>
    OBVIOUS
  <2>3. /\ \A h \in Entries \ {g} : \A x : <<h, x>> \in DOMAIN ran' <=> <<h, x>> \in DOMAIN ran
        /\ \A h \in Entries \ {g} : \A x : <<h, x>> \in DOMAIN ran => ran'[<<h, x>>] = ran[<<h, x>>]
        /\ \A x : <<g, x>> \in DOMAIN ran => <<g, x>> \in DOMAIN ran'
        /\ <<g, p>> \in DOMAIN ran' /\ ran'[<<g, p>>] = binaries[TestPath(p)]
        /\ \A x : x # p /\ <<g, x>> \in DOMAIN ran' => <<g, x>> \in DOMAIN ran /\ ran'[<<g, x>>] = ran[<<g, x>>]
    BY <2>1, <2>2 DEF Update
  <2>4. ASSUME workers = 1, p \in goTask.tested PROVE OwnTest(g, binaries[TestPath(p)])
    <3>1. AllMade(g, P, q)
      BY <1>0, <1>4, <2>4 DEF Tests
    <3>2. q - 1 \in 1..Len(P) /\ \A s \in 1..((q - 1) - 1) : s \in 1..(q - 1)
      <4>1. PICK n : n = Len(P)
        OBVIOUS
      <4>2. n \in Nat /\ q \in 1..(n + 1) /\ q > 1
        BY <1>3, <1>4, <1>5, <4>1, LenProperties DEF Tests, Packaged
      <4>3. q - 1 \in 1..n /\ \A s \in 1..((q - 1) - 1) : s \in 1..(q - 1)
        BY <4>2
      <4> QED
        BY <4>1, <4>3
    <3>3. PICK s \in 1..((q - 1) - 1) : P[s].op = "compile" /\ P[s].args = P[q - 1].args
      BY <1>3, <1>5, <3>2 DEF PackageList
    <3>4. P[s].args[1] = p
      BY <1>5, <3>3
    <3>5. s \in 1..(q - 1)
      BY <3>2, <3>3
    <3>6. Made(g, P[s].args[1]) \/ P[q - 1].op = "remove-binary"
      BY <3>1, <3>3, <3>5 DEF AllMade
    <3> QED
      BY <1>5, <2>4, <3>4, <3>6 DEF Made
  <2>5. RanOwn(g)' \/ workers' # workers
    <3>1. goTask' = goTask /\ WantedArch(g)' = WantedArch(g) /\ job' = job
      BY <1>0, GoTestFixed
    <3>2. \A x : OwnTest(g, x)' = OwnTest(g, x)
      BY <3>1 DEF OwnTest, EnvRight
    <3>3. ASSUME workers = 1, NEW x \in goTask.tested, <<g, x>> \in DOMAIN ran' PROVE OwnTest(g, ran'[<<g, x>>])
      <4>1. CASE x = p
        BY <2>3, <2>4, <3>3, <4>1
      <4>2. CASE x # p
        BY <1>3, <2>3, <3>3, <4>2 DEF RanOwn
      <4> QED
        BY <4>1, <4>2
    <3> QED
      BY <3>1, <3>2, <3>3 DEF RanOwn
  <2>6. ASSUME NEW data, Succeed(g, data, none) PROVE GoTestInv'
    <3>1. Moves(g, data, none)
      BY <2>6 DEF Moves
    <3>2. RanOwn(g)'
      BY <1>0, <2>5, <3>1, MoveFacts
    <3>3. <<g, Current(g).args[1]>> \in DOMAIN ran'
      BY <1>6, <2>1, <2>3
    <3> QED
      BY <1>0, <1>1, <1>2, <1>4, <1>7, <2>3, <3>1, <3>2, <3>3, GoTested
  <2> QED
    BY <1>8, <2>1, <2>3, <2>6
<1>11. CASE PlanJson(g)
  <2>1. Current(g).op = "plan-json" /\ ran' = ran /\ Package(g) = p
    BY <1>6, <1>11 DEF PlanJson, At, goVars
  <2>2. CASE Succeed(g, Empty, JsonSpecs(p))
    <3>1. PICK s : s = JsonSpecs(p)
      OBVIOUS
    <3>2. Range(s) \subseteq S
      BY <1>2, <3>1, GoSpecsHas
    <3>3. s \in Seq(S) /\ Len(s) = 2 /\ \A k \in 1..2 : TestSpec(s[k], p)
      BY <3>1, <3>2, JsonSpecsAre
    <3>4. \A k \in 1..Len(s) : Testing(P, q, s[k])
      BY <1>5, <3>3 DEF Testing
    <3> QED
      BY <1>9, <2>1, <2>2, <3>1, <3>3, <3>4
  <2> QED
    BY <1>8, <1>11, <2>1, <2>2 DEF PlanJson
<1>12. CASE Test2Json(g) \/ WriteJson(g)
  <2>1. ran' = ran /\ Current(g).op # "run-test" /\ \E data : Succeed(g, data, none) \/ Fail(g, data)
    BY <1>7, <1>12 DEF Test2Json, WriteJson, At, goVars
  <2> QED
    BY <1>7, <1>8, <1>9, <2>1
<1> QED
  BY <1>10, <1>11, <1>12

(* A command of `go` fails.                                                *)
LEMMA GoFails ==
  ASSUME EngineInv, GoTestInv, NEW g \in Entries, job' = job, GoCommandFails(g)
  PROVE  GoTestInv'
<1>1. stage[g] = "running" /\ Current(g).op \in GoCommands /\ UNCHANGED <<goFixed, job, ran>>
  BY DEF GoCommandFails, goVars
<1>2. GoSpec(g, Current(g))
  BY <1>1, GoCurrent
<1>3. ~Current(g).ignore
  BY <1>1, <1>2 DEF GoSpec, ListSpec, PackageSpec, TestSpec, GoCommands
<1>4. NoToolCmd(g) \/ \E data : Fail(g, data)
  BY DEF GoCommandFails
<1> QED
  BY <1>1, <1>2, <1>3, <1>4, GoSpecFails

(* Every step of an entry of `go test`.                                    *)
LEMMA GoTestNext ==
  ASSUME EngineInv, GoTestInv, goTask.kind = "gotest", NEW g \in Entries, GoNext(g)
  PROVE  GoTestInv'
<1>1. job' = job /\ (GenGo(g) \/ GoStep(g))
  BY DEF GoNext
<1>2. CASE GoBuild(g)
  BY <1>2, GoByKind DEF GoBuild, At
<1> QED
  BY <1>1, <1>2, GoTestGenerates, GoLists, GoPackages, GoTestSteps, GoFails DEF GoStep

(* Nothing is compiled or run at first.                                    *)
LEMMA InitTest == Init => TestInv
<1> SUFFICES ASSUME Init PROVE TestInv
  OBVIOUS
<1>1. /\ job \in Jobs /\ ran = <<>> /\ goTask = IF job.tool = "golang" THEN job.task ELSE NoTask
      /\ stage = [g \in Entries |-> "waiting"] /\ replace = [g \in Entries |-> <<>>]
      /\ env = [g \in Entries |-> job.env]
  BY DEF Init, ExecInit, Entries
<1>2. EngineInv
  BY InitEngine
<1>3. CASE job.tool # "golang"
  BY <1>1, <1>2, <1>3 DEF TestInv, NoTask
<1>4. CASE job.tool = "golang"
  <2>1. PackagesGiven
    BY <1>1, <1>4, GoAssumption DEF PackagesGiven, Packages
  <2>2. ASSUME NEW g \in Entries PROVE GoTestEntry(g)
    <3>1. stage[g] = "waiting" /\ DOMAIN replace[g] = {} /\ env[g] = job.env /\ DOMAIN ran = {}
      BY <1>1
    <3>2. EnvRight(g, job.env) /\ NoneRun(g)
      BY <3>1 DEF EnvRight, WantedArch, NoneRun
    <3> QED
      BY <3>1, <3>2 DEF GoTestEntry
  <2>3. DOMAIN env = Entries
    BY <1>1
  <2> QED
    BY <1>2, <1>4, <2>1, <2>2, <2>3 DEF TestInv, GoTestInv
<1> QED
  BY <1>3, <1>4

(* Every step of any tool keeps what is known of the tests.                *)
LEMMA NextTest == TestInv /\ [Next]_vars => TestInv'
<1> SUFFICES ASSUME TestInv, [Next]_vars PROVE TestInv'
  OBVIOUS
<1>1. EngineInv /\ EngineInv'
  BY NextEngine DEF TestInv
<1>2. UNCHANGED <<job, goFixed>> /\ goTask' = goTask
  BY DEF Next, BuildahNext, DockerNext, GoNext, CosignNext, Terminated, vars, goVars, GoStep, GenGo, ListModule,
     ListPackages, Plan, RemoveBinary, Chmod, PlanRun, RunTest, PlanJson, Test2Json, WriteJson, GoCommandFails, goFixed
<1>3. SUFFICES ASSUME goTask.kind = "gotest" PROVE GoTestInv'
  BY <1>1, <1>2 DEF TestInv
<1>4. job.tool = "golang" /\ GoTestInv
  BY <1>3 DEF TestInv
<1>5. ASSUME NEW g, g \notin Entries \/ (stage[g] = "waiting" /\ stage'[g] = "started"),
             UNCHANGED <<count, workers, frames, replace, env, binaries, ran>>,
             \A h \in Entries : h # g => stage'[h] = stage[h]
      PROVE  GoTestInv'
  <2>1. Packages' = Packages /\ goTask' = goTask /\ WantedArch(g)' = WantedArch(g) /\ job' = job
    BY <1>2, GoTestFixed
  <2>2. Entries' = Entries /\ PackagesGiven'
    BY <1>4, <1>5, <2>1 DEF Entries, GoTestInv, PackagesGiven
  <2>3. ASSUME NEW h \in Entries, h # g PROVE GoTestEntry(h)'
    BY <1>2, <1>4, <1>5, <2>3, GoEntryStays
  <2>4. g \in Entries => GoTestEntry(g)'
    BY <1>4, <1>5, <2>1 DEF GoTestInv, GoTestEntry, EnvRight, NoneRun
  <2> QED
    BY <1>4, <1>5, <2>2, <2>3, <2>4 DEF GoTestInv
<1>6. CASE UNCHANGED vars
  <2>1. UNCHANGED <<count, workers, stage, frames, replace, env, binaries, ran>>
    BY <1>6 DEF vars, execVars, goVars
  <2>2. PICK x : x \notin Entries
    <3>1. 0 \notin Entries
      BY <1>1 DEF EngineInv, TypeOK, ExecTypeOK, Entries
    <3> QED
      BY <3>1
  <2> QED
    BY <1>5, <2>1, <2>2
<1>7. CASE Terminated
  BY <1>6, <1>7 DEF Terminated
<1>8. ASSUME NEW g \in Entries, Start(g), UNCHANGED goVars PROVE GoTestInv'
  <2>1. /\ stage[g] = "waiting" /\ stage'[g] = "started" /\ \A h \in Entries : h # g => stage'[h] = stage[h]
        /\ UNCHANGED <<count, workers, frames, replace, env, binaries, ran>>
    BY <1>1, <1>8 DEF Start, Goto, goVars, EngineInv, TypeOK, ExecTypeOK
  <2> QED
    BY <1>5, <2>1
<1> QED
  BY <1>1, <1>3, <1>4, <1>6, <1>7, <1>8, GoTestNext DEF Next

(* For any packages, whatever test binaries were there before: an entry of *)
(* `go test` that ended well has run the tests of all packages that have   *)
(* some and, with one worker, those it compiled itself, for its own        *)
(* platform or the one the user has set (task_gotest.go, createBuildEnv,   *)
(* EnvSuggest in run.go).                                                  *)
THEOREM ToolRunTests == Spec => []TestsRun
<1>1. TestInv => TestsRun
  <2> SUFFICES ASSUME TestInv, NEW g \in Entries, stage[g] = "ok", goTask.kind = "gotest"
               PROVE  /\ {p \in goTask.tested : <<g, p>> \in DOMAIN ran} =
                           IF replace[g][PACKAGES].ok THEN goTask.tested ELSE {}
                      /\ \A p \in goTask.tested : workers = 1 /\ <<g, p>> \in DOMAIN ran =>
                           /\ ran[<<g, p>>].by = g
                           /\ ran[<<g, p>>].env.GOARCH =
                                IF "GOARCH" \in DOMAIN job.env THEN job.env.GOARCH ELSE GoArch(goMatrix[g].arch)
    BY DEF TestsRun
  <2>1. PICK P : P = PackageSpecs(g)
    OBVIOUS
  <2>2. GoTestEntry(g) /\ PackagesGiven
    BY DEF TestInv, GoTestInv
  <2>3. RanOwn(g) /\ ((\E k : Listed(g, k)) \/ \E q : Tests(g, P, q))
    BY <2>1, <2>2 DEF GoTestEntry
  <2>4. \A i \in Nat : Todo(frames[g], i) = <<>>
    BY DEF Todo, TestInv, EngineInv, TypeOK, ExecTypeOK
  <2>5. \A p \in goTask.tested : workers = 1 /\ <<g, p>> \in DOMAIN ran =>
          /\ ran[<<g, p>>].by = g
          /\ ran[<<g, p>>].env.GOARCH =
               IF "GOARCH" \in DOMAIN job.env THEN job.env.GOARCH ELSE GoArch(goMatrix[g].arch)
    BY <2>3 DEF RanOwn, OwnTest, EnvRight, WantedArch
  <2>6. ASSUME NEW k, Listed(g, k) PROVE ~replace[g][PACKAGES].ok /\ NoneRun(g)
    <3>1. k \in 1..4 /\ SubSeq(GoTestSpecs, k, 3) = <<>>
      BY <2>4, <2>6 DEF Listed, Listing
    <3>2. GoTestSpecs \in Seq(GoSpecs(g)) /\ Len(GoTestSpecs) = 3
      BY GoSpecsHas, ListSpecsAre
    <3>3. PICK n : n = 3 /\ Len(GoTestSpecs) = n
      BY <3>2
    <3>4. k \notin 1..3
      <4> SUFFICES ASSUME k \in 1..3 PROVE FALSE
        OBVIOUS
      <4>1. Len(SubSeq(GoTestSpecs, k, 3)) = 3 - k + 1
        BY <3>2
      <4>2. Len(<<>>) = 0
        OBVIOUS
      <4>3. PICK l : l = 3 - k + 1
        OBVIOUS
      <4>4. l = 0
        BY <3>1, <4>1, <4>2, <4>3
      <4> QED
        BY <4>3, <4>4
    <3>5. k = 4
      BY <3>1, <3>4
    <3> QED
      BY <2>6, <3>5 DEF Listed
  <2>7. ASSUME NEW q, Tests(g, P, q)
        PROVE  replace[g][PACKAGES].ok /\ \A p \in goTask.tested : <<g, p>> \in DOMAIN ran
    <3>1. P \in Seq(GoSpecs(g)) /\ PackageList(g, P)
      BY <2>1, <2>2, PackageSpecsAre
    <3>2. q \in 1..(Len(P) + 1) /\ SubSeq(P, q, Len(P)) = <<>> /\ AllTested(g, P, q) /\ replace[g][PACKAGES].ok
      BY <2>4, <2>7 DEF Tests, Packaged
    <3>3. PICK n : n = Len(P)
      OBVIOUS
    <3>4. q = n + 1
      <4>1. n \in Nat /\ q \in 1..(n + 1)
        BY <3>1, <3>2, <3>3, LenProperties
      <4>2. ASSUME q \in 1..n PROVE FALSE
        <5>1. Len(SubSeq(P, q, n)) = n - q + 1
          BY <3>1, <3>3, <4>1, <4>2
        <5>2. Len(<<>>) = 0
          OBVIOUS
        <5>3. n - q + 1 = 0
          BY <3>2, <3>3, <5>1, <5>2
        <5> QED
          BY <4>1, <4>2, <5>3
      <4> QED
        BY <4>1, <4>2
    <3>5. ~Pending(g)
      BY <2>4 DEF Pending
    <3>6. (q - 1) = n
      BY <3>1, <3>3, <3>4, LenProperties
    <3>7. ASSUME NEW p \in goTask.tested PROVE <<g, p>> \in DOMAIN ran
      <4>1. p \in Packages
        BY <2>2 DEF PackagesGiven
      <4>2. PICK r \in 1..n : P[r].op = "plan-run" /\ P[r].args = <<p>>
        BY <3>1, <3>3, <4>1 DEF PackageList
      <4>3. Tested(g, P[r].args[1]) /\ P[r].args[1] = p
        BY <3>2, <3>5, <3>6, <4>2 DEF AllTested
      <4> QED
        BY <4>3 DEF Tested
    <3> QED
      BY <3>2, <3>7
  <2>8. {p \in goTask.tested : <<g, p>> \in DOMAIN ran} = IF replace[g][PACKAGES].ok THEN goTask.tested ELSE {}
    BY <2>3, <2>6, <2>7 DEF NoneRun
  <2> QED
    BY <2>5, <2>8
<1> QED
  BY InitTest, NextTest, <1>1, PTL DEF Spec

=============================================================================
