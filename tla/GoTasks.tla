------------------------------ MODULE GoTasks -------------------------------
(***************************************************************************)
(* The tasks of the golang tool (pkg/tools/golang): build (task_gobuild)   *)
(* and test (task_gotest), which lists the packages, compiles the tests of *)
(* each into the cache of the task, then runs them one after another.      *)
(*                                                                         *)
(* The path of a compiled test is made of the package alone, and the cache *)
(* is the task's: the matrix entries share it.  `go` itself is external.   *)
(***************************************************************************)
EXTENDS ExecSpecs, ArchTables

VARIABLES
  goTask,    \* the task and the host, fixed
  goMatrix,  \* entry -> its kernel, arch and libc, fixed
  binaries,  \* what is at a path: who compiled it, in which environment
  jsonFile,  \* what json_output_file holds
  ran        \* history: <<entry, package>> -> the compiled test it ran

goFixed == <<goTask, goMatrix>>
goVars == <<goFixed, binaries, jsonFile, ran>>

PACKAGES == <<"GO_PACKAGES">>
MODULE_NAME == <<"MODULE_NAME">>
COMPILE(p) == <<"GO_TEST_COMPILE_RESULT", p>>
RESULT(p) == <<"GO_TEST_RUN_RESULT", p>>
JSON(p) == <<"GO_TOOL_TEST2JSON_RESULT", p>>

BuildEnv(g) ==
  createBuildEnv(goTask.host, goMatrix[g].kernel, goMatrix[g].arch, goMatrix[g].libc, goTask.cgo)

(***************************************************************************)
(* The specs                                                               *)
(***************************************************************************)

(* One command per output.                                                 *)
GoBuildSpecs(g) ==
  [k \in DOMAIN goTask.outputs |->
     WithEnv(Cmd("go-build", <<<<goTask.outputs[k], g>>>>), BuildEnv(g))]

GoTestSpecs ==
  <<CmdInto("list-module", <<>>, MODULE_NAME),
    Ignored(CmdInto("list-packages", <<>>, PACKAGES)),
    Cmd("plan", <<>>)>>

(* generateCompileSpecs: what an earlier run left is removed first.        *)
CompileSpecs(g, p) ==
  <<Cmd("remove-binary", <<p>>), WithEnv(CmdInto("compile", <<p>>, COMPILE(p)), BuildEnv(g)),
    Ignored(Cmd("chmod", <<p>>))>>

(* generateRunSpecs, and what its callback adds for a package with tests.  *)
RunSpecsOf(p) == <<Cmd("plan-run", <<p>>)>>
TestSpecs(p) ==
  IF goTask.json THEN <<CmdInto("run-test", <<p>>, RESULT(p)), Cmd("plan-json", <<p>>)>>
  ELSE <<Cmd("run-test", <<p>>)>>
JsonSpecs(p) == <<CmdInto("test2json", <<RESULT(p)>>, JSON(p)), Cmd("write-json", <<JSON(p)>>)>>

(* All packages are compiled before any is tested.                         *)
PackageSpecs(g) ==
  LET ps == goTask.packages
  IN FlattenSeq([k \in DOMAIN ps |-> CompileSpecs(g, ps[k])])
     \o FlattenSeq([k \in DOMAIN ps |-> RunSpecsOf(ps[k])])

GenGo(g) ==
  /\ \/ goTask.kind = "gobuild" /\ Generated(g, GoBuildSpecs(g))
     \/ goTask.kind = "gotest" /\ Generated(g, GoTestSpecs)
     \/ NotGenerated(g)
  /\ UNCHANGED goVars

(***************************************************************************)
(* The steps                                                               *)
(***************************************************************************)

Package(g) == Current(g).args[1]
TestPath(p) == <<"test", p>>

(* What go makes of a package: by whom and in which environment.           *)
Compiled(g) == [by |-> g, env |-> Suggested(g)]

GoBuild(g) ==
  /\ At(g, "go-build")
  /\ binaries' = Update(binaries, Package(g), Compiled(g))
  /\ Succeed(g, Empty, <<>>)
  /\ UNCHANGED <<jsonFile, ran>>

ListModule(g) == At(g, "list-module") /\ Succeed(g, <<"module">>, <<>>) /\ UNCHANGED goVars

ListPackages(g) ==
  /\ At(g, "list-packages")
  /\ Succeed(g, <<"packages">>, <<>>) \/ Fail(g, <<"no Go files">>) \/ Fail(g, <<"error">>)
  /\ UNCHANGED goVars

(* A directory without Go files has nothing to test.                       *)
Plan(g) ==
  /\ At(g, "plan")
  /\ IF replace[g][PACKAGES].ok THEN Succeed(g, Empty, PackageSpecs(g))
     ELSE IF replace[g][PACKAGES].data = <<"no Go files">> THEN Succeed(g, Empty, <<>>)
     ELSE Fail(g, Empty)
  /\ UNCHANGED goVars

(* An error other than that there is no such file fails the callback.      *)
RemoveBinary(g) ==
  /\ At(g, "remove-binary")
  /\ \/ /\ binaries' = [p \in DOMAIN binaries \ {TestPath(Package(g))} |-> binaries[p]]
        /\ Succeed(g, Empty, <<>>)
     \/ Fail(g, Empty) /\ UNCHANGED binaries
  /\ UNCHANGED <<goFixed, jsonFile, ran>>

(* `go test -c` makes no executable for a package without tests.           *)
Compile(g) ==
  /\ At(g, "compile")
  /\ IF Package(g) \in goTask.tested
     THEN Succeed(g, Empty, <<>>) /\ binaries' = Update(binaries, TestPath(Package(g)), Compiled(g))
     ELSE Succeed(g, <<"no test files">>, <<>>) /\ UNCHANGED binaries
  /\ UNCHANGED <<jsonFile, ran>>

Chmod(g) ==
  /\ At(g, "chmod")
  /\ IF TestPath(Package(g)) \in DOMAIN binaries THEN Succeed(g, Empty, <<>>) ELSE Fail(g, Empty)
  /\ UNCHANGED goVars

PlanRun(g) ==
  /\ At(g, "plan-run")
  /\ LET c == COMPILE(Package(g))
         none == c \in DOMAIN replace[g] /\ replace[g][c].data = <<"no test files">>
     IN Succeed(g, Empty, IF none THEN <<>> ELSE TestSpecs(Package(g)))
  /\ UNCHANGED goVars

RunTest(g) ==
  /\ At(g, "run-test") /\ TestPath(Package(g)) \in DOMAIN binaries
  /\ ran' = Update(ran, <<g, Package(g)>>, binaries[TestPath(Package(g))])
  /\ Succeed(g, <<"output", g, Package(g)>>, <<>>) \/ Fail(g, <<"output", g, Package(g)>>)
  /\ UNCHANGED <<goFixed, binaries, jsonFile>>

PlanJson(g) ==
  /\ At(g, "plan-json")
  /\ IF RESULT(Package(g)) \in DOMAIN replace[g]
     THEN Succeed(g, Empty, JsonSpecs(Package(g))) ELSE Fail(g, Empty)
  /\ UNCHANGED goVars

Test2Json(g) == At(g, "test2json") /\ Succeed(g, Arg(g, 1), <<>>) /\ UNCHANGED goVars

(* The file is written anew for every package that has passed; a write     *)
(* that fails leaves it as it was or torn.                                 *)
WriteJson(g) ==
  /\ At(g, "write-json")
  /\ \/ jsonFile' = Arg(g, 1) /\ Succeed(g, Empty, <<>>)
     \/ jsonFile' \in {jsonFile, <<"torn">>} /\ Fail(g, Empty)
  /\ UNCHANGED <<goFixed, binaries, ran>>

GoCommands == {"go-build", "list-module", "compile", "run-test", "test2json"}

GoCommandFails(g) ==
  /\ stage[g] = "running" /\ Current(g).op \in GoCommands
  /\ Fail(g, Empty) \/ NoToolCmd(g)
  /\ UNCHANGED goVars

GoStep(g) ==
  \/ GoBuild(g) /\ UNCHANGED goFixed
  \/ ListModule(g) \/ ListPackages(g) \/ Plan(g) \/ RemoveBinary(g)
  \/ Compile(g) /\ UNCHANGED goFixed
  \/ Chmod(g) \/ PlanRun(g) \/ RunTest(g)
  \/ PlanJson(g) \/ Test2Json(g) \/ WriteJson(g) \/ GoCommandFails(g)

=============================================================================
