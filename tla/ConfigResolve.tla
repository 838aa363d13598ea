--------------------------- MODULE ConfigResolve ----------------------------
(***************************************************************************)
(* What is made of the config once it is read: the options, environment    *)
(* and values of the context, the tools with the tasks each of them has    *)
(* (Config.Resolve, pkg/conf/config.go), and the task that is then run,    *)
(* with the tasks its actions refer to.                                    *)
(*                                                                         *)
(* Groups of tasks and kinds of tools are kept in Go maps and gone through *)
(* in any order.  A value of the environment is a literal, or refers to    *)
(* another variable by rendering.                                          *)
(***************************************************************************)
EXTENDS ConfigRead

VARIABLES
  globalEnv,  \* dukkha's own variables, which nothing overrides
  env,        \* the other variables
  values,     \* the global values
  cacheDir,   \* the cache dir that was set
  left,       \* the groups of tasks, or kinds of tools, not gone through yet
  tool,       \* the tool gone to: its kind and its place there
  toolTasks,  \* <<kind, name>> -> its tasks; "" is the name of no tool
  tools,      \* <<kind, name>> -> the task of each task key
  ran         \* the tasks run: what was asked for, then what each refers to

ctxVars == <<globalEnv, env, values, cacheDir, left, tool, toolTasks, tools, ran>>
vars == <<readVars, ctxVars>>

Put(f, k, v) == Over([x \in {k} |-> v], f)

DEFAULT_CACHE_DIR == "default cache dir"

(***************************************************************************)
(* The context                                                             *)
(***************************************************************************)

(* contextRendering.Get: dukkha's own variables come first.                *)
Lookup(n) ==
  CASE n \in DOMAIN globalEnv -> globalEnv[n]
    [] n \notin DOMAIN globalEnv /\ n \in DOMAIN env -> env[n]
    [] n \notin DOMAIN globalEnv \cup DOMAIN env /\ n \in DOMAIN values -> values[n]
    [] OTHER -> Unset

(* Each, and Env, which is what commands are given.                        *)
Each == Over(globalEnv, Over(env, values))

Rendered(v) == IF v.ref = Unset THEN v.lit ELSE Lookup(v.ref)

NoTool == [kind |-> "", at |-> 0]

Init ==
  /\ ReadInit
  /\ globalEnv = setup.globalEnv /\ env = setup.osEnv /\ values = <<>> /\ cacheDir = Unset
  /\ left = {} /\ tool = NoTool /\ toolTasks = <<>> /\ tools = <<>> /\ ran = <<>>

(***************************************************************************)
(* Global options                                                          *)
(***************************************************************************)

AllRead ==
  /\ phase = "reading" /\ todo = <<>>
  /\ phase' = "env"
  /\ UNCHANGED <<setup, todo, visited, config, renderers, shells, read, merged, ctxVars>>

Goto(p) == phase' = p /\ UNCHANGED <<setup, todo, visited, renderers, shells, read, merged>>

(* ResolveEnv, for one entry: what comes later can refer to it.            *)
AddEnv(e) == env' = Put(env, e.name, Rendered(e.value))

ResolveEnv ==
  /\ phase = "env" /\ config.env # <<>>
  /\ AddEnv(Head(config.env))
  /\ config' = [config EXCEPT !.env = Tail(@)]
  /\ Goto("env")
  /\ UNCHANGED <<globalEnv, values, cacheDir, left, tool, toolTasks, tools, ran>>

(* What is rendered takes the place of a literal, unless it is empty.      *)
Resolved(option) == IF Rendered(option) = Unset THEN option.lit ELSE Rendered(option)

(* The cache dir, the branch and then the values are set.                  *)
SetOptions ==
  /\ phase = "env" /\ config.env = <<>>
  /\ cacheDir' = IF Resolved(config.cacheDir) = Unset THEN DEFAULT_CACHE_DIR ELSE Resolved(config.cacheDir)
  /\ globalEnv' = [globalEnv EXCEPT !["GIT_DEFAULT_BRANCH"] =
                     IF Resolved(config.branch) = Unset THEN @ ELSE Resolved(config.branch)]
  /\ values' = Over(config.values, values)
  /\ left' = DOMAIN config.tasks
  /\ Goto(IF setup.needTasks THEN "tasks" ELSE "ready")
  /\ UNCHANGED <<config, env, tool, toolTasks, tools, ran>>

(***************************************************************************)
(* Tasks and tools                                                         *)
(***************************************************************************)

TasksOf(k) == IF k \in DOMAIN toolTasks THEN toolTasks[k] ELSE <<>>
AddToolSpecificTasks(k, tasks) == toolTasks' = Put(toolTasks, k, TasksOf(k) \o tasks)

(* A group is <<tool kind, tool name, task kind>>.  A task without a name  *)
(* has no place in the cache: TaskCacheFS panics.                          *)
AddTasks ==
  /\ phase = "tasks"
  /\ \E group \in left :
       LET tasks == config.tasks[group]
       IN IF \E i \in DOMAIN tasks : tasks[i].name = Unset
          THEN Goto("panicked") /\ UNCHANGED <<left, toolTasks>>
          ELSE /\ IF tasks = <<>> THEN UNCHANGED toolTasks
                  ELSE AddToolSpecificTasks(<<group[1], group[2]>>, tasks)
               /\ left' = left \ {group}
               /\ Goto("tasks")
  /\ UNCHANGED <<config, globalEnv, env, values, cacheDir, tool, tools, ran>>

TasksAdded ==
  /\ phase = "tasks" /\ left = {}
  /\ left' = DOMAIN config.tools
  /\ Goto("tools")
  /\ UNCHANGED <<config, globalEnv, env, values, cacheDir, tool, toolTasks, tools, ran>>

NextKind ==
  /\ phase = "tools" /\ tool = NoTool
  /\ IF left = {} THEN Goto("ready") /\ UNCHANGED <<left, tool>>
     ELSE /\ \E kind \in left : tool' = [kind |-> kind, at |-> 1] /\ left' = left \ {kind}
          /\ Goto("tools")
  /\ UNCHANGED <<config, globalEnv, env, values, cacheDir, toolTasks, tools, ran>>

(* The last of some numbers; 0 if there is none.                           *)
LastOf(S) == IF S = {} THEN 0 ELSE CHOOSE i \in S : \A j \in S : j <= i

(* BaseTool.AddTasks: of tasks with the same key the last is kept.         *)
TaskTable(tasks) ==
  LET Key(i) == <<tasks[i].kind, tasks[i].name>>
  IN [k \in {Key(i) : i \in DOMAIN tasks} |-> tasks[LastOf({i \in DOMAIN tasks : Key(i) = k})].id]

(* The tasks that name no tool are for every tool of the kind, and come    *)
(* after its own.                                                          *)
MutAdmitted(key) == TasksOf(<<key[1], Unset>>) \o TasksOf(key)
Admitted(key) == TasksOf(key) \o TasksOf(<<key[1], Unset>>)

AddTool ==
  /\ phase = "tools" /\ tool # NoTool
  /\ LET names == config.tools[tool.kind]
         key == <<tool.kind, names[tool.at]>>
     IN IF tool.at > Len(names)
        THEN tool' = NoTool /\ Goto("tools") /\ UNCHANGED <<toolTasks, tools>>
        ELSE IF names[tool.at] = Unset \/ \E i \in 1..(tool.at - 1) : names[i] = names[tool.at]
        THEN Goto("failed") /\ UNCHANGED <<tool, toolTasks, tools>>
        ELSE /\ toolTasks' = Put(toolTasks, key, Admitted(key))
             /\ tools' = Put(tools, key, TaskTable(Admitted(key)))
             /\ tool' = [tool EXCEPT !.at = @ + 1]
             /\ Goto("tools")
  /\ UNCHANGED <<config, globalEnv, env, values, cacheDir, left, ran>>

(* A field cannot be resolved, a tool or a task not be initialised.        *)
ResolveFails ==
  /\ phase \in {"env", "tasks", "tools"}
  /\ Goto("failed")
  /\ UNCHANGED <<config, ctxVars>>

(***************************************************************************)
(* What is run                                                             *)
(***************************************************************************)

(* A reference without the name of a tool means the tool that has the name *)
(* of the current one, whatever its kind.                                  *)
Referenced(r, current) == <<r.kind, IF r.tool = Unset THEN current ELSE r.tool>>

Current == IF ran = <<>> THEN Unset ELSE Last(ran).tool[2]

(* Tool.Run, for the command line, then GetTool and GetTask for actions.   *)
RunTask ==
  /\ phase = "ready" /\ setup.needTasks /\ Len(ran) < Len(setup.run)
  /\ LET r == setup.run[Len(ran) + 1]
         key == Referenced(r, Current)
     IN IF key \in DOMAIN tools /\ r.task \in DOMAIN tools[key]
        THEN /\ ran' = Append(ran, [tool |-> key, task |-> r.task, id |-> tools[key][r.task]])
             /\ Goto("ready")
        ELSE Goto("failed") /\ UNCHANGED ran
  /\ UNCHANGED <<config, globalEnv, env, values, cacheDir, left, tool, toolTasks, tools>>

Done ==
  \/ phase \in {"failed", "panicked"}
  \/ phase = "ready" /\ (setup.needTasks => Len(ran) = Len(setup.run))

Step ==
  \/ ReadStep /\ UNCHANGED ctxVars
  \/ AllRead \/ ResolveEnv \/ SetOptions \/ AddTasks \/ TasksAdded
  \/ NextKind \/ AddTool \/ ResolveFails \/ RunTask

Terminated == Done /\ UNCHANGED vars

Next == Step \/ Terminated

(* The process is one goroutine: it goes on as long as it can.             *)
Spec == Init /\ [][Next]_vars /\ WF_vars(Step)

(***************************************************************************)
(* Properties                                                              *)
(***************************************************************************)

(* The files a file system, and the include lists in it, lead to from the  *)
(* command line.  An include is relative to the directory of its file.     *)
FilesAt(real) == IF IsFile(real) THEN {real} ELSE {real \o f : f \in ToSet(FilesIn(real))}

IncludedFrom(real) ==
  LET Texts(docs) == docs \o FlattenSeq(FlattenSeq(
                       [i \in DOMAIN docs |-> [j \in DOMAIN docs[i].include |-> docs[i].include[j].text]]))
      docs == Texts(Texts(setup.fs[real].docs))
      paths == UNION {{docs[i].include[j].path : j \in DOMAIN docs[i].include} : i \in DOMAIN docs}
      At(p) == Clean(IF IsAbs(p) THEN p ELSE Front(real) \o p)
  IN UNION {IF Last(p) = "*" THEN UNION {FilesAt(Front(At(p)) \o c) : c \in ToSet(Children(Front(At(p))))}
            ELSE FilesAt(At(p)) : p \in paths \ {<<>>}}

Reachable ==
  LET More(S, n) == S \cup UNION {IncludedFrom(f) : f \in S}
  IN FoldLeft(More, UNION {FilesAt(Real(t)) : t \in ToSet(setup.targets)},
              [n \in 1..Cardinality(DOMAIN setup.fs) |-> n])

(* All files are named relative to the working directory, in one way.      *)
OneSpelling ==
  /\ \A t \in ToSet(setup.targets) : ~IsAbs(t) /\ Clean(t) = t
  /\ \A f \in DOMAIN setup.fs : \A i \in DOMAIN setup.fs[f].docs :
       \A inc \in ToSet(setup.fs[f].docs[i].include) : ~IsAbs(inc.path)

(* Reading ends, whatever includes what, with no path read twice; nothing  *)
(* that is included has been left out, nothing else been read; a file is   *)
(* merged once, provided it has one name.                                  *)
IncludesRead ==
  /\ <>Done
  /\ []ReadOnce
  /\ [](phase \notin {"reading", "failed"} =>
          /\ {Real(f) : f \in ToSet(read)} = Reachable
          /\ OneSpelling => Cardinality(Reachable) = Len(read))

EnvEntries == FlattenSeq([i \in DOMAIN merged |-> merged[i].env])

(* What a value is after the first n entries, from what they made of their *)
(* variables.                                                              *)
After(n, made, v) ==
  LET last == LastOf({i \in 1..n : EnvEntries[i].name = v.ref})
  IN CASE v.ref = Unset -> v.lit
       [] v.ref # Unset /\ v.ref \in DOMAIN setup.globalEnv -> setup.globalEnv[v.ref]
       [] v.ref \notin DOMAIN setup.globalEnv \cup {Unset} /\ last # 0 -> made[last]
       [] OTHER -> IF v.ref \in DOMAIN setup.osEnv THEN setup.osEnv[v.ref] ELSE Unset

Made == LET made[i \in DOMAIN EnvEntries] == After(i - 1, made, EnvEntries[i].value) IN made

Seen(v) == After(Len(EnvEntries), Made, v)

(* The option x: as the last document with a rendering suffix for it has   *)
(* it, whatever comes later without one; if that is nothing, as the last   *)
(* of the others has it.                                                   *)
Literals(x) == {i \in DOMAIN merged : merged[i][x].lit # Unset}
Suffixed(x) == {i \in DOMAIN merged : merged[i][x].ref # Unset}

Wanted(x) ==
  LET lit == LastOf(Literals(x))
      ref == LastOf(Suffixed(x))
  IN IF ref # 0 /\ Seen(Ref(merged[ref][x].ref)) # Unset THEN Seen(Ref(merged[ref][x].ref))
     ELSE IF lit # 0 THEN merged[lit][x].lit ELSE Unset

OptionsKept ==
  /\ cacheDir = IF Wanted("cacheDir") = Unset THEN DEFAULT_CACHE_DIR ELSE Wanted("cacheDir")
  /\ Wanted("branch") # Unset => globalEnv["GIT_DEFAULT_BRANCH"] = Wanted("branch")
  /\ \A e \in ToSet(EnvEntries) : e.name \notin DOMAIN globalEnv \cup {Unset} => Each[e.name] = Seen(Ref(e.name))
  /\ \A g \in DOMAIN setup.globalEnv \ {"GIT_DEFAULT_BRANCH"} : Lookup(g) = setup.globalEnv[g]
  /\ \A v \in DOMAIN values :
       values[v] = merged[LastOf({i \in DOMAIN merged : v \in DOMAIN merged[i].values})].values[v]

(* The tasks all documents have in a group, in the order they were merged. *)
InGroup(g) == FlattenSeq([i \in DOMAIN merged |-> IF g \in DOMAIN merged[i].tasks THEN merged[i].tasks[g] ELSE <<>>])
OfKind(k) == FlattenSeq([i \in DOMAIN merged |-> IF k \in DOMAIN merged[i].tools THEN merged[i].tools[k] ELSE <<>>])

(* The task a tool has under a name: of those for every tool of its kind   *)
(* the last; if there is none, the last of its own.                        *)
TaskFor(key, task) ==
  LET Named(g) == LastOf({i \in DOMAIN InGroup(g) : InGroup(g)[i].name = task[2]})
      all == <<key[1], Unset, task[1]>>
      own == <<key[1], key[2], task[1]>>
  IN IF Named(all) # 0 THEN InGroup(all)[Named(all)].id
     ELSE IF Named(own) # 0 THEN InGroup(own)[Named(own)].id ELSE Unset

(* What a program that has come to run its tasks runs them with depends on *)
(* the order of the documents alone, not on that of any map: each value as *)
(* it was set last, each option too, those with a rendering suffix before  *)
(* the others; each variable as the entries before it made it, dukkha's    *)
(* own unchanged; each tool once and with all its tasks; and a reference   *)
(* without a tool's name stays with the name it came from.                 *)
ConfigResolved ==
  phase = "ready" =>
    /\ OptionsKept
    /\ setup.needTasks =>
         /\ \A k \in UNION {DOMAIN merged[i].tools : i \in DOMAIN merged} :
              /\ IsInjective(OfKind(k)) /\ Unset \notin ToSet(OfKind(k))
              /\ \A n \in ToSet(OfKind(k)) : \A t \in DOMAIN tools[<<k, n>>] :
                   tools[<<k, n>>][t] = TaskFor(<<k, n>>, t)
         /\ \A g \in UNION {DOMAIN merged[i].tasks : i \in DOMAIN merged} : \A t \in ToSet(InGroup(g)) :
              \A n \in ToSet(OfKind(g[1])) : g[2] \in {Unset, n} => <<t.kind, t.name>> \in DOMAIN tools[<<g[1], n>>]
         /\ \A k \in DOMAIN ran :
              LET named == LastOf({i \in 1..k : setup.run[i].tool # Unset})
              IN /\ ran[k].tool = <<setup.run[k].kind, setup.run[named].tool>>
                 /\ ran[k].id = TaskFor(ran[k].tool, ran[k].task)

=============================================================================
