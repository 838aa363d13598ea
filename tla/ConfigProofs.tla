---------------------------- MODULE ConfigProofs ----------------------------
(***************************************************************************)
(* Proofs about ConfigRead and ConfigResolve, for any file system, include *)
(* lists and command line.                                                 *)
(*                                                                         *)
(* No path is opened twice: the part of IncludesRead that is about safety  *)
(* of the reader itself.  It is what bounds the reading of files that      *)
(* include each other, as there are only so many paths.                    *)
(*                                                                         *)
(* What a program that has come to run its tasks has, is what the order of *)
(* the documents calls for (ConfigResolved), whatever the order in which   *)
(* the maps are gone through.  While documents are read, the config is     *)
(* what those merged amount to; while its entries are resolved, the        *)
(* environment is what those before them made; while groups and tools are  *)
(* gone through, the table of each list of tasks is made of the groups     *)
(* that are done.                                                          *)
(***************************************************************************)
EXTENDS ConfigResolve, TLAPS, FiniteSetTheorems, SequenceTheorems, WellFoundedInduction

(***************************************************************************)
(* No path is read twice                                                   *)
(***************************************************************************)

(* The files read are the visited ones, each at one place of the list.     *)
ReadInv == read \in Seq(visited) /\ ReadOnce

(* A path that is not in a list can be put at its end.                     *)
LEMMA AppendNew ==
  ASSUME NEW S, NEW s \in Seq(S), NEW x, x \notin S, IsInjective(s), ToSet(s) = S
  PROVE  LET t == Append(s, x)
         IN t \in Seq(S \cup {x}) /\ IsInjective(t) /\ ToSet(t) = S \cup {x}
<1> DEFINE t == Append(s, x)
<1>1. s \in Seq(S \cup {x})
  OBVIOUS
<1>2. t \in Seq(S \cup {x}) /\ Len(t) = Len(s) + 1 /\ DOMAIN t = 1..(Len(s) + 1)
  BY <1>1
<1>3. \A i \in 1..Len(s) : t[i] = s[i] /\ t[i] \in S
  OBVIOUS
<1>4. t[Len(s) + 1] = x
  OBVIOUS
<1>5. IsInjective(t)
  BY <1>2, <1>3, <1>4 DEF IsInjective
<1>6. ToSet(t) = S \cup {x}
  <2>1. ASSUME NEW y \in S PROVE y \in ToSet(t)
    <3>1. PICK i \in 1..Len(s) : s[i] = y
      BY DEF ToSet
    <3> QED
      BY <3>1, <1>2, <1>3 DEF ToSet
  <2>2. x \in ToSet(t)
    BY <1>2, <1>4 DEF ToSet
  <2>3. ToSet(t) \subseteq S \cup {x}
    BY <1>2, <1>3, <1>4 DEF ToSet
  <2> QED
    BY <2>1, <2>2, <2>3
<1> QED
  BY <1>2, <1>5, <1>6

(* Nothing has been read at first.                                         *)
LEMMA InitReadInv == Init => ReadInv
  BY DEF Init, ReadInit, ReadInv, ReadOnce, IsInjective, ToSet

(* A file is opened only when its path has not been visited, and is then   *)
(* put down in both lists; nothing else touches them.                      *)
LEMMA StepReadInv == ReadInv /\ [Next]_vars => ReadInv'
<1> SUFFICES ASSUME ReadInv, [Next]_vars PROVE ReadInv'
  OBVIOUS
<1>1. CASE ReadFile
  <2>1. CASE UNCHANGED <<visited, read>>
    BY <2>1 DEF ReadInv, ReadOnce
  <2>2. CASE ~UNCHANGED <<visited, read>>
    <3> DEFINE file == Head(todo).path
    <3>1. file \notin visited /\ visited' = visited \cup {file} /\ read' = Append(read, file)
      BY <1>1, <2>2 DEF ReadFile
    <3> QED
      BY <3>1, AppendNew DEF ReadInv, ReadOnce
  <2> QED
    BY <2>1, <2>2
<1>2. CASE ~ReadFile
  <2>1. UNCHANGED <<visited, read>>
    BY <1>2 DEF Next, Step, ReadStep, Terminated, vars, readVars, ReadTarget, LoadDoc, DocsLoaded,
       HandleInclude, ReadFails, Failed, AllRead, ResolveEnv, SetOptions, AddTasks, TasksAdded,
       NextKind, AddTool, ResolveFails, RunTask, Goto
  <2> QED
    BY <2>1 DEF ReadInv, ReadOnce
<1> QED
  BY <1>1, <1>2

(* No path is read twice, whatever includes what and however it is named   *)
(* (read_config.go:90): of the files of IncludesRead, each is opened once. *)
THEOREM NoPathReadTwice == Spec => []ReadOnce
<1>1. Init => ReadInv
  BY InitReadInv
<1>2. ReadInv /\ [Next]_vars => ReadInv'
  BY StepReadInv
<1>3. ReadInv => ReadOnce
  BY DEF ReadInv
<1> QED
  BY <1>1, <1>2, <1>3, PTL DEF Spec

-----------------------------------------------------------------------------

(***************************************************************************)
(* The invariant                                                           *)
(***************************************************************************)

(* What is left to read is a list of calls; documents are read from it.    *)
CallTyped(c) ==
  /\ c.call = "docs" => /\ c.docs \in Seq(Documents) /\ IsList(c.include)
                        /\ \A i \in DOMAIN c.include : c.include[i].text \in Seq(Documents)
  /\ c.call = "include" => c.inc.text \in Seq(Documents)

TodoTyped == IsList(todo) /\ \A i \in DOMAIN todo : CallTyped(todo[i])

MergedTyped == IsList(merged) /\ \A i \in DOMAIN merged : merged[i] \in {d.config : d \in Documents}

(* The config is what the documents that were merged amount to.            *)
Options == {"cacheDir", "branch"}
With(v) == {i \in DOMAIN merged : v \in DOMAIN merged[i].values}

OptionsMerged ==
  /\ \A x \in Options :
       /\ config[x].lit = IF LastOf(Literals(x)) = 0 THEN Unset ELSE merged[LastOf(Literals(x))][x].lit
       /\ config[x].ref = IF LastOf(Suffixed(x)) = 0 THEN Unset ELSE merged[LastOf(Suffixed(x))][x].ref
  /\ \A v \in DOMAIN config.values :
       With(v) # {} /\ config.values[v] = merged[LastOf(With(v))].values[v]

ToolsMerged ==
  /\ DOMAIN config.tools = UNION {DOMAIN merged[i].tools : i \in DOMAIN merged}
  /\ \A k \in DOMAIN config.tools : config.tools[k] = OfKind(k) /\ IsList(OfKind(k))

TasksMerged ==
  /\ DOMAIN config.tasks = UNION {DOMAIN merged[i].tasks : i \in DOMAIN merged}
  /\ \A g \in DOMAIN config.tasks :
       /\ config.tasks[g] = InGroup(g) /\ IsList(InGroup(g)) /\ g = <<g[1], g[2], g[3]>>
       /\ \A i \in DOMAIN InGroup(g) : InGroup(g)[i].kind = g[3]

EnvMerged == IsList(EnvEntries)

ConfigShape == DOMAIN config = {"cacheDir", "branch", "env", "values", "tools", "tasks"}

ReadTyped == setup \in Setups /\ TodoTyped /\ MergedTyped

MergedInv ==
  /\ ConfigShape /\ OptionsMerged /\ ToolsMerged /\ TasksMerged /\ EnvMerged
  /\ phase = "reading" => config.env = EnvEntries

(* The entries before the ones left have made their variables what they    *)
(* are.                                                                    *)
Before(n, name) == {i \in 1..n : EnvEntries[i].name = name}

MadeOf(n) ==
  /\ DOMAIN env = DOMAIN setup.osEnv \cup {EnvEntries[i].name : i \in 1..n}
  /\ \A x \in DOMAIN env :
       env[x] = IF LastOf(Before(n, x)) # 0 THEN Made[LastOf(Before(n, x))] ELSE setup.osEnv[x]

EnvMade ==
  \E n \in 0..Len(EnvEntries) : config.env = SubSeq(EnvEntries, n + 1, Len(EnvEntries)) /\ MadeOf(n)

(* The list T is that of the tasks of groups of W that name the tool.      *)
Table(g) == TaskTable(config.tasks[g])

HasTasks(T, key, W) ==
  /\ IsList(T)
  /\ \A t \in DOMAIN TaskTable(T) :
       LET g == <<key[1], key[2], t[1]>>
       IN g \in W /\ t \in DOMAIN Table(g) /\ TaskTable(T)[t] = Table(g)[t]
  /\ \A g \in W : <<g[1], g[2]>> = key => DOMAIN Table(g) \subseteq DOMAIN TaskTable(T)

ToolKeys == {<<g[1], g[2]>> : g \in DOMAIN config.tasks}

TasksAdding ==
  /\ left \subseteq DOMAIN config.tasks /\ DOMAIN toolTasks \subseteq ToolKeys
  /\ \A key \in ToolKeys : HasTasks(TasksOf(key), key, DOMAIN config.tasks \ left)

(* The tools that were added.                                              *)
Added(k, i) == tool = NoTool \/ tool.kind # k \/ i < tool.at

AddedTools == UNION {{<<k, config.tools[k][i]>> : i \in {i \in DOMAIN config.tools[k] : Added(k, i)}} : k \in DOMAIN config.tools \ left}

(* A tool's table has the task of every group for it, the one for all      *)
(* tools if there are both.                                                *)
ToolTable(key, table) ==
  /\ \A t \in DOMAIN table :
       LET all == <<key[1], Unset, t[1]>>
           own == <<key[1], key[2], t[1]>>
       IN \/ all \in DOMAIN config.tasks /\ t \in DOMAIN Table(all) /\ table[t] = Table(all)[t]
          \/ /\ ~(all \in DOMAIN config.tasks /\ t \in DOMAIN Table(all))
             /\ own \in DOMAIN config.tasks /\ t \in DOMAIN Table(own) /\ table[t] = Table(own)[t]
  /\ \A g \in DOMAIN config.tasks : g[1] = key[1] /\ g[2] \in {Unset, key[2]} => DOMAIN Table(g) \subseteq DOMAIN table

NamesDistinct ==
  \A k \in DOMAIN config.tools \ left : \A i \in DOMAIN config.tools[k] :
    Added(k, i) => config.tools[k][i] # Unset /\ \A j \in 1..(i - 1) : config.tools[k][j] # config.tools[k][i]

ToolsAdding ==
  /\ left \subseteq DOMAIN config.tools
  /\ tool = NoTool \/ (tool = [kind |-> tool.kind, at |-> tool.at] /\ tool.kind \in DOMAIN config.tools \ left
                       /\ tool.at \in 1..(Len(config.tools[tool.kind]) + 1))
  /\ NamesDistinct
  /\ DOMAIN tools = AddedTools /\ \A key \in DOMAIN tools : ToolTable(key, tools[key])
  /\ DOMAIN toolTasks \subseteq ToolKeys \cup DOMAIN tools
  /\ \A key \in ToolKeys \ DOMAIN tools : HasTasks(TasksOf(key), key, DOMAIN config.tasks)

(* Each task that was run was found where it was looked for.               *)
Named(k) == LastOf({i \in 1..k : setup.run[i].tool # Unset})

RanFound ==
  /\ IsList(ran)
  /\ \A k \in DOMAIN ran :
       /\ ran[k].tool = <<setup.run[k].kind, setup.run[Named(k)].tool>>
       /\ ran[k].tool \in DOMAIN tools /\ ran[k].task \in DOMAIN tools[ran[k].tool]
       /\ ran[k].id = tools[ran[k].tool][ran[k].task]

NothingResolved == globalEnv = setup.globalEnv /\ values = <<>> /\ toolTasks = <<>> /\ tools = <<>> /\ tool = NoTool

(* What holds in each phase.                                               *)
PhaseInv ==
  /\ phase \in {"reading", "env"} => NothingResolved
  /\ phase = "reading" => env = setup.osEnv
  /\ phase = "env" => EnvMade
  /\ phase \in {"tasks", "tools", "ready"} => OptionsKept
  /\ phase = "tasks" => TasksAdding /\ tools = <<>> /\ tool = NoTool
  /\ phase = "tools" \/ (phase = "ready" /\ setup.needTasks) => ToolsAdding
  /\ phase = "ready" /\ setup.needTasks => left = {} /\ tool = NoTool
  /\ phase \in {"reading", "env", "tasks", "tools"} => ran = <<>>
  /\ phase = "ready" => RanFound

ConfigInvariant == ReadTyped /\ MergedInv /\ PhaseInv

-----------------------------------------------------------------------------

(***************************************************************************)
(* Numbers, lists and tables                                               *)
(***************************************************************************)

(* A set of numbers that is not empty has a least one.                     *)
LEMMA LeastNumber ==
  ASSUME NEW S \in SUBSET Nat, S # {}
  PROVE  \E n \in S : \A m \in S : n <= m
<1>1. PICK n \in S : \A m \in S : ~(<<m, n>> \in OpToRel(<, Nat))
  BY NatLessThanWellFounded, WFMin
<1>2. \A m \in S : ~(m < n)
  BY <1>1 DEF OpToRel
<1> QED
  BY <1>2

(* The last of numbers up to n is the greatest of them.                    *)
LEMMA LastOfGreatest ==
  ASSUME NEW n \in Nat, NEW S, S \subseteq 1..n, S # {}
  PROVE  LastOf(S) \in S /\ \A j \in S : j <= LastOf(S)
<1> DEFINE R == {n - i : i \in S}
<1>0. \A i \in S : i \in 1..n /\ n - i \in Nat
  OBVIOUS
<1>1. R \in SUBSET Nat /\ R # {}
  BY <1>0
<1>2. PICK r \in R : \A m \in R : r <= m
  BY <1>1, LeastNumber
<1>3. PICK i \in S : r = n - i
  BY <1>2
<1>4. ASSUME NEW j \in S PROVE j <= i
  <2>1. r <= n - j
    BY <1>2
  <2> QED
    BY <1>0, <1>3, <2>1
<1> QED
  BY <1>4 DEF LastOf

(* The greatest of some numbers is the last.                               *)
LEMMA LastOfIs ==
  ASSUME NEW S \in SUBSET Nat, NEW x \in S, \A j \in S : j <= x
  PROVE  LastOf(S) = x
<1> DEFINE Greatest(i) == i \in S /\ \A j \in S : j <= i
<1>1. LastOf(S) = CHOOSE i : Greatest(i)
  BY DEF LastOf
<1>2. Greatest(x)
  OBVIOUS
<1>3. PICK y : y = CHOOSE i : Greatest(i)
  OBVIOUS
<1>4. Greatest(y)
  BY <1>2, <1>3
<1>5. y = x
  BY <1>4
<1> QED
  BY <1>1, <1>3, <1>5

(* It is 0 if there is none.                                               *)
LEMMA LastOfNone ==
  ASSUME NEW n \in Nat, NEW S, S \subseteq 1..n
  PROVE  (LastOf(S) = 0 <=> S = {}) /\ LastOf(S) \in 0..n
<1>1. CASE S = {}
  BY <1>1 DEF LastOf
<1>2. CASE S # {}
  <2>1. LastOf(S) \in S
    BY <1>2, LastOfGreatest
  <2>2. \A i \in S : i \in 1..n
    OBVIOUS
  <2>3. LastOf(S) \in 1..n
    BY <2>1, <2>2
  <2>4. LastOf(S) # 0 /\ LastOf(S) \in 0..n
    BY <2>3
  <2> QED
    BY <1>2, <2>4
<1> QED
  BY <1>1, <1>2

(* One more number is the last, or changes nothing.                        *)
LEMMA LastOfMore ==
  ASSUME NEW n \in Nat, NEW S, NEW T, S \subseteq 1..n, T \subseteq 1..(n + 1),
         \A i \in 1..n : i \in S <=> i \in T
  PROVE  LastOf(T) = IF n + 1 \in T THEN n + 1 ELSE LastOf(S)
<1>1. CASE n + 1 \in T
  BY <1>1, LastOfIs
<1>2. CASE n + 1 \notin T
  <2>1. \A i \in 1..(n + 1) : i # n + 1 => i \in 1..n
    OBVIOUS
  <2>2. \A i \in T : i \in S
    BY <1>2, <2>1
  <2>3. \A i \in S : i \in T
    OBVIOUS
  <2>4. T = S
    BY <2>2, <2>3
  <2> QED
    BY <1>2, <2>4
<1> QED
  BY <1>1, <1>2

-----------------------------------------------------------------------------

(* Lists                                                                   *)

(* What a list is: a function on the numbers up to its length.             *)
LEMMA ListFacts ==
  ASSUME NEW s, IsList(s)
  PROVE  /\ Len(s) \in Nat /\ DOMAIN s = 1..Len(s) /\ s = [i \in 1..Len(s) |-> s[i]]
         /\ \A S : (\A i \in DOMAIN s : s[i] \in S) => s \in Seq(S)
<1> DEFINE R == {s[i] : i \in DOMAIN s}
<1>1. s \in Seq(R)
  BY DEF IsList
<1> HIDE DEF R
<1>2. Len(s) \in Nat /\ DOMAIN s = 1..Len(s) /\ s = [i \in 1..Len(s) |-> s[i]]
  BY <1>1
<1>3. ASSUME NEW S, \A i \in DOMAIN s : s[i] \in S PROVE s \in Seq(S)
  BY <1>2, <1>3, SeqDef
<1> QED
  BY <1>2, <1>3

(* Sequences are lists.                                                    *)
LEMMA SeqIsList ==
  ASSUME NEW S, NEW s \in Seq(S)
  PROVE  IsList(s)
<1>1. Len(s) \in Nat /\ s = [i \in 1..Len(s) |-> s[i]] /\ DOMAIN s = 1..Len(s)
  OBVIOUS
<1> QED
  BY <1>1, SeqDef DEF IsList

(* So are functions on the numbers up to a number.                         *)
LEMMA FunctionIsList ==
  ASSUME NEW n \in Nat, NEW s, DOMAIN s = 1..n, s = [i \in 1..n |-> s[i]]
  PROVE  IsList(s) /\ Len(s) = n
<1> DEFINE R == {s[i] : i \in DOMAIN s}
<1>1. s \in [1..n -> R]
  OBVIOUS
<1>2. s \in Seq(R)
  BY <1>1, SeqDef
<1> QED
  BY <1>1, <1>2 DEF IsList

(* What is appended and joined to lists.                                   *)
LEMMA Joined ==
  ASSUME NEW s, NEW t, IsList(s), IsList(t)
  PROVE  /\ IsList(s \o t) /\ Len(s \o t) = Len(s) + Len(t) /\ DOMAIN (s \o t) = 1..(Len(s) + Len(t))
         /\ \A i \in 1..Len(s) : (s \o t)[i] = s[i]
         /\ \A i \in 1..Len(t) : (s \o t)[Len(s) + i] = t[i]
         /\ \A i \in 1..(Len(s) + Len(t)) : (s \o t)[i] = IF i <= Len(s) THEN s[i] ELSE t[i - Len(s)]
<1> DEFINE S == {s[i] : i \in DOMAIN s} \cup {t[i] : i \in DOMAIN t}
<1>1. s \in Seq(S) /\ t \in Seq(S)
  BY ListFacts
<1> HIDE DEF S
<1>2. s \o t \in Seq(S) /\ Len(s \o t) = Len(s) + Len(t) /\ Len(s) \in Nat /\ Len(t) \in Nat
  BY <1>1
<1>3. \A i \in 1..(Len(s) + Len(t)) : (s \o t)[i] = IF i <= Len(s) THEN s[i] ELSE t[i - Len(s)]
  BY <1>1
<1>4. DOMAIN (s \o t) = 1..(Len(s) + Len(t))
  BY <1>2
<1>5. IsList(s \o t)
  BY <1>2, SeqIsList
<1>6. /\ \A i \in 1..Len(s) : i \in 1..(Len(s) + Len(t)) /\ i <= Len(s)
      /\ \A i \in 1..Len(t) : /\ Len(s) + i \in 1..(Len(s) + Len(t)) /\ ~(Len(s) + i <= Len(s))
                             /\ Len(s) + i - Len(s) = i
  BY <1>2
<1>7. \A i \in 1..Len(s) : (s \o t)[i] = s[i]
  BY <1>3, <1>6
<1>8. \A i \in 1..Len(t) : (s \o t)[Len(s) + i] = t[i]
  BY <1>3, <1>6
<1> QED
  BY <1>2, <1>3, <1>4, <1>5, <1>7, <1>8

(* What appending does to a list.                                          *)
LEMMA Appended ==
  ASSUME NEW s, IsList(s), NEW x
  PROVE  /\ IsList(Append(s, x)) /\ Len(Append(s, x)) = Len(s) + 1
         /\ DOMAIN Append(s, x) = 1..(Len(s) + 1) /\ Append(s, x)[Len(s) + 1] = x
         /\ \A i \in 1..Len(s) : Append(s, x)[i] = s[i]
<1> DEFINE S == {s[i] : i \in DOMAIN s} \cup {x}
<1>1. s \in Seq(S) /\ x \in S
  BY ListFacts
<1> HIDE DEF S
<1>2. /\ Append(s, x) \in Seq(S) /\ Len(Append(s, x)) = Len(s) + 1 /\ Len(s) \in Nat
      /\ Append(s, x)[Len(s) + 1] = x /\ \A i \in 1..Len(s) : Append(s, x)[i] = s[i]
  BY <1>1
<1>3. IsList(Append(s, x))
  BY <1>2, SeqIsList
<1>4. DOMAIN Append(s, x) = 1..Len(Append(s, x))
  BY <1>2
<1> QED
  BY <1>2, <1>3, <1>4

(* Lists are the same if they have the same elements.                      *)
LEMMA SameList ==
  ASSUME NEW s, NEW t, IsList(s), IsList(t), Len(s) = Len(t), \A i \in 1..Len(s) : s[i] = t[i]
  PROVE  s = t
BY ListFacts

(* The recursive function of FlattenSeq, up to n.                          *)
Joins(seqs, n, f) == f = [i \in 1..n |-> IF i = 1 THEN seqs[i] ELSE f[i - 1] \o seqs[i]]

(* One place of the function that joins lists.                             *)
LEMMA JoinsAt ==
  ASSUME NEW seqs, NEW n, NEW f, Joins(seqs, n, f), NEW i \in 1..n
  PROVE  f[i] = IF i = 1 THEN seqs[i] ELSE f[i - 1] \o seqs[i]
BY DEF Joins

(* It exists: a prefix of it can always be extended.                       *)
LEMMA JoinsExist ==
  ASSUME NEW seqs, NEW n \in Nat
  PROVE  \E f : Joins(seqs, n, f)
<1> DEFINE None == {k \in Nat : ~\E f : Joins(seqs, k, f)}
<1> SUFFICES ASSUME None # {} PROVE FALSE
  OBVIOUS
<1>1. PICK k \in None : \A m \in None : k <= m
  BY LeastNumber
<1>2. CASE k = 0
  <2>1. Joins(seqs, 0, <<>>)
    BY DEF Joins
  <2> QED
    BY <1>2, <2>1
<1>3. CASE k > 0
  <2>1. k - 1 \in Nat /\ k - 1 \notin None
    BY <1>1, <1>3
  <2>2. PICK f : Joins(seqs, k - 1, f)
    BY <2>1
  <2> DEFINE v == IF k = 1 THEN seqs[k] ELSE f[k - 1] \o seqs[k]
             h == [i \in 1..k |-> IF i = k THEN v ELSE f[i]]
  <2>3. ASSUME NEW i \in 1..k PROVE h[i] = IF i = 1 THEN seqs[i] ELSE h[i - 1] \o seqs[i]
    <3>1. CASE i = k
      BY <3>1, <1>3
    <3>2. CASE i # k
      <4>1. i \in 1..(k - 1) /\ (i # 1 => i - 1 \in 1..(k - 1))
        BY <3>2, <1>1
      <4>2. f[i] = IF i = 1 THEN seqs[i] ELSE f[i - 1] \o seqs[i]
        BY <4>1, <2>2 DEF Joins
      <4> QED
        BY <4>1, <4>2, <3>2
    <3> QED
      BY <3>1, <3>2
  <2>4. h = [i \in 1..k |-> h[i]]
    OBVIOUS
  <2> HIDE DEF h
  <2>5. Joins(seqs, k, h)
    BY <2>3, <2>4 DEF Joins
  <2> QED
    BY <2>5
<1> QED
  BY <1>1, <1>2, <1>3

(* FlattenSeq is what it has at the end.                                   *)
LEMMA FlattenJoins ==
  ASSUME NEW seqs, IsList(seqs), Len(seqs) # 0
  PROVE  \E f : Joins(seqs, Len(seqs), f) /\ FlattenSeq(seqs) = f[Len(seqs)]
<1>1. \E f : Joins(seqs, Len(seqs), f)
  BY JoinsExist, ListFacts
<1> DEFINE c == CHOOSE f : Joins(seqs, Len(seqs), f)
<1>2. Joins(seqs, Len(seqs), c)
  BY <1>1
<1>3. FlattenSeq(seqs) = c[Len(seqs)]
  BY DEF FlattenSeq, Joins
<1> QED
  BY <1>2, <1>3

(* There is only one: the first that differed could not.                   *)
LEMMA JoinsOne ==
  ASSUME NEW s, NEW t, NEW m \in Nat, NEW n \in Nat, NEW f, NEW h, Joins(s, m, f), Joins(t, n, h),
         m <= n, \A i \in 1..m : s[i] = t[i]
  PROVE  \A i \in 1..m : f[i] = h[i]
<1> DEFINE Other == {i \in 1..m : f[i] # h[i]}
<1> SUFFICES ASSUME Other # {} PROVE FALSE
  OBVIOUS
<1>0. Other \in SUBSET Nat
  OBVIOUS
<1>1. PICK k \in Other : \A i \in Other : k <= i
  BY <1>0, LeastNumber
<1>2. k \in 1..m /\ k \in 1..n /\ s[k] = t[k] /\ f[k] # h[k]
  BY <1>1
<1>3. f[k] = IF k = 1 THEN s[k] ELSE f[k - 1] \o s[k]
  BY <1>2 DEF Joins
<1>4. h[k] = IF k = 1 THEN t[k] ELSE h[k - 1] \o t[k]
  BY <1>2 DEF Joins
<1>5. k # 1 => k - 1 \in 1..m /\ ~(k <= k - 1)
  BY <1>2
<1>6. k # 1 => f[k - 1] = h[k - 1]
  BY <1>1, <1>5
<1> QED
  BY <1>2, <1>3, <1>4, <1>6

(* One more list is joined at the end.                                     *)
LEMMA FlattenMore ==
  ASSUME NEW s, IsList(s), \A i \in DOMAIN s : IsList(s[i]), NEW x, IsList(x)
  PROVE  FlattenSeq(Append(s, x)) = FlattenSeq(s) \o x
<1> DEFINE t == Append(s, x)
<1>0. PICK n : n = Len(s)
  OBVIOUS
<1>1. /\ n \in Nat /\ IsList(t) /\ Len(t) = n + 1 /\ t[n + 1] = x /\ \A i \in 1..n : t[i] = s[i]
  BY <1>0, ListFacts, Appended
<1> HIDE DEF t
<1>2. PICK h : Joins(t, n + 1, h) /\ FlattenSeq(t) = h[n + 1]
  <2>1. Len(t) # 0
    BY <1>1
  <2> QED
    BY <1>1, <2>1, FlattenJoins
<1>3. h[n + 1] = IF n + 1 = 1 THEN x ELSE h[n + 1 - 1] \o x
  <2>1. n + 1 \in 1..(n + 1)
    BY <1>1
  <2>2. h[n + 1] = IF n + 1 = 1 THEN t[n + 1] ELSE h[n + 1 - 1] \o t[n + 1]
    <3>1. PICK p : p = n + 1
      OBVIOUS
    <3>2. Joins(t, p, h) /\ p \in 1..p
      BY <1>2, <2>1, <3>1
    <3>3. h[p] = IF p = 1 THEN t[p] ELSE h[p - 1] \o t[p]
      BY <3>2, JoinsAt
    <3> QED
      BY <1>1, <3>1, <3>3
  <2> QED
    BY <1>1, <2>2
<1>4. CASE n = 0
  <2>1. FlattenSeq(s) = s /\ s = <<>>
    <3>1. Len(s) = 0
      BY <1>0, <1>4
    <3>2. s = <<>>
      BY <3>1, ListFacts
    <3> QED
      BY <3>1, <3>2 DEF FlattenSeq
  <2>2. <<>> \o x = x
    <3>1. x \in Seq({x[i] : i \in DOMAIN x})
      BY DEF IsList
    <3> QED
      BY <3>1, ConcatEmptySeq
  <2> QED
    BY <1>2, <1>3, <1>4, <2>1, <2>2 DEF t
<1>5. CASE n # 0
  <2>1. PICK f : Joins(s, n, f) /\ FlattenSeq(s) = f[n]
    BY <1>0, <1>5, FlattenJoins
  <2>2. f[n] = h[n]
    BY <1>1, <1>2, <1>5, <2>1, JoinsOne
  <2>3. n + 1 # 1 /\ n + 1 - 1 = n
    BY <1>1, <1>5
  <2> QED
    BY <1>2, <1>3, <2>1, <2>2, <2>3 DEF t
<1> QED
  BY <1>4, <1>5

(* No lists make an empty one.                                             *)
LEMMA FlattenNone == FlattenSeq(<<>>) = <<>> /\ IsList(<<>>)
  BY DEF FlattenSeq, IsList

-----------------------------------------------------------------------------

(* Of one table after another the later counts.                            *)
LEMMA TaskTableFacts ==
  ASSUME NEW s, IsList(s)
  PROVE  /\ DOMAIN TaskTable(s) = {<<s[i].kind, s[i].name>> : i \in 1..Len(s)}
         /\ \A k \in DOMAIN TaskTable(s) : \E i \in 1..Len(s) :
              /\ <<s[i].kind, s[i].name>> = k /\ TaskTable(s)[k] = s[i].id
              /\ i = LastOf({j \in 1..Len(s) : <<s[j].kind, s[j].name>> = k})
              /\ \A j \in 1..Len(s) : <<s[j].kind, s[j].name>> = k => j <= i
<1> DEFINE Of(k) == {j \in 1..Len(s) : <<s[j].kind, s[j].name>> = k}
<1>1. Len(s) \in Nat /\ DOMAIN s = 1..Len(s)
  BY ListFacts
<1>2. DOMAIN TaskTable(s) = {<<s[i].kind, s[i].name>> : i \in 1..Len(s)}
  BY <1>1 DEF TaskTable
<1>3. ASSUME NEW k \in DOMAIN TaskTable(s)
      PROVE  \E i \in 1..Len(s) :
              /\ <<s[i].kind, s[i].name>> = k /\ TaskTable(s)[k] = s[i].id
              /\ i = LastOf(Of(k)) /\ \A j \in 1..Len(s) : <<s[j].kind, s[j].name>> = k => j <= i
  <2>1. Of(k) \subseteq 1..Len(s) /\ Of(k) # {}
    BY <1>2
  <2>2. PICK i : i = LastOf(Of(k))
    OBVIOUS
  <2>3. i \in Of(k) /\ \A j \in Of(k) : j <= i
    BY <1>1, <2>1, <2>2, LastOfGreatest
  <2>4. TaskTable(s)[k] = s[i].id
    BY <1>1, <1>2, <2>2 DEF TaskTable
  <2> QED
    BY <2>2, <2>3, <2>4
<1> QED
  BY <1>2, <1>3

(* The value is that of any task of the key with none after it.            *)
LEMMA TaskTableIs ==
  ASSUME NEW s, IsList(s), NEW i \in 1..Len(s), NEW k, k = <<s[i].kind, s[i].name>>,
         \A j \in 1..Len(s) : <<s[j].kind, s[j].name>> = k => j <= i
  PROVE  k \in DOMAIN TaskTable(s) /\ TaskTable(s)[k] = s[i].id
<1>1. k \in DOMAIN TaskTable(s)
  BY TaskTableFacts
<1>2. PICK m \in 1..Len(s) : /\ <<s[m].kind, s[m].name>> = k /\ TaskTable(s)[k] = s[m].id
                             /\ \A j \in 1..Len(s) : <<s[j].kind, s[j].name>> = k => j <= m
  BY <1>1, TaskTableFacts
<1>3. m = i
  BY <1>2, ListFacts
<1> QED
  BY <1>1, <1>2, <1>3

(* The table of two lists: the tasks of both, those of the second if both  *)
(* have them.                                                              *)
LEMMA TablesJoined ==
  ASSUME NEW s, NEW t, IsList(s), IsList(t)
  PROVE  /\ DOMAIN TaskTable(s \o t) = DOMAIN TaskTable(s) \cup DOMAIN TaskTable(t)
         /\ \A k \in DOMAIN TaskTable(s \o t) :
              TaskTable(s \o t)[k] = IF k \in DOMAIN TaskTable(t) THEN TaskTable(t)[k] ELSE TaskTable(s)[k]
<1>0. PICK u, n, m : u = s \o t /\ n = Len(s) /\ m = Len(t)
  OBVIOUS
<1>1. /\ n \in Nat /\ m \in Nat /\ IsList(u) /\ Len(u) = n + m
      /\ \A i \in 1..n : u[i] = s[i]
      /\ \A i \in 1..m : u[n + i] = t[i]
  BY <1>0, ListFacts, Joined
<1>2. ASSUME NEW i \in 1..(n + m) PROVE i \in 1..n \/ \E j \in 1..m : i = n + j
  <2>1. i > n => i - n \in 1..m /\ i = n + (i - n)
    BY <1>1
  <2> QED
    BY <1>1, <2>1
<1>3. \A i \in 1..n : i \in 1..(n + m)
  BY <1>1
<1>31. \A j \in 1..m : n + j \in 1..(n + m)
  BY <1>1
<1>4. DOMAIN TaskTable(s) = {<<s[i].kind, s[i].name>> : i \in 1..n}
  BY <1>0, TaskTableFacts
<1>5. DOMAIN TaskTable(t) = {<<t[i].kind, t[i].name>> : i \in 1..m}
  BY <1>0, TaskTableFacts
<1>6. DOMAIN TaskTable(u) = {<<u[i].kind, u[i].name>> : i \in 1..(n + m)}
  BY <1>1, TaskTableFacts
<1>7. \A k \in DOMAIN TaskTable(s) \cup DOMAIN TaskTable(t) : k \in DOMAIN TaskTable(u)
  <2>1. ASSUME NEW k \in DOMAIN TaskTable(s) PROVE k \in DOMAIN TaskTable(u)
    <3>1. PICK i \in 1..n : k = <<s[i].kind, s[i].name>>
      BY <1>4
    <3> QED
      BY <1>1, <1>3, <1>6, <3>1
  <2>2. ASSUME NEW k \in DOMAIN TaskTable(t) PROVE k \in DOMAIN TaskTable(u)
    <3>1. PICK i \in 1..m : k = <<t[i].kind, t[i].name>>
      BY <1>5
    <3> QED
      BY <1>1, <1>31, <1>6, <3>1
  <2> QED
    BY <2>1, <2>2
<1>8. ASSUME NEW k \in DOMAIN TaskTable(u) PROVE k \in DOMAIN TaskTable(s) \cup DOMAIN TaskTable(t)
  <2>1. PICK i \in 1..(n + m) : k = <<u[i].kind, u[i].name>>
    BY <1>6
  <2>2. CASE i \in 1..n
    BY <1>1, <1>4, <2>1, <2>2
  <2>3. ASSUME NEW j \in 1..m, i = n + j PROVE k \in DOMAIN TaskTable(t)
    <3>1. u[i] = t[j]
      BY <1>1, <2>3
    <3> QED
      BY <1>5, <2>1, <3>1
  <2> QED
    BY <1>2, <2>2, <2>3
<1>9. ASSUME NEW k \in DOMAIN TaskTable(t) PROVE TaskTable(u)[k] = TaskTable(t)[k]
  <2>1. PICK i \in 1..m : /\ <<t[i].kind, t[i].name>> = k /\ TaskTable(t)[k] = t[i].id
                          /\ \A j \in 1..m : <<t[j].kind, t[j].name>> = k => j <= i
    BY <1>0, TaskTableFacts
  <2>2. n + i \in 1..(n + m) /\ u[n + i] = t[i]
    BY <1>1, <1>31
  <2>3. ASSUME NEW j \in 1..(n + m), <<u[j].kind, u[j].name>> = k PROVE j <= n + i
    <3>1. CASE j \in 1..n
      BY <1>1, <3>1
    <3>2. ASSUME NEW l \in 1..m, j = n + l PROVE j <= n + i
      <4>1. l <= i
        BY <1>1, <2>1, <2>3, <3>2
      <4> QED
        BY <1>1, <3>2, <4>1
    <3> QED
      BY <1>2, <3>1, <3>2
  <2>4. TaskTable(u)[k] = u[n + i].id
    BY <1>1, <2>1, <2>2, <2>3, TaskTableIs
  <2> QED
    BY <2>1, <2>2, <2>4
<1>10. ASSUME NEW k \in DOMAIN TaskTable(s), k \notin DOMAIN TaskTable(t) PROVE TaskTable(u)[k] = TaskTable(s)[k]
  <2>1. PICK i \in 1..n : /\ <<s[i].kind, s[i].name>> = k /\ TaskTable(s)[k] = s[i].id
                          /\ \A j \in 1..n : <<s[j].kind, s[j].name>> = k => j <= i
    BY <1>0, TaskTableFacts
  <2>2. i \in 1..(n + m) /\ u[i] = s[i]
    BY <1>1, <1>3
  <2>3. ASSUME NEW j \in 1..(n + m), <<u[j].kind, u[j].name>> = k PROVE j <= i
    <3>1. \A l \in 1..m : j # n + l
      BY <1>1, <1>5, <1>10, <2>3
    <3> QED
      BY <1>1, <1>2, <2>1, <2>3, <3>1
  <2>4. TaskTable(u)[k] = u[i].id
    BY <1>1, <2>1, <2>2, <2>3, TaskTableIs
  <2> QED
    BY <2>1, <2>2, <2>4
<1>11. DOMAIN TaskTable(u) = DOMAIN TaskTable(s) \cup DOMAIN TaskTable(t)
  BY <1>7, <1>8
<1> QED
  BY <1>0, <1>9, <1>10, <1>11

(***************************************************************************)
(* Reading                                                                 *)
(***************************************************************************)

(* Putting the members of a finite set in order makes a list.              *)
LEMMA OrderedIsList ==
  ASSUME NEW S, IsFiniteSet(S)
  PROVE  IsList(InOrder(S))
<1>1. Cardinality(S) \in Nat
  BY FS_CardinalityType
<1>2. DOMAIN InOrder(S) = 1..Cardinality(S) /\ InOrder(S) = [i \in 1..Cardinality(S) |-> InOrder(S)[i]]
  BY DEF InOrder
<1> QED
  BY <1>1, <1>2, FunctionIsList

(* What a function makes of a finite set is finite.                        *)
LEMMA ImageFinite ==
  ASSUME NEW S, IsFiniteSet(S), NEW f, DOMAIN f = S
  PROVE  IsFiniteSet({f[x] : x \in S})
<1> DEFINE T == {f[x] : x \in S}
           h == [x \in S |-> f[x]]
<1>1. h \in Surjection(S, T)
  BY DEF Surjection
<1> QED
  BY <1>1, FS_Surjection

(* The files and directories that are found are lists.                     *)
LEMMA FoundLists ==
  ASSUME setup \in Setups
  PROVE  \A p : IsList(FilesIn(p)) /\ IsList(Children(p)) /\ IsList(Glob(p))
<1>1. IsFiniteSet(DOMAIN setup.fs)
  BY DocumentsAssumption
<1>2. ASSUME NEW p PROVE IsList(FilesIn(p))
  <2> DEFINE B == {f \in Below(p) : setup.fs[f].yaml}
  <2>1. B \subseteq DOMAIN setup.fs
    BY DEF Below
  <2>2. IsFiniteSet(B)
    BY <1>1, <2>1, FS_Subset
  <2> DEFINE h == [f \in B |-> SubSeq(f, Len(p) + 1, Len(f))]
  <2>3. IsFiniteSet({SubSeq(f, Len(p) + 1, Len(f)) : f \in B})
    <3>1. {SubSeq(f, Len(p) + 1, Len(f)) : f \in B} = {h[f] : f \in B} /\ DOMAIN h = B
      OBVIOUS
    <3> HIDE DEF h
    <3> QED
      BY <2>2, <3>1, ImageFinite
  <2> QED
    BY <2>3, OrderedIsList DEF FilesIn
<1>3. ASSUME NEW p PROVE IsList(Children(p))
  <2>1. Below(p) \subseteq DOMAIN setup.fs
    BY DEF Below
  <2>2. IsFiniteSet(Below(p))
    BY <1>1, <2>1, FS_Subset
  <2> DEFINE h == [f \in Below(p) |-> <<f[Len(p) + 1]>>]
  <2>3. IsFiniteSet({<<f[Len(p) + 1]>> : f \in Below(p)})
    <3>1. {<<f[Len(p) + 1]>> : f \in Below(p)} = {h[f] : f \in Below(p)} /\ DOMAIN h = Below(p)
      OBVIOUS
    <3> HIDE DEF h
    <3> QED
      BY <2>2, <3>1, ImageFinite
  <2> QED
    BY <2>3, OrderedIsList DEF Children
<1>4. ASSUME NEW p PROVE IsList(Glob(p))
  <2> DEFINE names == Children(Real(Front(p)))
             matches == [i \in DOMAIN names |-> Front(p) \o names[i]]
  <2>1. IsList(matches)
    <3>1. IsList(names)
      BY <1>3
    <3>2. Len(names) \in Nat /\ DOMAIN names = 1..Len(names)
      BY <3>1, ListFacts
    <3>3. DOMAIN matches = 1..Len(names) /\ matches = [i \in 1..Len(names) |-> matches[i]]
      BY <3>2
    <3> HIDE DEF matches
    <3> QED
      BY <3>2, <3>3, FunctionIsList
  <2>2. IsList(<<p>>)
    <3>1. <<p>> \in Seq({p})
      OBVIOUS
    <3> QED
      BY <3>1, SeqIsList
  <2>3. IsList(<<>>)
    BY FlattenNone
  <2>4. Glob(p) \in {matches, <<p>>, <<>>}
    BY DEF Glob
  <2> QED
    BY <2>1, <2>2, <2>3, <2>4
<1> QED
  BY <1>2, <1>3, <1>4

(* A call is replaced by the calls it makes.                               *)
LEMMA CallsTyped ==
  ASSUME TodoTyped, todo # <<>>, NEW calls, IsList(calls), \A i \in DOMAIN calls : CallTyped(calls[i]), Do(calls)
  PROVE  TodoTyped'
<1>1. Len(todo) \in Nat /\ Len(todo) # 0 /\ DOMAIN todo = 1..Len(todo)
  BY ListFacts DEF TodoTyped
<1> DEFINE S == {todo[i] : i \in DOMAIN todo}
           rest == Tail(todo)
<1>2. todo \in Seq(S)
  BY DEF TodoTyped, IsList
<1>3. rest \in Seq(S) /\ Len(rest) = Len(todo) - 1 /\ \A i \in 1..(Len(todo) - 1) : rest[i] = todo[i + 1]
  BY <1>1, <1>2
<1>4. IsList(rest)
  BY <1>3, SeqIsList
<1>5. \A i \in 1..Len(rest) : CallTyped(rest[i])
  BY <1>1, <1>3 DEF TodoTyped
<1> HIDE DEF rest
<1>6. /\ IsList(calls \o rest) /\ DOMAIN (calls \o rest) = 1..(Len(calls) + Len(rest))
      /\ \A i \in 1..(Len(calls) + Len(rest)) : (calls \o rest)[i] = IF i <= Len(calls) THEN calls[i] ELSE rest[i - Len(calls)]
  BY <1>4, Joined
<1>7. DOMAIN calls = 1..Len(calls) /\ Len(calls) \in Nat /\ Len(rest) \in Nat
  BY <1>4, ListFacts
<1>8. ASSUME NEW i \in 1..(Len(calls) + Len(rest)) PROVE CallTyped((calls \o rest)[i])
  <2>1. CASE i <= Len(calls)
    BY <1>6, <1>7, <2>1
  <2>2. CASE ~(i <= Len(calls))
    <3>1. i - Len(calls) \in 1..Len(rest)
      BY <1>7, <2>2
    <3> QED
      BY <1>5, <1>6, <2>2, <3>1
  <2> QED
    BY <2>1, <2>2
<1>9. todo' = calls \o rest
  BY DEF Do, rest
<1> QED
  BY <1>6, <1>8, <1>9 DEF TodoTyped

(* A single call is a list of calls.                                       *)
LEMMA OneCall ==
  ASSUME NEW c
  PROVE  IsList(<<c>>) /\ DOMAIN <<c>> = {1} /\ <<c>>[1] = c
<1>1. <<c>> \in Seq({c}) /\ DOMAIN <<c>> = {1} /\ <<c>>[1] = c
  OBVIOUS
<1> QED
  BY <1>1, SeqIsList

(* What each kind of call needs to be typed.                               *)
LEMMA CallKinds ==
  /\ \A p, x : CallTyped(Target(p, x)) /\ CallTyped(File(p))
  /\ \A docs, file, include : docs \in Seq(Documents) /\ IsList(include)
       /\ (\A i \in DOMAIN include : include[i].text \in Seq(Documents)) => CallTyped(Docs(docs, file, include))
  /\ \A inc, file : inc.text \in Seq(Documents) => CallTyped(Include(inc, file))
BY DEF CallTyped, Target, File, Docs, Include

(* A list made from a list.                                                *)
LEMMA MappedIsList ==
  ASSUME NEW s, IsList(s), NEW t, DOMAIN t = DOMAIN s, t = [i \in DOMAIN s |-> t[i]]
  PROVE  IsList(t) /\ Len(t) = Len(s)
BY ListFacts, FunctionIsList

(* What the first call is of.                                              *)
LEMMA FirstCall ==
  ASSUME TodoTyped, todo # <<>>
  PROVE  CallTyped(Head(todo))
<1>1. todo \in Seq({todo[i] : i \in DOMAIN todo})
  BY DEF TodoTyped, IsList
<1>2. 1 \in DOMAIN todo /\ Head(todo) = todo[1]
  BY <1>1
<1> QED
  BY <1>2 DEF TodoTyped

(* A target makes calls of files.                                          *)
LEMMA TargetTyped == ReadTyped /\ ReadTarget => TodoTyped'
<1> SUFFICES ASSUME ReadTyped, ReadTarget PROVE TodoTyped'
  OBVIOUS
<1> DEFINE t == Head(todo)
           real == Real(t.path)
           files == FilesIn(real)
           calls == [i \in DOMAIN files |-> File(Clean(t.path \o files[i]))]
<1>1. TodoTyped /\ todo # <<>>
  BY DEF ReadTyped, ReadTarget, Doing
<1>2. CASE Do(<<File(t.path)>>)
  BY <1>1, <1>2, OneCall, CallKinds, CallsTyped
<1>3. CASE Do(calls)
  <2>1. IsList(files)
    BY FoundLists DEF ReadTyped
  <2>2. IsList(calls) /\ \A i \in DOMAIN calls : calls[i] = File(Clean(t.path \o files[i]))
    <3>1. DOMAIN calls = DOMAIN files /\ calls = [i \in DOMAIN files |-> calls[i]]
      OBVIOUS
    <3> QED
      BY <2>1, <3>1, MappedIsList
  <2>3. \A i \in DOMAIN calls : CallTyped(calls[i])
    BY <2>2, CallKinds
  <2> HIDE DEF calls
  <2> QED
    BY <1>1, <1>3, <2>2, <2>3, CallsTyped
<1>4. CASE Do(<<>>)
  BY <1>1, <1>4, FlattenNone, CallsTyped
<1>5. CASE UNCHANGED todo
  BY <1>1, <1>5 DEF TodoTyped
<1>6. Do(<<File(t.path)>>) \/ Do(calls) \/ Do(<<>>) \/ UNCHANGED todo
  BY DEF ReadTarget
<1> QED
  BY <1>2, <1>3, <1>4, <1>5, <1>6

(* A file makes a call of the documents it has.                            *)
LEMMA FileTyped == ReadTyped /\ ReadFile => TodoTyped'
<1> SUFFICES ASSUME ReadTyped, ReadFile PROVE TodoTyped'
  OBVIOUS
<1> DEFINE file == Head(todo).path
           docs == setup.fs[Real(file)].docs
<1>1. TodoTyped /\ todo # <<>>
  BY DEF ReadTyped, ReadFile, Doing
<1>2. CASE Do(<<>>)
  BY <1>1, <1>2, FlattenNone, CallsTyped
<1>3. CASE IsFile(Real(file)) /\ Do(<<Docs(docs, file, <<>>)>>)
  <2>1. docs \in Seq(Documents)
    BY <1>3, DocumentsAssumption DEF ReadTyped, IsFile
  <2>2. CallTyped(Docs(docs, file, <<>>))
    BY <2>1, CallKinds, FlattenNone
  <2> QED
    BY <1>1, <1>3, <2>2, OneCall, CallsTyped
<1> QED
  BY <1>2, <1>3 DEF ReadFile

(* An entry of an include list makes calls of targets, or of the documents *)
(* that stand in it.                                                       *)
LEMMA IncludeTyped == ReadTyped /\ HandleInclude => TodoTyped'
<1> SUFFICES ASSUME ReadTyped, HandleInclude PROVE TodoTyped'
  OBVIOUS
<1> DEFINE inc == Head(todo).inc
           file == Head(todo).path
           matches == Glob(Located(inc.path, file))
           calls == [i \in DOMAIN matches |-> Target(matches[i], FALSE)]
<1>1. TodoTyped /\ todo # <<>> /\ Head(todo).call = "include"
  BY DEF ReadTyped, HandleInclude, Doing
<1>2. CASE Do(<<Docs(inc.text, file, <<>>)>>)
  <2>1. inc.text \in Seq(Documents)
    BY <1>1, FirstCall DEF CallTyped
  <2>2. CallTyped(Docs(inc.text, file, <<>>))
    BY <2>1, CallKinds, FlattenNone
  <2> QED
    BY <1>1, <1>2, <2>2, OneCall, CallsTyped
<1>3. CASE Do(calls)
  <2>1. IsList(matches)
    BY FoundLists DEF ReadTyped
  <2>2. IsList(calls) /\ \A i \in DOMAIN calls : calls[i] = Target(matches[i], FALSE)
    <3>1. DOMAIN calls = DOMAIN matches /\ calls = [i \in DOMAIN matches |-> calls[i]]
      OBVIOUS
    <3> QED
      BY <2>1, <3>1, MappedIsList
  <2>3. \A i \in DOMAIN calls : CallTyped(calls[i])
    BY <2>2, CallKinds
  <2> HIDE DEF calls
  <2> QED
    BY <1>1, <1>3, <2>2, <2>3, CallsTyped
<1>4. CASE Do(<<>>)
  BY <1>1, <1>4, FlattenNone, CallsTyped
<1>6. Do(<<Docs(inc.text, file, <<>>)>>) \/ Do(calls) \/ Do(<<>>)
  BY DEF HandleInclude
<1> QED
  BY <1>2, <1>3, <1>4, <1>6

(* The documents of a file make the calls of what they include.            *)
LEMMA LoadedTyped == ReadTyped /\ DocsLoaded => TodoTyped'
<1> SUFFICES ASSUME ReadTyped, DocsLoaded PROVE TodoTyped'
  OBVIOUS
<1> DEFINE d == Head(todo)
           calls == [i \in DOMAIN d.include |-> Include(d.include[i], d.path)]
<1>1. TodoTyped /\ todo # <<>> /\ Head(todo).call = "docs"
  BY DEF ReadTyped, DocsLoaded, Doing
<1>2. IsList(d.include) /\ \A i \in DOMAIN d.include : d.include[i].text \in Seq(Documents)
  BY <1>1, FirstCall DEF CallTyped
<1>3. IsList(calls) /\ \A i \in DOMAIN calls : i \in DOMAIN d.include /\ calls[i] = Include(d.include[i], d.path)
  <2>1. DOMAIN calls = DOMAIN d.include /\ calls = [i \in DOMAIN d.include |-> calls[i]]
    OBVIOUS
  <2> QED
    BY <1>2, <2>1, MappedIsList
<1>4. \A i \in DOMAIN calls : CallTyped(calls[i])
  BY <1>2, <1>3, CallKinds
<1>5. Do(calls)
  BY DEF DocsLoaded
<1> HIDE DEF calls
<1> QED
  BY <1>1, <1>3, <1>4, <1>5, CallsTyped

(* A document, as it is loaded.                                            *)
LEMMA DocTyped ==
  ASSUME ReadTyped, Doing("docs"), Head(todo).docs # <<>>
  PROVE  Head(Head(todo).docs) \in Documents /\ Tail(Head(todo).docs) \in Seq(Documents)
<1>1. Head(todo).docs \in Seq(Documents)
  BY FirstCall DEF ReadTyped, Doing, CallTyped
<1> QED
  BY <1>1

(* Loading a document merges one of the documents there are.               *)
LEMMA DocLoadedTyped == ReadTyped /\ LoadDoc => TodoTyped' /\ MergedTyped'
<1> SUFFICES ASSUME ReadTyped, LoadDoc PROVE TodoTyped' /\ MergedTyped'
  OBVIOUS
<1> DEFINE d == Head(todo)
           doc == Head(d.docs)
<1>1. TodoTyped /\ todo # <<>> /\ Head(todo).call = "docs"
  BY DEF ReadTyped, LoadDoc, Doing
<1>2. doc \in Documents /\ Tail(d.docs) \in Seq(Documents)
  BY DocTyped DEF LoadDoc
<1>3. CASE Failed
  BY <1>3 DEF Failed, TodoTyped, MergedTyped, ReadTyped
<1>4. CASE merged' = Append(merged, doc.config) /\ Do(<<Docs(Tail(d.docs), d.path, d.include \o doc.include)>>)
  <2>1. /\ IsList(d.include) /\ \A i \in DOMAIN d.include : d.include[i].text \in Seq(Documents)
        /\ IsList(doc.include) /\ \A i \in DOMAIN doc.include : doc.include[i].text \in Seq(Documents)
    BY <1>1, <1>2, FirstCall, DocumentsAssumption DEF CallTyped
  <2>2. PICK a, b : a = d.include /\ b = doc.include
    OBVIOUS
  <2>3. /\ IsList(a \o b) /\ DOMAIN (a \o b) = 1..(Len(a) + Len(b))
        /\ \A i \in 1..(Len(a) + Len(b)) : (a \o b)[i] = IF i <= Len(a) THEN a[i] ELSE b[i - Len(a)]
    <3>1. IsList(a) /\ IsList(b)
      BY <2>1, <2>2
    <3> QED
      BY <3>1, Joined
  <2>4. ASSUME NEW i \in DOMAIN (a \o b) PROVE (a \o b)[i].text \in Seq(Documents)
    <3>1. Len(a) \in Nat /\ Len(b) \in Nat /\ DOMAIN a = 1..Len(a) /\ DOMAIN b = 1..Len(b)
      BY <2>1, <2>2, ListFacts
    <3>2. CASE i <= Len(a)
      BY <2>1, <2>2, <2>3, <3>1, <3>2
    <3>3. CASE ~(i <= Len(a))
      <4>1. i - Len(a) \in 1..Len(b)
        BY <2>3, <3>1, <3>3
      <4> QED
        BY <2>1, <2>2, <2>3, <3>1, <3>3, <4>1
    <3> QED
      BY <3>2, <3>3
  <2>5. CallTyped(Docs(Tail(d.docs), d.path, d.include \o doc.include))
    BY <1>2, <2>2, <2>3, <2>4, CallKinds
  <2>6. TodoTyped'
    BY <1>1, <1>4, <2>5, OneCall, CallsTyped
  <2>7. MergedTyped'
    <3>1. IsList(merged) /\ \A i \in DOMAIN merged : merged[i] \in {x.config : x \in Documents}
      BY DEF ReadTyped, MergedTyped
    <3>2. doc.config \in {x.config : x \in Documents}
      BY <1>2
    <3>3. Len(merged) \in Nat /\ DOMAIN merged = 1..Len(merged)
      BY <3>1, ListFacts
    <3>4. /\ IsList(merged') /\ DOMAIN merged' = 1..(Len(merged) + 1)
          /\ merged'[Len(merged) + 1] = doc.config /\ \A i \in 1..Len(merged) : merged'[i] = merged[i]
      BY <1>4, <3>1, Appended
    <3>5. \A i \in 1..(Len(merged) + 1) : i \in 1..Len(merged) \/ i = Len(merged) + 1
      BY <3>3
    <3>6. \A i \in DOMAIN merged' : merged'[i] \in {x.config : x \in Documents}
      BY <3>1, <3>2, <3>3, <3>4, <3>5
    <3> QED
      BY <3>4, <3>6 DEF MergedTyped
  <2> QED
    BY <2>6, <2>7
<1> QED
  BY <1>3, <1>4 DEF LoadDoc

(* Whatever is read is of its type.                                        *)
LEMMA StepTyped == ReadTyped /\ [Next]_vars => ReadTyped'
<1> SUFFICES ASSUME ReadTyped, [Next]_vars PROVE ReadTyped'
  OBVIOUS
<1>1. UNCHANGED setup
  BY DEF Next, Step, ReadStep, Terminated, vars, readVars, ReadTarget, ReadFile, LoadDoc, DocsLoaded,
     HandleInclude, ReadFails, Failed, AllRead, ResolveEnv, SetOptions, AddTasks, TasksAdded,
     NextKind, AddTool, ResolveFails, RunTask, Goto
<1>2. CASE LoadDoc
  BY <1>1, <1>2, DocLoadedTyped DEF ReadTyped
<1>3. CASE ReadTarget \/ ReadFile \/ DocsLoaded \/ HandleInclude
  <2>1. TodoTyped'
    BY <1>3, TargetTyped, FileTyped, LoadedTyped, IncludeTyped
  <2>2. UNCHANGED merged
    BY <1>3 DEF ReadTarget, ReadFile, DocsLoaded, HandleInclude
  <2> QED
    BY <1>1, <2>1, <2>2 DEF ReadTyped, MergedTyped
<1>4. CASE ~(LoadDoc \/ ReadTarget \/ ReadFile \/ DocsLoaded \/ HandleInclude)
  <2>1. UNCHANGED <<todo, merged>>
    BY <1>4 DEF Next, Step, ReadStep, Terminated, vars, readVars, ReadFails, Failed, AllRead, ResolveEnv,
       SetOptions, AddTasks, TasksAdded, NextKind, AddTool, ResolveFails, RunTask, Goto
  <2> QED
    BY <1>1, <2>1 DEF ReadTyped, MergedTyped, TodoTyped
<1> QED
  BY <1>2, <1>3, <1>4

(***************************************************************************)
(* Merging                                                                 *)
(***************************************************************************)



(* Lists that are all empty make an empty one.                             *)
LEMMA FlattenEmpty ==
  ASSUME NEW s, IsList(s), \A i \in DOMAIN s : s[i] = <<>>
  PROVE  FlattenSeq(s) = <<>>
<1>0. PICK n : n = Len(s)
  OBVIOUS
<1>1. n \in Nat /\ DOMAIN s = 1..n
  BY <1>0, ListFacts
<1>2. CASE n = 0
  <2>0. Len(s) = 0
    BY <1>0, <1>2
  <2>1. s = <<>>
    BY <2>0, ListFacts
  <2> QED
    BY <2>1, FlattenNone
<1>3. CASE n # 0
  <2>1. PICK f : Joins(s, n, f) /\ FlattenSeq(s) = f[n]
    BY <1>0, <1>3, FlattenJoins
  <2> DEFINE Other == {i \in 1..n : f[i] # <<>>}
  <2>2. Other = {}
    <3> SUFFICES ASSUME Other # {} PROVE FALSE
      OBVIOUS
    <3>0. Other \in SUBSET Nat
      BY <1>1
    <3>1. PICK k \in Other : \A i \in Other : k <= i
      BY <3>0, LeastNumber
    <3>2. k \in 1..n /\ s[k] = <<>> /\ f[k] # <<>>
      BY <1>1, <3>1
    <3>3. f[k] = IF k = 1 THEN s[k] ELSE f[k - 1] \o s[k]
      BY <2>1, <3>2 DEF Joins
    <3>4. CASE k = 1
      BY <3>2, <3>3, <3>4
    <3>5. CASE k # 1
      <4>1. k - 1 \in 1..n /\ ~(k <= k - 1)
        BY <1>1, <3>2, <3>5
      <4>2. f[k - 1] = <<>>
        BY <3>1, <4>1
      <4>3. <<>> \o <<>> = <<>>
        OBVIOUS
      <4> QED
        BY <3>2, <3>3, <3>5, <4>2, <4>3
    <3> QED
      BY <3>4, <3>5
  <2>3. n \in 1..n
    BY <1>1, <1>3
  <2> QED
    BY <2>1, <2>2, <2>3
<1> QED
  BY <1>2, <1>3

(* A list that is one longer.                                              *)
LEMMA FlattenLonger ==
  ASSUME NEW f, NEW h, NEW x, IsList(x), IsList(f), \A i \in DOMAIN f : IsList(f[i]),
         IsList(h), Len(h) = Len(f) + 1, \A i \in DOMAIN f : h[i] = f[i], h[Len(f) + 1] = x
  PROVE  FlattenSeq(h) = FlattenSeq(f) \o x
<1>0. PICK n : n = Len(f)
  OBVIOUS
<1>1. n \in Nat /\ DOMAIN f = 1..n /\ Len(h) = n + 1 /\ h[n + 1] = x
  BY <1>0, ListFacts
<1>3. /\ IsList(Append(f, x)) /\ Len(Append(f, x)) = n + 1
      /\ Append(f, x)[n + 1] = x /\ \A i \in 1..n : Append(f, x)[i] = f[i]
  BY <1>0, Appended
<1>4. \A i \in 1..(n + 1) : i \in 1..n \/ i = n + 1
  BY <1>1
<1>5. h = Append(f, x)
  <2>1. \A i \in 1..(n + 1) : h[i] = Append(f, x)[i]
    BY <1>1, <1>3, <1>4
  <2> QED
    BY <1>1, <1>3, <2>1, SameList
<1> QED
  BY <1>5, FlattenMore

Of(f, k) == IF k \in DOMAIN f THEN f[k] ELSE <<>>

(* The lists that documents have are lists.                                *)
LEMMA MergedLists ==
  ASSUME MergedTyped
  PROVE  /\ Len(merged) \in Nat /\ DOMAIN merged = 1..Len(merged)
         /\ \A i \in 1..Len(merged) :
              /\ IsList(merged[i].env) /\ \A k : IsList(Of(merged[i].tools, k)) /\ IsList(Of(merged[i].tasks, k))
              /\ \A g \in DOMAIN merged[i].tasks :
                   g = <<g[1], g[2], g[3]>> /\ \A j \in DOMAIN merged[i].tasks[g] : merged[i].tasks[g][j].kind = g[3]
<1>1. Len(merged) \in Nat /\ DOMAIN merged = 1..Len(merged)
  BY ListFacts DEF MergedTyped
<1>2. IsList(<<>>)
  BY FlattenNone
<1>3. ASSUME NEW i \in 1..Len(merged)
      PROVE  /\ IsList(merged[i].env) /\ \A k : IsList(Of(merged[i].tools, k)) /\ IsList(Of(merged[i].tasks, k))
             /\ \A g \in DOMAIN merged[i].tasks :
                  g = <<g[1], g[2], g[3]>> /\ \A j \in DOMAIN merged[i].tasks[g] : merged[i].tasks[g][j].kind = g[3]
  <2>1. PICK d \in Documents : merged[i] = d.config
    BY <1>1, <1>3 DEF MergedTyped
  <2>2. IsList(d.config.env) /\ \A k \in DOMAIN d.config.tools : IsList(d.config.tools[k])
    BY DocumentsAssumption
  <2>3. \A g \in DOMAIN d.config.tasks : /\ g = <<g[1], g[2], g[3]>> /\ IsList(d.config.tasks[g])
                                        /\ \A j \in DOMAIN d.config.tasks[g] : d.config.tasks[g][j].kind = g[3]
    BY DocumentsAssumption
  <2>4. \A k : IsList(Of(d.config.tools, k)) /\ IsList(Of(d.config.tasks, k))
    BY <1>2, <2>2, <2>3 DEF Of
  <2> QED
    BY <2>1, <2>2, <2>3, <2>4
<1> QED
  BY <1>1, <1>3

(* What all documents have of a kind is what the config has.               *)
LEMMA KindLists ==
  ASSUME MergedTyped, ToolsMerged
  PROVE  \A k : OfKind(k) = Of(config.tools, k) /\ IsList(OfKind(k))
<1> SUFFICES ASSUME NEW k PROVE OfKind(k) = Of(config.tools, k) /\ IsList(OfKind(k))
  OBVIOUS
<1>1. CASE k \in DOMAIN config.tools
  BY <1>1 DEF ToolsMerged, Of
<1>2. CASE k \notin DOMAIN config.tools
  <2> DEFINE f == [i \in DOMAIN merged |-> IF k \in DOMAIN merged[i].tools THEN merged[i].tools[k] ELSE <<>>]
  <2>1. Len(merged) \in Nat /\ DOMAIN merged = 1..Len(merged)
    BY MergedLists
  <2>2. \A i \in DOMAIN f : f[i] = <<>>
    BY <1>2 DEF ToolsMerged
  <2>3. IsList(f)
    BY <2>1, FunctionIsList
  <2>4. OfKind(k) = FlattenSeq(f)
    BY DEF OfKind
  <2> HIDE DEF f
  <2>5. OfKind(k) = <<>>
    BY <2>2, <2>3, <2>4, FlattenEmpty
  <2> QED
    BY <1>2, <2>5, FlattenNone DEF Of
<1> QED
  BY <1>1, <1>2

(* What all documents have in a group is what the config has.              *)
LEMMA GroupLists ==
  ASSUME MergedTyped, TasksMerged
  PROVE  \A g : InGroup(g) = Of(config.tasks, g) /\ IsList(InGroup(g))
<1> SUFFICES ASSUME NEW g PROVE InGroup(g) = Of(config.tasks, g) /\ IsList(InGroup(g))
  OBVIOUS
<1>1. CASE g \in DOMAIN config.tasks
  BY <1>1 DEF TasksMerged, Of
<1>2. CASE g \notin DOMAIN config.tasks
  <2> DEFINE f == [i \in DOMAIN merged |-> IF g \in DOMAIN merged[i].tasks THEN merged[i].tasks[g] ELSE <<>>]
  <2>1. Len(merged) \in Nat /\ DOMAIN merged = 1..Len(merged)
    BY MergedLists
  <2>2. \A i \in DOMAIN f : f[i] = <<>>
    BY <1>2 DEF TasksMerged
  <2>3. IsList(f)
    BY <2>1, FunctionIsList
  <2>4. InGroup(g) = FlattenSeq(f)
    BY DEF InGroup
  <2> HIDE DEF f
  <2>5. InGroup(g) = <<>>
    BY <2>2, <2>3, <2>4, FlattenEmpty
  <2> QED
    BY <1>2, <2>5, FlattenNone DEF Of
<1> QED
  BY <1>1, <1>2

(* One more document is merged.                                            *)
MergedMore(n, c) ==
  /\ n = Len(merged) /\ n \in Nat /\ DOMAIN merged = 1..n /\ DOMAIN merged' = 1..(n + 1)
  /\ \A i \in 1..n : merged'[i] = merged[i]
  /\ merged'[n + 1] = c /\ config' = Merge(config, c)

(* Of an option the one merged last counts, of each value as well.         *)
LEMMA LaterOptions ==
  ASSUME OptionsMerged, NEW n, NEW c, MergedMore(n, c)
  PROVE  OptionsMerged'
<1>0. n \in Nat /\ \A i \in 1..n : merged'[i] = merged[i] /\ i \in 1..(n + 1) /\ i # n + 1
  BY DEF MergedMore
<1>1. ASSUME NEW x \in Options
      PROVE  config'[x].lit = IF LastOf(Literals(x)') = 0 THEN Unset ELSE merged'[LastOf(Literals(x)')][x].lit
  <2>1. Literals(x) \subseteq 1..n /\ Literals(x)' \subseteq 1..(n + 1) /\ (\A i \in 1..n : i \in Literals(x) <=> i \in Literals(x)')
        /\ (n + 1 \in Literals(x)' <=> c[x].lit # Unset)
    BY <1>0 DEF Literals, MergedMore
  <2>2. LastOf(Literals(x)') = (IF n + 1 \in Literals(x)' THEN n + 1 ELSE LastOf(Literals(x))) /\ LastOf(Literals(x)) \in 0..n
    BY <1>0, <2>1, LastOfMore, LastOfNone
  <2>3. config'[x].lit = IF c[x].lit = Unset THEN config[x].lit ELSE c[x].lit
    BY DEF MergedMore, Merge, Inherited, Later, Options
  <2>4. LastOf(Literals(x)) # 0 => merged'[LastOf(Literals(x))] = merged[LastOf(Literals(x))]
    BY <1>0, <2>2
  <2>5. CASE c[x].lit = Unset
    BY <2>1, <2>2, <2>3, <2>4, <2>5 DEF OptionsMerged
  <2>6. CASE c[x].lit # Unset
    <3>1. LastOf(Literals(x)') = n + 1 /\ n + 1 # 0
      BY <1>0, <2>1, <2>2, <2>6
    <3> QED
      BY <2>3, <2>6, <3>1 DEF MergedMore
  <2> QED
    BY <2>5, <2>6
<1>2. ASSUME NEW x \in Options
      PROVE  config'[x].ref = IF LastOf(Suffixed(x)') = 0 THEN Unset ELSE merged'[LastOf(Suffixed(x)')][x].ref
  <2>1. Suffixed(x) \subseteq 1..n /\ Suffixed(x)' \subseteq 1..(n + 1) /\ (\A i \in 1..n : i \in Suffixed(x) <=> i \in Suffixed(x)')
        /\ (n + 1 \in Suffixed(x)' <=> c[x].ref # Unset)
    BY <1>0 DEF Suffixed, MergedMore
  <2>2. LastOf(Suffixed(x)') = (IF n + 1 \in Suffixed(x)' THEN n + 1 ELSE LastOf(Suffixed(x))) /\ LastOf(Suffixed(x)) \in 0..n
    BY <1>0, <2>1, LastOfMore, LastOfNone
  <2>3. config'[x].ref = IF c[x].ref = Unset THEN config[x].ref ELSE c[x].ref
    BY DEF MergedMore, Merge, Inherited, Later, Options
  <2>4. LastOf(Suffixed(x)) # 0 => merged'[LastOf(Suffixed(x))] = merged[LastOf(Suffixed(x))]
    BY <1>0, <2>2
  <2>5. CASE c[x].ref = Unset
    BY <2>1, <2>2, <2>3, <2>4, <2>5 DEF OptionsMerged
  <2>6. CASE c[x].ref # Unset
    <3>1. LastOf(Suffixed(x)') = n + 1 /\ n + 1 # 0
      BY <1>0, <2>1, <2>2, <2>6
    <3> QED
      BY <2>3, <2>6, <3>1 DEF MergedMore
  <2> QED
    BY <2>5, <2>6
<1>3. ASSUME NEW v \in DOMAIN config'.values
      PROVE  With(v)' # {} /\ config'.values[v] = merged'[LastOf(With(v)')].values[v]
  <2>1. With(v) \subseteq 1..n /\ With(v)' \subseteq 1..(n + 1) /\ (\A i \in 1..n : i \in With(v) <=> i \in With(v)')
        /\ (n + 1 \in With(v)' <=> v \in DOMAIN c.values)
    BY <1>0 DEF With, MergedMore
  <2>2. LastOf(With(v)') = (IF n + 1 \in With(v)' THEN n + 1 ELSE LastOf(With(v)))
    BY <1>0, <2>1, LastOfMore
  <2>3. config'.values = Over(c.values, config.values)
    BY DEF MergedMore, Merge
  <2>4. /\ v \in DOMAIN c.values \cup DOMAIN config.values
        /\ config'.values[v] = IF v \in DOMAIN c.values THEN c.values[v] ELSE config.values[v]
    BY <1>3, <2>3 DEF Over
  <2>5. CASE v \in DOMAIN c.values
    BY <2>1, <2>2, <2>4, <2>5 DEF MergedMore
  <2>6. CASE v \notin DOMAIN c.values
    <3>1. With(v) # {} /\ config.values[v] = merged[LastOf(With(v))].values[v]
      BY <2>4, <2>6 DEF OptionsMerged
    <3>2. LastOf(With(v)) \in With(v)
      BY <1>0, <2>1, <3>1, LastOfGreatest
    <3>3. LastOf(With(v)) \in 1..n
      BY <2>1, <3>2
    <3>4. merged'[LastOf(With(v))] = merged[LastOf(With(v))]
      BY <1>0, <3>3
    <3> QED
      BY <2>1, <2>2, <2>4, <2>6, <3>1, <3>2, <3>3, <3>4
  <2> QED
    BY <2>4, <2>5, <2>6
<1> QED
  BY <1>1, <1>2, <1>3 DEF OptionsMerged

(* The tools of a kind are those it had and then the new ones.             *)
LEMMA LaterTools ==
  ASSUME MergedTyped, ToolsMerged, NEW n, NEW c, MergedMore(n, c), \A k : IsList(Of(c.tools, k))
  PROVE  ToolsMerged'
<1>0. n \in Nat /\ DOMAIN merged = 1..n /\ DOMAIN merged' = 1..(n + 1) /\ merged'[n + 1] = c
      /\ (\A i \in 1..n : merged'[i] = merged[i] /\ i \in 1..(n + 1)) /\ n + 1 \in 1..(n + 1)
  BY DEF MergedMore
<1>00. \A i \in 1..(n + 1) : i \in 1..n \/ i = n + 1
  BY <1>0
<1>1. /\ DOMAIN config'.tools = DOMAIN config.tools \cup DOMAIN c.tools
      /\ \A k \in DOMAIN config'.tools : config'.tools[k] = Of(config.tools, k) \o Of(c.tools, k)
  BY DEF MergedMore, Merge, Lists, Of
<1>2. DOMAIN config'.tools = UNION {DOMAIN merged'[i].tools : i \in DOMAIN merged'}
  <2>1. ASSUME NEW k \in DOMAIN config.tools PROVE \E i \in DOMAIN merged' : k \in DOMAIN merged'[i].tools
    BY <1>0, <2>1 DEF ToolsMerged
  <2>2. ASSUME NEW k \in DOMAIN c.tools PROVE \E i \in DOMAIN merged' : k \in DOMAIN merged'[i].tools
    BY <1>0
  <2>3. ASSUME NEW i \in DOMAIN merged', NEW k \in DOMAIN merged'[i].tools PROVE k \in DOMAIN config.tools \cup DOMAIN c.tools
    <3>1. CASE i \in 1..n
      BY <1>0, <3>1, <2>3 DEF ToolsMerged
    <3>2. CASE i = n + 1
      BY <1>0, <3>2, <2>3
    <3> QED
      BY <1>0, <1>00, <3>1, <3>2
  <2> QED
    BY <1>1, <2>1, <2>2, <2>3
<1>3. ASSUME NEW k PROVE OfKind(k)' = OfKind(k) \o Of(c.tools, k)
  <2> DEFINE f == [i \in DOMAIN merged |-> IF k \in DOMAIN merged[i].tools THEN merged[i].tools[k] ELSE <<>>]
             h == [i \in DOMAIN merged' |-> IF k \in DOMAIN merged'[i].tools THEN merged'[i].tools[k] ELSE <<>>]
  <2>1. OfKind(k) = FlattenSeq(f) /\ OfKind(k)' = FlattenSeq(h)
    BY DEF OfKind
  <2>2. /\ DOMAIN f = 1..n /\ f = [i \in 1..n |-> f[i]] /\ \A i \in 1..n : f[i] = Of(merged[i].tools, k)
        /\ DOMAIN h = 1..(n + 1) /\ h = [i \in 1..(n + 1) |-> h[i]] /\ h[n + 1] = Of(c.tools, k)
        /\ \A i \in 1..n : h[i] = f[i]
    BY <1>0 DEF Of
  <2>3. \A i \in 1..n : IsList(f[i])
    <3>1. \A i \in 1..n : IsList(Of(merged[i].tools, k))
      BY MergedLists DEF MergedMore
    <3> QED
      BY <2>2, <3>1
  <2>31. IsList(f) /\ Len(f) = n /\ IsList(h) /\ Len(h) = n + 1
    <3>1. n + 1 \in Nat
      BY <1>0
    <3> HIDE DEF f, h
    <3> QED
      BY <1>0, <2>2, <3>1, FunctionIsList
  <2> HIDE DEF f, h
  <2>4. IsList(Of(c.tools, k))
    OBVIOUS
  <2>5. FlattenSeq(h) = FlattenSeq(f) \o Of(c.tools, k)
    BY <1>0, <2>2, <2>3, <2>31, <2>4, FlattenLonger
  <2> QED
    BY <2>1, <2>5
<1>4. ASSUME NEW k \in DOMAIN config'.tools PROVE config'.tools[k] = OfKind(k)' /\ IsList(OfKind(k)')
  <2>1. OfKind(k) = Of(config.tools, k) /\ IsList(OfKind(k))
    BY KindLists
  <2>2. OfKind(k)' = OfKind(k) \o Of(c.tools, k) /\ IsList(Of(c.tools, k))
    BY <1>3
  <2>3. IsList(OfKind(k) \o Of(c.tools, k))
    BY <2>1, <2>2, Joined
  <2> QED
    BY <1>1, <2>1, <2>2, <2>3
<1> QED
  BY <1>2, <1>4 DEF ToolsMerged

(* The tasks of a group are those it had and then the new ones.            *)
LEMMA LaterTasks ==
  ASSUME MergedTyped, TasksMerged, NEW n, NEW c, MergedMore(n, c), \A g : IsList(Of(c.tasks, g)),
         \A g \in DOMAIN c.tasks : g = <<g[1], g[2], g[3]>> /\ \A i \in DOMAIN c.tasks[g] : c.tasks[g][i].kind = g[3]
  PROVE  TasksMerged'
<1>0. n \in Nat /\ DOMAIN merged = 1..n /\ DOMAIN merged' = 1..(n + 1) /\ merged'[n + 1] = c
      /\ (\A i \in 1..n : merged'[i] = merged[i] /\ i \in 1..(n + 1)) /\ n + 1 \in 1..(n + 1)
  BY DEF MergedMore
<1>00. \A i \in 1..(n + 1) : i \in 1..n \/ i = n + 1
  BY <1>0
<1>1. /\ DOMAIN config'.tasks = DOMAIN config.tasks \cup DOMAIN c.tasks
      /\ \A g \in DOMAIN config'.tasks : config'.tasks[g] = Of(config.tasks, g) \o Of(c.tasks, g)
  BY DEF MergedMore, Merge, Lists, Of
<1>2. DOMAIN config'.tasks = UNION {DOMAIN merged'[i].tasks : i \in DOMAIN merged'}
  <2>1. ASSUME NEW g \in DOMAIN config.tasks PROVE \E i \in DOMAIN merged' : g \in DOMAIN merged'[i].tasks
    BY <1>0, <2>1 DEF TasksMerged
  <2>2. ASSUME NEW g \in DOMAIN c.tasks PROVE \E i \in DOMAIN merged' : g \in DOMAIN merged'[i].tasks
    BY <1>0
  <2>3. ASSUME NEW i \in DOMAIN merged', NEW g \in DOMAIN merged'[i].tasks PROVE g \in DOMAIN config.tasks \cup DOMAIN c.tasks
    <3>1. CASE i \in 1..n
      BY <1>0, <3>1, <2>3 DEF TasksMerged
    <3>2. CASE i = n + 1
      BY <1>0, <3>2, <2>3
    <3> QED
      BY <1>0, <1>00, <3>1, <3>2
  <2> QED
    BY <1>1, <2>1, <2>2, <2>3
<1>3. ASSUME NEW g PROVE InGroup(g)' = InGroup(g) \o Of(c.tasks, g)
  <2> DEFINE f == [i \in DOMAIN merged |-> IF g \in DOMAIN merged[i].tasks THEN merged[i].tasks[g] ELSE <<>>]
             h == [i \in DOMAIN merged' |-> IF g \in DOMAIN merged'[i].tasks THEN merged'[i].tasks[g] ELSE <<>>]
  <2>1. InGroup(g) = FlattenSeq(f) /\ InGroup(g)' = FlattenSeq(h)
    BY DEF InGroup
  <2>2. /\ DOMAIN f = 1..n /\ f = [i \in 1..n |-> f[i]] /\ \A i \in 1..n : f[i] = Of(merged[i].tasks, g)
        /\ DOMAIN h = 1..(n + 1) /\ h = [i \in 1..(n + 1) |-> h[i]] /\ h[n + 1] = Of(c.tasks, g)
        /\ \A i \in 1..n : h[i] = f[i]
    BY <1>0 DEF Of
  <2>3. \A i \in 1..n : IsList(f[i])
    <3>1. \A i \in 1..n : IsList(Of(merged[i].tasks, g))
      BY MergedLists DEF MergedMore
    <3> QED
      BY <2>2, <3>1
  <2>31. IsList(f) /\ Len(f) = n /\ IsList(h) /\ Len(h) = n + 1
    <3>1. n + 1 \in Nat
      BY <1>0
    <3> HIDE DEF f, h
    <3> QED
      BY <1>0, <2>2, <3>1, FunctionIsList
  <2> HIDE DEF f, h
  <2>4. IsList(Of(c.tasks, g))
    OBVIOUS
  <2>5. FlattenSeq(h) = FlattenSeq(f) \o Of(c.tasks, g)
    BY <1>0, <2>2, <2>3, <2>31, <2>4, FlattenLonger
  <2> QED
    BY <2>1, <2>5
<1>4. ASSUME NEW g \in DOMAIN config'.tasks
      PROVE  /\ config'.tasks[g] = InGroup(g)' /\ IsList(InGroup(g)') /\ g = <<g[1], g[2], g[3]>>
             /\ \A i \in DOMAIN InGroup(g)' : InGroup(g)'[i].kind = g[3]
  <2>1. PICK a, b : a = InGroup(g) /\ b = Of(c.tasks, g)
    OBVIOUS
  <2>2. a = Of(config.tasks, g) /\ IsList(a) /\ IsList(b) /\ InGroup(g)' = a \o b
    BY <1>3, <2>1, GroupLists
  <2>3. IsList(a \o b) /\ DOMAIN (a \o b) = 1..(Len(a) + Len(b))
        /\ \A i \in 1..(Len(a) + Len(b)) : (a \o b)[i] = IF i <= Len(a) THEN a[i] ELSE b[i - Len(a)]
    BY <2>2, Joined
  <2>4. g = <<g[1], g[2], g[3]>>
    BY <1>1 DEF TasksMerged
  <2>5. (\A i \in DOMAIN a : a[i].kind = g[3]) /\ \A i \in DOMAIN b : b[i].kind = g[3]
    <3>1. DOMAIN <<>> = {}
      OBVIOUS
    <3>2. \A i \in DOMAIN a : a[i].kind = g[3]
      <4>1. CASE g \in DOMAIN config.tasks
        BY <2>1, <4>1 DEF TasksMerged
      <4>2. CASE g \notin DOMAIN config.tasks
        BY <2>2, <3>1, <4>2 DEF Of
      <4> QED
        BY <4>1, <4>2
    <3>3. \A i \in DOMAIN b : b[i].kind = g[3]
      BY <2>1, <3>1 DEF Of
    <3> QED
      BY <3>2, <3>3
  <2>6. ASSUME NEW i \in DOMAIN (a \o b) PROVE (a \o b)[i].kind = g[3]
    <3>1. Len(a) \in Nat /\ Len(b) \in Nat /\ DOMAIN a = 1..Len(a) /\ DOMAIN b = 1..Len(b)
      BY <2>2, ListFacts
    <3>2. CASE i <= Len(a)
      BY <2>3, <2>5, <3>1, <3>2
    <3>3. CASE ~(i <= Len(a))
      <4>1. i - Len(a) \in 1..Len(b)
        BY <2>3, <3>1, <3>3
      <4> QED
        BY <2>3, <2>5, <3>1, <3>3, <4>1
    <3> QED
      BY <3>2, <3>3
  <2> QED
    BY <1>1, <2>1, <2>2, <2>3, <2>4, <2>6
<1> QED
  BY <1>2, <1>4 DEF TasksMerged

(* The entries of the environment are those it had and then the new ones.  *)
LEMMA LaterEnv ==
  ASSUME MergedTyped, EnvMerged, NEW n, NEW c, MergedMore(n, c), IsList(c.env), config.env = EnvEntries
  PROVE  EnvMerged' /\ config'.env = EnvEntries'
<1>0. n \in Nat /\ DOMAIN merged = 1..n /\ DOMAIN merged' = 1..(n + 1) /\ merged'[n + 1] = c
      /\ (\A i \in 1..n : merged'[i] = merged[i] /\ i \in 1..(n + 1)) /\ n + 1 \in 1..(n + 1)
  BY DEF MergedMore
<1> DEFINE f == [i \in DOMAIN merged |-> merged[i].env]
           h == [i \in DOMAIN merged' |-> merged'[i].env]
<1>1. EnvEntries = FlattenSeq(f) /\ EnvEntries' = FlattenSeq(h)
  BY DEF EnvEntries
<1>2. /\ DOMAIN f = 1..n /\ f = [i \in 1..n |-> f[i]] /\ \A i \in 1..n : f[i] = merged[i].env
      /\ DOMAIN h = 1..(n + 1) /\ h = [i \in 1..(n + 1) |-> h[i]] /\ h[n + 1] = c.env
      /\ \A i \in 1..n : h[i] = f[i]
  BY <1>0
<1>3. \A i \in 1..n : IsList(f[i])
  BY <1>2, MergedLists DEF MergedMore
<1> HIDE DEF f, h
<1>31. IsList(f) /\ Len(f) = n /\ IsList(h) /\ Len(h) = n + 1
  <2>1. n + 1 \in Nat
    BY <1>0
  <2> QED
    BY <1>0, <1>2, <2>1, FunctionIsList
<1>4. FlattenSeq(h) = FlattenSeq(f) \o c.env
  BY <1>0, <1>2, <1>3, <1>31, FlattenLonger
<1>5. config'.env = config.env \o c.env
  BY DEF MergedMore, Merge
<1>6. IsList(EnvEntries \o c.env)
  BY Joined DEF EnvMerged
<1> QED
  BY <1>1, <1>4, <1>5, <1>6 DEF EnvMerged

(* It is whatever is not merged, nor done to anything but its environment. *)
LEMMA SameMerged ==
  ASSUME ConfigShape, OptionsMerged, ToolsMerged, TasksMerged, EnvMerged, UNCHANGED merged,
         DOMAIN config' = DOMAIN config, \A x \in DOMAIN config : x # "env" => config'[x] = config[x]
  PROVE  (ConfigShape /\ OptionsMerged /\ ToolsMerged /\ TasksMerged /\ EnvMerged)' /\ EnvEntries' = EnvEntries
<1>1. config'.cacheDir = config.cacheDir /\ config'.branch = config.branch /\ config'.values = config.values
      /\ config'.tools = config.tools /\ config'.tasks = config.tasks
  BY DEF ConfigShape
<1>2. EnvEntries' = EnvEntries
  BY DEF EnvEntries
<1>3. \A k : OfKind(k)' = OfKind(k) /\ InGroup(k)' = InGroup(k) /\ With(k)' = With(k)
  BY DEF OfKind, InGroup, With
<1>4. \A x \in Options : config'[x] = config[x] /\ Literals(x)' = Literals(x) /\ Suffixed(x)' = Suffixed(x)
  BY <1>1 DEF Options, Literals, Suffixed
<1>5. ConfigShape' /\ EnvMerged'
  BY <1>2 DEF ConfigShape, EnvMerged
<1>6. OptionsMerged'
  BY <1>1, <1>3, <1>4 DEF OptionsMerged
<1>7. ToolsMerged'
  BY <1>1, <1>3 DEF ToolsMerged
<1>8. TasksMerged'
  BY <1>1, <1>3 DEF TasksMerged
<1> QED
  BY <1>2, <1>5, <1>6, <1>7, <1>8

(* No step makes the config anything else than what was merged.            *)
LEMMA StepMerged == ReadTyped /\ MergedInv /\ [Next]_vars => MergedInv'
<1> SUFFICES ASSUME ReadTyped, MergedInv, [Next]_vars PROVE MergedInv'
  OBVIOUS
<1> USE DEF MergedInv
<1>1. CASE LoadDoc
  <2> DEFINE c == Head(Head(todo).docs).config
  <2>1. CASE Failed
    <3>1. UNCHANGED <<config, merged>> /\ phase' = "failed"
      BY <2>1 DEF Failed
    <3> QED
      BY <3>1, SameMerged
  <2>2. CASE config' = Merge(config, c) /\ merged' = Append(merged, c)
    <3>1. Head(Head(todo).docs) \in Documents /\ phase = "reading"
      BY <1>1, DocTyped DEF LoadDoc, Doing
    <3>2. PICK n : n = Len(merged)
      OBVIOUS
    <3>3. IsList(merged) /\ MergedTyped
      BY DEF ReadTyped, MergedTyped
    <3>4. MergedMore(n, c)
      BY <2>2, <3>2, <3>3, ListFacts, Appended DEF MergedMore
    <3>5. /\ IsList(c.env) /\ \A k \in DOMAIN c.tools : IsList(c.tools[k])
          /\ \A g \in DOMAIN c.tasks : /\ g = <<g[1], g[2], g[3]>> /\ IsList(c.tasks[g])
                                      /\ \A i \in DOMAIN c.tasks[g] : c.tasks[g][i].kind = g[3]
      BY <3>1, DocumentsAssumption
    <3> HIDE DEF c
    <3>6. (\A k : IsList(Of(c.tools, k))) /\ \A g : IsList(Of(c.tasks, g))
      BY <3>5, FlattenNone DEF Of
    <3>7. OptionsMerged'
      BY <3>4, LaterOptions
    <3>8. ToolsMerged'
      BY <3>3, <3>4, <3>6, LaterTools
    <3>9. TasksMerged'
      BY <3>3, <3>4, <3>5, <3>6, LaterTasks
    <3>10. EnvMerged' /\ config'.env = EnvEntries'
      BY <3>1, <3>3, <3>4, <3>5, LaterEnv
    <3>11. ConfigShape'
      BY <2>2 DEF Merge, ConfigShape
    <3> QED
      BY <3>7, <3>8, <3>9, <3>10, <3>11
  <2> QED
    BY <1>1, <2>1, <2>2 DEF LoadDoc
<1>2. CASE ResolveEnv
  <2>1. UNCHANGED merged /\ phase' = "env" /\ config' = [config EXCEPT !.env = Tail(@)]
    BY <1>2 DEF ResolveEnv, Goto
  <2>2. DOMAIN config' = DOMAIN config /\ \A x \in DOMAIN config : x # "env" => config'[x] = config[x]
    BY <2>1
  <2> QED
    BY <2>1, <2>2, SameMerged
<1>3. CASE ~(LoadDoc \/ ResolveEnv)
  <2>1. UNCHANGED <<config, merged>> /\ (phase' = "reading" => phase = "reading")
    BY <1>3 DEF Next, Step, ReadStep, Terminated, vars, readVars, ReadTarget, ReadFile, DocsLoaded, HandleInclude,
       ReadFails, Failed, Doing, AllRead, SetOptions, AddTasks, TasksAdded, NextKind, AddTool, ResolveFails, RunTask, Goto
  <2> QED
    BY <2>1, SameMerged
<1> QED
  BY <1>1, <1>2, <1>3

(* Nothing has been merged at first, and what is to be read is typed.      *)
LEMMA InitMerged == Init => ReadTyped /\ MergedInv
<1> SUFFICES ASSUME Init PROVE ReadTyped /\ MergedInv
  OBVIOUS
<1>1. merged = <<>> /\ config = EmptyConfig /\ setup \in Setups
      /\ todo = [i \in DOMAIN setup.targets |-> Target(setup.targets[i], setup.default)]
  BY DEF Init, ReadInit
<1>2. IsList(<<>>) /\ DOMAIN <<>> = {}
  BY FlattenNone
<1>3. TodoTyped
  <2>1. IsList(setup.targets)
    BY <1>1, DocumentsAssumption
  <2>2. IsList(todo)
    BY <1>1, <2>1, MappedIsList
  <2> QED
    BY <1>1, <2>2, CallKinds DEF TodoTyped
<1>4. MergedTyped
  BY <1>1, <1>2 DEF MergedTyped
<1>5. EnvEntries = <<>> /\ \A x : Literals(x) = {} /\ Suffixed(x) = {}
  <2>1. [i \in DOMAIN merged |-> merged[i].env] = <<>>
    BY <1>1
  <2> QED
    BY <1>1, <1>2, <2>1, FlattenNone DEF EnvEntries, Literals, Suffixed
<1>6. LastOf({}) = 0
  BY DEF LastOf
<1>7. MergedInv
  <2>1. \A x \in Options : config[x] = [lit |-> Unset, ref |-> Unset]
    BY <1>1 DEF Options, EmptyConfig, NotSet, Lit
  <2>2. OptionsMerged
    <3>1. \A x \in Options : LastOf(Literals(x)) = 0 /\ LastOf(Suffixed(x)) = 0
      BY <1>5, <1>6
    <3>2. DOMAIN config.values = {}
      BY <1>1, <1>2 DEF EmptyConfig
    <3>3. \A x \in Options : config[x].lit = Unset /\ config[x].ref = Unset
      BY <2>1
    <3> QED
      BY <3>1, <3>2, <3>3 DEF OptionsMerged
  <2> QED
    BY <1>1, <1>2, <1>5, <1>6, <2>2 DEF MergedInv, ConfigShape, ToolsMerged, TasksMerged, EnvMerged, EmptyConfig
<1> QED
  BY <1>1, <1>3, <1>4, <1>7 DEF ReadTyped

(***************************************************************************)
(* Environment and options                                                 *)
(***************************************************************************)

(* What a value is depends on the entries before it alone.                 *)
LEMMA AfterSame ==
  ASSUME NEW n \in Nat, NEW f, NEW h, \A i \in 1..n : f[i] = h[i], NEW v
  PROVE  After(n, f, v) = After(n, h, v)
<1> DEFINE last == LastOf({i \in 1..n : EnvEntries[i].name = v.ref})
<1>1. last \in 0..n
  BY LastOfNone
<1>2. last # 0 => f[last] = h[last]
  BY <1>1
<1> HIDE DEF last
<1>3. After(n, f, v) = CASE v.ref = Unset -> v.lit
       [] v.ref # Unset /\ v.ref \in DOMAIN setup.globalEnv -> setup.globalEnv[v.ref]
       [] v.ref \notin DOMAIN setup.globalEnv \cup {Unset} /\ last # 0 -> f[last]
       [] OTHER -> IF v.ref \in DOMAIN setup.osEnv THEN setup.osEnv[v.ref] ELSE Unset
  BY DEF After, last
<1>4. After(n, h, v) = CASE v.ref = Unset -> v.lit
       [] v.ref # Unset /\ v.ref \in DOMAIN setup.globalEnv -> setup.globalEnv[v.ref]
       [] v.ref \notin DOMAIN setup.globalEnv \cup {Unset} /\ last # 0 -> h[last]
       [] OTHER -> IF v.ref \in DOMAIN setup.osEnv THEN setup.osEnv[v.ref] ELSE Unset
  BY DEF After, last
<1> QED
  BY <1>2, <1>3, <1>4

MadeUpTo(n, f) == f = [i \in 1..n |-> After(i - 1, f, EnvEntries[i].value)]

(* The function of what the entries make exists, up to any of them: a      *)
(* first number for which it did not could not be.                         *)
LEMMA MadeExists ==
  ASSUME NEW n \in Nat
  PROVE  \E f : MadeUpTo(n, f)
<1> DEFINE None == {k \in Nat : ~\E f : MadeUpTo(k, f)}
<1> SUFFICES ASSUME None # {} PROVE FALSE
  OBVIOUS
<1>1. PICK k \in None : \A m \in None : k <= m
  BY LeastNumber
<1>2. CASE k = 0
  <2>1. MadeUpTo(0, <<>>)
    BY DEF MadeUpTo
  <2> QED
    BY <1>2, <2>1
<1>3. CASE k > 0
  <2>1. k - 1 \in Nat /\ k - 1 \notin None
    BY <1>1, <1>3
  <2>2. PICK f : MadeUpTo(k - 1, f)
    BY <2>1
  <2> DEFINE h == [i \in 1..k |-> IF i = k THEN After(k - 1, f, EnvEntries[k].value) ELSE f[i]]
  <2>3. \A i \in 1..(k - 1) : h[i] = f[i]
    BY <2>1
  <2>4. h[k] = After(k - 1, f, EnvEntries[k].value)
    BY <1>3
  <2>5. h = [i \in 1..k |-> h[i]]
    OBVIOUS
  <2> HIDE DEF h
  <2>6. ASSUME NEW i \in 1..k PROVE h[i] = After(i - 1, h, EnvEntries[i].value)
    <3>1. i - 1 \in Nat /\ \A j \in 1..(i - 1) : f[j] = h[j]
      BY <2>1, <2>3
    <3>2. After(i - 1, f, EnvEntries[i].value) = After(i - 1, h, EnvEntries[i].value)
      BY <3>1, AfterSame
    <3>3. h[i] = After(i - 1, f, EnvEntries[i].value)
      <4>1. CASE i = k
        BY <2>4, <4>1
      <4>2. CASE i # k
        <5>1. i \in 1..(k - 1)
          BY <2>1, <4>2
        <5> QED
          BY <2>2, <2>3, <5>1 DEF MadeUpTo
      <4> QED
        BY <4>1, <4>2
    <3> QED
      BY <3>2, <3>3
  <2>7. MadeUpTo(k, h)
    BY <2>5, <2>6 DEF MadeUpTo
  <2> QED
    BY <2>7
<1> QED
  BY <1>1, <1>2, <1>3

(* What an entry makes is what its value is after those before it.         *)
LEMMA MadeIs ==
  ASSUME EnvMerged, NEW i \in 1..Len(EnvEntries)
  PROVE  Made[i] = After(i - 1, Made, EnvEntries[i].value)
<1>1. PICK n : n = Len(EnvEntries) /\ n \in Nat /\ DOMAIN EnvEntries = 1..n
  BY ListFacts DEF EnvMerged
<1>2. \E f : MadeUpTo(n, f)
  BY <1>1, MadeExists
<1>3. Made = CHOOSE f : MadeUpTo(n, f)
  BY <1>1 DEF Made, MadeUpTo
<1>4. MadeUpTo(n, Made)
  BY <1>2, <1>3
<1> QED
  BY <1>1, <1>4 DEF MadeUpTo

(* What is rendered is what the entries before it make of it.              *)
LEMMA RenderedIs ==
  ASSUME NEW n \in Nat, MadeOf(n), globalEnv = setup.globalEnv, values = <<>>, NEW v
  PROVE  Rendered(v) = After(n, Made, v)
<1> DEFINE last == LastOf(Before(n, v.ref))
<1>0. DOMAIN values = {}
  OBVIOUS
<1>1. Before(n, v.ref) \subseteq 1..n
  BY DEF Before
<1>2. last # 0 <=> Before(n, v.ref) # {}
  BY <1>1, LastOfNone
<1>3. After(n, Made, v) = CASE v.ref = Unset -> v.lit
       [] v.ref # Unset /\ v.ref \in DOMAIN setup.globalEnv -> setup.globalEnv[v.ref]
       [] v.ref \notin DOMAIN setup.globalEnv \cup {Unset} /\ last # 0 -> Made[last]
       [] OTHER -> IF v.ref \in DOMAIN setup.osEnv THEN setup.osEnv[v.ref] ELSE Unset
  BY DEF After, Before
<1>4. v.ref \in DOMAIN env <=> v.ref \in DOMAIN setup.osEnv \/ last # 0
  <2>1. Before(n, v.ref) # {} <=> v.ref \in {EnvEntries[i].name : i \in 1..n}
    BY DEF Before
  <2> QED
    BY <1>2, <2>1 DEF MadeOf
<1>5. v.ref \in DOMAIN env => env[v.ref] = IF last # 0 THEN Made[last] ELSE setup.osEnv[v.ref]
  BY DEF MadeOf
<1> HIDE DEF last
<1>6. CASE v.ref = Unset
  BY <1>3, <1>6 DEF Rendered
<1>7. CASE v.ref # Unset /\ v.ref \in DOMAIN setup.globalEnv
  BY <1>3, <1>7 DEF Rendered, Lookup
<1>8. CASE v.ref \notin DOMAIN setup.globalEnv \cup {Unset}
  <2>1. CASE v.ref \in DOMAIN env
    <3>1. Rendered(v) = env[v.ref]
      BY <1>8, <2>1 DEF Rendered, Lookup
    <3> QED
      BY <1>3, <1>4, <1>5, <1>8, <2>1, <3>1
  <2>2. CASE v.ref \notin DOMAIN env
    <3>1. Rendered(v) = Unset
      BY <1>0, <1>8, <2>2 DEF Rendered, Lookup
    <3> QED
      BY <1>3, <1>4, <1>8, <2>2, <3>1
  <2> QED
    BY <2>1, <2>2
<1> QED
  BY <1>6, <1>7, <1>8

(* One more entry makes its variable.                                      *)
LEMMA EntryMade ==
  ASSUME MergedInv, EnvMade, NothingResolved, phase = "env", ResolveEnv
  PROVE  EnvMade'
<1>1. PICK N : N = Len(EnvEntries) /\ N \in Nat
  BY ListFacts DEF MergedInv, EnvMerged
<1>2. PICK n \in 0..N : config.env = SubSeq(EnvEntries, n + 1, N) /\ MadeOf(n)
  BY <1>1 DEF EnvMade
<1> DEFINE S == {EnvEntries[i] : i \in DOMAIN EnvEntries}
           e == Head(config.env)
<1>3. EnvEntries \in Seq(S)
  BY DEF MergedInv, EnvMerged, IsList
<1>4. config.env # <<>> /\ env' = Put(env, e.name, Rendered(e.value)) /\ config' = [config EXCEPT !.env = Tail(@)]
      /\ UNCHANGED <<setup, merged, globalEnv, values>>
  BY DEF ResolveEnv, AddEnv, Goto
<1>5. n < N
  <2>1. n >= N => SubSeq(EnvEntries, n + 1, N) = <<>>
    BY <1>1, <1>2, <1>3
  <2> QED
    BY <1>1, <1>2, <1>4, <2>1
<1> HIDE DEF S
<1>6. e = EnvEntries[n + 1] /\ Tail(config.env) = SubSeq(EnvEntries, n + 1 + 1, N)
  <2>1. PICK q : q = SubSeq(EnvEntries, n + 1, N)
    OBVIOUS
  <2>2. q \in Seq(S) /\ Len(q) = N - n /\ \A i \in 1..(N - n) : q[i] = EnvEntries[n + i]
    BY <1>1, <1>2, <1>3, <1>5, <2>1, SubSeqProperties
  <2>3. Head(q) = q[1] /\ 1 \in 1..(N - n)
    BY <1>1, <1>2, <1>5, <2>2
  <2>4. Tail(q) = SubSeq(EnvEntries, n + 1 + 1, N)
    <3>1. PICK r : r = SubSeq(EnvEntries, n + 1 + 1, N)
      OBVIOUS
    <3>2. r \in Seq(S) /\ Len(r) = N - (n + 1) /\ \A i \in 1..(N - (n + 1)) : r[i] = EnvEntries[n + 1 + i]
      BY <1>1, <1>2, <1>3, <1>5, <3>1, SubSeqProperties
    <3>3. Tail(q) \in Seq(S) /\ Len(Tail(q)) = N - n - 1 /\ \A i \in 1..(N - n - 1) : Tail(q)[i] = q[i + 1]
      BY <2>2, <1>1, <1>2, <1>5
    <3>4. \A i \in 1..(N - n - 1) : Tail(q)[i] = r[i]
      BY <1>1, <1>2, <2>2, <3>2, <3>3
    <3>5. Len(r) = N - n - 1
      BY <1>1, <1>2, <3>2
    <3>6. IsList(r) /\ IsList(Tail(q))
      BY <3>2, <3>3, SeqIsList
    <3> QED
      BY <3>1, <3>3, <3>4, <3>5, <3>6, SameList
  <2> QED
    BY <1>2, <2>1, <2>2, <2>3, <2>4
<1> HIDE DEF e
<1>7. EnvEntries' = EnvEntries /\ Made' = Made
  <2>1. EnvEntries' = EnvEntries
    BY <1>4 DEF EnvEntries
  <2> QED
    BY <1>4, <2>1 DEF Made, After
<1>8. config'.env = SubSeq(EnvEntries, n + 1 + 1, N)
  BY <1>4, <1>6 DEF MergedInv, ConfigShape
<1>9. MadeOf(n + 1)'
  <2>0. n \in Nat /\ n + 1 \in Nat /\ n + 1 # 0 /\ n + 1 \in 1..N /\ \A i \in 1..(n + 1) : i \in 1..n \/ i = n + 1
    BY <1>1, <1>2, <1>5
  <2>1. Rendered(e.value) = Made[n + 1]
    <3>1. Rendered(e.value) = After(n, Made, e.value)
      BY <1>2, <2>0, RenderedIs DEF NothingResolved
    <3>2. Made[n + 1] = After(n + 1 - 1, Made, EnvEntries[n + 1].value)
      BY <1>1, <2>0, MadeIs DEF MergedInv
    <3>3. n + 1 - 1 = n
      BY <2>0
    <3> QED
      BY <1>6, <3>1, <3>2, <3>3
  <2>2. DOMAIN env' = DOMAIN env \cup {e.name} /\ env'[e.name] = Made[n + 1] /\ \A x \in DOMAIN env : x # e.name => env'[x] = env[x]
    <3>1. PICK a, b : a = e.name /\ b = Rendered(e.value)
      OBVIOUS
    <3>2. env' = Put(env, a, b)
      BY <1>4, <3>1
    <3>3. DOMAIN env' = DOMAIN env \cup {a} /\ env'[a] = b /\ \A x \in DOMAIN env : x # a => env'[x] = env[x]
      BY <3>2 DEF Put, Over
    <3> QED
      BY <2>1, <3>1, <3>3
  <2>3. DOMAIN env' = DOMAIN setup'.osEnv \cup {EnvEntries'[i].name : i \in 1..(n + 1)}
    <3>1. {EnvEntries[i].name : i \in 1..(n + 1)} = {EnvEntries[i].name : i \in 1..n} \cup {e.name}
      BY <1>6, <2>0
    <3>2. DOMAIN env = DOMAIN setup.osEnv \cup {EnvEntries[i].name : i \in 1..n}
      BY <1>2 DEF MadeOf
    <3>3. DOMAIN env' = DOMAIN setup.osEnv \cup {EnvEntries[i].name : i \in 1..(n + 1)}
      BY <2>2, <3>1, <3>2
    <3> QED
      BY <1>4, <1>7, <3>3
  <2>4. ASSUME NEW x \in DOMAIN env'
        PROVE  env'[x] = IF LastOf(Before(n + 1, x)) # 0 THEN Made[LastOf(Before(n + 1, x))] ELSE setup.osEnv[x]
    <3>1. /\ Before(n, x) \subseteq 1..n /\ Before(n + 1, x) \subseteq 1..(n + 1)
          /\ \A i \in 1..n : i \in Before(n, x) <=> i \in Before(n + 1, x)
          /\ n + 1 \in Before(n + 1, x) <=> e.name = x
      BY <1>6, <2>0 DEF Before
    <3>2. LastOf(Before(n + 1, x)) = IF n + 1 \in Before(n + 1, x) THEN n + 1 ELSE LastOf(Before(n, x))
      BY <2>0, <3>1, LastOfMore
    <3>3. CASE e.name = x
      BY <2>0, <2>2, <3>1, <3>2, <3>3
    <3>4. CASE e.name # x
      <4>1. x \in DOMAIN env /\ env'[x] = env[x]
        BY <2>2, <2>4, <3>4
      <4>2. env[x] = IF LastOf(Before(n, x)) # 0 THEN Made[LastOf(Before(n, x))] ELSE setup.osEnv[x]
        BY <1>2, <4>1 DEF MadeOf
      <4> QED
        BY <3>1, <3>2, <3>4, <4>1, <4>2
    <3> QED
      BY <3>3, <3>4
  <2>5. \A x : Before(n + 1, x)' = Before(n + 1, x)
    BY <1>7 DEF Before
  <2> QED
    BY <1>4, <1>7, <2>3, <2>4, <2>5 DEF MadeOf
<1>10. n + 1 \in 0..N
  BY <1>1, <1>2, <1>5
<1> QED
  BY <1>1, <1>7, <1>8, <1>9, <1>10 DEF EnvMade

(* The options are set from what all entries made of the environment.      *)
LEMMA OptionsSet ==
  ASSUME ReadTyped, MergedInv, EnvMade, NothingResolved, SetOptions
  PROVE  OptionsKept'
<1>1. PICK N : N = Len(EnvEntries) /\ N \in Nat
  BY ListFacts DEF MergedInv, EnvMerged
<1>2. PICK n \in 0..N : config.env = SubSeq(EnvEntries, n + 1, N) /\ MadeOf(n)
  BY <1>1 DEF EnvMade
<1>3. n = N
  <2>1. EnvEntries \in Seq({EnvEntries[i] : i \in DOMAIN EnvEntries})
    BY DEF MergedInv, EnvMerged, IsList
  <2>2. n < N => SubSeq(EnvEntries, n + 1, N) # <<>>
    <3>1. \A i \in (n + 1)..N : EnvEntries[i] \in {EnvEntries[j] : j \in DOMAIN EnvEntries}
      BY <1>1, <1>2, <2>1
    <3>2. n < N => Len(SubSeq(EnvEntries, n + 1, N)) = N - n /\ N - n # 0
      BY <1>1, <1>2, <3>1, SubSeqProperties
    <3>3. Len(<<>>) = 0
      OBVIOUS
    <3> QED
      BY <3>2, <3>3
  <2>3. config.env = <<>>
    BY DEF SetOptions
  <2> QED
    BY <1>1, <1>2, <2>2, <2>3
<1>4. globalEnv = setup.globalEnv /\ values = <<>> /\ DOMAIN values = {}
  BY DEF NothingResolved
<1>5. \A v : Rendered(v) = Seen(v)
  <2>1. \A v : Rendered(v) = After(N, Made, v)
    BY <1>1, <1>2, <1>3, <1>4, RenderedIs
  <2> QED
    BY <1>1, <2>1 DEF Seen
<1>6. UNCHANGED <<setup, merged, env>>
  BY DEF SetOptions, Goto
<1>7. EnvEntries' = EnvEntries /\ \A v : Seen(v)' = Seen(v)
  <2>1. EnvEntries' = EnvEntries
    BY <1>6 DEF EnvEntries
  <2> QED
    BY <1>6, <2>1 DEF Seen, Made, After
<1>8. \A x : Wanted(x)' = Wanted(x) /\ With(x)' = With(x)
  BY <1>6, <1>7 DEF Wanted, Literals, Suffixed, With
<1>9. ASSUME NEW x \in Options PROVE Resolved(config[x]) = Wanted(x)
  <2>1. PICK lit, ref : lit = LastOf(Literals(x)) /\ ref = LastOf(Suffixed(x))
    OBVIOUS
  <2>2. /\ config[x].lit = IF lit = 0 THEN Unset ELSE merged[lit][x].lit
        /\ config[x].ref = IF ref = 0 THEN Unset ELSE merged[ref][x].ref
    BY <2>1 DEF MergedInv, OptionsMerged
  <2>3. Wanted(x) = IF ref # 0 /\ Seen(Ref(merged[ref][x].ref)) # Unset THEN Seen(Ref(merged[ref][x].ref))
                    ELSE IF lit # 0 THEN merged[lit][x].lit ELSE Unset
    BY <2>1 DEF Wanted
  <2>4. ref # 0 => config[x].ref # Unset
    <3>1. Suffixed(x) \subseteq 1..Len(merged) /\ Len(merged) \in Nat
      BY MergedLists DEF Suffixed, ReadTyped
    <3>2. ref # 0 => ref \in Suffixed(x)
      BY <2>1, <3>1, LastOfNone, LastOfGreatest
    <3> QED
      BY <2>2, <3>2 DEF Suffixed
  <2>5. config[x].ref # Unset => Rendered(config[x]) = Rendered(Ref(config[x].ref))
    BY DEF Rendered, Ref
  <2>6. config[x].ref = Unset => Rendered(config[x]) = config[x].lit
    BY DEF Rendered
  <2> QED
    BY <1>5, <2>2, <2>3, <2>4, <2>5, <2>6 DEF Resolved
<1>10. globalEnv' = [globalEnv EXCEPT !["GIT_DEFAULT_BRANCH"] =
                       IF Resolved(config.branch) = Unset THEN @ ELSE Resolved(config.branch)]
       /\ "GIT_DEFAULT_BRANCH" \in DOMAIN globalEnv
  BY <1>4, DocumentsAssumption DEF SetOptions, ReadTyped
<1>11. /\ cacheDir' = IF Wanted("cacheDir")' = Unset THEN DEFAULT_CACHE_DIR ELSE Wanted("cacheDir")'
       /\ Wanted("branch")' # Unset => globalEnv'["GIT_DEFAULT_BRANCH"] = Wanted("branch")'
  <2>1. Resolved(config.cacheDir) = Wanted("cacheDir") /\ Resolved(config.branch) = Wanted("branch")
    BY <1>9 DEF Options
  <2>2. cacheDir' = IF Resolved(config.cacheDir) = Unset THEN DEFAULT_CACHE_DIR ELSE Resolved(config.cacheDir)
    BY DEF SetOptions
  <2> QED
    BY <1>8, <1>10, <2>1, <2>2
<1>12. ASSUME NEW e \in ToSet(EnvEntries'), e.name \notin DOMAIN globalEnv' \cup {Unset}
       PROVE  Each'[e.name] = Seen(Ref(e.name))'
  <2>1. PICK i \in 1..N : e = EnvEntries[i]
    BY <1>1, <1>7, <1>12, ListFacts DEF ToSet, MergedInv, EnvMerged
  <2>2. e.name \in DOMAIN env
    BY <1>2, <1>3, <2>1 DEF MadeOf
  <2>3. e.name \notin DOMAIN globalEnv /\ e.name # Unset
    BY <1>10, <1>12
  <2>4. Each'[e.name] = env[e.name]
    BY <1>6, <1>12, <2>2 DEF Each, Over
  <2>5. Rendered(Ref(e.name)) = env[e.name]
    BY <2>2, <2>3 DEF Rendered, Ref, Lookup
  <2> QED
    BY <1>5, <1>7, <2>4, <2>5
<1>13. ASSUME NEW g \in DOMAIN setup'.globalEnv \ {"GIT_DEFAULT_BRANCH"} PROVE Lookup(g)' = setup'.globalEnv[g]
  <2>1. g \in DOMAIN globalEnv' /\ globalEnv'[g] = setup.globalEnv[g]
    BY <1>4, <1>6, <1>10
  <2> QED
    BY <1>6, <2>1 DEF Lookup
<1>14. ASSUME NEW v \in DOMAIN values' PROVE values'[v] = merged'[LastOf(With(v)')].values[v]
  <2>1. values' = Over(config.values, values)
    BY DEF SetOptions
  <2>2. v \in DOMAIN config.values /\ values'[v] = config.values[v]
    BY <1>4, <1>14, <2>1 DEF Over
  <2>3. config.values[v] = merged[LastOf(With(v))].values[v]
    BY <2>2 DEF MergedInv, OptionsMerged
  <2> QED
    BY <1>6, <1>8, <2>2, <2>3
<1> QED
  BY <1>11, <1>12, <1>13, <1>14 DEF OptionsKept, With

(* They stay as they are.                                                  *)
LEMMA OptionsStay ==
  ASSUME OptionsKept, UNCHANGED <<setup, merged, cacheDir, globalEnv, env, values>>
  PROVE  OptionsKept'
<1>1. EnvEntries' = EnvEntries
  BY DEF EnvEntries
<1>2. Made' = Made
  BY <1>1 DEF Made, After
<1>3. \A v : Seen(v)' = Seen(v)
  BY <1>1, <1>2 DEF Seen, After
<1>4. Each' = Each /\ \A g : Lookup(g)' = Lookup(g)
  BY DEF Each, Lookup
<1>5. \A x : Wanted(x)' = Wanted(x)
  BY <1>3 DEF Wanted, Literals, Suffixed
<1> QED
  BY <1>1, <1>3, <1>4, <1>5 DEF OptionsKept

(***************************************************************************)
(* Tasks                                                                   *)
(***************************************************************************)

(* The table of a group: its tasks by name, of one kind.                   *)
LEMMA GroupTable ==
  ASSUME TasksMerged, NEW g \in DOMAIN config.tasks
  PROVE  /\ IsList(config.tasks[g])
         /\ \A i \in DOMAIN config.tasks[g] :
              <<config.tasks[g][i].kind, config.tasks[g][i].name>> = <<g[3], config.tasks[g][i].name>>
         /\ DOMAIN Table(g) = {<<g[3], config.tasks[g][i].name>> : i \in DOMAIN config.tasks[g]}
         /\ \A t \in DOMAIN Table(g) :
              /\ t[1] = g[3] /\ LastOf({i \in DOMAIN config.tasks[g] : config.tasks[g][i].name = t[2]}) # 0
              /\ Table(g)[t] = config.tasks[g][LastOf({i \in DOMAIN config.tasks[g] : config.tasks[g][i].name = t[2]})].id
<1>0. PICK s : s = config.tasks[g]
  OBVIOUS
<1>1. IsList(s) /\ \A i \in DOMAIN s : s[i].kind = g[3]
  BY <1>0 DEF TasksMerged
<1>2. Len(s) \in Nat /\ DOMAIN s = 1..Len(s)
  BY <1>1, ListFacts
<1>3. Table(g) = TaskTable(s)
  BY <1>0 DEF Table
<1>4. DOMAIN TaskTable(s) = {<<s[i].kind, s[i].name>> : i \in 1..Len(s)}
  BY <1>1, TaskTableFacts
<1>5. DOMAIN Table(g) = {<<g[3], s[i].name>> : i \in DOMAIN s}
  BY <1>1, <1>2, <1>3, <1>4
<1>6. ASSUME NEW t \in DOMAIN Table(g)
      PROVE  /\ t[1] = g[3] /\ LastOf({i \in DOMAIN s : s[i].name = t[2]}) # 0
             /\ Table(g)[t] = s[LastOf({i \in DOMAIN s : s[i].name = t[2]})].id
  <2>1. PICK i \in 1..Len(s) : /\ <<s[i].kind, s[i].name>> = t /\ TaskTable(s)[t] = s[i].id
                               /\ i = LastOf({j \in 1..Len(s) : <<s[j].kind, s[j].name>> = t})
    BY <1>1, <1>3, <1>6, TaskTableFacts
  <2>2. t = <<g[3], t[2]>> /\ t[1] = g[3]
    BY <1>1, <1>2, <2>1
  <2>3. {j \in 1..Len(s) : <<s[j].kind, s[j].name>> = t} = {j \in DOMAIN s : s[j].name = t[2]}
    <3>1. ASSUME NEW j \in 1..Len(s) PROVE <<s[j].kind, s[j].name>> = t <=> s[j].name = t[2]
      BY <1>1, <1>2, <2>2
    <3> QED
      BY <1>2, <3>1
  <2>4. i = LastOf({j \in DOMAIN s : s[j].name = t[2]})
    BY <2>1, <2>3
  <2>5. i # 0 /\ Table(g)[t] = s[i].id
    BY <1>2, <1>3, <2>1
  <2> QED
    BY <2>2, <2>4, <2>5
<1> QED
  BY <1>0, <1>1, <1>5, <1>6

(* The tasks of one more group are added.                                  *)
LEMMA HasMore ==
  ASSUME TasksMerged, NEW T, NEW key, NEW W, NEW g \in DOMAIN config.tasks, HasTasks(T, key, W), <<g[1], g[2]>> = key
  PROVE  HasTasks(T \o config.tasks[g], key, W \cup {g})
<1>0. PICK s : s = config.tasks[g]
  OBVIOUS
<1>1. IsList(s) /\ IsList(T) /\ TaskTable(s) = Table(g) /\ \A t \in DOMAIN TaskTable(s) : t[1] = g[3]
  BY <1>0, GroupTable DEF HasTasks, Table
<1>2. g = <<g[1], g[2], g[3]>>
  BY DEF TasksMerged
<1>3. PICK u : u = T \o s
  OBVIOUS
<1>4. /\ IsList(u) /\ DOMAIN TaskTable(u) = DOMAIN TaskTable(T) \cup DOMAIN TaskTable(s)
      /\ \A t \in DOMAIN TaskTable(u) :
           TaskTable(u)[t] = IF t \in DOMAIN TaskTable(s) THEN TaskTable(s)[t] ELSE TaskTable(T)[t]
  <2>1. IsList(u)
    BY <1>1, <1>3, Joined
  <2> QED
    <3>1. /\ DOMAIN TaskTable(T \o s) = DOMAIN TaskTable(T) \cup DOMAIN TaskTable(s)
          /\ \A t \in DOMAIN TaskTable(T \o s) :
               TaskTable(T \o s)[t] = IF t \in DOMAIN TaskTable(s) THEN TaskTable(s)[t] ELSE TaskTable(T)[t]
      BY <1>1, TablesJoined, Zenon
    <3> QED
      BY <1>3, <2>1, <3>1
<1>5. ASSUME NEW t \in DOMAIN TaskTable(u)
      PROVE  LET h == <<key[1], key[2], t[1]>>
             IN h \in W \cup {g} /\ t \in DOMAIN Table(h) /\ TaskTable(u)[t] = Table(h)[t]
  <2>1. CASE t \in DOMAIN TaskTable(s)
    <3>1. <<key[1], key[2], t[1]>> = g
      BY <1>1, <1>2, <2>1
    <3> QED
      BY <1>1, <1>4, <2>1, <3>1
  <2>2. CASE t \notin DOMAIN TaskTable(s)
    BY <1>4, <2>2 DEF HasTasks
  <2> QED
    BY <2>1, <2>2
<1>6. ASSUME NEW h \in W \cup {g}, <<h[1], h[2]>> = key PROVE DOMAIN Table(h) \subseteq DOMAIN TaskTable(u)
  BY <1>1, <1>4, <1>6 DEF HasTasks
<1> QED
  BY <1>0, <1>3, <1>4, <1>5, <1>6 DEF HasTasks

(* A group that has none for the tool changes nothing.                     *)
LEMMA HasOther ==
  ASSUME NEW T, NEW key, NEW W, NEW g, HasTasks(T, key, W), <<g[1], g[2]>> # key \/ DOMAIN Table(g) = {}
  PROVE  HasTasks(T, key, W \cup {g})
BY DEF HasTasks

(* A tool that no group is for has no tasks.                               *)
LEMMA HasNone ==
  ASSUME NEW key, NEW W, \A g \in W : <<g[1], g[2]>> # key
  PROVE  HasTasks(<<>>, key, W)
<1>1. DOMAIN TaskTable(<<>>) = {}
  BY DEF TaskTable
<1> QED
  BY <1>1, FlattenNone DEF HasTasks

(* The tasks a list has depend on the config alone.                        *)
LEMMA HasStays ==
  ASSUME NEW T, NEW key, NEW W, HasTasks(T, key, W), config'.tasks = config.tasks
  PROVE  HasTasks(T, key, W)'
<1>1. \A g : Table(g)' = Table(g)
  BY DEF Table
<1> QED
  BY <1>1 DEF HasTasks

(* No group has been gone through when the options are set.                *)
LEMMA TasksStart ==
  ASSUME NothingResolved, SetOptions
  PROVE  TasksAdding' /\ tools' = <<>> /\ tool' = NoTool
<1>1. left' = DOMAIN config.tasks /\ config' = config /\ toolTasks' = <<>> /\ tools' = <<>> /\ tool' = NoTool
  BY DEF SetOptions, NothingResolved
<1>2. DOMAIN <<>> = {}
  OBVIOUS
<1>3. left' \subseteq DOMAIN config'.tasks /\ DOMAIN toolTasks' \subseteq ToolKeys'
  BY <1>1, <1>2
<1>4. ASSUME NEW key \in ToolKeys' PROVE HasTasks(TasksOf(key), key, DOMAIN config.tasks \ left)'
  <2>1. TasksOf(key)' = <<>> /\ (DOMAIN config.tasks \ left)' = {}
    BY <1>1, <1>2 DEF TasksOf
  <2>2. HasTasks(<<>>, key, {})'
    BY HasNone, HasStays, <1>1
  <2> QED
    BY <2>1, <2>2 DEF HasTasks
<1> QED
  BY <1>1, <1>3, <1>4 DEF TasksAdding

(* Whichever group is next, its tasks are added to those of its tool.      *)
LEMMA TasksMore ==
  ASSUME TasksMerged, TasksAdding, AddTasks, phase' = "tasks"
  PROVE  TasksAdding'
<1>1. PICK g \in left : /\ left' = left \ {g}
                        /\ IF config.tasks[g] = <<>> THEN UNCHANGED toolTasks
                           ELSE AddToolSpecificTasks(<<g[1], g[2]>>, config.tasks[g])
  BY DEF AddTasks, Goto
<1>2. config' = config /\ g \in DOMAIN config.tasks /\ ToolKeys' = ToolKeys
  BY <1>1 DEF AddTasks, TasksAdding, ToolKeys
<1> DEFINE W == DOMAIN config.tasks \ left
<1>3. (DOMAIN config.tasks \ left)' = W \cup {g}
  BY <1>1, <1>2 DEF TasksAdding
<1>4. <<g[1], g[2]>> \in ToolKeys
  BY <1>2 DEF ToolKeys
<1>5. ASSUME NEW key \in ToolKeys
      PROVE  HasTasks(TasksOf(key)', key, W \cup {g})
  <2>1. HasTasks(TasksOf(key), key, W)
    BY DEF TasksAdding
  <2> HIDE DEF W
  <2>2. CASE config.tasks[g] = <<>>
    <3>1. DOMAIN Table(g) = {}
      BY <2>2 DEF Table, TaskTable
    <3>2. TasksOf(key)' = TasksOf(key)
      BY <1>1, <2>2 DEF TasksOf
    <3> QED
      BY <2>1, <3>1, <3>2, HasOther
  <2>3. CASE config.tasks[g] # <<>> /\ key = <<g[1], g[2]>>
    <3>1. toolTasks' = Put(toolTasks, key, TasksOf(key) \o config.tasks[g])
      BY <1>1, <2>3 DEF AddToolSpecificTasks
    <3>2. TasksOf(key)' = TasksOf(key) \o config.tasks[g]
      BY <3>1 DEF TasksOf, Put, Over
    <3>3. HasTasks(TasksOf(key) \o config.tasks[g], key, W \cup {g})
      BY <1>2, <2>1, <2>3, HasMore
    <3> QED
      BY <3>2, <3>3
  <2>4. CASE config.tasks[g] # <<>> /\ key # <<g[1], g[2]>>
    <3>1. PICK k0, T0 : k0 = <<g[1], g[2]>> /\ T0 = TasksOf(k0) \o config.tasks[g]
      OBVIOUS
    <3>2. toolTasks' = Put(toolTasks, k0, T0) /\ key # k0
      BY <1>1, <2>4, <3>1 DEF AddToolSpecificTasks
    <3>3. TasksOf(key)' = TasksOf(key)
      BY <3>2 DEF TasksOf, Put, Over
    <3> QED
      BY <2>1, <2>4, <3>3, HasOther
  <2> QED
    BY <2>2, <2>3, <2>4
<1>6. DOMAIN toolTasks' \subseteq ToolKeys
  <2>1. PICK k0, T0 : k0 = <<g[1], g[2]>> /\ T0 = TasksOf(k0) \o config.tasks[g]
    OBVIOUS
  <2>2. UNCHANGED toolTasks \/ toolTasks' = Put(toolTasks, k0, T0)
    BY <1>1, <2>1 DEF AddToolSpecificTasks
  <2> QED
    BY <1>4, <2>1, <2>2 DEF TasksAdding, Put, Over
<1>7. ASSUME NEW key \in ToolKeys' PROVE HasTasks(TasksOf(key), key, DOMAIN config.tasks \ left)'
  <2>1. PICK T, V : T = TasksOf(key)' /\ V = (DOMAIN config.tasks \ left)'
    OBVIOUS
  <2>2. HasTasks(T, key, V)
    BY <1>2, <1>3, <1>5, <2>1
  <2>3. HasTasks(T, key, V)'
    BY <1>2, <2>2, HasStays
  <2> QED
    BY <2>1, <2>3 DEF HasTasks
<1>8. left' \subseteq DOMAIN config'.tasks
  BY <1>1, <1>2 DEF TasksAdding
<1> QED
  BY <1>2, <1>6, <1>7, <1>8 DEF TasksAdding

(* All tasks have been added when the tools are gone through.              *)
LEMMA ToolsStart ==
  ASSUME TasksAdding, tools = <<>>, tool = NoTool, TasksAdded
  PROVE  ToolsAdding'
<1>1. left = {} /\ left' = DOMAIN config.tools /\ UNCHANGED <<config, toolTasks, tools, tool>>
  BY DEF TasksAdded
<1>2. DOMAIN <<>> = {} /\ DOMAIN config'.tools \ left' = {} /\ DOMAIN tools' = {}
  BY <1>1
<1>3. AddedTools' = {} /\ NamesDistinct'
  BY <1>2 DEF AddedTools, NamesDistinct
<1>4. ToolKeys' = ToolKeys
  BY <1>1 DEF ToolKeys
<1>5. ASSUME NEW key \in ToolKeys' PROVE HasTasks(TasksOf(key), key, DOMAIN config.tasks)'
  <2>1. PICK T, V : T = TasksOf(key) /\ V = DOMAIN config.tasks
    OBVIOUS
  <2>2. HasTasks(T, key, V)
    BY <1>1, <1>4, <2>1 DEF TasksAdding
  <2>3. HasTasks(T, key, V)'
    BY <1>1, <2>2, HasStays
  <2>4. TasksOf(key)' = T /\ DOMAIN config'.tasks = V
    BY <1>1, <2>1 DEF TasksOf
  <2> QED
    BY <2>3, <2>4 DEF HasTasks
<1> QED
  BY <1>1, <1>2, <1>3, <1>4, <1>5 DEF ToolsAdding, TasksAdding

(***************************************************************************)
(* Tools                                                                   *)
(***************************************************************************)

(* A tool's own tasks and then those for all tools of the kind make its    *)
(* table.                                                                  *)
LEMMA TableOfBoth ==
  ASSUME NEW D, D = DOMAIN config.tasks, NEW k, NEW n, NEW own, NEW all,
         HasTasks(own, <<k, n>>, D), HasTasks(all, <<k, Unset>>, D)
  PROVE  ToolTable(<<k, n>>, TaskTable(own \o all))
<1>0. PICK u, tb : u = own \o all /\ tb = TaskTable(u)
  OBVIOUS
<1>1. IsList(own) /\ IsList(all)
  BY DEF HasTasks
<1>2. /\ DOMAIN tb = DOMAIN TaskTable(own) \cup DOMAIN TaskTable(all)
      /\ \A t \in DOMAIN tb : tb[t] = IF t \in DOMAIN TaskTable(all) THEN TaskTable(all)[t] ELSE TaskTable(own)[t]
  <2>1. /\ DOMAIN TaskTable(own \o all) = DOMAIN TaskTable(own) \cup DOMAIN TaskTable(all)
        /\ \A t \in DOMAIN TaskTable(own \o all) :
             TaskTable(own \o all)[t] = IF t \in DOMAIN TaskTable(all) THEN TaskTable(all)[t] ELSE TaskTable(own)[t]
    BY <1>1, TablesJoined, Zenon
  <2> QED
    BY <1>0, <2>1
<1>3. PICK key : key = <<k, n>> /\ key[1] = k /\ key[2] = n
  OBVIOUS
<1>4. \A t \in DOMAIN TaskTable(all) :
        <<k, Unset, t[1]>> \in D /\ t \in DOMAIN Table(<<k, Unset, t[1]>>) /\ TaskTable(all)[t] = Table(<<k, Unset, t[1]>>)[t]
  BY DEF HasTasks
<1>5. \A t \in DOMAIN TaskTable(own) :
        <<k, n, t[1]>> \in D /\ t \in DOMAIN Table(<<k, n, t[1]>>) /\ TaskTable(own)[t] = Table(<<k, n, t[1]>>)[t]
  BY DEF HasTasks
<1>6. \A g \in D : <<g[1], g[2]>> = <<k, Unset>> => DOMAIN Table(g) \subseteq DOMAIN TaskTable(all)
  BY DEF HasTasks
<1>7. \A g \in D : <<g[1], g[2]>> = <<k, n>> => DOMAIN Table(g) \subseteq DOMAIN TaskTable(own)
  BY DEF HasTasks
<1>8. ASSUME NEW t \in DOMAIN tb
      PROVE  \/ <<k, Unset, t[1]>> \in D /\ t \in DOMAIN Table(<<k, Unset, t[1]>>) /\ tb[t] = Table(<<k, Unset, t[1]>>)[t]
             \/ /\ ~(<<k, Unset, t[1]>> \in D /\ t \in DOMAIN Table(<<k, Unset, t[1]>>))
                /\ <<k, n, t[1]>> \in D /\ t \in DOMAIN Table(<<k, n, t[1]>>) /\ tb[t] = Table(<<k, n, t[1]>>)[t]
  <2>1. CASE t \in DOMAIN TaskTable(all)
    BY <1>2, <1>4, <2>1
  <2>2. CASE t \notin DOMAIN TaskTable(all)
    <3>0. PICK g : g = <<k, Unset, t[1]>>
      OBVIOUS
    <3>1. g = <<k, Unset, t[1]>> /\ <<g[1], g[2]>> = <<k, Unset>>
      BY <3>0
    <3>2. ~(g \in D /\ t \in DOMAIN Table(g))
      BY <1>6, <2>2, <3>1
    <3>3. t \in DOMAIN TaskTable(own) /\ tb[t] = TaskTable(own)[t]
      BY <1>2, <2>2
    <3> QED
      BY <1>5, <3>1, <3>2, <3>3
  <2> QED
    BY <2>1, <2>2
<1>9. ASSUME NEW g \in D, g[1] = k, g[2] \in {Unset, n} PROVE DOMAIN Table(g) \subseteq DOMAIN tb
  BY <1>2, <1>6, <1>7, <1>9
<1> QED
  BY <1>0, <1>3, <1>8, <1>9 DEF ToolTable

(* What holds of the tools and tasks holds for as long as they stay.       *)
LEMMA ToolsStay ==
  ASSUME ToolsAdding, UNCHANGED <<config, toolTasks, tools>>, left' \subseteq DOMAIN config.tools,
         (tool = NoTool \/ (tool = [kind |-> tool.kind, at |-> tool.at] /\ tool.kind \in DOMAIN config.tools \ left
                           /\ tool.at \in 1..(Len(config.tools[tool.kind]) + 1)))',
         AddedTools' = AddedTools, NamesDistinct'
  PROVE  ToolsAdding'
<1>1. ToolKeys' = ToolKeys /\ \A key : TasksOf(key)' = TasksOf(key)
  BY DEF ToolKeys, TasksOf
<1>2. \A g : Table(g)' = Table(g)
  BY DEF Table
<1>3. ASSUME NEW key \in DOMAIN tools' PROVE ToolTable(key, tools[key])'
  BY <1>2, <1>3 DEF ToolsAdding, ToolTable
<1>4. ASSUME NEW key \in ToolKeys' \ DOMAIN tools' PROVE HasTasks(TasksOf(key), key, DOMAIN config.tasks)'
  <2>1. PICK T, V : T = TasksOf(key) /\ V = DOMAIN config.tasks
    OBVIOUS
  <2>2. HasTasks(T, key, V)
    BY <1>1, <2>1 DEF ToolsAdding
  <2>3. HasTasks(T, key, V)'
    BY <2>2, HasStays
  <2>4. TasksOf(key)' = T /\ DOMAIN config'.tasks = V
    BY <1>1, <2>1
  <2> QED
    BY <2>3, <2>4 DEF HasTasks
<1> QED
  BY <1>1, <1>3, <1>4 DEF ToolsAdding

(* Whichever kind is next, none of its tools have been added.              *)
LEMMA KindNext ==
  ASSUME MergedTyped, ToolsMerged, ToolsAdding, NextKind
  PROVE  ToolsAdding' /\ (phase' = "ready" => left' = {} /\ tool' = NoTool)
<1>0. tool = NoTool /\ UNCHANGED <<config, toolTasks, tools>>
  BY DEF NextKind, Goto
<1>1. CASE left = {} /\ UNCHANGED <<left, tool>>
  <2>1. \A k, i : Added(k, i)' = Added(k, i)
    BY <1>1 DEF Added
  <2>2. AddedTools' = AddedTools /\ NamesDistinct'
    BY <1>0, <1>1, <2>1 DEF AddedTools, NamesDistinct, ToolsAdding
  <2> QED
    BY <1>0, <1>1, <2>2, ToolsStay DEF ToolsAdding
<1>2. ASSUME NEW kind \in left, tool' = [kind |-> kind, at |-> 1], left' = left \ {kind}, phase' = "tools"
      PROVE  ToolsAdding' /\ phase' # "ready"
  <2>1. kind \in DOMAIN config.tools /\ left' \subseteq DOMAIN config.tools
    BY <1>2 DEF ToolsAdding
  <2>2. Len(config.tools[kind]) \in Nat /\ DOMAIN config.tools[kind] = 1..Len(config.tools[kind])
    BY <2>1, ListFacts DEF ToolsMerged
  <2>3. \A k, i : Added(k, i)
    BY <1>0 DEF Added
  <2>4. \A k, i : Added(k, i)' <=> k # kind \/ i < 1
    <3>1. tool'.kind = kind /\ tool'.at = 1 /\ NoTool.at = 0
      BY <1>2 DEF NoTool
    <3>2. tool' # NoTool
      BY <3>1
    <3> QED
      BY <3>1, <3>2 DEF Added
  <2>5. \A i \in DOMAIN config.tools[kind] : ~Added(kind, i)'
    BY <2>2, <2>4
  <2>6. DOMAIN config'.tools \ left' = (DOMAIN config.tools \ left) \cup {kind}
    BY <1>0, <1>2, <2>1
  <2>7. AddedTools' = AddedTools
    <3>1. ASSUME NEW x \in AddedTools PROVE x \in AddedTools'
      <4>1. PICK k \in DOMAIN config.tools \ left : \E i \in DOMAIN config.tools[k] : x = <<k, config.tools[k][i]>>
        BY DEF AddedTools
      <4>2. PICK i \in DOMAIN config.tools[k] : x = <<k, config.tools[k][i]>>
        BY <4>1
      <4>3. Added(k, i)' /\ k \in DOMAIN config'.tools \ left'
        BY <1>2, <2>4, <2>6
      <4> QED
        BY <1>0, <4>2, <4>3 DEF AddedTools
    <3>2. ASSUME NEW x \in AddedTools' PROVE x \in AddedTools
      <4>1. PICK k \in DOMAIN config'.tools \ left' : \E i \in DOMAIN config.tools[k] : Added(k, i)' /\ x = <<k, config.tools[k][i]>>
        BY <1>0 DEF AddedTools
      <4>2. PICK i \in DOMAIN config.tools[k] : Added(k, i)' /\ x = <<k, config.tools[k][i]>>
        BY <4>1
      <4>3. k # kind
        BY <2>5, <4>2
      <4>4. k \in DOMAIN config.tools \ left
        BY <2>6, <4>3
      <4> QED
        BY <2>3, <4>2, <4>4 DEF AddedTools
    <3> QED
      BY <3>1, <3>2
  <2>8. NamesDistinct'
    <3> SUFFICES ASSUME NEW k \in DOMAIN config'.tools \ left', NEW i \in DOMAIN config'.tools[k], Added(k, i)'
                 PROVE  config'.tools[k][i] # Unset /\ \A j \in 1..(i - 1) : config'.tools[k][j] # config'.tools[k][i]
      BY DEF NamesDistinct
    <3>1. k # kind
      BY <1>0, <2>5
    <3>2. k \in DOMAIN config.tools \ left
      BY <2>6, <3>1
    <3> QED
      BY <1>0, <2>3, <3>2 DEF ToolsAdding, NamesDistinct
  <2>9. (tool = NoTool \/ (tool = [kind |-> tool.kind, at |-> tool.at] /\ tool.kind \in DOMAIN config.tools \ left
                           /\ tool.at \in 1..(Len(config.tools[tool.kind]) + 1)))'
    BY <1>0, <1>2, <2>1, <2>2, <2>6
  <2> QED
    BY <1>0, <1>2, <2>1, <2>7, <2>8, <2>9, ToolsStay
<1>3. CASE left # {}
  BY <1>2, <1>3 DEF NextKind, Goto
<1> QED
  BY <1>0, <1>1, <1>3 DEF NextKind, Goto

(* A kind is done with: all its tools have been added.                     *)
LEMMA KindDone ==
  ASSUME MergedTyped, ToolsMerged, ToolsAdding, tool # NoTool, tool.at > Len(config.tools[tool.kind]),
         tool' = NoTool, UNCHANGED <<config, left, toolTasks, tools>>
  PROVE  ToolsAdding'
<1>1. tool.kind \in DOMAIN config.tools \ left /\ tool.at \in 1..(Len(config.tools[tool.kind]) + 1)
  BY DEF ToolsAdding
<1>2. Len(config.tools[tool.kind]) \in Nat /\ DOMAIN config.tools[tool.kind] = 1..Len(config.tools[tool.kind])
  BY <1>1, ListFacts DEF ToolsMerged
<1>3. \A k : \A i \in DOMAIN config.tools[k] : Added(k, i)
  <2> SUFFICES ASSUME NEW k, NEW i \in DOMAIN config.tools[k], k = tool.kind PROVE i < tool.at
    BY DEF Added
  <2>1. tool.at = Len(config.tools[tool.kind]) + 1
    BY <1>1, <1>2
  <2> QED
    BY <1>2, <2>1
<1>4. \A k, i : Added(k, i)'
  BY DEF Added
<1>5. AddedTools' = AddedTools
  BY <1>3, <1>4 DEF AddedTools
<1>6. NamesDistinct'
  BY <1>3 DEF NamesDistinct, ToolsAdding
<1>7. left' \subseteq DOMAIN config.tools
  BY DEF ToolsAdding
<1> QED
  BY <1>5, <1>6, <1>7, ToolsStay

(* One more tool is added.                                                 *)
LEMMA ToolMore ==
  ASSUME MergedTyped, ToolsMerged, ToolsAdding, NEW k, NEW at, NEW name,
         tool # NoTool, k = tool.kind, at = tool.at, at <= Len(config.tools[k]), name = config.tools[k][at],
         name # Unset, \A i \in 1..(at - 1) : config.tools[k][i] # name,
         toolTasks' = Put(toolTasks, <<k, name>>, TasksOf(<<k, name>>) \o TasksOf(<<k, Unset>>)),
         tools' = Put(tools, <<k, name>>, TaskTable(TasksOf(<<k, name>>) \o TasksOf(<<k, Unset>>))),
         tool' = [tool EXCEPT !.at = @ + 1], UNCHANGED <<config, left>>
  PROVE  ToolsAdding'
<1>0. /\ tool = [kind |-> k, at |-> at] /\ k \in DOMAIN config.tools \ left /\ at \in 1..(Len(config.tools[k]) + 1)
      /\ tool' = [kind |-> k, at |-> at + 1]
  BY DEF ToolsAdding
<1>1. Len(config.tools[k]) \in Nat /\ DOMAIN config.tools[k] = 1..Len(config.tools[k])
  BY <1>0, ListFacts DEF ToolsMerged
<1>2. at \in 1..Len(config.tools[k]) /\ at \in Nat /\ at + 1 \in 1..(Len(config.tools[k]) + 1)
  BY <1>0, <1>1
<1>3. PICK key : key = <<k, name>>
  OBVIOUS
<1>4. \A j, i : Added(j, i) <=> j # k \/ i < at
  <2>1. tool.kind = k /\ tool.at = at
    OBVIOUS
  <2> QED
    BY <2>1 DEF Added
<1>5. \A j, i : Added(j, i)' <=> j # k \/ i < at + 1
  <2>1. tool'.kind = k /\ tool'.at = at + 1 /\ at + 1 # 0 /\ NoTool.at = 0
    <3>1. at + 1 # 0
      BY <1>2
    <3>2. tool'.kind = k /\ tool'.at = at + 1
      BY <1>0
    <3> QED
      BY <3>1, <3>2 DEF NoTool
  <2>2. tool' # NoTool
    BY <2>1
  <2> QED
    BY <2>1, <2>2 DEF Added
<1>6. \A i \in DOMAIN config.tools[k] : i < at + 1 <=> i < at \/ i = at
  BY <1>1, <1>2
<1>7. AddedTools' = AddedTools \cup {key}
  <2>1. ASSUME NEW x \in AddedTools PROVE x \in AddedTools'
    <3>1. PICK j \in DOMAIN config.tools \ left : \E i \in DOMAIN config.tools[j] : Added(j, i) /\ x = <<j, config.tools[j][i]>>
      BY DEF AddedTools
    <3>2. PICK i \in DOMAIN config.tools[j] : Added(j, i) /\ x = <<j, config.tools[j][i]>>
      BY <3>1
    <3>3. Added(j, i)'
      BY <1>4, <1>5, <1>6, <3>2
    <3> QED
      BY <3>2, <3>3 DEF AddedTools
  <2>2. key \in AddedTools'
    <3>1. Added(k, at)' /\ at \in DOMAIN config'.tools[k] /\ k \in DOMAIN config'.tools \ left'
      BY <1>0, <1>1, <1>2, <1>5
    <3>2. key = <<k, config'.tools[k][at]>>
      BY <1>3
    <3> QED
      BY <3>1, <3>2 DEF AddedTools
  <2>3. ASSUME NEW x \in AddedTools' PROVE x \in AddedTools \cup {key}
    <3>1. PICK j \in DOMAIN config.tools \ left : \E i \in DOMAIN config.tools[j] : Added(j, i)' /\ x = <<j, config.tools[j][i]>>
      BY DEF AddedTools
    <3>2. PICK i \in DOMAIN config.tools[j] : Added(j, i)' /\ x = <<j, config.tools[j][i]>>
      BY <3>1
    <3>3. CASE Added(j, i)
      BY <3>2, <3>3 DEF AddedTools
    <3>4. CASE ~Added(j, i)
      <4>1. j = k /\ i = at
        BY <1>4, <1>5, <1>6, <3>2, <3>4
      <4> QED
        BY <1>3, <3>2, <4>1
    <3> QED
      BY <3>3, <3>4
  <2> QED
    BY <2>1, <2>2, <2>3
<1>8. \A x \in DOMAIN tools : \E j \in DOMAIN config.tools \ left : \E i \in DOMAIN config.tools[j] :
        /\ x = <<j, config.tools[j][i]>> /\ Added(j, i)
  BY DEF ToolsAdding, AddedTools
<1>9. key \notin DOMAIN tools /\ <<k, Unset>> \notin DOMAIN tools
  <2> SUFFICES ASSUME NEW j \in DOMAIN config.tools \ left, NEW i \in DOMAIN config.tools[j], Added(j, i),
                      <<j, config.tools[j][i]>> = key \/ <<j, config.tools[j][i]>> = <<k, Unset>>
               PROVE  FALSE
    BY <1>8
  <2>1. j = k
    BY <1>3
  <2>2. i < at /\ i \in 1..(at - 1)
    BY <1>1, <1>2, <1>4, <2>1
  <2>3. config.tools[k][i] # name /\ config.tools[k][i] # Unset
    BY <1>0, <2>1, <2>2 DEF ToolsAdding, NamesDistinct
  <2> QED
    BY <1>3, <2>1, <2>3
<1>10. \A x : x \notin DOMAIN tools => HasTasks(TasksOf(x), x, DOMAIN config.tasks)
  <2> SUFFICES ASSUME NEW x, x \notin DOMAIN tools PROVE HasTasks(TasksOf(x), x, DOMAIN config.tasks)
    OBVIOUS
  <2>1. CASE x \in ToolKeys
    BY <2>1 DEF ToolsAdding
  <2>2. CASE x \notin ToolKeys
    <3>1. TasksOf(x) = <<>>
      BY <2>2 DEF ToolsAdding, TasksOf
    <3>2. \A g \in DOMAIN config.tasks : <<g[1], g[2]>> # x
      BY <2>2 DEF ToolKeys
    <3> QED
      BY <3>1, <3>2, HasNone
  <2> QED
    BY <2>1, <2>2
<1>11. PICK own, all, D : own = TasksOf(key) /\ all = TasksOf(<<k, Unset>>) /\ D = DOMAIN config.tasks
  OBVIOUS
<1>12. ToolTable(key, TaskTable(own \o all))
  BY <1>3, <1>9, <1>10, <1>11, TableOfBoth
<1>13. PICK tb, both : tb = TaskTable(own \o all) /\ both = own \o all
  OBVIOUS
<1>14. tools' = Put(tools, key, tb) /\ toolTasks' = Put(toolTasks, key, both)
  BY <1>3, <1>11, <1>13
<1>15. DOMAIN tools' = DOMAIN tools \cup {key} /\ tools'[key] = tb /\ \A x \in DOMAIN tools : tools'[x] = tools[x]
  BY <1>9, <1>14 DEF Put, Over
<1>16. DOMAIN toolTasks' = DOMAIN toolTasks \cup {key} /\ \A x : x # key => TasksOf(x)' = TasksOf(x)
  BY <1>14 DEF Put, Over, TasksOf
<1>17. ToolKeys' = ToolKeys /\ \A g : Table(g)' = Table(g)
  BY DEF ToolKeys, Table
<1>18. ASSUME NEW x \in DOMAIN tools' PROVE ToolTable(x, tools[x])'
  <2>1. PICK v : v = tools'[x]
    OBVIOUS
  <2>2. ToolTable(x, v)
    BY <1>12, <1>13, <1>15, <2>1 DEF ToolsAdding
  <2> QED
    BY <1>17, <2>1, <2>2 DEF ToolTable
<1>19. ASSUME NEW x \in ToolKeys' \ DOMAIN tools' PROVE HasTasks(TasksOf(x), x, DOMAIN config.tasks)'
  <2>1. PICK T : T = TasksOf(x)
    OBVIOUS
  <2>2. x # key /\ HasTasks(T, x, D)
    BY <1>10, <1>11, <1>15, <2>1
  <2>3. HasTasks(T, x, D)'
    BY <2>2, HasStays
  <2>4. TasksOf(x)' = T /\ DOMAIN config'.tasks = D
    BY <1>11, <1>16, <2>1, <2>2
  <2> QED
    BY <2>3, <2>4 DEF HasTasks
<1>20. NamesDistinct'
  <2> SUFFICES ASSUME NEW j \in DOMAIN config.tools \ left, NEW i \in DOMAIN config.tools[j], Added(j, i)'
               PROVE  config.tools[j][i] # Unset /\ \A l \in 1..(i - 1) : config.tools[j][l] # config.tools[j][i]
    BY DEF NamesDistinct
  <2>1. CASE Added(j, i)
    BY <2>1 DEF ToolsAdding, NamesDistinct
  <2>2. CASE ~Added(j, i)
    <3>1. j = k /\ i = at
      BY <1>4, <1>5, <1>6, <2>2
    <3> QED
      BY <3>1
  <2> QED
    BY <2>1, <2>2
<1>21. left' \subseteq DOMAIN config'.tools /\ DOMAIN tools' = AddedTools'
  BY <1>7, <1>15 DEF ToolsAdding
<1>22. DOMAIN toolTasks' \subseteq ToolKeys' \cup DOMAIN tools'
  BY <1>15, <1>16, <1>17 DEF ToolsAdding
<1>23. (tool = [kind |-> tool.kind, at |-> tool.at] /\ tool.kind \in DOMAIN config.tools \ left
        /\ tool.at \in 1..(Len(config.tools[tool.kind]) + 1))'
  BY <1>0, <1>2
<1> QED
  BY <1>18, <1>19, <1>20, <1>21, <1>22, <1>23 DEF ToolsAdding

(***************************************************************************)
(* What is run                                                             *)
(***************************************************************************)

(* No tool that was added is without a name.                               *)
LEMMA ToolNamesSet ==
  ASSUME ToolsAdding
  PROVE  \A key \in DOMAIN tools : key[2] # Unset
<1> SUFFICES ASSUME NEW key \in DOMAIN tools PROVE key[2] # Unset
  OBVIOUS
<1>1. PICK k \in DOMAIN config.tools \ left : \E i \in DOMAIN config.tools[k] : Added(k, i) /\ key = <<k, config.tools[k][i]>>
  BY DEF ToolsAdding, AddedTools
<1>2. PICK i \in DOMAIN config.tools[k] : Added(k, i) /\ key = <<k, config.tools[k][i]>>
  BY <1>1
<1> QED
  BY <1>2 DEF ToolsAdding, NamesDistinct

(* What was run stays found for as long as the tools stay.                 *)
LEMMA RanStay ==
  ASSUME RanFound, UNCHANGED <<setup, ran, tools>>
  PROVE  RanFound'
BY DEF RanFound, Named

(* Nothing has been run before the first task.                             *)
LEMMA RanNone ==
  ASSUME ran = <<>>
  PROVE  RanFound
BY FlattenNone DEF RanFound

(* One more task is run: a reference without a tool stays with the tool of *)
(* the name that was named last.                                           *)
LEMMA RanMore ==
  ASSUME ToolsAdding, RanFound, RunTask, phase' = "ready"
  PROVE  RanFound'
<1>0. PICK n : n = Len(ran)
  OBVIOUS
<1>1. IsList(ran) /\ n \in Nat /\ DOMAIN ran = 1..n /\ (n = 0 => ran = <<>>) /\ (ran = <<>> => n = 0)
  <2>1. Len(<<>>) = 0
    OBVIOUS
  <2> QED
    BY <1>0, <2>1, ListFacts DEF RanFound
<1>2. PICK r : r = setup.run[n + 1]
  OBVIOUS
<1>3. PICK key : key = Referenced(r, Current)
  OBVIOUS
<1>4. /\ key \in DOMAIN tools /\ r.task \in DOMAIN tools[key]
      /\ ran' = Append(ran, [tool |-> key, task |-> r.task, id |-> tools[key][r.task]])
      /\ UNCHANGED <<setup, tools>>
  BY <1>0, <1>2, <1>3 DEF RunTask, Goto
<1>5. Named(n + 1) = IF r.tool # Unset THEN n + 1 ELSE Named(n)
  <2> DEFINE S == {i \in 1..n : setup.run[i].tool # Unset}
             T == {i \in 1..(n + 1) : setup.run[i].tool # Unset}
  <2>1. S \subseteq 1..n /\ T \subseteq 1..(n + 1) /\ \A i \in 1..n : i \in S <=> i \in T
    BY <1>1
  <2>2. n + 1 \in T <=> r.tool # Unset
    BY <1>1, <1>2
  <2>3. Named(n) = LastOf(S) /\ Named(n + 1) = LastOf(T)
    BY DEF Named
  <2> HIDE DEF S, T
  <2> QED
    BY <1>1, <2>1, <2>2, <2>3, LastOfMore
<1>6. key = <<r.kind, setup.run[Named(n + 1)].tool>>
  <2>1. CASE r.tool # Unset
    BY <1>2, <1>3, <1>5, <2>1 DEF Referenced
  <2>2. CASE r.tool = Unset /\ n = 0
    <3>1. key = <<r.kind, Unset>>
      BY <1>1, <1>3, <2>2 DEF Referenced, Current
    <3> QED
      BY <1>4, <3>1, ToolNamesSet
  <2>3. CASE r.tool = Unset /\ n # 0
    <3>1. n \in DOMAIN ran /\ Last(ran) = ran[n] /\ ran # <<>>
      BY <1>0, <1>1, <2>3 DEF Last
    <3>2. ran[n].tool = <<setup.run[n].kind, setup.run[Named(n)].tool>>
      BY <3>1 DEF RanFound
    <3>3. Current = setup.run[Named(n)].tool
      BY <3>1, <3>2 DEF Current
    <3> QED
      BY <1>3, <1>5, <2>3, <3>3 DEF Referenced
  <2> QED
    BY <2>1, <2>2, <2>3
<1>7. PICK x : x = [tool |-> key, task |-> r.task, id |-> tools[key][r.task]]
  OBVIOUS
<1>8. IsList(ran') /\ DOMAIN ran' = 1..(n + 1) /\ ran'[n + 1] = x /\ \A i \in 1..n : ran'[i] = ran[i]
  BY <1>0, <1>1, <1>4, <1>7, Appended
<1>9. \A i \in 1..(n + 1) : i \in 1..n \/ i = n + 1
  BY <1>1
<1>10. \A k : Named(k)' = Named(k)
  BY <1>4 DEF Named
<1>11. ASSUME NEW k \in DOMAIN ran'
       PROVE  /\ ran'[k].tool = <<setup.run[k].kind, setup.run[Named(k)].tool>>
              /\ ran'[k].tool \in DOMAIN tools /\ ran'[k].task \in DOMAIN tools[ran'[k].tool]
              /\ ran'[k].id = tools[ran'[k].tool][ran'[k].task]
  <2>1. CASE k \in 1..n
    BY <1>1, <1>8, <2>1 DEF RanFound
  <2>2. CASE k = n + 1
    <3>1. ran'[k].tool = key /\ ran'[k].task = r.task /\ ran'[k].id = tools[key][r.task]
      BY <1>7, <1>8, <2>2
    <3> QED
      BY <1>2, <1>4, <1>6, <2>2, <3>1
  <2> QED
    BY <1>8, <1>9, <2>1, <2>2
<1> QED
  BY <1>4, <1>8, <1>10, <1>11 DEF RanFound

(***************************************************************************)
(* The steps                                                               *)
(***************************************************************************)

(* A step that changes neither groups nor tasks leaves them added.         *)
LEMMA TasksSame ==
  ASSUME TasksAdding, UNCHANGED <<config, left, toolTasks>>
  PROVE  TasksAdding'
<1>1. ToolKeys' = ToolKeys /\ (\A key : TasksOf(key)' = TasksOf(key)) /\ \A g : Table(g)' = Table(g)
  BY DEF ToolKeys, TasksOf, Table
<1> QED
  BY <1>1 DEF TasksAdding, HasTasks

(* A step that changes neither tools nor tasks leaves them added.          *)
LEMMA ToolsSame ==
  ASSUME ToolsAdding, UNCHANGED <<config, left, tool, toolTasks, tools>>
  PROVE  ToolsAdding'
<1>1. \A k, i : Added(k, i)' = Added(k, i)
  BY DEF Added
<1>2. AddedTools' = AddedTools /\ NamesDistinct'
  BY <1>1 DEF AddedTools, NamesDistinct, ToolsAdding
<1> QED
  BY <1>2, ToolsStay DEF ToolsAdding

(* Nothing is asked of a program that has failed.                          *)
LEMMA FailedPhase == \A p \in {"failed", "panicked"} : phase' = p => PhaseInv'
  BY DEF PhaseInv

(* While it reads, nothing is resolved.                                    *)
LEMMA ReadPhase == PhaseInv /\ ReadStep /\ UNCHANGED ctxVars => PhaseInv'
<1> SUFFICES ASSUME PhaseInv, ReadStep, UNCHANGED ctxVars PROVE PhaseInv'
  OBVIOUS
<1>1. phase = "reading" /\ phase' \in {"reading", "failed"} /\ UNCHANGED setup
  BY DEF ReadStep, ReadTarget, ReadFile, LoadDoc, DocsLoaded, HandleInclude, ReadFails, Failed, Doing
<1>2. CASE phase' = "reading"
  BY <1>1, <1>2 DEF PhaseInv, NothingResolved, ctxVars
<1> QED
  BY <1>1, <1>2, FailedPhase

(* Before the first entry the environment is that of the process.          *)
LEMMA AllReadPhase == MergedInv /\ PhaseInv /\ AllRead => PhaseInv'
<1> SUFFICES ASSUME MergedInv, PhaseInv, AllRead PROVE PhaseInv'
  OBVIOUS
<1>1. phase = "reading" /\ phase' = "env" /\ UNCHANGED <<setup, merged, config, ctxVars>>
  BY DEF AllRead
<1>2. PICK N : N = Len(EnvEntries) /\ N \in Nat
  BY ListFacts DEF MergedInv, EnvMerged
<1>3. EnvEntries' = EnvEntries /\ config'.env = EnvEntries
  BY <1>1 DEF EnvEntries, MergedInv
<1>4. EnvEntries = SubSeq(EnvEntries, 0 + 1, N)
  <2>1. EnvEntries \in Seq({EnvEntries[i] : i \in DOMAIN EnvEntries})
    BY DEF MergedInv, EnvMerged, IsList
  <2> HIDE DEF EnvEntries
  <2> QED
    BY <1>2, <2>1
<1>5. MadeOf(0)'
  <2>1. DOMAIN env' = DOMAIN setup'.osEnv /\ env' = setup'.osEnv
    BY <1>1 DEF PhaseInv, ctxVars
  <2>2. \A x : Before(0, x)' = {}
    BY DEF Before
  <2>3. LastOf({}) = 0
    BY DEF LastOf
  <2>4. {EnvEntries'[i].name : i \in 1..0} = {}
    OBVIOUS
  <2> QED
    BY <2>1, <2>2, <2>3, <2>4 DEF MadeOf
<1>6. EnvMade'
  BY <1>2, <1>3, <1>4, <1>5 DEF EnvMade
<1> QED
  BY <1>1, <1>6 DEF PhaseInv, NothingResolved, ctxVars

(* An entry is resolved, and the rest stays unresolved.                    *)
LEMMA EnvPhase == MergedInv /\ PhaseInv /\ ResolveEnv => PhaseInv'
<1> SUFFICES ASSUME MergedInv, PhaseInv, ResolveEnv PROVE PhaseInv'
  OBVIOUS
<1>1. phase = "env" /\ phase' = "env" /\ UNCHANGED <<setup, globalEnv, values, toolTasks, tools, tool, ran>>
  BY DEF ResolveEnv, Goto
<1>2. EnvMade'
  BY <1>1, EntryMade DEF PhaseInv
<1> QED
  BY <1>1, <1>2 DEF PhaseInv, NothingResolved

(* The options are set, and are what the entries make them.                *)
LEMMA OptionsPhase == ReadTyped /\ MergedInv /\ PhaseInv /\ SetOptions => PhaseInv'
<1> SUFFICES ASSUME ReadTyped, MergedInv, PhaseInv, SetOptions PROVE PhaseInv'
  OBVIOUS
<1>1. phase = "env" /\ UNCHANGED <<setup, ran>> /\ phase' = IF setup.needTasks THEN "tasks" ELSE "ready"
  BY DEF SetOptions, Goto
<1>2. OptionsKept' /\ TasksAdding' /\ tools' = <<>> /\ tool' = NoTool
  BY <1>1, OptionsSet, TasksStart DEF PhaseInv
<1>3. ran' = <<>> /\ RanFound'
  BY <1>1, RanNone, RanStay, FlattenNone DEF PhaseInv, RanFound
<1> QED
  BY <1>1, <1>2, <1>3 DEF PhaseInv

(* The tasks of a group are added, or one without a name is met.           *)
LEMMA TasksPhase == MergedInv /\ PhaseInv /\ AddTasks => PhaseInv'
<1> SUFFICES ASSUME MergedInv, PhaseInv, AddTasks PROVE PhaseInv'
  OBVIOUS
<1>1. phase = "tasks" /\ phase' \in {"tasks", "panicked"}
      /\ UNCHANGED <<setup, merged, cacheDir, globalEnv, env, values, tools, tool, ran>>
  BY DEF AddTasks, Goto
<1>2. CASE phase' = "tasks"
  <2>1. TasksAdding'
    BY <1>1, <1>2, TasksMore DEF PhaseInv, MergedInv
  <2>2. OptionsKept'
    BY <1>1, OptionsStay DEF PhaseInv
  <2> QED
    BY <1>1, <1>2, <2>1, <2>2 DEF PhaseInv
<1> QED
  BY <1>1, <1>2, FailedPhase

(* All tasks are added before the first tool.                              *)
LEMMA TasksDonePhase == PhaseInv /\ TasksAdded => PhaseInv'
<1> SUFFICES ASSUME PhaseInv, TasksAdded PROVE PhaseInv'
  OBVIOUS
<1>1. phase = "tasks" /\ phase' = "tools" /\ UNCHANGED <<setup, merged, cacheDir, globalEnv, env, values, ran>>
  BY DEF TasksAdded, Goto
<1>2. ToolsAdding'
  BY <1>1, ToolsStart DEF PhaseInv
<1>3. OptionsKept'
  BY <1>1, OptionsStay DEF PhaseInv
<1> QED
  BY <1>1, <1>2, <1>3 DEF PhaseInv

(* The next kind is gone to, or the program is ready.                      *)
LEMMA KindPhase == ReadTyped /\ MergedInv /\ PhaseInv /\ NextKind => PhaseInv'
<1> SUFFICES ASSUME ReadTyped, MergedInv, PhaseInv, NextKind PROVE PhaseInv'
  OBVIOUS
<1>1. phase = "tools" /\ phase' \in {"tools", "ready"} /\ UNCHANGED <<setup, merged, cacheDir, globalEnv, env, values, ran, tools>>
  BY DEF NextKind, Goto
<1>2. ToolsAdding' /\ (phase' = "ready" => left' = {} /\ tool' = NoTool)
  BY <1>1, KindNext DEF PhaseInv, MergedInv, ReadTyped
<1>3. OptionsKept'
  BY <1>1, OptionsStay DEF PhaseInv
<1>4. ran' = <<>> /\ RanFound'
  BY <1>1, RanNone, RanStay DEF PhaseInv
<1> QED
  BY <1>1, <1>2, <1>3, <1>4 DEF PhaseInv

(* A tool is added, or the kind is done with, or the name is bad.          *)
LEMMA ToolPhase == ReadTyped /\ MergedInv /\ PhaseInv /\ AddTool => PhaseInv'
<1> SUFFICES ASSUME ReadTyped, MergedInv, PhaseInv, AddTool PROVE PhaseInv'
  OBVIOUS
<1>1. phase = "tools" /\ tool # NoTool /\ UNCHANGED <<setup, merged, config, cacheDir, globalEnv, env, values, left, ran>>
  BY DEF AddTool, Goto
<1>2. ToolsAdding /\ ToolsMerged /\ MergedTyped
  BY <1>1 DEF PhaseInv, MergedInv, ReadTyped
<1>3. PICK k, at, name : k = tool.kind /\ at = tool.at /\ name = config.tools[k][at]
  OBVIOUS
<1>4. OptionsKept'
  BY <1>1, OptionsStay DEF PhaseInv
<1>5. CASE at > Len(config.tools[k])
  <2>1. tool' = NoTool /\ phase' = "tools" /\ UNCHANGED <<toolTasks, tools>>
    BY <1>3, <1>5 DEF AddTool, Goto
  <2>2. ToolsAdding'
    BY <1>1, <1>2, <1>3, <1>5, <2>1, KindDone
  <2> QED
    BY <1>1, <1>4, <2>1, <2>2 DEF PhaseInv
<1>6. CASE ~(at > Len(config.tools[k])) /\ (name = Unset \/ \E i \in 1..(at - 1) : config.tools[k][i] = name)
  <2>1. phase' = "failed"
    BY <1>3, <1>6 DEF AddTool, Goto
  <2> QED
    BY <2>1, FailedPhase
<1>7. CASE ~(at > Len(config.tools[k])) /\ ~(name = Unset \/ \E i \in 1..(at - 1) : config.tools[k][i] = name)
  <2>1. /\ toolTasks' = Put(toolTasks, <<k, name>>, TasksOf(<<k, name>>) \o TasksOf(<<k, Unset>>))
        /\ tools' = Put(tools, <<k, name>>, TaskTable(TasksOf(<<k, name>>) \o TasksOf(<<k, Unset>>)))
        /\ tool' = [tool EXCEPT !.at = @ + 1] /\ phase' = "tools"
    <3>1. <<k, name>>[1] = k
      OBVIOUS
    <3>2. /\ toolTasks' = Put(toolTasks, <<k, name>>, Admitted(<<k, name>>))
          /\ tools' = Put(tools, <<k, name>>, TaskTable(Admitted(<<k, name>>)))
          /\ tool' = [tool EXCEPT !.at = @ + 1] /\ phase' = "tools"
      BY <1>3, <1>7 DEF AddTool, Goto
    <3>3. Admitted(<<k, name>>) = TasksOf(<<k, name>>) \o TasksOf(<<k, Unset>>)
      BY <3>1 DEF Admitted
    <3> QED
      BY <3>2, <3>3
  <2>2. at <= Len(config.tools[k])
    <3>1. at \in 1..(Len(config.tools[k]) + 1) /\ Len(config.tools[k]) \in Nat
      BY <1>1, <1>2, <1>3, ListFacts DEF ToolsAdding, ToolsMerged
    <3> QED
      BY <1>7, <3>1
  <2>3. ToolsAdding'
    BY <1>1, <1>2, <1>3, <1>7, <2>1, <2>2, ToolMore
  <2> QED
    BY <1>1, <1>4, <2>1, <2>3 DEF PhaseInv
<1> QED
  BY <1>5, <1>6, <1>7

(* A task is run, or is not found.                                         *)
LEMMA RunPhase == PhaseInv /\ RunTask => PhaseInv'
<1> SUFFICES ASSUME PhaseInv, RunTask PROVE PhaseInv'
  OBVIOUS
<1>1. /\ phase = "ready" /\ setup.needTasks /\ phase' \in {"ready", "failed"}
      /\ UNCHANGED <<setup, merged, config, cacheDir, globalEnv, env, values, left, tool, toolTasks, tools>>
  BY DEF RunTask, Goto
<1>2. CASE phase' = "ready"
  <2>1. ToolsAdding /\ RanFound
    BY <1>1 DEF PhaseInv
  <2>2. RanFound'
    BY <1>2, <2>1, RanMore
  <2>3. ToolsAdding'
    BY <1>1, <2>1, ToolsSame
  <2>4. OptionsKept'
    BY <1>1, OptionsStay DEF PhaseInv
  <2> QED
    BY <1>1, <1>2, <2>2, <2>3, <2>4 DEF PhaseInv
<1> QED
  BY <1>1, <1>2, FailedPhase

(* A step that changes nothing changes nothing of this.                    *)
LEMMA StutterPhase == MergedInv /\ PhaseInv /\ UNCHANGED vars => PhaseInv'
<1> SUFFICES ASSUME PhaseInv, UNCHANGED vars PROVE PhaseInv'
  OBVIOUS
<1>1. UNCHANGED <<setup, phase, merged, config, cacheDir, globalEnv, env, values, left, tool, toolTasks, tools, ran>>
  BY DEF vars, readVars, ctxVars
<1>2. NothingResolved' = NothingResolved
  BY <1>1 DEF NothingResolved
<1>3. EnvMade => EnvMade'
  <2>1. EnvEntries' = EnvEntries
    BY <1>1 DEF EnvEntries
  <2>2. Made' = Made /\ \A n, x : Before(n, x)' = Before(n, x)
    BY <1>1, <2>1 DEF Made, After, Before
  <2>3. \A n : MadeOf(n)' = MadeOf(n)
    BY <1>1, <2>1, <2>2 DEF MadeOf
  <2> QED
    BY <1>1, <2>1, <2>3 DEF EnvMade
<1>4. OptionsKept => OptionsKept'
  BY <1>1, OptionsStay
<1>5. TasksAdding => TasksAdding'
  BY <1>1, TasksSame
<1>6. ToolsAdding => ToolsAdding'
  BY <1>1, ToolsSame
<1>7. RanFound => RanFound'
  BY <1>1, RanStay
<1> QED
  BY <1>1, <1>2, <1>3, <1>4, <1>5, <1>6, <1>7 DEF PhaseInv

(* Each step of the program is one of these.                               *)
LEMMA StepPhase == ConfigInvariant /\ [Next]_vars => PhaseInv'
BY ReadPhase, AllReadPhase, EnvPhase, OptionsPhase, TasksPhase, TasksDonePhase, KindPhase, ToolPhase, RunPhase,
   StutterPhase, FailedPhase DEF ConfigInvariant, Next, Step, Terminated, ResolveFails, Goto

(* What a tool's table has for a key is the task it should have.           *)
LEMMA TableHasTask ==
  ASSUME MergedTyped, TasksMerged, NEW k, NEW n, NEW table, ToolTable(<<k, n>>, table), NEW t \in DOMAIN table
  PROVE  table[t] = TaskFor(<<k, n>>, t)
<1> DEFINE all == <<k, Unset, t[1]>>
           own == <<k, n, t[1]>>
           Last0(g) == LastOf({i \in DOMAIN InGroup(g) : InGroup(g)[i].name = t[2]})
<1>1. TaskFor(<<k, n>>, t) = IF Last0(all) # 0 THEN InGroup(all)[Last0(all)].id
                             ELSE IF Last0(own) # 0 THEN InGroup(own)[Last0(own)].id ELSE Unset
  BY DEF TaskFor
<1>2. \/ all \in DOMAIN config.tasks /\ t \in DOMAIN Table(all) /\ table[t] = Table(all)[t]
      \/ /\ ~(all \in DOMAIN config.tasks /\ t \in DOMAIN Table(all))
         /\ own \in DOMAIN config.tasks /\ t \in DOMAIN Table(own) /\ table[t] = Table(own)[t]
  BY DEF ToolTable
<1>3. ASSUME NEW g \in DOMAIN config.tasks, t \in DOMAIN Table(g)
      PROVE  Last0(g) # 0 /\ Table(g)[t] = InGroup(g)[Last0(g)].id
  <2>1. config.tasks[g] = InGroup(g)
    BY DEF TasksMerged
  <2>2. /\ LastOf({i \in DOMAIN config.tasks[g] : config.tasks[g][i].name = t[2]}) # 0
        /\ Table(g)[t] = config.tasks[g][LastOf({i \in DOMAIN config.tasks[g] : config.tasks[g][i].name = t[2]})].id
    BY <1>3, GroupTable, Zenon
  <2> QED
    BY <2>1, <2>2
<1>4. t = <<t[1], t[2]>>
  <2>1. PICK g : g \in DOMAIN config.tasks /\ t \in DOMAIN Table(g)
    BY <1>2
  <2>2. DOMAIN Table(g) = {<<g[3], config.tasks[g][i].name>> : i \in DOMAIN config.tasks[g]}
    BY <2>1, GroupTable, Zenon
  <2>3. PICK i \in DOMAIN config.tasks[g] : t = <<g[3], config.tasks[g][i].name>>
    BY <2>1, <2>2
  <2> QED
    BY <2>3
<1>5. ASSUME NEW g, Last0(g) # 0, g[3] = t[1] PROVE g \in DOMAIN config.tasks /\ t \in DOMAIN Table(g)
  <2>1. InGroup(g) = Of(config.tasks, g) /\ IsList(InGroup(g))
    BY GroupLists
  <2>2. Len(InGroup(g)) \in Nat /\ DOMAIN InGroup(g) = 1..Len(InGroup(g))
    BY <2>1, ListFacts
  <2>3. PICK i \in DOMAIN InGroup(g) : InGroup(g)[i].name = t[2]
    <3> DEFINE S == {i \in DOMAIN InGroup(g) : InGroup(g)[i].name = t[2]}
    <3>1. S \subseteq 1..Len(InGroup(g))
      BY <2>2
    <3>2. S # {}
      BY <1>5, <2>2, <3>1, LastOfNone
    <3> QED
      BY <3>2
  <2>4. g \in DOMAIN config.tasks /\ InGroup(g) = config.tasks[g]
    <3>1. DOMAIN <<>> = {}
      OBVIOUS
    <3> QED
      BY <2>1, <2>3, <3>1 DEF Of
  <2>5. DOMAIN Table(g) = {<<g[3], config.tasks[g][j].name>> : j \in DOMAIN config.tasks[g]}
    BY <2>4, GroupTable
  <2> QED
    BY <1>4, <1>5, <2>3, <2>4, <2>5
<1>6. all[3] = t[1] /\ own[3] = t[1]
  OBVIOUS
<1> HIDE DEF all, own, Last0
<1>7. CASE all \in DOMAIN config.tasks /\ t \in DOMAIN Table(all)
  BY <1>1, <1>2, <1>3, <1>7
<1>8. CASE ~(all \in DOMAIN config.tasks /\ t \in DOMAIN Table(all))
  <2>1. Last0(all) = 0
    BY <1>5, <1>6, <1>8
  <2> QED
    BY <1>1, <1>2, <1>3, <1>8, <2>1
<1> QED
  BY <1>7, <1>8

(* A program that is ready has the options, the tools and the tasks that   *)
(* the documents call for.                                                 *)
LEMMA InvariantResolved == ConfigInvariant => ConfigResolved
<1> SUFFICES ASSUME ConfigInvariant, phase = "ready" PROVE ConfigResolved
  BY DEF ConfigResolved
<1>1. OptionsKept /\ RanFound
  BY DEF ConfigInvariant, PhaseInv
<1> SUFFICES ASSUME setup.needTasks
             PROVE  /\ \A k \in UNION {DOMAIN merged[i].tools : i \in DOMAIN merged} :
                         /\ IsInjective(OfKind(k)) /\ Unset \notin ToSet(OfKind(k))
                         /\ \A n \in ToSet(OfKind(k)) : \A t \in DOMAIN tools[<<k, n>>] :
                              tools[<<k, n>>][t] = TaskFor(<<k, n>>, t)
                    /\ \A g \in UNION {DOMAIN merged[i].tasks : i \in DOMAIN merged} : \A t \in ToSet(InGroup(g)) :
                         \A n \in ToSet(OfKind(g[1])) : g[2] \in {Unset, n} => <<t.kind, t.name>> \in DOMAIN tools[<<g[1], n>>]
                    /\ \A k \in DOMAIN ran :
                         LET named == LastOf({i \in 1..k : setup.run[i].tool # Unset})
                         IN /\ ran[k].tool = <<setup.run[k].kind, setup.run[named].tool>>
                            /\ ran[k].id = TaskFor(ran[k].tool, ran[k].task)
  BY <1>1 DEF ConfigResolved
<1>2. /\ MergedTyped /\ TasksMerged /\ ToolsMerged /\ ToolsAdding /\ left = {} /\ tool = NoTool
  BY DEF ConfigInvariant, PhaseInv, MergedInv, ReadTyped
<1>3. \A k, i : Added(k, i)
  BY <1>2 DEF Added
<1>4. \A k : OfKind(k) = Of(config.tools, k) /\ IsList(OfKind(k)) /\ DOMAIN OfKind(k) = 1..Len(OfKind(k)) /\ Len(OfKind(k)) \in Nat
  BY <1>2, KindLists, ListFacts
<1>5. DOMAIN <<>> = {}
  OBVIOUS
<1>6. ASSUME NEW k, NEW i \in DOMAIN OfKind(k)
      PROVE  /\ k \in DOMAIN config.tools \ left /\ OfKind(k) = config.tools[k]
             /\ OfKind(k)[i] # Unset /\ \A j \in 1..(i - 1) : OfKind(k)[j] # OfKind(k)[i]
             /\ <<k, OfKind(k)[i]>> \in DOMAIN tools
  <2>1. k \in DOMAIN config.tools \ left /\ OfKind(k) = config.tools[k]
    BY <1>2, <1>4, <1>5, <1>6 DEF Of
  <2>2. OfKind(k)[i] # Unset /\ \A j \in 1..(i - 1) : OfKind(k)[j] # OfKind(k)[i]
    BY <1>2, <1>3, <1>6, <2>1 DEF ToolsAdding, NamesDistinct
  <2>3. <<k, OfKind(k)[i]>> \in AddedTools
    BY <1>3, <1>6, <2>1 DEF AddedTools
  <2> QED
    BY <1>2, <2>1, <2>2, <2>3 DEF ToolsAdding
<1>7. ASSUME NEW k PROVE IsInjective(OfKind(k)) /\ Unset \notin ToSet(OfKind(k))
  <2>1. ASSUME NEW i \in DOMAIN OfKind(k), NEW j \in DOMAIN OfKind(k), i < j PROVE OfKind(k)[i] # OfKind(k)[j]
    <3>1. i \in 1..(j - 1)
      BY <1>4, <2>1
    <3> QED
      BY <1>6, <3>1
  <2>2. \A i, j \in DOMAIN OfKind(k) : i = j \/ i < j \/ j < i
    BY <1>4
  <2>3. IsInjective(OfKind(k))
    BY <2>1, <2>2 DEF IsInjective
  <2> QED
    BY <1>6, <2>3 DEF ToSet
<1>8. ASSUME NEW k, NEW n \in ToSet(OfKind(k))
      PROVE  <<k, n>> \in DOMAIN tools /\ ToolTable(<<k, n>>, tools[<<k, n>>])
  <2>1. PICK i \in DOMAIN OfKind(k) : n = OfKind(k)[i]
    BY <1>8 DEF ToSet
  <2>2. <<k, n>> \in DOMAIN tools
    BY <1>6, <2>1
  <2> QED
    BY <1>2, <2>2 DEF ToolsAdding
<1>9. ASSUME NEW k, NEW n \in ToSet(OfKind(k)), NEW t \in DOMAIN tools[<<k, n>>]
      PROVE  tools[<<k, n>>][t] = TaskFor(<<k, n>>, t)
  BY <1>2, <1>8, TableHasTask
<1>10. ASSUME NEW g \in UNION {DOMAIN merged[i].tasks : i \in DOMAIN merged}, NEW t \in ToSet(InGroup(g)),
              NEW n \in ToSet(OfKind(g[1])), g[2] \in {Unset, n}
       PROVE  <<t.kind, t.name>> \in DOMAIN tools[<<g[1], n>>]
  <2>1. g \in DOMAIN config.tasks /\ InGroup(g) = config.tasks[g]
    BY <1>2, <1>10 DEF TasksMerged
  <2>2. PICK i \in DOMAIN config.tasks[g] : t = config.tasks[g][i]
    BY <2>1 DEF ToSet
  <2>3. <<t.kind, t.name>> \in DOMAIN Table(g)
    <3>1. /\ \A j \in DOMAIN config.tasks[g] :
               <<config.tasks[g][j].kind, config.tasks[g][j].name>> = <<g[3], config.tasks[g][j].name>>
          /\ DOMAIN Table(g) = {<<g[3], config.tasks[g][j].name>> : j \in DOMAIN config.tasks[g]}
      BY <1>2, <2>1, GroupTable, Zenon
    <3>2. <<t.kind, t.name>> = <<g[3], config.tasks[g][i].name>>
      BY <2>2, <3>1
    <3> QED
      BY <2>2, <3>1, <3>2
  <2>4. ToolTable(<<g[1], n>>, tools[<<g[1], n>>])
    BY <1>8
  <2>5. PICK key : key = <<g[1], n>>
    OBVIOUS
  <2>6. key[1] = g[1] /\ key[2] = n
    BY <2>5
  <2>7. DOMAIN Table(g) \subseteq DOMAIN tools[key]
    BY <1>10, <2>1, <2>4, <2>5, <2>6 DEF ToolTable
  <2> QED
    BY <2>3, <2>5, <2>7
<1>11. ASSUME NEW k \in DOMAIN ran
       PROVE  /\ ran[k].tool = <<setup.run[k].kind, setup.run[Named(k)].tool>>
              /\ ran[k].id = TaskFor(ran[k].tool, ran[k].task)
  <2>1. /\ ran[k].tool = <<setup.run[k].kind, setup.run[Named(k)].tool>>
        /\ ran[k].tool \in DOMAIN tools /\ ran[k].task \in DOMAIN tools[ran[k].tool]
        /\ ran[k].id = tools[ran[k].tool][ran[k].task]
    BY <1>1 DEF RanFound
  <2>2. PICK a, b : a = setup.run[k].kind /\ b = setup.run[Named(k)].tool
    OBVIOUS
  <2>3. ran[k].tool = <<a, b>>
    BY <2>1, <2>2
  <2>4. ToolTable(<<a, b>>, tools[<<a, b>>])
    BY <1>2, <2>1, <2>3 DEF ToolsAdding
  <2>5. tools[<<a, b>>][ran[k].task] = TaskFor(<<a, b>>, ran[k].task)
    BY <1>2, <2>1, <2>3, <2>4, TableHasTask
  <2> QED
    BY <2>1, <2>3, <2>5
<1> QED
  BY <1>7, <1>9, <1>10, <1>11 DEF Named

(* It holds at first.                                                      *)
LEMMA InitInvariant == Init => ConfigInvariant
<1> SUFFICES ASSUME Init PROVE ConfigInvariant
  OBVIOUS
<1>1. ReadTyped /\ MergedInv
  BY InitMerged
<1>2. PhaseInv
  BY DEF Init, ReadInit, PhaseInv, NothingResolved
<1> QED
  BY <1>1, <1>2 DEF ConfigInvariant

(* Whatever is read and in whichever order the maps are gone through, what *)
(* a program that is ready has and what it runs is what the documents call *)
(* for in the order they were merged (Config.Merge, conf/config.go:62,     *)
(* Config.Resolve after it, and the tasks that Action.genTaskActionSpecs   *)
(* refers to).                                                             *)
THEOREM ResolvedAsMerged == Spec => []ConfigResolved
<1>1. Init => ConfigInvariant
  BY InitInvariant
<1>2. ConfigInvariant /\ [Next]_vars => ConfigInvariant'
  BY StepTyped, StepMerged, StepPhase DEF ConfigInvariant
<1>3. ConfigInvariant => ConfigResolved
  BY InvariantResolved
<1> QED
  BY <1>1, <1>2, <1>3, PTL DEF Spec

=============================================================================
