----------------------------- MODULE ConfigRead -----------------------------
(***************************************************************************)
(* How the configuration is read (pkg/conf/read_config.go): the files and  *)
(* directories of the command line, the documents of each file, merged in  *)
(* order, and what they include.                                           *)
(*                                                                         *)
(* The recursion of Read, readAndMergeConfigFile, loadConfig and           *)
(* handleInclude is kept as the list `todo` of what is left to do.  A path *)
(* is the sequence of its names; the first is "/" if it is absolute, and   *)
(* "." and ".." are names.  What a path leads to is its real path, what is *)
(* remembered as visited is the path as it is spelled.                     *)
(***************************************************************************)
EXTENDS Integers, Sequences, FiniteSets, SequencesExt

CONSTANTS
  Setups,     \* what there is to read, and what is asked for afterwards
  Documents,  \* the documents there are, those that stand in include lists too
  Names       \* the names of files, in lexical order

ASSUME NamesAssumption == IsInjective(Names)

IsList(s) == s \in Seq({s[i] : i \in DOMAIN s})

(* What is parsed has the types the code gives it: lists are lists, and a  *)
(* group of tasks, <<tool kind, tool name, task kind>>, is of one kind.    *)
ASSUME DocumentsAssumption ==
  /\ \A s \in Setups :
       /\ IsFiniteSet(DOMAIN s.fs) /\ \A f \in DOMAIN s.fs : s.fs[f].docs \in Seq(Documents)
       /\ IsList(s.targets) /\ "GIT_DEFAULT_BRANCH" \in DOMAIN s.globalEnv
  /\ \A d \in Documents :
       /\ IsList(d.include) /\ \A i \in DOMAIN d.include : d.include[i].text \in Seq(Documents)
       /\ IsList(d.config.env) /\ \A k \in DOMAIN d.config.tools : IsList(d.config.tools[k])
       /\ \A g \in DOMAIN d.config.tasks :
            /\ g = <<g[1], g[2], g[3]>> /\ IsList(d.config.tasks[g])
            /\ \A i \in DOMAIN d.config.tasks[g] : d.config.tasks[g][i].kind = g[3]

VARIABLES
  setup,      \* the file system and the command line, fixed
  phase,      \* "reading", then what ConfigResolve makes of it, or "failed"
  todo,       \* the calls left to make, in order
  visited,    \* the paths of the files that have been opened
  config,     \* the merged config
  renderers,  \* name -> the renderer of that name
  shells,     \* name -> the shell of that name
  read,       \* history: the files read, in order
  merged      \* history: the documents merged, in order

readVars == <<setup, phase, todo, visited, config, renderers, shells, read, merged>>

Unset == ""

(***************************************************************************)
(* Paths                                                                   *)
(***************************************************************************)

IsAbs(p) == p # <<>> /\ Head(p) = "/"

(* path.Join of names.                                                     *)
Clean(p) ==
  LET Step(acc, n) ==
        CASE n = "." \/ (n = ".." /\ acc = <<"/">>) -> acc
          [] n = ".." /\ acc \notin {<<>>, <<"/">>} /\ Last(acc) # ".." -> Front(acc)
          [] OTHER -> Append(acc, n)
  IN FoldLeft(Step, <<>>, p)

Real(p) == Clean(IF IsAbs(p) THEN p ELSE setup.cwd \o p)

IsFile(real) == real \in DOMAIN setup.fs
IsDir(real) == \E f \in DOMAIN setup.fs : IsStrictPrefix(real, f)

Rank(n) == CHOOSE i \in DOMAIN Names : Names[i] = n
Lexical(a, b) ==
  \E i \in DOMAIN a \cap DOMAIN b : SubSeq(a, 1, i - 1) = SubSeq(b, 1, i - 1) /\ Rank(a[i]) < Rank(b[i])

InOrder(S) == [i \in 1..Cardinality(S) |-> CHOOSE a \in S : Cardinality({b \in S : Lexical(b, a)}) = i - 1]

(* WalkDir: all files below a directory, by name, those named *.yaml.      *)
Below(real) == {f \in DOMAIN setup.fs : IsStrictPrefix(real, f)}
FilesIn(real) == InOrder({SubSeq(f, Len(real) + 1, Len(f)) : f \in {f \in Below(real) : setup.fs[f].yaml}})
Children(real) == InOrder({<<f[Len(real) + 1]>> : f \in Below(real)})

(* A pattern has "*" for its last name, a bad one "[".  What a pattern     *)
(* does not match is not included, and no error.                           *)
Glob(p) ==
  LET names == Children(Real(Front(p)))
  IN CASE Last(p) = "*" -> [i \in DOMAIN names |-> Front(p) \o names[i]]
       [] Last(p) = "[" -> <<p>>
       [] OTHER -> IF IsFile(Real(p)) \/ IsDir(Real(p)) THEN <<p>> ELSE <<>>

MutLocated(p, file) == p
Located(p, file) == IF IsAbs(p) THEN p ELSE Clean(Front(file) \o p)

(***************************************************************************)
(* Documents                                                               *)
(***************************************************************************)

(* A value is a literal, or refers to a variable by rendering; what        *)
(* several documents set can be both.                                      *)
Lit(v) == [lit |-> v, ref |-> Unset]
Ref(n) == [lit |-> Unset, ref |-> n]
NotSet == Lit(Unset)

EmptyConfig == [cacheDir |-> NotSet, branch |-> NotSet, env |-> <<>>, values |-> <<>>,
                tools |-> <<>>, tasks |-> <<>>]

(* What f has, and of the rest what g has.                                 *)
Over(f, g) == [x \in DOMAIN f \cup DOMAIN g |-> IF x \in DOMAIN f THEN f[x] ELSE g[x]]

Lists(a, b) ==
  LET L(f, k) == IF k \in DOMAIN f THEN f[k] ELSE <<>>
  IN [k \in DOMAIN a \cup DOMAIN b |-> L(a, k) \o L(b, k)]

Later(old, new) == IF new = Unset THEN old ELSE new

(* What has a rendering suffix is not resolved yet and inherited on its    *)
(* own: a literal does not take the place of it, nor it that of a literal. *)
Inherited(old, new) == [lit |-> Later(old.lit, new.lit), ref |-> Later(old.ref, new.ref)]

(* Config.Merge, with those of the global options and of the tools: of the *)
(* literals of an option the last counts, and of what it is to be rendered *)
(* from; lists are appended to.                                            *)
Merge(c, d) ==
  [cacheDir |-> Inherited(c.cacheDir, d.cacheDir), branch |-> Inherited(c.branch, d.branch),
   env |-> c.env \o d.env, values |-> Over(d.values, c.values),
   tools |-> Lists(c.tools, d.tools), tasks |-> Lists(c.tasks, d.tasks)]

(***************************************************************************)
(* The calls                                                               *)
(***************************************************************************)

Target(p, ignore) == [call |-> "target", path |-> p, ignore |-> ignore]
File(p) == [call |-> "file", path |-> p]
Docs(docs, file, include) == [call |-> "docs", docs |-> docs, path |-> file, include |-> include]
Include(inc, file) == [call |-> "include", inc |-> inc, path |-> file]

ReadInit ==
  /\ setup \in Setups
  /\ phase = "reading"
  /\ todo = [i \in DOMAIN setup.targets |-> Target(setup.targets[i], setup.default)]
  /\ visited = {} /\ config = EmptyConfig /\ read = <<>> /\ merged = <<>>
  /\ renderers = setup.essential /\ shells = <<>>

Doing(call) == phase = "reading" /\ todo # <<>> /\ Head(todo).call = call
Do(calls) == todo' = calls \o Tail(todo)

Failed == phase' = "failed" /\ UNCHANGED <<todo, visited, config, renderers, shells, read, merged>>

(* Read, for one of its paths.                                             *)
ReadTarget ==
  /\ Doing("target")
  /\ LET t == Head(todo)
         real == Real(t.path)
     IN CASE IsFile(real) -> Do(<<File(t.path)>>) /\ UNCHANGED phase
          [] IsDir(real) -> /\ \E files \in {FilesIn(real)} :
                                 Do([i \in DOMAIN files |-> File(Clean(t.path \o files[i]))])
                            /\ UNCHANGED phase
          [] OTHER -> IF t.ignore THEN Do(<<>>) /\ UNCHANGED phase
                      ELSE phase' = "failed" /\ UNCHANGED todo
  /\ UNCHANGED <<setup, visited, config, renderers, shells, read, merged>>

(* readAndMergeConfigFile, up to the call of loadConfig.                   *)
ReadFile ==
  /\ Doing("file")
  /\ LET file == Head(todo).path
     IN IF file \in visited
        THEN Do(<<>>) /\ UNCHANGED <<visited, read>>
        ELSE /\ IsFile(Real(file))
             /\ visited' = visited \cup {file}
             /\ read' = Append(read, file)
             /\ Do(<<Docs(setup.fs[Real(file)].docs, file, <<>>)>>)
  /\ UNCHANGED <<setup, phase, config, renderers, shells, merged>>

(* loadConfig: the renderers and shells of a document can be used from its *)
(* include list on.                                                        *)
LoadDoc ==
  /\ Doing("docs") /\ Head(todo).docs # <<>>
  /\ LET d == Head(todo)
         doc == Head(d.docs)
     IN IF \E i \in DOMAIN doc.include :
             doc.include[i].by # Unset /\ doc.include[i].by \notin DOMAIN Over(doc.renderers, renderers)
        THEN Failed
        ELSE /\ config' = Merge(config, doc.config) /\ merged' = Append(merged, doc.config)
             /\ renderers' = Over(doc.renderers, renderers)
             /\ shells' = Over(doc.shells, shells)
             /\ Do(<<Docs(Tail(d.docs), d.path, d.include \o doc.include)>>)
             /\ UNCHANGED <<phase, visited, read>>
  /\ UNCHANGED setup

DocsLoaded ==
  /\ Doing("docs") /\ Head(todo).docs = <<>>
  /\ LET d == Head(todo) IN Do([i \in DOMAIN d.include |-> Include(d.include[i], d.path)])
  /\ UNCHANGED <<setup, phase, visited, config, renderers, shells, read, merged>>

(* An entry has a path, a text or neither; a text is as if it stood in the *)
(* file that includes it.                                                  *)
HandleInclude ==
  /\ Doing("include")
  /\ LET inc == Head(todo).inc
         file == Head(todo).path
     IN CASE inc.path # <<>> -> \E matches \in {Glob(Located(inc.path, file))} :
                                  Do([i \in DOMAIN matches |-> Target(matches[i], FALSE)])
          [] inc.path = <<>> /\ inc.text # <<>> -> Do(<<Docs(inc.text, file, <<>>)>>)
          [] OTHER -> Do(<<>>)
  /\ UNCHANGED <<setup, phase, visited, config, renderers, shells, read, merged>>

(* A path cannot be looked at, a file not be opened, a document has an     *)
(* error or a field that cannot be resolved.                               *)
ReadFails ==
  /\ Doing("target") \/ (Doing("file") /\ Head(todo).path \notin visited)
     \/ (Doing("docs") /\ Head(todo).docs # <<>>)
  /\ Failed
  /\ UNCHANGED setup

ReadStep == ReadTarget \/ ReadFile \/ LoadDoc \/ DocsLoaded \/ HandleInclude \/ ReadFails

(***************************************************************************)
(* Properties                                                              *)
(***************************************************************************)

(* No path is read twice, however the includes lead back to it: what keeps *)
(* include cycles from being followed for ever.                            *)
ReadOnce == IsInjective(read) /\ ToSet(read) = visited

=============================================================================
