------------------------------ MODULE MCConfig ------------------------------
(***************************************************************************)
(* ConfigResolve for a working directory with files that include each      *)
(* other, themselves, a directory, a pattern and texts, under each way to  *)
(* name them on the command line, and for files whose options, tools and   *)
(* tasks differ, merged in each order.                                     *)
(***************************************************************************)
EXTENDS ConfigResolve

MCNames == <<"a.yaml", "b.yaml", "c.yml", "d", "e.yaml", "main.yaml", "sub", "w">>

W(p) == <<"/", "w">> \o p

(* Documents.                                                              *)
Inc(p) == [path |-> p, text |-> <<>>, by |-> ""]
Text(docs) == [path |-> <<>>, text |-> docs, by |-> ""]
By(inc, renderer) == [inc EXCEPT !.by = renderer]
Doc(config_, include) == [config |-> config_, include |-> include, renderers |-> <<>>, shells |-> <<>>]
Includes(include) == Doc(EmptyConfig, include)

(* Files.                                                                  *)
Yaml(docs) == [yaml |-> TRUE, docs |-> docs]
Other(docs) == [yaml |-> FALSE, docs |-> docs]

T(kind, name, id) == [kind |-> kind, name |-> name, id |-> id]
E(name, v) == [name |-> name, value |-> v]

Run(kind, tool_, task) == [kind |-> kind, tool |-> tool_, task |-> task]

Setup(fs, targets, run) ==
  [cwd |-> <<"/", "w">>, fs |-> fs, targets |-> targets, default |-> FALSE,
   essential |-> [n \in {"file", "env"} |-> "default"], needTasks |-> TRUE, run |-> run,
   globalEnv |-> [GIT_DEFAULT_BRANCH |-> "detected", GIT_TAG |-> "tag"], osEnv |-> [HOME |-> "home", X |-> "os"]]

(***************************************************************************)
(* Includes                                                                *)
(***************************************************************************)

(* main includes the directory, a text that includes a file, and itself;   *)
(* what is in the directory includes the directory, its parent's files and *)
(* what is not there.  The renderer is defined in b.                       *)
Tree ==
  (W(<<"main.yaml">>) :> Yaml(<<Includes(<<Inc(<<"d">>), Inc(<<"main.yaml">>)>>),
                                Includes(<<Text(<<Includes(<<Inc(<<"b.yaml">>)>>)>>), By(Inc(<<"e.yaml">>), "env")>>)>>))
  @@ (W(<<"b.yaml">>) :> Yaml(<<[Includes(<<Inc(<<"a.yaml">>)>>) EXCEPT !.renderers = [http |-> "b"], !.shells = [sh |-> "b"]]>>))
  @@ (W(<<"a.yaml">>) :> Yaml(<<Includes(<<By(Inc(<<"d", "*">>), "http")>>)>>))
  @@ (W(<<"e.yaml">>) :> Yaml(<<>>))
  @@ (W(<<"d", "a.yaml">>) :> Yaml(<<Includes(<<Inc(<<"..", "b.yaml">>), Inc(<<"sub", ".", "*">>)>>)>>))
  @@ (W(<<"d", "c.yml">>) :> Other(<<Includes(<<Inc(<<".", "e.yaml">>)>>)>>))
  @@ (W(<<"d", "e.yaml">>) :> Yaml(<<Includes(<<Inc(<<"nothing.yaml">>), Inc(<<>>)>>)>>))
  @@ (W(<<"d", "sub", "b.yaml">>) :> Yaml(<<Includes(<<Inc(<<"..">>)>>), Includes(<<>>)>>))

(* What c.yml includes is in its directory, and also in that of main.      *)
Absolute == (W(<<"main.yaml">>) :> Yaml(<<Includes(<<Inc(W(<<"d", "c.yml">>)), Inc(<<"d", "sub">>)>>)>>))
            @@ (W(<<"d", "c.yml">>) :> Other(<<Includes(<<Inc(<<"..", "main.yaml">>), Inc(<<"a.yaml">>)>>)>>))
            @@ (W(<<"a.yaml">>) :> Yaml(<<>>)) @@ (W(<<"d", "a.yaml">>) :> Yaml(<<>>))
            @@ (W(<<"d", "sub", "b.yaml">>) :> Yaml(<<Includes(<<>>)>>))

BadPattern == (W(<<"main.yaml">>) :> Yaml(<<Includes(<<Inc(<<"d", "[">>)>>)>>))

Reads ==
  {Setup(Tree, targets, <<>>) :
     targets \in {<<<<"main.yaml">>>>, <<<<".", "main.yaml">>>>, <<W(<<"main.yaml">>)>>, <<<<"d">>>>,
                 <<<<"d", "c.yml">>, <<".", "d">>>>, <<<<"d", "..">>>>, <<<<"missing">>, <<"main.yaml">>>>}}
  \cup {[Setup(fs, <<<<"missing">>, <<"main.yaml">>>>, <<>>) EXCEPT !.default = TRUE] :
     fs \in {Tree, Absolute, BadPattern}}

(***************************************************************************)
(* What is merged                                                          *)
(***************************************************************************)

MC(dir, branch, env_, values_, tools_, tasks) ==
  [cacheDir |-> dir, branch |-> branch, env |-> env_, values |-> values_, tools |-> tools_, tasks |-> tasks]

Build == <<"golang", "", "build">>
InDocker == <<"golang", "in-docker", "build">>
Login == <<"docker", "in-docker", "login">>

First == MC(Ref("X"), Lit("first"), <<E("X", Ref("HOME")), E("Y", Ref("X")), E("GIT_TAG", Lit("mine"))>>,
            [v |-> "first", u |-> "first"], [golang |-> <<"local", "in-docker">>],
            (Build :> <<T("build", "foo", "1 foo"), T("build", "bar", "1 bar")>>)
            @@ (InDocker :> <<T("build", "foo", "1 own foo"), T("build", "own", "1 own")>>))
Second == MC(NotSet, NotSet, <<E("Y", Ref("Y")), E("X", Ref("GIT_TAG")), E("Z", Ref("v"))>>,
             [v |-> "second"], [docker |-> <<"in-docker">>, golang |-> <<>>],
             (Build :> <<T("build", "foo", "2 foo")>>) @@ (InDocker :> <<T("build", "own", "2 own")>>)
             @@ (Login :> <<T("login", "foo", "2 login")>>))
Third == MC(Lit("third"), Lit("third"), <<E("X", Lit("third"))>>, [w |-> "third"], <<>>, Login :> <<>>)
WithSuffix == MC(Ref("Z"), Ref("X"), <<E("X", Lit("other"))>>, <<>>, <<>>, <<>>)
Twice == MC(NotSet, NotSet, <<>>, <<>>, [golang |-> <<"local">>], <<>>)
NoName == MC(NotSet, NotSet, <<>>, <<>>, [docker |-> <<"">>], <<>>)
NoTask == MC(NotSet, NotSet, <<>>, <<>>, <<>>, Login :> <<T("login", "", "0")>>)

Runs == <<Run("golang", "in-docker", <<"build", "own">>), Run("docker", "", <<"login", "foo">>),
          Run("golang", "", <<"build", "foo">>), Run("golang", "local", <<"build", "bar">>),
          Run("docker", "", <<"login", "foo">>)>>

Merging(a, b, c) ==
  (W(<<"main.yaml">>) :> Yaml(<<Doc(a, <<Inc(<<"b.yaml">>)>>), Doc(b, <<>>)>>))
  @@ (W(<<"b.yaml">>) :> Yaml(<<Doc(c, <<>>)>>))

Merges ==
  {Setup(Merging(c[1], c[2], c[3]), <<<<"main.yaml">>>>, Runs) :
     c \in {<<First, Second, Third>>, <<Third, First, Second>>, <<Second, Third, First>>, <<Third, WithSuffix, Second>>, <<WithSuffix, Third, First>>,
           <<First, Second, Twice>>, <<NoName, First, Second>>, <<First, NoTask, Second>>}}
  \cup {Setup(Merging(First, Second, Third), <<<<"b.yaml">>, <<".", "b.yaml">>, <<"main.yaml">>>>, Runs),
        [Setup(Merging(First, Third, Second), <<<<"main.yaml">>>>, Runs) EXCEPT !.needTasks = FALSE]}

MCSetups == Reads \cup Merges

(* Texts stand in files, or in texts of files.                             *)
MCDocuments ==
  LET Texts(docs) == UNION {ToSet(i.text) : i \in UNION {ToSet(d.include) : d \in docs}}
      files == UNION {UNION {ToSet(s.fs[f].docs) : f \in DOMAIN s.fs} : s \in MCSetups}
  IN files \cup Texts(files) \cup Texts(Texts(files))

(***************************************************************************)
(* A disagreement                                                          *)
(***************************************************************************)

(* Of the documents that set default_git_branch the one merged first is    *)
(* used, as the comment of GlobalConfig.DefaultGitBranch says.             *)
FirstBranchUsed ==
  phase = "ready" =>
    \A i \in DOMAIN merged :
      merged[i].branch.lit # Unset /\ (\A j \in 1..(i - 1) : merged[j].branch = NotSet) =>
        globalEnv["GIT_DEFAULT_BRANCH"] = merged[i].branch.lit

=============================================================================
