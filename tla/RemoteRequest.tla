---------------------------- MODULE RemoteRequest ----------------------------
(***************************************************************************)
(* What the git, http and s3 renderers fetch for what they are given, and  *)
(* under which key they cache it: RenderYaml of pkg/renderer/git/git.go,   *)
(* http/http.go and s3/s3.go.  The content of an object is the object.     *)
(* Several renderers of one kind may be configured; what one has cached    *)
(* does not expire here, TwoTierCache is about that.                       *)
(*                                                                         *)
(* A value is a line, kept as a sequence of tokens, or a spec in YAML.     *)
(***************************************************************************)
EXTENDS Integers, Sequences, FiniteSets, SequencesExt

CONSTANTS
  Renderers,  \* by name: kind and configuration
  Values      \* what they are given: sequences of renderer, line and spec

VARIABLES
  values,   \* those to come
  config,   \* the spec in use for the first: none yet, or what to fetch
  key,      \* the key of it
  cache,    \* of each renderer by key: what it has, and (history) what was asked
  answer    \* what the last was answered

vars == <<values, config, key, cache, answer>>

Nothing == [object |-> "none"]
NoSpec == [set |-> FALSE]

Init ==
  /\ values \in Values
  /\ config = Nothing /\ key = <<>> /\ answer = Nothing
  /\ cache = [r \in DOMAIN Renderers |-> [k \in {} |-> Nothing]]

Value == Head(values)
Renderer == Renderers[Value.renderer]
IsLine == ~Value.spec.set

(***************************************************************************)
(* git                                                                     *)
(***************************************************************************)

Places(line, t) == {i \in DOMAIN line : line[i] = t}
Upmost(S) == CHOOSE i \in S : \A j \in S : j <= i
Lowest(S) == CHOOSE i \in S : \A j \in S : i <= j
Before(line, i) == SubSeq(line, 1, i - 1)
After(line, i) == SubSeq(line, i + 1, Len(line))

(* The line up to its last @, and the ref.                                 *)
MutAtRef(line) == LET at == Places(line, "@") \ {1} IN IF at = {} THEN Len(line) + 1 ELSE Lowest(at)
AtRef(line) == LET at == Places(line, "@") \ {1} IN IF at = {} THEN Len(line) + 1 ELSE Upmost(at)
ReqURL(line) == Before(line, AtRef(line))

(* The repo ends with the first .git; a host, and a port, may be before it.*)
Git(url, ref, ssh) ==
  LET at == Lowest(Places(url, ".git"))
      repo == SubSeq(url, 1, at)
      path == After(url, at)
      colons == Places(repo, ":") \ {1}
      host == Before(repo, Upmost(colons))
      ports == Places(host, ":")
  IN [object |-> "git",
      path |-> IF path # <<>> /\ path[1] = "/" THEN Tail(path) ELSE path,
      ref |-> ref,
      repo |-> IF colons = {} THEN repo ELSE After(repo, Upmost(colons)),
      ssh |-> IF colons = {} THEN ssh
              ELSE IF Cardinality(ports) = 1
              THEN [host |-> Before(host, Lowest(ports)), port |-> After(host, Lowest(ports)), key |-> ssh.host]
              ELSE [host |-> host, port |-> <<>>, key |-> ssh.host]]

(* NewClient: there is a configuration, and its host key is one.           *)
Connects(ssh) == ssh.host # <<>> /\ ssh.key \in {<<>>, <<"key">>}

(* A line without .git is an error.                                        *)
UseGitLine ==
  /\ Renderer.kind = "git" /\ IsLine /\ Places(ReqURL(Value.line), ".git") # {}
  /\ config' = Git(ReqURL(Value.line), After(Value.line, AtRef(Value.line)), Renderer.config)
  /\ key' = ReqURL(Value.line)

(* A spec is fetched as it is; the key of it is empty.                     *)
UseGitSpec ==
  /\ Renderer.kind = "git" /\ ~IsLine
  /\ config' = [object |-> "git", path |-> Value.spec.path, ref |-> Value.spec.ref,
                repo |-> Value.spec.repo, ssh |-> Value.spec.ssh]
  /\ key' = <<>>

(***************************************************************************)
(* http and s3                                                             *)
(***************************************************************************)

(* The URL, or the path, is fetched with the configuration of the spec, or *)
(* of the renderer, and is the key.                                        *)
UseURL ==
  /\ Renderer.kind \in {"http", "s3"}
  /\ config' = [object |-> Renderer.kind,
                path |-> IF IsLine THEN Value.line ELSE Value.spec.url,
                with |-> IF IsLine THEN Renderer.config ELSE Value.spec.config]
  /\ key' = IF IsLine THEN Value.line ELSE Value.spec.url

(***************************************************************************)
(* RenderYaml                                                              *)
(***************************************************************************)

Resolve ==
  /\ values # <<>> /\ config = Nothing
  /\ UseGitLine \/ UseGitSpec \/ UseURL
  /\ answer' = Nothing
  /\ UNCHANGED <<values, cache>>

Return(a) == answer' = a /\ values' = Tail(values) /\ config' = Nothing /\ key' = <<>>

(* The value is not one, or its fields cannot be resolved.                 *)
ResolveFails ==
  /\ values # <<>> /\ config = Nothing
  /\ Return(Nothing)
  /\ UNCHANGED cache

Name == Value.renderer

Cached ==
  /\ config # Nothing /\ key \in DOMAIN cache[Name]
  /\ Return(cache[Name][key].has)
  /\ UNCHANGED cache

Fetch ==
  /\ config # Nothing /\ key \notin DOMAIN cache[Name]
  /\ config.object = "git" => Connects(config.ssh)
  /\ cache' = [cache EXCEPT ![Name] =
                 [k \in DOMAIN @ \cup {key} |->
                    IF k = key THEN [has |-> config, asks |-> Value.asks] ELSE @[k]]]
  /\ Return(config)

FetchFails ==
  /\ config # Nothing /\ key \notin DOMAIN cache[Name]
  /\ Return(Nothing)
  /\ UNCHANGED cache

Terminated == values = <<>> /\ UNCHANGED vars

Next == Resolve \/ ResolveFails \/ Cached \/ Fetch \/ FetchFails \/ Terminated

Spec == Init /\ [][Next]_vars

(***************************************************************************)
(* Properties                                                              *)
(***************************************************************************)

(* What a value is answered is what it names, or what the first with its   *)
(* key named, of this renderer and no other (RenderYaml); and then one was *)
(* of the same file or URL, at another ref or with another configuration,  *)
(* but for git specs, whose key is empty.                                  *)
SameObject(x, y) == x.path = y.path /\ (x.object = "git" => x.repo = y.repo /\ x.ssh = y.ssh)
AnsweredAsAsked ==
  [][values' # values /\ answer' # Nothing =>
       /\ answer' = IF key \in DOMAIN cache[Name] THEN cache[Name][key].asks ELSE Value.asks
       /\ Renderer.kind # "git" \/ IsLine => SameObject(answer', Value.asks)]_vars

=============================================================================
