-------------------------- MODULE MCRemoteRequest ---------------------------
(***************************************************************************)
(* RemoteRequest for pairs of values given to renderers of each kind: git  *)
(* lines of every form with tokens in unusual places, and specs; also such *)
(* as differ in what the key leaves out.                                   *)
(***************************************************************************)
EXTENDS RemoteRequest, TLC

Ssh(host) == [host |-> host, port |-> <<"22">>, key |-> IF host = <<>> THEN <<>> ELSE <<"key">>]
MCRenderers ==
  ("git" :> [kind |-> "git", config |-> Ssh(<<"example.com">>)])
  @@ ("git:b" :> [kind |-> "git", config |-> Ssh(<<"b.com">>)])
  @@ ("git:none" :> [kind |-> "git", config |-> Ssh(<<>>)])
  @@ ("http" :> [kind |-> "http", config |-> "GET"]) @@ ("http:b" :> [kind |-> "http", config |-> "GET base"])
  @@ ("s3" :> [kind |-> "s3", config |-> "bucket"])

(* A line from its parts, and what it asks for.                            *)
GitLine(renderer, host, port, repo, path, ref) ==
  [renderer |-> renderer, spec |-> NoSpec,
   line |-> host \o (IF port = <<>> THEN <<>> ELSE <<":">> \o port) \o (IF host = <<>> THEN <<>> ELSE <<":">>)
            \o repo \o <<".git", "/">> \o path \o (IF ref = <<>> THEN <<>> ELSE <<"@">> \o ref),
   asks |-> [object |-> "git", repo |-> repo \o <<".git">>, path |-> path, ref |-> ref,
             ssh |-> IF host = <<>> THEN MCRenderers[renderer].config
                     ELSE [host |-> host, port |-> port, key |-> MCRenderers[renderer].config.key]]]

GitSpec(repo, path) ==
  [renderer |-> "git", line |-> <<>>,
   spec |-> [set |-> TRUE, repo |-> repo, path |-> path, ref |-> <<>>, ssh |-> Ssh(<<"c.com">>)],
   asks |-> [object |-> "git", repo |-> repo, path |-> path, ref |-> <<>>, ssh |-> Ssh(<<"c.com">>)]]

At(repo, path, ref) == GitLine("git", <<>>, <<>>, repo, path, ref)

URL(renderer, url) ==
  [renderer |-> renderer, spec |-> NoSpec, line |-> url,
   asks |-> [object |-> MCRenderers[renderer].kind, path |-> url, with |-> MCRenderers[renderer].config]]
URLSpec(renderer, url, with) ==
  [renderer |-> renderer, line |-> <<>>, spec |-> [set |-> TRUE, url |-> url, config |-> with],
   asks |-> [object |-> MCRenderers[renderer].kind, path |-> url, with |-> with]]

repo == <<"org", "/", "foo">>
path == <<"foo.yaml">>
master == <<"master">>

(***************************************************************************)
(* What the documentation says and the code does not do                    *)
(***************************************************************************)

(* One file at two refs; one URL and two methods; two specs for git.       *)
TwoRefs == {<<At(repo, path, master), At(repo, path, <<"dev">>)>>}
TwoMethods == {<<URLSpec("http", path, "GET"), URLSpec("http", path, "POST")>>}
TwoSpecs == {<<GitSpec(repo, path), GitSpec(<<"bar">>, path)>>}

(* "with optional `host:port` part and `@<ref>` suffix"                    *)
(* (docs/renderers/git.md:40), "method: POST" (docs/renderers/http.md:66)  *)
(* and "Fetch file content from your git ssh repo"                         *)
(* (docs/renderers/git.md:7): what is answered is what was asked for.      *)
OwnAnswer == [][values' # values /\ answer' # Nothing => answer' = Value.asks]_vars

(* "with host:port" (docs/renderers/git.md:46): the fetch such a line asks *)
(* for, of a renderer that has been configured, can connect.               *)
HostLine == {<<GitLine("git", <<"my-domain.com">>, <<"1022">>, repo, path, <<>>)>>}
HostReached ==
  config # Nothing /\ config.object = "git" /\ Connects(Value.asks.ssh) => Connects(config.ssh)

-----------------------------------------------------------------------------
(* Each pair of values of each form, those above included.                 *)
Lines ==
  {GitLine(r, <<>>, <<>>, rp, p, master) : r \in {"git", "git:b"}, rp \in {repo, <<"bar">>},
     p \in {path, <<"a", "@", "b", "/", "c.git">>, <<"x", ".git", "/", "y">>}}
  \cup {GitLine("git:none", <<"c.com">>, port, repo, path, ref) :
          port \in {<<>>, <<"1022">>}, ref \in {master}}
Asked ==
  Lines \cup {At(repo, path, <<"dev">>)}
  \cup {GitSpec(repo, path), GitSpec(<<"bar">>, path), [GitSpec(repo, path) EXCEPT !.spec = NoSpec, !.line = path]}
  \cup {URL(r, path) : r \in {"http", "http:b", "s3"}} \cup {URL("http", repo)}
  \cup {URLSpec("http", path, with) : with \in {"GET", "POST"}} \cup {URLSpec("s3", <<"p">>, "another")}

MCValues == {<<v, w>> : v, w \in Asked} \cup HostLine \cup {<<At(repo, path, <<>>)>>}

=============================================================================
