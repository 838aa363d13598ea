---------------------------- MODULE CosignTasks -----------------------------
(***************************************************************************)
(* The tasks of the cosign tool (pkg/tools/cosign): sign (of files),       *)
(* sign-image and upload, which signs what it has uploaded.                *)
(*                                                                         *)
(* The private key of an entry is put in a file of the task's cache, named *)
(* by the content of the key, and never written again; the public key is   *)
(* put beside it each time a signature is about to be verified.  Entries   *)
(* with the same private key share both files.  The private key is written *)
(* in GetExecSpecs, under BaseTask.mu; the public key by a callback or by  *)
(* cosign, under no lock: the file is truncated, then written, and others  *)
(* run in between.  `cosign` itself is external.                           *)
(***************************************************************************)
EXTENDS ExecSpecs

VARIABLES
  signTask,    \* the task, fixed
  signMatrix,  \* entry -> its keys, "" if not set, fixed
  keyFiles,    \* file of the cache -> the key in it
  publishing,  \* the entries that truncated their public key file and wrote no key since
  signatures,  \* <<repository, target>> -> who signed it with which key
  verified     \* history: <<entry, target>> -> the signature and the key it was checked with

cosignFixed == <<signTask, signMatrix>>
cosignVars == <<cosignFixed, keyFiles, publishing, signatures, verified>>

TORN == "torn"
TORN_PUBLIC == <<TORN>>

PrivateKey(g) == signMatrix[g].private
KeyFile(g) == <<"private", PrivateKey(g)>>
MutPubKeyFile(g) == <<"public">>
PubKeyFile(g) == <<"public", PrivateKey(g)>>

(* The targets are rendered: they may be the entry's own or shared.        *)
Target(i, g) == IF signTask.targets[i] = "own" THEN <<"target", i, g>> ELSE <<"target", i>>

(***************************************************************************)
(* The specs                                                               *)
(***************************************************************************)

(* Images are signed in the repository `repo`, if set.                     *)
RepoEnv == IF signTask.kind # "sign" /\ signTask.repo # ""
           THEN [COSIGN_REPOSITORY |-> signTask.repo] ELSE <<>>

genSignAndVerifySpec(g, t) ==
  <<WithEnv(Cmd("sign", <<t>>), RepoEnv)>>
  \o (IF ~signTask.verify THEN <<>>
      ELSE <<Cmd(IF signMatrix[g].public = "" THEN "public-key" ELSE "write-public-key", <<>>),
             Cmd("verify", <<t>>)>>)

TargetSpecs(g, t) ==
  (IF signTask.kind = "upload" THEN <<Cmd("upload", <<t>>)>> ELSE <<>>)
  \o (IF signTask.kind # "upload" \/ signTask.signing THEN genSignAndVerifySpec(g, t) ELSE <<>>)

CosignSpecs(g) == FlattenSeq([i \in DOMAIN signTask.targets |-> TargetSpecs(g, Target(i, g))])

(* ensurePrivateKey: a file that is there is taken for the key.  One that  *)
(* cannot be written is left as far as it came.                            *)
EnsurePrivateKey(g) ==
  keyFiles' = IF KeyFile(g) \in DOMAIN keyFiles THEN keyFiles
              ELSE Update(keyFiles, KeyFile(g), PrivateKey(g))

NoPrivateKey(g) ==
  \/ UNCHANGED keyFiles
  \/ KeyFile(g) \notin DOMAIN keyFiles /\ PrivateKey(g) # ""
     /\ keyFiles' = Update(keyFiles, KeyFile(g), TORN)

GenCosign(g) ==
  /\ \/ NotGenerated(g) /\ NoPrivateKey(g)
     \/ /\ Generated(g, CosignSpecs(g))
        /\ IF signTask.kind = "upload" /\ ~signTask.signing THEN UNCHANGED keyFiles
           ELSE PrivateKey(g) # "" /\ EnsurePrivateKey(g)
  /\ UNCHANGED <<cosignFixed, publishing, signatures, verified>>

(***************************************************************************)
(* The steps                                                               *)
(***************************************************************************)

PublicKey(key) == <<"public key of", key>>

(* The public key an entry checks with: the user's, or that of its private *)
(* key.                                                                    *)
Checking(g) ==
  PublicKey(IF signMatrix[g].public = "" THEN PrivateKey(g) ELSE signMatrix[g].public)

(* Where cosign keeps a signature: verify finds it through the environment *)
(* the spec of sign left behind.                                           *)
Place(g, e) == <<IF "COSIGN_REPOSITORY" \in DOMAIN e THEN e.COSIGN_REPOSITORY ELSE "", Arg(g, 1)>>

Upload(g) == At(g, "upload") /\ Succeed(g, Empty, <<>>) /\ UNCHANGED cosignVars

Sign(g) ==
  /\ At(g, "sign") /\ keyFiles[KeyFile(g)] # TORN
  /\ signatures' = Update(signatures, Place(g, Suggested(g)), [by |-> g, key |-> keyFiles[KeyFile(g)]])
  /\ Succeed(g, Empty, <<>>)
  /\ UNCHANGED <<cosignFixed, keyFiles, publishing, verified>>

(* The public key is derived by cosign, from the file of the private key,  *)
(* or written by a callback.  Either way the file is truncated first ...   *)
TruncateKey(g) ==
  /\ At(g, "write-public-key") \/ (At(g, "public-key") /\ keyFiles[KeyFile(g)] # TORN)
  /\ g \notin publishing /\ publishing' = publishing \cup {g}
  /\ keyFiles' = Update(keyFiles, PubKeyFile(g), TORN_PUBLIC)
  /\ UNCHANGED <<execVars, cosignFixed, signatures, verified>>

(* ... and written then.  What several leave who have given different keys *)
(* for one private key and write at once may be some of each.              *)
Mixed(g) ==
  workers > 1 /\ \E h \in Entries : PubKeyFile(h) = PubKeyFile(g) /\ Checking(h) # Checking(g)

PublishKey(g) ==
  /\ At(g, "public-key") \/ At(g, "write-public-key")
  /\ g \in publishing /\ publishing' = publishing \ {g}
  /\ \E key \in {Checking(g)} \cup {k \in {TORN_PUBLIC} : Mixed(g)} :
       keyFiles' = Update(keyFiles, PubKeyFile(g), key)
  /\ Succeed(g, Empty, <<>>)
  /\ UNCHANGED <<cosignFixed, signatures, verified>>

Accepted(g) ==
  /\ Place(g, env[g]) \in DOMAIN signatures /\ PubKeyFile(g) \in DOMAIN keyFiles
  /\ PublicKey(signatures[Place(g, env[g])].key) = keyFiles[PubKeyFile(g)]

Verify(g) ==
  /\ At(g, "verify") /\ Accepted(g)
  /\ verified' = Update(verified, <<g, Arg(g, 1)>>, signatures[Place(g, env[g])].key)
  /\ Succeed(g, Empty, <<>>)
  /\ UNCHANGED <<cosignFixed, keyFiles, publishing, signatures>>

CosignCommands == {"upload", "sign", "public-key", "write-public-key", "verify"}

(* A failing write leaves the file torn, or as others have written it      *)
(* since; nothing repairs it, and the entry's place in `publishing` stays. *)
CosignFails(g) ==
  /\ stage[g] = "running" /\ Current(g).op \in CosignCommands
  /\ \/ Fail(g, Empty)
     \/ ~At(g, "write-public-key") /\ g \notin publishing /\ NoToolCmd(g)
  /\ \/ UNCHANGED keyFiles
     \/ g \in publishing /\ Mixed(g) /\ keyFiles' = Update(keyFiles, PubKeyFile(g), TORN_PUBLIC)
  /\ UNCHANGED <<cosignFixed, publishing, signatures, verified>>

CosignStep(g) ==
  Upload(g) \/ Sign(g) \/ TruncateKey(g) \/ PublishKey(g) \/ Verify(g) \/ CosignFails(g)

=============================================================================
