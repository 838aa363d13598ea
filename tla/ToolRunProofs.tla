--------------------------- MODULE ToolRunProofs ----------------------------
(***************************************************************************)
(* Proofs about ToolRun, for any jobs: the tasks that make images, on what *)
(* EntriesProofs shows of the entries of every task.                       *)
(*                                                                         *)
(* The lists of specs of buildah and the callbacks in them come first,     *)
(* then the containers of the steps, what the tokens in commands are       *)
(* replaced by, and the manifests, of buildah and of docker. ComesTo and   *)
(* Placed say where in its list an entry is.                               *)
(***************************************************************************)
EXTENDS EntriesProofs

(* Calls whose specs are of a set have specs of a larger one.              *)
LEMMA CallsGrow ==
  ASSUME NEW S, NEW T, S \subseteq T, NEW fs \in CallsOf(S) PROVE fs \in CallsOf(T)
<1> DEFINE C == [ignore : BOOLEAN, todo : Seq(S)]
           D == [ignore : BOOLEAN, todo : Seq(T)]
<1>1. \A A, B : A \subseteq B => Seq(A) \subseteq Seq(B)
  <2> SUFFICES ASSUME NEW A, NEW B, A \subseteq B, NEW s \in Seq(A) PROVE s \in Seq(B)
    OBVIOUS
  <2>1. s \in [1..Len(s) -> A] /\ Len(s) \in Nat
    BY LenProperties
  <2>2. s \in [1..Len(s) -> B]
    BY <2>1
  <2> QED
    BY <2>1, <2>2
<1>2. C \subseteq D
  BY <1>1
<1> QED
  BY <1>1, <1>2 DEF CallsOf

(* An entry that runs is before one or the other.                          *)
LEMMA PlaceCurrent ==
  ASSUME EngineInv, NEW g \in Entries, stage[g] = "running", NEW specs, IsSeq(specs), NEW p, NEW sub,
         ComesTo(g, specs, p, sub)
  PROVE  Here(g, specs, p, sub)
<1>0. PICK N : N = Len(frames[g])
  OBVIOUS
<1>1. PICK S : frames[g] \in CallsOf(S)
  BY DEF ComesTo
<1>2. /\ N \in Nat \ {0} /\ Todo(frames[g], N) # <<>> /\ Current(g) = Todo(frames[g], N)[1]
      /\ \A i \in Nat : i > N => Todo(frames[g], i) = <<>>
  BY <1>0, <1>1, TodoNow
<1>3. CASE N = 1
  <2>1. Todo(frames[g], 2) = <<>>
    BY <1>2, <1>3
  <2>2. sub = <<>> /\ Todo(frames[g], 1) = SubSeq(specs, p, Len(specs))
    BY <2>1 DEF ComesTo
  <2>3. p \in 1..Len(specs) /\ SubSeq(specs, p, Len(specs))[1] = specs[p]
    <3>1. specs \in Seq({specs[i] : i \in DOMAIN specs}) /\ p \in 1..(Len(specs) + 1)
      BY DEF IsSeq, ComesTo
    <3> QED
      BY <1>2, <1>3, <2>2, <3>1, SuffixElements
  <2> QED
    BY <1>0, <1>2, <1>3, <2>2, <2>3 DEF Here
<1>4. CASE N = 2
  BY <1>0, <1>2, <1>4 DEF Here, ComesTo
<1>5. CASE N > 2
  BY <1>2, <1>5 DEF ComesTo
<1> QED
  BY <1>2, <1>3, <1>4, <1>5

(* An entry that goes on comes to the next spec, or the first returned.    *)
LEMMA PlaceMoves ==
  ASSUME EngineInv, NEW g \in Entries, stage[g] = "running", NEW specs, IsSeq(specs), NEW p, NEW sub, IsSeq(sub),
         ComesTo(g, specs, p, sub), NEW data, NEW new, IsSeq(new), Moves(g, data, new),
         Current(g).ignore \in BOOLEAN, Current(g).ignore => new = <<>>, sub # <<>> => new = <<>>
  PROVE  IF sub = <<>> THEN Placed(g, specs, p + 1, new)' ELSE Placed(g, specs, p, Tail(sub))'
<1>0. PICK N : N = Len(frames[g])
  OBVIOUS
<1>1. PICK R : frames[g] \in CallsOf(R)
  BY DEF ComesTo
<1>2. PICK S : frames[g] \in CallsOf(S) /\ new \in Seq(S)
  <2> DEFINE T == R \cup {new[i] : i \in DOMAIN new}
  <2>1. frames[g] \in CallsOf(T)
    BY <1>1, CallsGrow
  <2>2. new \in Seq(T)
    <3>1. new \in Seq({new[i] : i \in DOMAIN new})
      BY DEF IsSeq
    <3>2. Len(new) \in Nat /\ new \in [1..Len(new) -> {new[i] : i \in DOMAIN new}]
      BY <3>1, LenProperties
    <3>3. new \in [1..Len(new) -> T]
      BY <3>2
    <3> QED
      BY <3>2, <3>3
  <2> QED
    BY <2>1, <2>2
<1>3. NoneIgnores(frames[g])
  BY DEF ComesTo
<1>4. Stepped(g, S, new)
  <2>1. CASE Succeed(g, data, new)
    BY <1>2, <1>3, <2>1, SucceedCalls
  <2>2. CASE Fail(g, data) /\ Current(g).ignore /\ new = <<>>
    BY <1>2, <1>3, <2>2, IgnoredCalls
  <2> QED
    BY <2>1, <2>2 DEF Moves
<1>5. Here(g, specs, p, sub)
  BY PlaceCurrent
<1> DEFINE q == IF sub = <<>> THEN p + 1 ELSE p
           rest == IF sub = <<>> THEN new ELSE Tail(sub)
<1>6. /\ Todo(frames[g], 1) = SubSeq(specs, p, Len(specs)) /\ Todo(frames[g], 2) = sub
      /\ \A i \in Nat : i > 2 => Todo(frames[g], i) = <<>>
  BY DEF ComesTo
<1>7. p \in 1..(Len(specs) + 1) /\ Len(specs) \in Nat
  BY LenProperties DEF ComesTo, IsSeq
<1> DEFINE was(i) == Todo(frames[g], i)
           now(i) == Todo(frames'[g], i)
<1>13. \A i \in Nat : now(i) = IF i < N THEN was(i) ELSE IF i = N THEN Tail(was(i))
                               ELSE IF i = N + 1 THEN new ELSE <<>>
  BY <1>0, <1>4 DEF Stepped
<1>14. was(1) = SubSeq(specs, p, Len(specs)) /\ was(2) = sub /\ \A i \in Nat : i > 2 => was(i) = <<>>
  BY <1>6
<1> HIDE DEF was, now
<1>8. /\ q \in 1..(Len(specs) + 1)
      /\ now(1) = SubSeq(specs, q, Len(specs)) /\ now(2) = rest /\ \A i \in Nat : i > 2 => now(i) = <<>>
  <2>1. CASE sub = <<>>
    <3>1. N = 1 /\ p \in 1..Len(specs)
      BY <1>0, <1>5, <2>1 DEF Here
    <3>2. Tail(SubSeq(specs, p, Len(specs))) = SubSeq(specs, p + 1, Len(specs))
      <4>1. specs \in Seq({specs[i] : i \in DOMAIN specs})
        BY DEF IsSeq
      <4>2. 1 <= p /\ p <= Len(specs) /\ p \in 1..Len(specs) /\ Len(specs) \in 1..Len(specs)
        BY <1>7, <3>1
      <4> QED
        BY <4>1, <4>2, HeadTailOfSubSeq
    <3>3. now(1) = Tail(was(1)) /\ now(2) = new
      BY <1>13, <3>1
    <3>4. now(1) = SubSeq(specs, p + 1, Len(specs))
      BY <1>14, <3>2, <3>3
    <3>5. \A i \in Nat : i > 2 => now(i) = <<>>
      BY <1>13, <3>1
    <3> QED
      BY <1>7, <2>1, <3>1, <3>3, <3>4, <3>5
  <2>2. CASE sub # <<>>
    <3>1. N = 2 /\ new = <<>>
      BY <1>0, <1>5, <2>2 DEF Here
    <3>3. now(1) = was(1) /\ now(2) = Tail(was(2))
      BY <1>13, <3>1
    <3>5. \A i \in Nat : i > 2 => now(i) = <<>>
      BY <1>13, <3>1
    <3> QED
      BY <1>7, <1>14, <2>2, <3>3, <3>5
  <2> QED
    BY <2>1, <2>2
<1> HIDE DEF q, rest
<1>9. (\E T : frames'[g] \in CallsOf(T)) /\ NoneIgnores(frames'[g])
  BY <1>4 DEF Stepped
<1>10. ComesTo(g, specs, q, rest)'
  BY <1>8, <1>9 DEF ComesTo, now
<1>11. CASE stage'[g] = "running"
  BY <1>10, <1>11 DEF Placed, q, rest
<1>12. CASE stage'[g] = "ok" /\ frames'[g] = <<>>
  <2>1. \A i \in Nat : Todo(frames'[g], i) = <<>>
    BY <1>12 DEF Todo
  <2>2. rest = <<>> /\ SubSeq(specs, q, Len(specs)) = <<>>
    BY <1>8, <2>1 DEF now
  <2>3. q = Len(specs) + 1
    <3> SUFFICES ASSUME q \in 1..Len(specs) PROVE FALSE
      BY <1>7, <1>8
    <3>1. PICK n : n = Len(specs)
      OBVIOUS
    <3>2. specs \in Seq({specs[i] : i \in DOMAIN specs}) /\ n \in Nat /\ q \in 1..n
      BY <1>7, <3>1 DEF IsSeq
    <3>3. Len(SubSeq(specs, q, n)) = n - q + 1
      BY <3>1, <3>2
    <3>4. n - q + 1 # 0
      BY <3>2
    <3> QED
      BY <2>2, <3>1, <3>3, <3>4, EmptySeq
  <2> QED
    BY <1>12, <2>2, <2>3 DEF Placed, q, rest
<1> QED
  BY <1>4, <1>11, <1>12 DEF Stepped

(* What GetExecSpecs returned is gone through from its first.              *)
LEMMA PlaceStarts ==
  ASSUME EngineInv, NEW g \in Entries, NEW specs, IsSeq(specs), Generated(g, specs)
  PROVE  Placed(g, specs, 1, <<>>)'
<1>0. DOMAIN stage = Entries /\ DOMAIN frames = Entries /\ Len(specs) \in Nat
  BY LenProperties DEF EngineInv, TypeOK, ExecTypeOK, IsSeq
<1>1. CASE specs = <<>>
  BY <1>0, <1>1 DEF Generated, Goto, Placed
<1>2. CASE specs # <<>>
  <2>1. frames'[g] = << [ignore |-> FALSE, todo |-> specs] >> /\ stage'[g] = "running"
    BY <1>0, <1>2 DEF Generated, Goto
  <2>2. specs \in Seq({specs[i] : i \in DOMAIN specs})
    BY DEF IsSeq
  <2>3. /\ frames'[g] \in CallsOf({specs[i] : i \in DOMAIN specs}) /\ NoneIgnores(frames'[g])
        /\ Todo(frames'[g], 1) = specs /\ \A i \in Nat : i > 1 => Todo(frames'[g], i) = <<>>
    BY <2>1, <2>2, FirstCall
  <2>4. SubSeq(specs, 1, Len(specs)) = specs
    BY <2>2, SubSeqFull
  <2>5. ComesTo(g, specs, 1, <<>>)'
    BY <1>0, <2>3, <2>4 DEF ComesTo
  <2> QED
    BY <2>1, <2>5 DEF Placed
<1> QED
  BY <1>1, <1>2

(* What stands for something of its own is no token.                       *)
LEMMA NotTokens ==
  ASSUME NEW x, NEW y
  PROVE  /\ ~IsToken(<<"name", x>>) /\ ~IsToken(<<"step", x>>) /\ ~IsToken(<<"final", x>>)
         /\ ~IsToken(<<"digest", x>>) /\ ~IsToken(<<"spec", x>>)
         /\ ~IsToken(<<"file">>) /\ ~IsToken(<<"redacted">>) /\ ~IsToken(<<"scratch">>) /\ ~IsToken(Empty)
         /\ ~IsToken(<<"image", x, y>>) /\ ~IsToken(<<"manifest", x, y>>)
         /\ ~IsToken(<<"container", x, y>>) /\ ~IsToken(<<"id", x, y>>)
BY DEF IsToken, Tokens, Empty, CURRENT, CTR_NAME, FROM_REF, COPY_IMAGE, SRC, REDACTED, IMAGE_ID, DIGEST, MANIFEST_SPEC

(* The tokens, and what is none.                                           *)
LEMMA TokensDiffer ==
  /\ \A id : STEP(id) \notin Tokens \cup {NoToken} /\ IsToken(STEP(id))
  /\ \A t \in Tokens : IsToken(t) /\ t # NoToken
  /\ ~IsToken(NoToken)
  /\ CURRENT \notin {CTR_NAME, FROM_REF, COPY_IMAGE, SRC, REDACTED, IMAGE_ID, DIGEST, MANIFEST_SPEC}
  /\ CTR_NAME \notin {FROM_REF, COPY_IMAGE, SRC, REDACTED, IMAGE_ID, DIGEST, MANIFEST_SPEC}
  /\ COPY_IMAGE \notin {FROM_REF, SRC, REDACTED, IMAGE_ID, DIGEST, MANIFEST_SPEC}
  /\ MANIFEST_SPEC \notin {FROM_REF, SRC, REDACTED, IMAGE_ID, DIGEST}
  /\ \A id1, id2 : STEP(id1) = STEP(id2) => id1 = id2
BY DEF IsToken, Tokens, STEP, NoToken, CURRENT, CTR_NAME, FROM_REF, COPY_IMAGE, SRC, REDACTED, IMAGE_ID, DIGEST, MANIFEST_SPEC

(* The fields of a spec that keeps its output.                             *)
LEMMA IntoFields ==
  ASSUME NEW op, NEW args, NEW out
  PROVE  /\ CmdInto(op, args, out).op = op
         /\ CmdInto(op, args, out).args = args
         /\ CmdInto(op, args, out).out = out
         /\ ~CmdInto(op, args, out).ignore /\ CmdInto(op, args, out).ignore \in BOOLEAN
BY DEF CmdInto

(* And those of one that does not, or whose error is ignored.              *)
LEMMA PlainFields ==
  ASSUME NEW op, NEW args
  PROVE  /\ Cmd(op, args).op = op
         /\ Cmd(op, args).args = args
         /\ Cmd(op, args).out = NoToken
         /\ ~Cmd(op, args).ignore /\ Cmd(op, args).ignore \in BOOLEAN
BY DEF Cmd, CmdInto

(* The fields of a spec whose error is ignored.                            *)
LEMMA IgnoredIntoFields ==
  ASSUME NEW op, NEW args, NEW out
  PROVE  /\ Ignored(CmdInto(op, args, out)).op = op
         /\ Ignored(CmdInto(op, args, out)).args = args
         /\ Ignored(CmdInto(op, args, out)).out = out
         /\ Ignored(CmdInto(op, args, out)).ignore /\ Ignored(CmdInto(op, args, out)).ignore \in BOOLEAN
BY DEF CmdInto, Ignored

(* A list of some specs, one by one.                                       *)
LEMMA NoSpecs == IsSeq(<<>>) /\ Len(<<>>) = 0
BY DEF IsSeq

(* One spec.                                                               *)
LEMMA OneSpec ==
  ASSUME NEW a PROVE IsSeq(<<a>>) /\ Len(<<a>>) = 1 /\ <<a>>[1] = a
<1>1. <<a>> \in Seq({a}) /\ Len(<<a>>) = 1 /\ <<a>>[1] = a
  OBVIOUS
<1> QED
  BY <1>1, SeqIsSeq

(* Two.                                                                    *)
LEMMA TwoSpecs ==
  ASSUME NEW a, NEW b
  PROVE  IsSeq(<<a>> \o <<b>>) /\ Len(<<a>> \o <<b>>) = 2 /\ (<<a>> \o <<b>>)[1] = a /\ (<<a>> \o <<b>>)[2] = b
<1>1. (<<a>> \o <<b>>) \in Seq({a, b}) /\ Len(<<a>> \o <<b>>) = 2 /\ (<<a>> \o <<b>>)[1] = a /\ (<<a>> \o <<b>>)[2] = b
  OBVIOUS
<1> QED
  BY <1>1, SeqIsSeq

(* Four.                                                                   *)
LEMMA FourSpecs ==
  ASSUME NEW a, NEW b, NEW c, NEW d
  PROVE  IsSeq(<<a>> \o <<b, c, d>>) /\ Len(<<a>> \o <<b, c, d>>) = 4 /\ (<<a>> \o <<b, c, d>>)[1] = a /\ (<<a>> \o <<b, c, d>>)[2] = b /\ (<<a>> \o <<b, c, d>>)[3] = c /\ (<<a>> \o <<b, c, d>>)[4] = d
<1>1. (<<a>> \o <<b, c, d>>) \in Seq({a, b, c, d}) /\ Len(<<a>> \o <<b, c, d>>) = 4 /\ (<<a>> \o <<b, c, d>>)[1] = a /\ (<<a>> \o <<b, c, d>>)[2] = b /\ (<<a>> \o <<b, c, d>>)[3] = c /\ (<<a>> \o <<b, c, d>>)[4] = d
  OBVIOUS
<1> QED
  BY <1>1, SeqIsSeq

(* Five.                                                                   *)
LEMMA FiveSpecs ==
  ASSUME NEW a, NEW b, NEW c, NEW d, NEW e
  PROVE  IsSeq(<<a, b>> \o <<c, d, e>>) /\ Len(<<a, b>> \o <<c, d, e>>) = 5 /\ (<<a, b>> \o <<c, d, e>>)[1] = a /\ (<<a, b>> \o <<c, d, e>>)[2] = b /\ (<<a, b>> \o <<c, d, e>>)[3] = c /\ (<<a, b>> \o <<c, d, e>>)[4] = d /\ (<<a, b>> \o <<c, d, e>>)[5] = e
<1>1. (<<a, b>> \o <<c, d, e>>) \in Seq({a, b, c, d, e}) /\ Len(<<a, b>> \o <<c, d, e>>) = 5 /\ (<<a, b>> \o <<c, d, e>>)[1] = a /\ (<<a, b>> \o <<c, d, e>>)[2] = b /\ (<<a, b>> \o <<c, d, e>>)[3] = c /\ (<<a, b>> \o <<c, d, e>>)[4] = d /\ (<<a, b>> \o <<c, d, e>>)[5] = e
  OBVIOUS
<1> QED
  BY <1>1, SeqIsSeq

(* The tokens of commands with few arguments.                              *)
LEMMA FewArgs ==
  ASSUME NEW x, NEW W, NEW a, NEW b, NEW c
  PROVE  /\ x.args = <<>> => Uses(x, W)
         /\ x.args = <<a>> /\ (IsToken(a) => a \in W) => Uses(x, W)
         /\ x.args = <<a, b>> /\ (IsToken(a) => a \in W) /\ (IsToken(b) => b \in W) => Uses(x, W)
         /\ x.args = <<a, b, c>> /\ (IsToken(a) => a \in W) /\ (IsToken(b) => b \in W) /\ (IsToken(c) => c \in W)
            => Uses(x, W)
BY DEF Uses

(* What a step other than `from` generates.                                *)
LEMMA GenSpecList ==
  ASSUME NEW i, task.steps[i].do \in Kinds \ {"from"}
  PROVE  PlainList(genSpec(i, task.steps[i]), StepTokens(i))
<1> DEFINE s == task.steps[i]
           W == StepTokens(i)
           run == Cmd("run", <<CURRENT, <<"step", i>>>>)
           P == genSpec(i, s)
<1>0. CURRENT \in W /\ \A l, k : W \subseteq Known(l, k, W)
  BY DEF StepTokens, Known
<1>1. ~IsToken(<<"step", i>>) /\ ~IsToken(<<"file">>) /\ ~IsToken(<<"name", s.ref>>)
  BY NotTokens
<1>2. run.op = "run" /\ run.args = <<CURRENT, <<"step", i>>>> /\ run.out = NoToken /\ ~run.ignore /\ run.ignore \in BOOLEAN
  BY PlainFields
<1> HIDE DEF run
<1>3. PlainSpec(run) /\ \A l, k : Uses(run, Known(l, k, W))
  BY <1>0, <1>1, <1>2, FewArgs DEF PlainSpec, GenOps
<1>4. PlainList(<<>>, W)
  BY NoSpecs DEF PlainList
<1>5. PlainList(<<run>>, W)
  BY <1>3, OneSpec DEF PlainList
<1>6. CASE s.do = "set" \/ s.do = "run"
  <2>1. P = <<>> \/ P = <<run>>
    BY <1>6 DEF genSpec, SetSpecs, RunSpecs, run
  <2> QED
    BY <1>4, <1>5, <2>1
<1>7. CASE s.do = "executable"
  <2> DEFINE a == CmdInto("write-redacted", <<>>, REDACTED)
             c == Cmd("copy-in", <<CURRENT, <<"file">>>>)
             e == Cmd("copy-in", <<CURRENT, REDACTED>>)
             l == <<a>> \o <<c, run, e>>
  <2>1. P = l
    BY <1>7 DEF genSpec, RunSpecs, CopiedIn, run
  <2>2. a.op = "write-redacted" /\ a.args = <<>> /\ a.out = REDACTED /\ ~a.ignore /\ a.ignore \in BOOLEAN
    BY IntoFields
  <2>3. c.op = "copy-in" /\ c.args = <<CURRENT, <<"file">>>> /\ c.out = NoToken /\ ~c.ignore /\ c.ignore \in BOOLEAN
    BY PlainFields
  <2>4. e.op = "copy-in" /\ e.args = <<CURRENT, REDACTED>> /\ e.out = NoToken /\ ~e.ignore /\ e.ignore \in BOOLEAN
    BY PlainFields
  <2> HIDE DEF a, c, e
  <2>5. IsSeq(l) /\ Len(l) = 4 /\ l[1] = a /\ l[2] = c /\ l[3] = run /\ l[4] = e
    BY FourSpecs
  <2> HIDE DEF l
  <2>6. PlainSpec(a) /\ PlainSpec(c) /\ PlainSpec(e)
    BY <2>2, <2>3, <2>4 DEF PlainSpec, GenOps
  <2>7. REDACTED \in Known(l, 4, W)
    BY <2>2, <2>5 DEF Known
  <2>8. Uses(a, Known(l, 1, W)) /\ Uses(c, Known(l, 2, W)) /\ Uses(e, Known(l, 4, W))
    BY <1>0, <1>1, <2>2, <2>3, <2>4, <2>7, FewArgs
  <2> QED
    BY <1>3, <2>1, <2>5, <2>6, <2>8 DEF PlainList
<1>8. CASE s.do = "script"
  <2> DEFINE a == CmdInto("write-file", <<>>, SRC)
             b == CmdInto("redact-file", <<>>, REDACTED)
             c == Cmd("copy-in", <<CURRENT, SRC>>)
             e == Cmd("copy-in", <<CURRENT, REDACTED>>)
             l == <<a, b>> \o <<c, run, e>>
  <2>1. P = l
    BY <1>8 DEF genSpec, RunSpecs, CopiedIn, run
  <2>2. a.op = "write-file" /\ a.args = <<>> /\ a.out = SRC /\ ~a.ignore /\ a.ignore \in BOOLEAN
    BY IntoFields
  <2>3. b.op = "redact-file" /\ b.args = <<>> /\ b.out = REDACTED /\ ~b.ignore /\ b.ignore \in BOOLEAN
    BY IntoFields
  <2>4. c.op = "copy-in" /\ c.args = <<CURRENT, SRC>> /\ c.out = NoToken /\ ~c.ignore /\ c.ignore \in BOOLEAN
    BY PlainFields
  <2>5. e.op = "copy-in" /\ e.args = <<CURRENT, REDACTED>> /\ e.out = NoToken /\ ~e.ignore /\ e.ignore \in BOOLEAN
    BY PlainFields
  <2> HIDE DEF a, b, c, e
  <2>6. IsSeq(l) /\ Len(l) = 5 /\ l[1] = a /\ l[2] = b /\ l[3] = c /\ l[4] = run /\ l[5] = e
    BY FiveSpecs
  <2> HIDE DEF l
  <2>7. PlainSpec(a) /\ PlainSpec(b) /\ PlainSpec(c) /\ PlainSpec(e)
    BY <2>2, <2>3, <2>4, <2>5 DEF PlainSpec, GenOps
  <2>8. SRC \in Known(l, 3, W) /\ REDACTED \in Known(l, 5, W)
    BY <2>2, <2>3, <2>6 DEF Known
  <2>9. Uses(a, Known(l, 1, W)) /\ Uses(b, Known(l, 2, W)) /\ Uses(c, Known(l, 3, W)) /\ Uses(e, Known(l, 5, W))
    BY <1>0, <1>1, <2>2, <2>3, <2>4, <2>5, <2>8, FewArgs
  <2> QED
    BY <1>3, <2>1, <2>6, <2>7, <2>9 DEF PlainList
<1>9. CASE s.do \in {"copy-local", "copy-step"}
  <2>1. PICK src : src = IF s.do = "copy-local" THEN <<"file">> ELSE STEP(<<"id", s.ref>>)
    OBVIOUS
  <2> DEFINE c == Cmd("copy", <<CURRENT, src, <<"step", i>>>>)
  <2>2. P = <<c>>
    BY <1>9, <2>1 DEF genSpec, CopySpecs
  <2>3. c.op = "copy" /\ c.args = <<CURRENT, src, <<"step", i>>>> /\ c.out = NoToken /\ ~c.ignore /\ c.ignore \in BOOLEAN
    BY PlainFields
  <2> HIDE DEF c
  <2>4. IsToken(src) => src \in W
    BY <1>1, <1>9, <2>1 DEF StepTokens
  <2>5. PlainSpec(c) /\ \A l, k : Uses(c, Known(l, k, W))
    BY <1>0, <1>1, <2>3, <2>4, FewArgs DEF PlainSpec, GenOps
  <2> QED
    BY <2>2, <2>5, OneSpec DEF PlainList
<1>10. CASE s.do \in {"copy-text", "copy-image"}
  <2>1. PICK src : src = IF s.do = "copy-text" THEN SRC ELSE COPY_IMAGE
    OBVIOUS
  <2> DEFINE a == IF s.do = "copy-text" THEN CmdInto("write-file", <<>>, SRC)
                  ELSE Ignored(CmdInto("pull", <<<<"name", s.ref>>>>, COPY_IMAGE))
             c == Cmd("copy", <<CURRENT, src, <<"step", i>>>>)
             l == <<a>> \o <<c>>
  <2>2. P = l
    BY <1>10, <2>1 DEF genSpec, CopySpecs
  <2>3. /\ a.out = src /\ a.ignore \in BOOLEAN /\ (a.ignore => src = COPY_IMAGE)
        /\ \/ a.op = "write-file" /\ a.args = <<>> /\ src = SRC
           \/ a.op = "pull" /\ a.args = <<<<"name", s.ref>>>> /\ src = COPY_IMAGE
    BY <2>1, IntoFields, IgnoredIntoFields
  <2>4. c.op = "copy" /\ c.args = <<CURRENT, src, <<"step", i>>>> /\ c.out = NoToken /\ ~c.ignore /\ c.ignore \in BOOLEAN
    BY PlainFields
  <2> HIDE DEF a, c
  <2>5. IsSeq(l) /\ Len(l) = 2 /\ l[1] = a /\ l[2] = c
    BY TwoSpecs
  <2> HIDE DEF l
  <2>6. PlainSpec(a) /\ PlainSpec(c)
    BY <2>3, <2>4 DEF PlainSpec, GenOps
  <2>7. src \in Known(l, 2, W)
    BY <2>3, <2>5 DEF Known
  <2>8. Uses(a, Known(l, 1, W)) /\ Uses(c, Known(l, 2, W))
    BY <1>0, <1>1, <2>3, <2>4, <2>7, FewArgs
  <2> QED
    BY <2>2, <2>5, <2>6, <2>8 DEF PlainList
<1> QED
  BY <1>6, <1>7, <1>8, <1>9, <1>10 DEF Kinds

(* A step is committed once or not at all.                                 *)
LEMMA CommitList ==
  ASSUME NEW g, NEW i, NEW C, C = CommitSpecs(g, i)
  PROVE  /\ IsSeq(C) /\ Len(C) \in {0, 1} /\ (IsLastStep(i) => Len(C) = 1 /\ C[1].op = "commit-final")
         /\ \A k \in 1..Len(C) : CommitSpec(C[k]) /\ \A W : CURRENT \in W => Uses(C[k], W)
<1> DEFINE s == task.steps[i]
           a == Cmd("commit-final", <<CURRENT, FinalName(g)>>)
           b == Cmd("commit", <<CURRENT, <<"name", s.as>>>>)
<1>1. C = <<>> \/ C = <<a>> \/ C = <<b>>
  BY DEF CommitSpecs
<1>2. IsLastStep(i) => C = <<a>>
  BY DEF CommitSpecs
<1>3. a.op = "commit-final" /\ a.args = <<CURRENT, FinalName(g)>> /\ a.out = NoToken /\ ~a.ignore /\ a.ignore \in BOOLEAN
  BY PlainFields
<1>4. b.op = "commit" /\ b.args = <<CURRENT, <<"name", s.as>>>> /\ b.out = NoToken /\ ~b.ignore /\ b.ignore \in BOOLEAN
  BY PlainFields
<1>5. ~IsToken(FinalName(g)) /\ ~IsToken(<<"name", s.as>>)
  BY NotTokens DEF FinalName
<1> HIDE DEF a, b
<1>6. CommitSpec(a) /\ CommitSpec(b)
  BY <1>3, <1>4 DEF CommitSpec
<1>7. \A W : CURRENT \in W => Uses(a, W) /\ Uses(b, W)
  BY <1>3, <1>4, <1>5, FewArgs
<1> QED
  BY <1>1, <1>2, <1>3, <1>6, <1>7, NoSpecs, OneSpec

(* A step's specs, one after the other.                                    *)
LEMMA FromJoined ==
  ASSUME NEW S, NEW P \in Seq(S), NEW C \in Seq(S), NEW k \in S, NEW f \in S, NEW n \in S
  PROVE  LET u == <<k>> \o (P \o <<f, n>>) \o <<k>> \o C
         IN /\ u \in Seq(S) /\ Len(P) \in Nat /\ Len(C) \in Nat /\ Len(u) = Len(P) + Len(C) + 4
            /\ u[1] = k /\ \A j \in 1..Len(P) : u[1 + j] = P[j]
            /\ u[Len(P) + 2] = f /\ u[Len(P) + 3] = n /\ u[Len(P) + 4] = k
            /\ \A j \in 1..Len(C) : u[Len(P) + 4 + j] = C[j]
OBVIOUS

(* Those of a step that makes no container.                                *)
LEMMA StepJoined ==
  ASSUME NEW S, NEW G \in Seq(S), NEW C \in Seq(S), NEW k \in S
  PROVE  LET u == <<k>> \o G \o <<>> \o C
         IN /\ u \in Seq(S) /\ Len(G) \in Nat /\ Len(C) \in Nat /\ Len(u) = Len(G) + Len(C) + 1
            /\ u[1] = k /\ \A j \in 1..Len(G) : u[1 + j] = G[j]
            /\ \A j \in 1..Len(C) : u[Len(G) + 1 + j] = C[j]
OBVIOUS

(* A list is one over any set that has its elements.                       *)
LEMMA SeqOver ==
  ASSUME NEW s, IsSeq(s), NEW S, Elements(s) \subseteq S PROVE s \in Seq(S)
<1>1. s \in [1..Len(s) -> Elements(s)] /\ Len(s) \in Nat
  BY LenProperties DEF IsSeq, Elements
<1>2. s \in [1..Len(s) -> S]
  BY <1>1
<1> QED
  BY <1>1, <1>2, FunctionIsSeq

(* The specs StepSpecs generates for a step are such.                      *)
LEMMA StepSpecsAre ==
  ASSUME NEW g, NEW i, ~Skipped(task.steps[i]), task.steps[i].do \in Kinds, NEW b, b = StepSpecs(g, i)
  PROVE  \E f : StepBlock(i, b, f)
<1> DEFINE s == task.steps[i]
           keep == CmdInto("keep-current", <<>>, STEP(StepID(i)))
<1>1. PICK C : C = CommitSpecs(g, i)
  OBVIOUS
<1>2. /\ IsSeq(C) /\ Len(C) \in {0, 1} /\ (IsLastStep(i) => Len(C) = 1 /\ C[1].op = "commit-final")
      /\ \A k \in 1..Len(C) : CommitSpec(C[k]) /\ \A W : CURRENT \in W => Uses(C[k], W)
  BY <1>1, CommitList
<1>3. KeepSpec(i, keep)
  BY IntoFields DEF KeepSpec
<1>4. b = <<keep>> \o genSpec(i, s) \o (IF s.do = "from" THEN <<keep>> ELSE <<>>) \o C
  BY <1>1 DEF StepSpecs
<1> HIDE DEF keep
<1>5. \A W : Uses(keep, W)
  BY <1>3, FewArgs DEF KeepSpec
<1>6. CASE s.do # "from"
  <2>1. PICK G : G = genSpec(i, s)
    OBVIOUS
  <2>2. PlainList(G, StepTokens(i))
    BY <1>6, <2>1, GenSpecList
  <2>3. PICK S : G \in Seq(S) /\ C \in Seq(S) /\ keep \in S
    <3> DEFINE S == Elements(G) \cup Elements(C) \cup {keep}
    <3>1. Elements(G) \subseteq S /\ Elements(C) \subseteq S /\ keep \in S
      OBVIOUS
    <3> HIDE DEF S
    <3>2. G \in Seq(S) /\ C \in Seq(S)
      BY <1>2, <2>2, <3>1, SeqOver DEF PlainList
    <3> QED
      BY <3>1, <3>2
  <2>4. b = <<keep>> \o G \o <<>> \o C
    BY <1>4, <1>6, <2>1
  <2>5. /\ b \in Seq(S) /\ Len(G) \in Nat /\ Len(C) \in Nat /\ Len(b) = Len(G) + Len(C) + 1
        /\ b[1] = keep /\ \A j \in 1..Len(G) : b[1 + j] = G[j]
        /\ \A j \in 1..Len(C) : b[Len(G) + 1 + j] = C[j]
    BY <2>3, <2>4, StepJoined
  <2>6. PICK m, c, n : m = Len(G) /\ c = Len(C) /\ n = Len(b)
    OBVIOUS
  <2>7. m \in Nat /\ c \in {0, 1} /\ n \in Nat /\ n = m + c + 1 /\ IsSeq(b)
    BY <1>2, <2>5, <2>6, SeqIsSeq
  <2>8. \A k \in 2..n : k - 1 \in 1..m \/ (k = n /\ c = 1 /\ k = m + 1 + 1)
    BY <2>7
  <2>9. ASSUME NEW k \in 2..n PROVE PlainSpec(b[k]) \/ CommitSpec(b[k])
    <3>1. CASE k - 1 \in 1..m
      <4>1. b[k] = G[k - 1]
        BY <2>5, <2>6, <3>1
      <4> QED
        BY <2>2, <2>6, <3>1, <4>1 DEF PlainList
    <3>2. CASE k = m + 1 + 1 /\ c = 1
      BY <1>2, <2>5, <2>6, <3>2
    <3> QED
      BY <2>8, <3>1, <3>2
  <2>10. ASSUME IsLastStep(i) PROVE b[n].op = "commit-final"
    <3>1. c = 1 /\ n = m + 1 + 1
      BY <1>2, <2>6, <2>7, <2>10
    <3>2. b[n] = C[1]
      BY <2>5, <2>6, <3>1
    <3> QED
      BY <1>2, <2>10, <3>2
  <2>11. ASSUME NEW k \in 1..n PROVE Uses(b[k], Known(b, k, StepTokens(i)))
    <3>1. CASE k = 1
      BY <1>5, <2>5, <3>1
    <3>2. CASE k - 1 \in 1..m
      <4>1. b[k] = G[k - 1] /\ Uses(G[k - 1], Known(G, k - 1, StepTokens(i)))
        BY <2>2, <2>5, <2>6, <3>2 DEF PlainList
      <4>2. ASSUME NEW r \in 1..((k - 1) - 1) PROVE r + 1 \in 1..(k - 1) /\ b[r + 1].out = G[r].out
        BY <2>5, <2>6, <2>7, <3>2
      <4>3. Known(G, k - 1, StepTokens(i)) \subseteq Known(b, k, StepTokens(i))
        BY <4>2 DEF Known
      <4> QED
        BY <4>1, <4>3 DEF Uses
    <3>3. CASE k = m + 1 + 1 /\ c = 1
      <4>1. b[k] = C[1]
        BY <2>5, <2>6, <3>3
      <4>2. CURRENT \in Known(b, k, StepTokens(i))
        BY DEF Known, StepTokens
      <4> QED
        BY <1>2, <2>6, <3>3, <4>1, <4>2
    <3> QED
      BY <2>7, <2>8, <3>1, <3>2, <3>3
  <2>12. 1 <= n
    BY <2>7
  <2> QED
    BY <1>3, <1>6, <2>5, <2>6, <2>7, <2>9, <2>10, <2>11, <2>12 DEF StepBlock
<1>7. CASE s.do = "from"
  <2> DEFINE pull == CmdInto("pull", <<<<"name", s.ref>>>>, FROM_REF)
             from == CmdInto("from", <<IF s.ref = "scratch" THEN <<"scratch">> ELSE FROM_REF>>, CTR_NAME)
             find == CmdInto("inspect-container", <<CTR_NAME>>, CURRENT)
  <2>1. PICK P : P = IF s.ref = "scratch" THEN <<>> ELSE <<pull>>
    OBVIOUS
  <2>2. genSpec(i, s) = P \o <<from, find>>
    BY <1>7, <2>1 DEF genSpec, FromSpecs
  <2>3. PlainSpec(pull) /\ pull.out = FROM_REF /\ \A W : Uses(pull, W)
    <3>1. /\ pull.op = "pull" /\ pull.args = <<<<"name", s.ref>>>> /\ pull.out = FROM_REF
          /\ ~pull.ignore /\ pull.ignore \in BOOLEAN
      BY IntoFields
    <3>2. ~IsToken(<<"name", s.ref>>)
      BY NotTokens
    <3> HIDE DEF pull
    <3> QED
      BY <3>1, <3>2, FewArgs DEF PlainSpec, GenOps
  <2>4. /\ from.op = "from" /\ from.out = CTR_NAME /\ ~from.ignore /\ from.ignore \in BOOLEAN
        /\ from.args = <<IF s.ref = "scratch" THEN <<"scratch">> ELSE FROM_REF>>
    BY IntoFields
  <2>5. /\ find.op = "inspect-container" /\ find.args = <<CTR_NAME>> /\ find.out = CURRENT
        /\ ~find.ignore /\ find.ignore \in BOOLEAN
    BY IntoFields
  <2> HIDE DEF pull, from, find
  <2>6. IsSeq(P) /\ Len(P) \in {0, 1} /\ (Len(P) = 0 => s.ref = "scratch") /\ (Len(P) = 1 => P[1] = pull)
    BY <2>1, NoSpecs, OneSpec
  <2>7. PICK S : P \in Seq(S) /\ C \in Seq(S) /\ keep \in S /\ from \in S /\ find \in S
    <3> DEFINE S == Elements(P) \cup Elements(C) \cup {keep, from, find}
    <3>1. Elements(P) \subseteq S /\ Elements(C) \subseteq S /\ keep \in S /\ from \in S /\ find \in S
      OBVIOUS
    <3> HIDE DEF S
    <3>2. P \in Seq(S) /\ C \in Seq(S)
      BY <1>2, <2>6, <3>1, SeqOver
    <3> QED
      BY <3>1, <3>2
  <2>8. b = <<keep>> \o (P \o <<from, find>>) \o <<keep>> \o C
    BY <1>4, <1>7, <2>2
  <2>9. /\ b \in Seq(S) /\ Len(P) \in Nat /\ Len(C) \in Nat /\ Len(b) = Len(P) + Len(C) + 4
        /\ b[1] = keep /\ \A j \in 1..Len(P) : b[1 + j] = P[j]
        /\ b[Len(P) + 2] = from /\ b[Len(P) + 3] = find /\ b[Len(P) + 4] = keep
        /\ \A j \in 1..Len(C) : b[Len(P) + 4 + j] = C[j]
    BY <2>7, <2>8, FromJoined, SMTT(30)
  <2>10. PICK m, c, n : m = Len(P) /\ c = Len(C) /\ n = Len(b)
    OBVIOUS
  <2>11. m \in {0, 1} /\ c \in {0, 1} /\ n \in Nat /\ n = m + c + 4 /\ IsSeq(b)
    BY <1>2, <2>6, <2>9, <2>10, SeqIsSeq
  <2>12. PICK f : f = m + 2
    OBVIOUS
  <2>13. f \in {2, 3} /\ f + 2 <= n /\ (c = 1 => n = f + 3) /\ (c = 0 => n = f + 2)
    BY <2>11, <2>12
  <2>14. b[1] = keep /\ b[f] = from /\ b[f + 1] = find /\ b[f + 2] = keep
    BY <2>9, <2>10, <2>11, <2>12
  <2>15. f = 3 => b[2] = pull
    <3> SUFFICES ASSUME f = 3 PROVE b[2] = pull
      OBVIOUS
    <3>1. m = 1 /\ 1 \in 1..m /\ 1 + 1 = 2
      BY <2>11, <2>12
    <3> QED
      BY <2>6, <2>9, <2>10, <3>1
  <2>16. c = 1 => b[f + 3] = C[1]
    <3> SUFFICES ASSUME c = 1 PROVE b[f + 3] = C[1]
      OBVIOUS
    <3>1. 1 \in 1..c /\ m + 4 + 1 = f + 3
      BY <2>11, <2>12
    <3> QED
      BY <2>9, <2>10, <3>1
  <2>17. MakesContainer(b, f, i)
    BY <1>3, <2>4, <2>5, <2>14 DEF MakesContainer
  <2>18. ASSUME NEW k \in 2..n, k \notin {f, f + 1, f + 2} PROVE PlainSpec(b[k]) \/ CommitSpec(b[k])
    <3>1. (k = 2 /\ f = 3) \/ (k = f + 3 /\ c = 1)
      BY <2>11, <2>13, <2>18
    <3> QED
      BY <1>2, <2>3, <2>10, <2>15, <2>16, <3>1
  <2>19. ASSUME IsLastStep(i) PROVE b[n].op = "commit-final"
    BY <1>2, <2>10, <2>13, <2>16, <2>19
  <2>20. ASSUME NEW k \in 1..n PROVE Uses(b[k], Known(b, k, {}))
    <3>1. k = 1 \/ (k = 2 /\ f = 3) \/ k = f \/ k = f + 1 \/ k = f + 2 \/ (k = f + 3 /\ c = 1)
      BY <2>11, <2>13
    <3>2. CASE k = 1 \/ k = f + 2
      BY <1>5, <2>14, <3>2
    <3>3. CASE k = 2 /\ f = 3
      BY <2>3, <2>15, <3>3
    <3>4. CASE k = f
      <4>1. CASE f = 2
        <5>1. s.ref = "scratch"
          BY <2>6, <2>10, <2>11, <2>12, <4>1
        <5>2. ~IsToken(<<"scratch">>)
          BY NotTokens
        <5> QED
          BY <2>4, <2>14, <3>4, <5>1, <5>2, FewArgs
      <4>2. CASE f = 3
        <5>1. 2 \in 1..(k - 1) /\ b[2].out = FROM_REF
          BY <2>3, <2>15, <3>4, <4>2
        <5>2. FROM_REF \in Known(b, k, {})
          BY <5>1 DEF Known
        <5>3. ~IsToken(<<"scratch">>)
          BY NotTokens
        <5> QED
          BY <2>4, <2>14, <3>4, <5>2, <5>3, FewArgs
      <4> QED
        BY <2>13, <4>1, <4>2
    <3>5. CASE k = f + 1
      <4>1. f \in 1..(k - 1) /\ b[f].out = CTR_NAME
        BY <2>4, <2>13, <2>14, <3>5
      <4>2. CTR_NAME \in Known(b, k, {})
        BY <4>1 DEF Known
      <4> QED
        BY <2>5, <2>14, <3>5, <4>2, FewArgs
    <3>6. CASE k = f + 3 /\ c = 1
      <4>1. f + 1 \in 1..(k - 1) /\ b[f + 1].out = CURRENT
        BY <2>5, <2>13, <2>14, <3>6
      <4>2. CURRENT \in Known(b, k, {})
        BY <4>1 DEF Known
      <4> QED
        BY <1>2, <2>10, <2>16, <3>6, <4>2
    <3> QED
      BY <3>1, <3>2, <3>3, <3>4, <3>5, <3>6
  <2>21. 1 <= n /\ f + 2 <= n
    BY <2>11, <2>13
  <2>22. ASSUME NEW k \in 1..f PROVE Uses(b[k], {FROM_REF})
    <3>1. k = 1 \/ (k = 2 /\ f = 3) \/ k = f
      BY <2>13
    <3>2. CASE k = 1
      BY <1>5, <2>14, <3>2
    <3>3. CASE k = 2 /\ f = 3
      BY <2>3, <2>15, <3>3
    <3>4. CASE k = f
      BY <2>4, <2>14, <3>4, FewArgs, NotTokens
    <3> QED
      BY <3>1, <3>2, <3>3, <3>4
  <2> QED
    BY <1>3, <1>7, <2>10, <2>11, <2>13, <2>14, <2>17, <2>18, <2>19, <2>20, <2>21, <2>22 DEF StepBlock
<1> QED
  BY <1>6, <1>7

(* The specs ManifestSpecs generates for a target are such.                *)
LEMMA ManifestBlock ==
  ASSUME NEW g, NEW i, NEW b, b = ManifestSpecs(g, i)
  PROVE  /\ IsSeq(b) /\ Len(b) \in {3, 4}
         /\ CreateSpec(g, i, b[1]) /\ LookSpec(g, i, b[2]) /\ UpdateSpec(g, i, b[3])
         /\ Len(b) = 4 => ShowSpec(g, i, b[4])
<1> DEFINE name == ManifestName(i, g)
           x == Ignored(Cmd("manifest-create", <<name>>))
           y == Ignored(CmdInto("manifest-inspect", <<name>>, MANIFEST_SPEC))
           z == Cmd("manifest-update", <<name>>)
           s == Cmd("manifest-inspect", <<name>>)
<1>1. CreateSpec(g, i, x)
  BY IgnoredIntoFields DEF CreateSpec, Cmd
<1>2. LookSpec(g, i, y)
  BY IgnoredIntoFields DEF LookSpec
<1>3. UpdateSpec(g, i, z) /\ ShowSpec(g, i, s)
  BY PlainFields DEF UpdateSpec, ShowSpec
<1>4. b = <<x, y, z>> \o (IF IsLast(g) THEN <<s>> ELSE <<>>)
  BY DEF ManifestSpecs
<1> HIDE DEF x, y, z, s
<1>5. CASE IsLast(g)
  <2>1. b = <<x, y, z>> \o <<s>>
    BY <1>4, <1>5
  <2>2. b \in Seq({x, y, z, s}) /\ Len(b) = 4 /\ b[1] = x /\ b[2] = y /\ b[3] = z /\ b[4] = s
    BY <2>1
  <2> QED
    BY <1>1, <1>2, <1>3, <2>2, SeqIsSeq
<1>6. CASE ~IsLast(g)
  <2>1. b = <<x, y, z>> \o <<>>
    BY <1>4, <1>6
  <2>2. b \in Seq({x, y, z}) /\ Len(b) = 3 /\ b[1] = x /\ b[2] = y /\ b[3] = z
    BY <2>1
  <2> QED
    BY <1>1, <1>2, <1>3, <2>2, SeqIsSeq
<1> QED
  BY <1>5, <1>6

(* FlattenSeq of lists is a list.                                          *)
LEMMA FlattenLists ==
  ASSUME NEW seqs, NEW n \in Nat, seqs = [i \in 1..n |-> seqs[i]], \A i \in 1..n : IsSeq(seqs[i])
  PROVE  IsSeq(FlattenSeq(seqs)) /\ Len(seqs) = n /\ \E off : Flattened(seqs, FlattenSeq(seqs), off)
<1> DEFINE S == UNION {Elements(seqs[i]) : i \in 1..n}
<1>1. \A i \in 1..n : Elements(seqs[i]) \subseteq S
  OBVIOUS
<1> HIDE DEF S
<1>2. \A i \in 1..n : seqs[i] \in Seq(S)
  BY <1>1, SeqOver
<1>3. seqs \in [1..n -> Seq(S)]
  BY <1>2
<1>4. seqs \in Seq(Seq(S)) /\ Len(seqs) = n
  BY <1>3, FunctionIsSeq
<1>5. FlattenSeq(seqs) \in Seq(S) /\ \E off : Flattened(seqs, FlattenSeq(seqs), off)
  BY <1>4, FlattenBlocks
<1> QED
  BY <1>4, <1>5, SeqIsSeq

(* And so are those of all targets.                                        *)
LEMMA ManifestListed ==
  ASSUME IsSeq(task.names), NEW g, NEW l, l = AllManifestSpecs(g)
  PROVE  IsSeq(l) /\ \E at : ManifestsAt(g, l, at) /\ ManifestsOnly(g, l, at, 1)
<1> DEFINE n == Len(Targets)
           block(i) == IF i \in Named("manifest") THEN ManifestSpecs(g, i) ELSE <<>>
           seqs == [i \in DOMAIN Targets |-> block(i)]
<1>1. n \in Nat /\ DOMAIN Targets = 1..n
  BY TargetsListed
<1>2. l = FlattenSeq(seqs)
  BY DEF AllManifestSpecs
<1>3. seqs = [i \in 1..n |-> seqs[i]] /\ \A i \in 1..n : seqs[i] = block(i)
  BY <1>1
<1>4. \A i \in 1..n : /\ i \in Named("manifest") => block(i) = ManifestSpecs(g, i)
                      /\ i \notin Named("manifest") => block(i) = <<>>
  OBVIOUS
<1> HIDE DEF seqs, block, n
<1>5. \A i \in 1..n : IsSeq(seqs[i])
  BY <1>3, <1>4, ManifestBlock, NoSpecs
<1>6. IsSeq(l) /\ Len(seqs) = n /\ \E off : Flattened(seqs, l, off)
  BY <1>1, <1>2, <1>3, <1>5, FlattenLists
<1>7. PICK off : Flattened(seqs, l, off)
  BY <1>6
<1>8. Named("manifest") \subseteq 1..n /\ Len(l) \in Nat
  BY <1>1, <1>6, LenProperties DEF Named, IsSeq
<1>9. ASSUME NEW i \in Named("manifest")
      PROVE  /\ off[i] \in Nat /\ Len(seqs[i]) \in {3, 4}
             /\ \A k \in 1..Len(seqs[i]) : off[i] + k \in 1..Len(l) /\ l[off[i] + k] = seqs[i][k]
             /\ CreateSpec(g, i, seqs[i][1]) /\ LookSpec(g, i, seqs[i][2]) /\ UpdateSpec(g, i, seqs[i][3])
             /\ Len(seqs[i]) = 4 => ShowSpec(g, i, seqs[i][4])
  <2>1. seqs[i] = ManifestSpecs(g, i)
    BY <1>3, <1>4, <1>8
  <2> QED
    BY <1>6, <1>7, <1>8, <2>1, ManifestBlock DEF Flattened
<1>10. ASSUME NEW i \in Named("manifest")
       PROVE  /\ off[i] \in Nat /\ off[i] + 3 <= Len(l)
              /\ CreateSpec(g, i, l[off[i] + 1]) /\ LookSpec(g, i, l[off[i] + 2]) /\ UpdateSpec(g, i, l[off[i] + 3])
  <2>1. 1 \in 1..Len(seqs[i]) /\ 2 \in 1..Len(seqs[i]) /\ 3 \in 1..Len(seqs[i])
    BY <1>9
  <2>2. l[off[i] + 1] = seqs[i][1] /\ l[off[i] + 2] = seqs[i][2] /\ l[off[i] + 3] = seqs[i][3] /\ off[i] + 3 \in 1..Len(l)
    BY <1>9, <2>1
  <2> QED
    BY <1>8, <1>9, <2>2
<1>11. ASSUME NEW i \in Named("manifest"), NEW j \in Named("manifest"), i < j PROVE off[i] + 3 <= off[j]
  <2>1. off[i] + Len(seqs[i]) <= off[j]
    BY <1>6, <1>7, <1>8, <1>11 DEF Flattened
  <2>2. PICK a, b, c : a = off[i] /\ b = off[j] /\ c = Len(seqs[i])
    OBVIOUS
  <2>3. a \in Nat /\ b \in Nat /\ c \in {3, 4} /\ a + c <= b
    BY <1>9, <2>1, <2>2
  <2>4. a + 3 <= b
    BY <2>3
  <2> QED
    BY <2>2, <2>4
<1>12. ASSUME NEW q \in 1..Len(l)
       PROVE  \E i \in Named("manifest") : \/ q \in {off[i] + 1, off[i] + 2, off[i] + 3}
                                           \/ off[i] + 4 <= q /\ ShowSpec(g, i, l[q])
  <2>0. PICK i \in 1..n : \E k \in 1..Len(seqs[i]) : q = off[i] + k
    BY <1>6, <1>7 DEF Flattened
  <2>1. PICK k \in 1..Len(seqs[i]) : q = off[i] + k
    BY <2>0
  <2>2. i \in Named("manifest")
    <3> SUFFICES ASSUME i \notin Named("manifest") PROVE FALSE
      OBVIOUS
    <3>1. seqs[i] = <<>>
      BY <1>3, <1>4
    <3> QED
      BY <2>1, <3>1, NoSpecs
  <2>3. k \in 1..3 \/ (k = 4 /\ Len(seqs[i]) = 4)
    <3>1. Len(seqs[i]) = 3 \/ Len(seqs[i]) = 4
      BY <1>9, <2>2
    <3>2. k \in 1..3 \/ (k \in 1..4 /\ Len(seqs[i]) = 4)
      BY <3>1
    <3> QED
      BY <3>2
  <2>4. k = 4 => off[i] + 4 <= q /\ ShowSpec(g, i, l[q])
    BY <1>9, <2>1, <2>2, <2>3
  <2> QED
    BY <2>1, <2>2, <2>3, <2>4
<1>13. ManifestsAt(g, l, off)
  BY <1>10, <1>11 DEF ManifestsAt
<1>14. ManifestsOnly(g, l, off, 1)
  BY <1>12 DEF ManifestsOnly
<1> QED
  BY <1>6, <1>13, <1>14

(* Four lists in a row.                                                    *)
LEMMA FourJoined ==
  ASSUME NEW S, NEW a \in Seq(S), NEW b \in Seq(S), NEW c \in Seq(S), NEW d \in Seq(S),
         NEW u, u = a \o b \o c \o d
  PROVE  /\ u \in Seq(S) /\ Len(a) \in Nat /\ Len(b) \in Nat /\ Len(c) \in Nat /\ Len(d) \in Nat
         /\ Len(u) = Len(a) + Len(b) + Len(c) + Len(d)
         /\ \A j \in 1..Len(a) : u[j] = a[j]
         /\ \A j \in 1..Len(b) : u[Len(a) + j] = b[j]
         /\ \A j \in 1..Len(c) : u[Len(a) + Len(b) + j] = c[j]
         /\ \A j \in 1..Len(d) : u[Len(a) + Len(b) + Len(c) + j] = d[j]
OBVIOUS

(* Lists of none and of one.                                               *)
LEMMA ShortLists ==
  ASSUME NEW S, NEW x \in S PROVE <<>> \in Seq(S) /\ <<x>> \in Seq(S)
OBVIOUS

(* The names a task's image gets are a list.                               *)
LEMMA RealNamesListed ==
  ASSUME IsSeq(task.names), NEW g PROVE IsSeq(RealImageNames(g))
<1> DEFINE last == {i \in DOMAIN task.steps : ~Skipped(task.steps[i]) /\ IsLastStep(i)}
           own == [i \in DOMAIN ImageNames(g) |-> ImageNames(g)[i][2]]
           as == <<"name", task.steps[CHOOSE i \in last : TRUE].as>>
<1>1. RealImageNames(g) = own \o <<>> \/ RealImageNames(g) = own \o <<as>>
  BY DEF RealImageNames
<1>2. PICK n \in Nat : DOMAIN ImageNames(g) = 1..n
  BY ImageNamesListed
<1>3. own = [i \in 1..n |-> own[i]]
  BY <1>2
<1> HIDE DEF own, as, last
<1> DEFINE S == {own[i] : i \in 1..n} \cup {as}
<1>4. own \in Seq(S)
  BY <1>3, FunctionIsSeq
<1>5. RealImageNames(g) \in Seq(S)
  <2>1. as \in S
    OBVIOUS
  <2> HIDE DEF S
  <2>2. own \o <<>> \in Seq(S) /\ own \o <<as>> \in Seq(S)
    BY <1>4, <2>1, Concatenation, ShortLists
  <2> QED
    BY <1>1, <2>2
<1> QED
  BY <1>5, SeqIsSeq

(* The specs of the steps are in order.                                    *)
LEMMA StepsListed ==
  ASSUME StepsTyped, KindsKnown, NEW g, NEW l, l = FlattenSeq([i \in DOMAIN task.steps |-> StepSpecs(g, i)])
  PROVE  IsSeq(l) /\ Len(l) \in Nat /\ \E off : StepsAt(g, l, off, Len(l) + 1)
<1> DEFINE n == Len(task.steps)
           block(i) == StepSpecs(g, i)
           seqs == [i \in DOMAIN task.steps |-> block(i)]
<1>1. n \in Nat /\ DOMAIN task.steps = 1..n
  BY LenProperties DEF StepsTyped, IsSeq
<1>2. seqs = [i \in 1..n |-> seqs[i]] /\ \A i \in 1..n : seqs[i] = block(i)
  BY <1>1
<1>3. \A i \in 1..n : IsSeq(block(i)) /\ (i \notin Unskipped => block(i) = <<>>)
  <2> SUFFICES ASSUME NEW i \in 1..n PROVE IsSeq(block(i)) /\ (i \notin Unskipped => block(i) = <<>>)
    OBVIOUS
  <2>1. CASE Skipped(task.steps[i])
    BY <2>1, NoSpecs DEF StepSpecs
  <2>2. CASE ~Skipped(task.steps[i])
    <3>1. PICK b : b = StepSpecs(g, i)
      OBVIOUS
    <3>2. task.steps[i].do \in Kinds
      BY <1>1, <2>2 DEF KindsKnown
    <3>3. \E f : StepBlock(i, b, f)
      BY <2>2, <3>1, <3>2, StepSpecsAre
    <3>4. IsSeq(b) /\ i \in Unskipped
      BY <1>1, <2>2, <3>3 DEF StepBlock, Unskipped
    <3> QED
      BY <3>1, <3>4
  <2> QED
    BY <2>1, <2>2
<1>4. l = FlattenSeq(seqs)
  OBVIOUS
<1> HIDE DEF seqs, n
<1>5. \A i \in 1..n : IsSeq(seqs[i])
  BY <1>2, <1>3
<1>6. IsSeq(l) /\ Len(seqs) = n /\ \E off : Flattened(seqs, l, off)
  BY <1>1, <1>2, <1>4, <1>5, FlattenLists
<1>7. PICK off : Flattened(seqs, l, off)
  BY <1>6
<1>8. Unskipped \subseteq 1..n /\ Len(l) \in Nat
  BY <1>1, <1>6, LenProperties DEF Unskipped, IsSeq
<1>9. ASSUME NEW i \in Unskipped
      PROVE  /\ off[i] \in Nat /\ off[i] + Len(block(i)) < Len(l) + 1
             /\ \A k \in 1..Len(block(i)) : l[off[i] + k] = block(i)[k]
  <2>1. i \in 1..n /\ seqs[i] = block(i)
    BY <1>2, <1>8
  <2>2. /\ off[i] \in Nat
        /\ \A k \in 1..Len(block(i)) : off[i] + k \in 1..Len(l) /\ l[off[i] + k] = block(i)[k]
    <3>1. /\ off[i] \in Nat
          /\ \A k \in 1..Len(seqs[i]) : off[i] + k \in 1..Len(l) /\ l[off[i] + k] = seqs[i][k]
      BY <1>6, <1>7, <2>1 DEF Flattened
    <3> HIDE DEF block
    <3> QED
      BY <2>1, <3>1
  <2>3. Len(block(i)) \in Nat /\ 1 <= Len(block(i))
    <3>1. ~Skipped(task.steps[i]) /\ task.steps[i].do \in Kinds
      BY DEF Unskipped, KindsKnown
    <3>2. PICK b : b = StepSpecs(g, i)
      OBVIOUS
    <3>3. \E f : StepBlock(i, b, f)
      BY <3>1, <3>2, StepSpecsAre
    <3> QED
      BY <3>2, <3>3 DEF StepBlock
  <2>4. Len(block(i)) \in 1..Len(block(i))
    BY <2>3
  <2>5. off[i] + Len(block(i)) \in 1..Len(l)
    BY <2>2, <2>4
  <2> QED
    BY <1>8, <2>2, <2>5
<1>10. ASSUME NEW p \in 1..Len(l) PROVE \E i \in Unskipped : \E k \in 1..Len(block(i)) : p = off[i] + k
  <2>1. PICK i \in 1..n : \E k \in 1..Len(seqs[i]) : p = off[i] + k
    BY <1>6, <1>7 DEF Flattened
  <2>2. PICK k \in 1..Len(seqs[i]) : p = off[i] + k
    BY <2>1
  <2>3. seqs[i] = block(i)
    BY <1>2
  <2>4. i \in Unskipped
    <3> SUFFICES ASSUME i \notin Unskipped PROVE FALSE
      OBVIOUS
    <3>1. seqs[i] = <<>>
      BY <1>3, <2>3
    <3> QED
      BY <2>2, <3>1, NoSpecs
  <2> QED
    BY <2>2, <2>3, <2>4
<1>11. ASSUME NEW i \in Unskipped, NEW j \in Unskipped, i < j PROVE off[i] + Len(block(i)) <= off[j]
  <2>1. seqs[i] = block(i) /\ i \in 1..Len(seqs) /\ j \in 1..Len(seqs)
    BY <1>2, <1>6, <1>8
  <2> QED
    BY <1>7, <1>11, <2>1 DEF Flattened
<1>12. (Len(l) + 1) - 1 = Len(l)
  BY <1>8
<1>13. StepsAt(g, l, off, Len(l) + 1)
  BY <1>9, <1>10, <1>11, <1>12 DEF StepsAt
<1> QED
  BY <1>6, <1>8, <1>13

(* What GetExecSpecs generates for an xbuild is such a list.               *)
LEMMA XBuildListed ==
  ASSUME StepsTyped, KindsKnown, NEW g, NEW l, l = XBuildSpecs(g)
  PROVE  \E off, D, M, at : XBuildList(g, l, off, D, M, at)
<1> DEFINE del == Cmd("delete-containers", <<>>)
           read == CmdInto("read-iidfile", <<>>, IMAGE_ID)
           tag(y) == Cmd("tag", <<IMAGE_ID, y>>)
<1>1. PICK a : a = FlattenSeq([i \in DOMAIN task.steps |-> StepSpecs(g, i)])
  OBVIOUS
<1>2. PICK names : names = RealImageNames(g)
  OBVIOUS
<1>3. PICK d : d = AllManifestSpecs(g)
  OBVIOUS
<1> DEFINE b == <<del, read>>
           c == [i \in DOMAIN names |-> tag(names[i])]
<1>4. l = a \o b \o c \o d
  BY <1>1, <1>2, <1>3 DEF XBuildSpecs
<1>5. IsSeq(a) /\ Len(a) \in Nat /\ \E off : StepsAt(g, a, off, Len(a) + 1)
  BY <1>1, StepsListed
<1>6. IsSeq(d) /\ \E at : ManifestsAt(g, d, at) /\ ManifestsOnly(g, d, at, 1)
  BY <1>3, ManifestListed DEF StepsTyped
<1>7. PICK n \in Nat : DOMAIN names = 1..n
  BY <1>2, RealNamesListed, LenProperties DEF IsSeq, StepsTyped
<1>8. c = [i \in 1..n |-> tag(names[i])]
  BY <1>7
<1> HIDE DEF del, read, tag
<1>9. PICK S : a \in Seq(S) /\ b \in Seq(S) /\ c \in Seq(S) /\ d \in Seq(S)
  <2> DEFINE S == Elements(a) \cup Elements(d) \cup {del, read} \cup {tag(names[i]) : i \in 1..n}
  <2>1. Elements(a) \subseteq S /\ Elements(d) \subseteq S /\ del \in S /\ read \in S
        /\ \A i \in 1..n : tag(names[i]) \in S
    OBVIOUS
  <2> HIDE DEF S
  <2>2. a \in Seq(S) /\ d \in Seq(S)
    BY <1>5, <1>6, <2>1, SeqOver
  <2>3. b \in Seq(S)
    BY <2>1
  <2>4. c \in [1..n -> S]
    BY <1>8, <2>1
  <2>5. c \in Seq(S)
    BY <1>7, <2>4, FunctionIsSeq
  <2> QED
    BY <2>2, <2>3, <2>5
<1>10. Len(b) = 2 /\ b[1] = del /\ b[2] = read /\ Len(c) = n
  BY <1>8, FunctionIsSeq
<1> HIDE DEF b
<1>11. PICK D, M, e, z : D = Len(a) + 1 /\ M = Len(a) + 2 + n + 1 /\ e = Len(d) /\ z = Len(a)
  OBVIOUS
<1>12. /\ l \in Seq(S) /\ Len(l) = z + 2 + n + e /\ e \in Nat /\ z \in Nat
       /\ \A j \in 1..z : l[j] = a[j]
       /\ \A j \in 1..2 : l[z + j] = b[j]
       /\ \A j \in 1..n : l[z + 2 + j] = c[j]
       /\ \A j \in 1..e : l[z + 2 + n + j] = d[j]
  <2> HIDE DEF c
  <2>1. /\ l \in Seq(S) /\ Len(a) \in Nat /\ Len(b) \in Nat /\ Len(c) \in Nat /\ Len(d) \in Nat
        /\ Len(l) = Len(a) + Len(b) + Len(c) + Len(d)
        /\ \A j \in 1..Len(a) : l[j] = a[j]
        /\ \A j \in 1..Len(b) : l[Len(a) + j] = b[j]
        /\ \A j \in 1..Len(c) : l[Len(a) + Len(b) + j] = c[j]
        /\ \A j \in 1..Len(d) : l[Len(a) + Len(b) + Len(c) + j] = d[j]
    BY <1>4, <1>9, FourJoined
  <2> QED
    BY <1>10, <1>11, <2>1
<1>13. D = z + 1 /\ M = z + n + 3 /\ D \in Nat \ {0} /\ M \in Nat /\ D + 2 <= M
  BY <1>11, <1>12
<1>14. IsSeq(l) /\ Len(l) \in Nat /\ M <= Len(l) + 1
  BY <1>12, <1>13, SeqIsSeq
<1>15. l[D] = del /\ l[D + 1] = read
  BY <1>10, <1>12, <1>13
<1>16. ASSUME NEW q \in (D + 2)..(M - 1) PROVE \E k \in DOMAIN names : l[q] = tag(names[k])
  <2>1. PICK k : k = q - (z + 2)
    OBVIOUS
  <2>2. k \in 1..n /\ q = z + 2 + k
    BY <1>12, <1>13, <2>1
  <2>3. l[q] = c[k]
    BY <1>12, <2>2
  <2> QED
    BY <1>7, <1>8, <2>2, <2>3
<1>17. \E off : StepsAt(g, l, off, D)
  <2>1. PICK off : StepsAt(g, a, off, D)
    BY <1>5, <1>11
  <2>2. ASSUME NEW i \in Unskipped, NEW k \in 1..Len(StepSpecs(g, i)) PROVE l[off[i] + k] = StepSpecs(g, i)[k]
    <3>1. a[off[i] + k] = StepSpecs(g, i)[k] /\ off[i] \in Nat /\ off[i] + Len(StepSpecs(g, i)) < D
      BY <2>1 DEF StepsAt
    <3>2. PICK o, m : o = off[i] /\ m = Len(StepSpecs(g, i))
      OBVIOUS
    <3>3. Len(StepSpecs(g, i)) \in Nat
      <4>1. ~Skipped(task.steps[i]) /\ task.steps[i].do \in Kinds
        BY DEF Unskipped, KindsKnown
      <4>2. PICK s : s = StepSpecs(g, i)
        OBVIOUS
      <4>3. \E f : StepBlock(i, s, f)
        BY <4>1, <4>2, StepSpecsAre
      <4> QED
        BY <4>2, <4>3 DEF StepBlock
    <3>4. o + k \in 1..z
      BY <1>12, <1>13, <3>1, <3>2, <3>3
    <3> QED
      BY <1>12, <3>1, <3>2, <3>4
  <2>3. StepsAt(g, l, off, D)
    BY <2>1, <2>2 DEF StepsAt
  <2> QED
    BY <2>3
<1>18. \E at : /\ ManifestsAt(g, l, at) /\ ManifestsOnly(g, l, at, M)
               /\ \A i \in Named("manifest") : M <= at[i] + 1
  <2>1. PICK to : ManifestsAt(g, d, to) /\ ManifestsOnly(g, d, to, 1)
    BY <1>6
  <2>2. PICK s : s = z + 2 + n
    OBVIOUS
  <2>3. s \in Nat /\ M = s + 1 /\ Len(l) = s + e /\ \A j \in 1..e : l[s + j] = d[j]
    BY <1>7, <1>12, <1>13, <2>2
  <2> DEFINE at == [i \in Named("manifest") |-> s + to[i]]
  <2>4. ASSUME NEW i \in Named("manifest")
        PROVE  /\ at[i] \in Nat /\ at[i] + 3 <= Len(l) /\ at[i] = s + to[i] /\ M <= at[i] + 1
               /\ CreateSpec(g, i, l[at[i] + 1]) /\ LookSpec(g, i, l[at[i] + 2]) /\ UpdateSpec(g, i, l[at[i] + 3])
    <3>1. PICK t : t = to[i]
      OBVIOUS
    <3>2. /\ t \in Nat /\ t + 3 <= e
          /\ CreateSpec(g, i, d[t + 1]) /\ LookSpec(g, i, d[t + 2]) /\ UpdateSpec(g, i, d[t + 3])
      BY <1>11, <2>1, <3>1 DEF ManifestsAt
    <3>3. at[i] = s + t
      BY <3>1
    <3>4. t + 1 \in 1..e /\ t + 2 \in 1..e /\ t + 3 \in 1..e
      BY <1>12, <3>2
    <3>5. l[s + (t + 1)] = d[t + 1] /\ l[s + (t + 2)] = d[t + 2] /\ l[s + (t + 3)] = d[t + 3]
      BY <2>3, <3>4
    <3>6. PICK x : x = s + t
      OBVIOUS
    <3>7. /\ x \in Nat /\ s + (t + 1) = x + 1 /\ s + (t + 2) = x + 2 /\ s + (t + 3) = x + 3
          /\ x + 3 <= Len(l) /\ M <= x + 1
      BY <2>3, <3>2, <3>6, <1>12
    <3> QED
      BY <3>1, <3>2, <3>3, <3>5, <3>6, <3>7
  <2>5. ASSUME NEW i \in Named("manifest"), NEW j \in Named("manifest"), i < j PROVE at[i] + 3 <= at[j]
    <3>1. PICK t, u : t = to[i] /\ u = to[j]
      OBVIOUS
    <3>2. t \in Nat /\ u \in Nat /\ t + 3 <= u
      BY <2>1, <2>5, <3>1 DEF ManifestsAt
    <3>3. (s + t) + 3 <= s + u
      BY <2>3, <3>2
    <3> QED
      BY <3>1, <3>3
  <2>6. ASSUME NEW q \in M..Len(l)
        PROVE  \E i \in Named("manifest") : \/ q \in {at[i] + 1, at[i] + 2, at[i] + 3}
                                            \/ at[i] + 4 <= q /\ ShowSpec(g, i, l[q])
    <3>1. PICK r : r = q - s
      OBVIOUS
    <3>0. PICK m : m = Len(l)
      OBVIOUS
    <3>9. m = s + e /\ M = s + 1 /\ e \in Nat /\ s \in Nat /\ q \in M..m
      BY <1>12, <2>3, <3>0
    <3>2. r \in 1..e /\ q = s + r
      BY <3>1, <3>9
    <3>3. PICK i \in Named("manifest") : \/ r \in {to[i] + 1, to[i] + 2, to[i] + 3}
                                         \/ to[i] + 4 <= r /\ ShowSpec(g, i, d[r])
      BY <1>11, <2>1, <3>2 DEF ManifestsOnly
    <3>4. l[q] = d[r]
      BY <2>3, <3>2
    <3>5. PICK t : t = to[i]
      OBVIOUS
    <3>6. t \in Nat /\ at[i] = s + t
      BY <2>1, <3>5 DEF ManifestsAt
    <3> HIDE DEF at
    <3>7. PICK x : x = s + t
      OBVIOUS
    <3>8. /\ r = t + 1 => q = x + 1
          /\ r = t + 2 => q = x + 2
          /\ r = t + 3 => q = x + 3
          /\ t + 4 <= r => x + 4 <= q
      BY <2>3, <3>2, <3>6, <3>7
    <3> QED
      BY <3>3, <3>4, <3>5, <3>6, <3>7, <3>8
  <2> HIDE DEF at
  <2>7. ManifestsAt(g, l, at) /\ ManifestsOnly(g, l, at, M)
    BY <2>4, <2>5, <2>6 DEF ManifestsAt, ManifestsOnly
  <2> QED
    BY <2>4, <2>7
<1> QED
  BY <1>2, <1>13, <1>14, <1>15, <1>16, <1>17, <1>18 DEF XBuildList, del, read, tag

(* What a spec of a step may be.                                           *)
LEMMA StepKinds ==
  ASSUME NEW i, NEW b, NEW f, StepBlock(i, b, f), NEW k \in 1..Len(b)
  PROVE  /\ b[k].op \in StepOps /\ b[k].ignore \in BOOLEAN
         /\ b[k].out \in StepOuts \cup {STEP(StepID(i))}
         /\ b[k].out \notin StepOuts => KeepSpec(i, b[k]) /\ (k = 1 \/ (task.steps[i].do = "from" /\ k = f + 2))
         /\ b[k].op = "from" => task.steps[i].do = "from" /\ k = f /\ f + 2 <= Len(b) /\ MakesContainer(b, f, i)
<1>1. /\ Len(b) \in Nat /\ f \in {2, 3} /\ KeepSpec(i, b[1])
      /\ task.steps[i].do = "from" => f + 2 <= Len(b) /\ MakesContainer(b, f, i)
      /\ \A j \in 2..Len(b) : task.steps[i].do # "from" \/ j \notin {f, f + 1, f + 2} =>
           PlainSpec(b[j]) \/ CommitSpec(b[j])
  BY DEF StepBlock
<1>2. CASE k = 1
  BY <1>1, <1>2 DEF KeepSpec, StepOps
<1>3. CASE task.steps[i].do = "from" /\ k = f
  BY <1>1, <1>3 DEF MakesContainer, StepOps, StepOuts
<1>4. CASE task.steps[i].do = "from" /\ k = f + 1
  BY <1>1, <1>4 DEF MakesContainer, StepOps, StepOuts
<1>5. CASE task.steps[i].do = "from" /\ k = f + 2
  BY <1>1, <1>5 DEF KeepSpec, StepOps, MakesContainer
<1>6. CASE k \in 2..Len(b) /\ (task.steps[i].do # "from" \/ k \notin {f, f + 1, f + 2})
  <2>1. PlainSpec(b[k]) \/ CommitSpec(b[k])
    BY <1>1, <1>6
  <2>2. "from" \notin GenOps
    BY DEF GenOps
  <2> QED
    BY <2>1, <2>2 DEF PlainSpec, CommitSpec, StepOps, StepOuts, GenOps
<1>7. k = 1 \/ k \in 2..Len(b)
  BY <1>1
<1> QED
  BY <1>2, <1>3, <1>4, <1>5, <1>6, <1>7

(* The specs of manifests are such.                                        *)
LEMMA ManifestTail ==
  ASSUME NEW g, NEW l, NEW at, NEW M, ManifestsAt(g, l, at), ManifestsOnly(g, l, at, M), NEW q \in M..Len(l)
  PROVE  TailSpec(l[q]) /\ \E i \in Named("manifest") : ManifestSpec(g, i, l[q])
<1>1. PICK i \in Named("manifest") : \/ q \in {at[i] + 1, at[i] + 2, at[i] + 3}
                                     \/ at[i] + 4 <= q /\ ShowSpec(g, i, l[q])
  BY DEF ManifestsOnly
<1>2. CreateSpec(g, i, l[at[i] + 1]) /\ LookSpec(g, i, l[at[i] + 2]) /\ UpdateSpec(g, i, l[at[i] + 3])
  BY DEF ManifestsAt
<1>3. ManifestSpec(g, i, l[q])
  BY <1>1, <1>2 DEF ManifestSpec
<1>4. TailSpec(l[q])
  BY <1>3 DEF ManifestSpec, CreateSpec, LookSpec, UpdateSpec, ShowSpec, TailSpec, TailOps
<1> QED
  BY <1>3, <1>4

(* And all that come after the steps of an xbuild.                         *)
LEMMA XBuildTail ==
  ASSUME NEW g, NEW l, NEW off, NEW D, NEW M, NEW at, XBuildList(g, l, off, D, M, at), NEW q \in D..Len(l)
  PROVE  TailSpec(l[q])
<1>0. D \in Nat \ {0} /\ M \in Nat /\ D + 2 <= M /\ Len(l) \in Nat
  BY DEF XBuildList
<1>1. CASE q = D
  BY <1>1, PlainFields DEF TailSpec, TailOps, XBuildList
<1>2. CASE q = D + 1
  BY <1>2, IntoFields DEF TailSpec, TailOps, XBuildList
<1>3. CASE q \in (D + 2)..(M - 1)
  <2>1. PICK y : l[q] = Cmd("tag", <<IMAGE_ID, y>>)
    BY <1>3 DEF XBuildList
  <2> QED
    BY <2>1, PlainFields DEF TailSpec, TailOps
<1>4. CASE q \in M..Len(l)
  BY <1>4, ManifestTail DEF XBuildList
<1>5. q = D \/ q = D + 1 \/ q \in (D + 2)..(M - 1) \/ q \in M..Len(l)
  BY <1>0
<1> QED
  BY <1>1, <1>2, <1>3, <1>4, <1>5

(* Where a spec of the steps is of.                                        *)
LEMMA XBuildStep ==
  ASSUME KindsKnown, NEW g, NEW l, NEW off, NEW D, NEW M, NEW at, XBuildList(g, l, off, D, M, at)
  PROVE  /\ D \in Nat \ {0} /\ Len(l) \in Nat /\ D < Len(l)
         /\ \A q \in 1..(D - 1) : \E i \in Unskipped : \E k : q = off[i] + k /\ k \in 1..Len(StepSpecs(g, i))
         /\ \A i \in Unskipped : \E b, f : /\ StepBlock(i, b, f) /\ off[i] \in Nat /\ off[i] + Len(b) < D
                                           /\ b = StepSpecs(g, i) /\ \A k \in 1..Len(b) : l[off[i] + k] = b[k]
<1>1. D \in Nat \ {0} /\ Len(l) \in Nat /\ M \in Nat /\ D + 2 <= M /\ M <= Len(l) + 1
  BY DEF XBuildList
<1>2. StepsAt(g, l, off, D)
  BY DEF XBuildList
<1>3. ASSUME NEW i \in Unskipped
      PROVE  \E b, f : /\ StepBlock(i, b, f) /\ off[i] \in Nat /\ off[i] + Len(b) < D
                       /\ b = StepSpecs(g, i) /\ \A k \in 1..Len(b) : l[off[i] + k] = b[k]
  <2>1. PICK b : b = StepSpecs(g, i)
    OBVIOUS
  <2>2. ~Skipped(task.steps[i]) /\ task.steps[i].do \in Kinds
    BY DEF Unskipped, KindsKnown
  <2>3. \E f : StepBlock(i, b, f)
    BY <2>1, <2>2, StepSpecsAre
  <2>4. off[i] \in Nat /\ off[i] + Len(b) < D /\ \A k \in 1..Len(b) : l[off[i] + k] = b[k]
    BY <1>2, <2>1 DEF StepsAt
  <2> QED
    BY <2>1, <2>3, <2>4
<1>4. ASSUME NEW q \in 1..(D - 1)
      PROVE  \E i \in Unskipped : \E k : q = off[i] + k /\ k \in 1..Len(StepSpecs(g, i))
  <2>1. PICK i \in Unskipped : \E k \in 1..Len(StepSpecs(g, i)) : q = off[i] + k
    BY <1>2 DEF StepsAt
  <2> QED
    BY <2>1
<1>5. D < Len(l)
  BY <1>1
<1> QED
  BY <1>1, <1>3, <1>4, <1>5

(* The list of an xbuild is such, if its steps have ids of their own.      *)
LEMMA XBuildContainers ==
  ASSUME KindsKnown, DistinctIDs, NEW g, NEW l, NEW off, NEW D, NEW M, NEW at, XBuildList(g, l, off, D, M, at)
  PROVE  CtrList(l)
<1>1. /\ D \in Nat \ {0} /\ Len(l) \in Nat /\ D < Len(l)
      /\ \A q \in 1..(D - 1) : \E i \in Unskipped : \E k : q = off[i] + k /\ k \in 1..Len(StepSpecs(g, i))
      /\ \A i \in Unskipped : \E b, f : /\ StepBlock(i, b, f) /\ off[i] \in Nat /\ off[i] + Len(b) < D
                                        /\ b = StepSpecs(g, i) /\ \A k \in 1..Len(b) : l[off[i] + k] = b[k]
  BY XBuildStep
<1>2. IsSeq(l) /\ l[D].op = "delete-containers"
  BY PlainFields DEF XBuildList
<1>3. ASSUME NEW q \in D..Len(l) PROVE CtrSpec(l[q]) /\ l[q].op # "from" /\ \A id : l[q].out # STEP(id)
  <2>1. TailSpec(l[q])
    BY <1>3, XBuildTail
  <2>2. l[q].out \in Tokens \cup {NoToken}
    BY <2>1 DEF TailSpec, Tokens
  <2>3. OutSpec(l[q])
    <3>1. MANIFEST_SPEC \notin {NoToken, IMAGE_ID}
      BY TokensDiffer DEF Tokens
    <3> QED
      BY <2>1, <2>2, <3>1 DEF TailSpec, OutSpec
  <2> QED
    BY <2>1, <2>2, <2>3, TokensDiffer DEF TailSpec, TailOps, CtrSpec
<1>4. ASSUME NEW q \in 1..(D - 1) PROVE CtrSpec(l[q]) /\ (l[q].op = "from" => KeptFrom(l, q))
  <2>1. PICK i \in Unskipped : \E k : q = off[i] + k /\ k \in 1..Len(StepSpecs(g, i))
    BY <1>1
  <2>2. PICK k : q = off[i] + k /\ k \in 1..Len(StepSpecs(g, i))
    BY <2>1
  <2>3. PICK b, f : /\ StepBlock(i, b, f) /\ off[i] \in Nat /\ off[i] + Len(b) < D
                    /\ b = StepSpecs(g, i) /\ \A j \in 1..Len(b) : l[off[i] + j] = b[j]
    BY <1>1
  <2>4. k \in 1..Len(b) /\ l[q] = b[k] /\ Len(b) \in Nat
    BY <2>2, <2>3 DEF StepBlock
  <2>5. /\ b[k].op \in StepOps /\ b[k].ignore \in BOOLEAN
        /\ b[k].out \in StepOuts \cup {STEP(StepID(i))}
        /\ b[k].op = "from" => task.steps[i].do = "from" /\ k = f /\ f + 2 <= Len(b) /\ MakesContainer(b, f, i)
    BY <2>3, <2>4, StepKinds
  <2>6. CtrSpec(l[q])
    <3>0. MANIFEST_SPEC \notin StepOuts \cup {STEP(StepID(i))}
      BY TokensDiffer DEF StepOuts, Tokens
    <3>1. OutSpec(b[k])
      BY <2>5, <3>0 DEF StepOuts, Tokens, OutSpec
    <3>2. b[k].op \notin {"rm", "delete-containers", "manifest-update"}
      BY <2>5 DEF StepOps, GenOps
    <3> QED
      BY <2>4, <2>5, <3>1, <3>2 DEF CtrSpec
  <2>7. ASSUME l[q].op = "from" PROVE KeptFrom(l, q)
    <3>1. PICK o, n : o = off[i] /\ n = Len(b)
      OBVIOUS
    <3>2. task.steps[i].do = "from" /\ k = f /\ f \in {2, 3} /\ f + 2 <= n /\ MakesContainer(b, f, i)
      BY <2>3, <2>4, <2>5, <2>7, <3>1 DEF StepBlock
    <3>3. o \in Nat /\ n \in Nat /\ o + n < D /\ q = o + f /\ \A j \in 1..n : l[o + j] = b[j]
      BY <2>2, <2>3, <2>4, <3>1, <3>2
    <3>4. l[q] = b[f] /\ l[q + 1] = b[f + 1] /\ l[q + 2] = b[f + 2]
      BY <3>2, <3>3
    <3>5. MakesContainer(l, q, i)
      BY <3>2, <3>4 DEF MakesContainer
    <3>6. q + 3 <= D /\ D <= Len(l) /\ q \in Nat
      BY <1>1, <3>2, <3>3
    <3>7. ASSUME NEW r \in (q + 3)..Len(l), l[r].out = STEP(StepID(i)) PROVE FALSE
      <4>1. r \in 1..(D - 1)
        BY <1>1, <1>3, <3>6, <3>7
      <4>2. PICK j \in Unskipped : \E m : r = off[j] + m /\ m \in 1..Len(StepSpecs(g, j))
        BY <1>1, <4>1
      <4>3. PICK m : r = off[j] + m /\ m \in 1..Len(StepSpecs(g, j))
        BY <4>2
      <4>4. PICK c, h : /\ StepBlock(j, c, h) /\ c = StepSpecs(g, j) /\ \A x \in 1..Len(c) : l[off[j] + x] = c[x]
        BY <1>1
      <4>5. m \in 1..Len(c) /\ l[r] = c[m]
        BY <4>3, <4>4
      <4>6. c[m].out \notin StepOuts
        BY <3>7, <4>5, TokensDiffer DEF StepOuts, Tokens
      <4>7. KeepSpec(j, c[m]) /\ (m = 1 \/ (task.steps[j].do = "from" /\ m = h + 2))
        BY <4>4, <4>5, <4>6, StepKinds
      <4>8. StepID(j) = StepID(i)
        BY <3>7, <4>5, <4>7, TokensDiffer DEF KeepSpec
      <4>9. j = i
        BY <4>8 DEF DistinctIDs
      <4>10. r = o + m
        BY <3>1, <4>3, <4>9
      <4>11. m >= f + 3 /\ m \in Nat
        BY <3>2, <3>3, <3>7, <4>5, <4>10
      <4>12. c = b
        BY <2>3, <4>4, <4>9
      <4>13. PlainSpec(b[m]) \/ CommitSpec(b[m])
        <5>1. m \in 2..Len(b) /\ m \notin {f, f + 1, f + 2}
          BY <3>2, <4>5, <4>11, <4>12
        <5> QED
          BY <2>3, <5>1 DEF StepBlock
      <4>14. b[m].out \in StepOuts
        BY <4>13 DEF PlainSpec, CommitSpec, StepOuts
      <4> QED
        BY <4>6, <4>12, <4>14
    <3>8. D \in (q + 3)..Len(l)
      BY <1>1, <3>6
    <3> QED
      BY <1>2, <3>5, <3>7, <3>8 DEF KeptFrom
  <2> QED
    BY <2>6, <2>7
<1>5. \A q \in 1..Len(l) : q \in 1..(D - 1) \/ q \in D..Len(l)
  BY <1>1
<1> QED
  BY <1>2, <1>3, <1>4, <1>5 DEF CtrList

(* It need not be taken care of.                                           *)
LEMMA NoContainers ==
  ASSUME NEW l, IsSeq(l), \A q \in 1..Len(l) : NoCtrSpec(l[q]) PROVE CtrList(l)
BY DEF NoCtrSpec, CtrList

(* What `build` generates.                                                 *)
LEMMA BuildListed ==
  ASSUME IsSeq(task.names), NEW g, NEW l, l = BuildSpecs(g)
  PROVE  /\ IsSeq(l) /\ Len(l) \in Nat /\ 3 <= Len(l)
         /\ l[1] = Cmd("bud", <<>>) /\ l[2] = CmdInto("read-iidfile", <<>>, IMAGE_ID)
         /\ l[3] = CmdInto("inspect-image", <<IMAGE_ID>>, DIGEST)
         /\ \E at : /\ ManifestsAt(g, l, at) /\ ManifestsOnly(g, l, at, 4)
                    /\ \A i \in Named("manifest") : 4 <= at[i] + 1
<1> DEFINE a == <<Cmd("bud", <<>>), CmdInto("read-iidfile", <<>>, IMAGE_ID),
                  CmdInto("inspect-image", <<IMAGE_ID>>, DIGEST)>>
<1>1. PICK d : d = AllManifestSpecs(g)
  OBVIOUS
<1>2. IsSeq(d) /\ \E at : ManifestsAt(g, d, at) /\ ManifestsOnly(g, d, at, 1)
  BY <1>1, ManifestListed
<1>3. l = a \o d
  BY <1>1 DEF BuildSpecs
<1>4. PICK x, y, z : x = Cmd("bud", <<>>) /\ y = CmdInto("read-iidfile", <<>>, IMAGE_ID)
                     /\ z = CmdInto("inspect-image", <<IMAGE_ID>>, DIGEST) /\ a = <<x, y, z>>
  OBVIOUS
<1> HIDE DEF a
<1>5. PICK S : a \in Seq(S) /\ d \in Seq(S) /\ Len(a) = 3 /\ a[1] = x /\ a[2] = y /\ a[3] = z
  <2> DEFINE S == Elements(d) \cup {x, y, z}
  <2>1. Elements(d) \subseteq S /\ x \in S /\ y \in S /\ z \in S
    OBVIOUS
  <2> HIDE DEF S
  <2>2. d \in Seq(S)
    BY <1>2, <2>1, SeqOver
  <2>3. a \in Seq(S) /\ Len(a) = 3 /\ a[1] = x /\ a[2] = y /\ a[3] = z
    BY <1>4, <2>1
  <2> QED
    BY <2>2, <2>3
<1>6. PICK e : e = Len(d)
  OBVIOUS
<1>7. /\ l \in Seq(S) /\ e \in Nat /\ Len(l) = 3 + e
      /\ l[1] = x /\ l[2] = y /\ l[3] = z /\ \A j \in 1..e : l[3 + j] = d[j]
  <2>1. /\ a \o d \in Seq(S) /\ Len(a \o d) = Len(a) + Len(d)
        /\ \A k \in 1..Len(a) : (a \o d)[k] = a[k]
        /\ \A k \in 1..Len(d) : (a \o d)[Len(a) + k] = d[k]
    <3>1. a \in Seq(S) /\ d \in Seq(S)
      BY <1>5
    <3> QED
      BY <3>1, Concatenation
  <2>2. Len(d) \in Nat /\ 1 \in 1..Len(a) /\ 2 \in 1..Len(a) /\ 3 \in 1..Len(a)
    BY <1>5, LenProperties
  <2> QED
    BY <1>3, <1>5, <1>6, <2>1, <2>2
<1>8. IsSeq(l) /\ Len(l) \in Nat /\ 3 <= Len(l)
  BY <1>7, SeqIsSeq
<1>9. PICK to : ManifestsAt(g, d, to) /\ ManifestsOnly(g, d, to, 1)
  BY <1>2
<1> DEFINE at == [i \in Named("manifest") |-> 3 + to[i]]
<1>10. ASSUME NEW i \in Named("manifest")
       PROVE  /\ at[i] \in Nat /\ at[i] + 3 <= Len(l) /\ at[i] = 3 + to[i] /\ 4 <= at[i] + 1
              /\ CreateSpec(g, i, l[at[i] + 1]) /\ LookSpec(g, i, l[at[i] + 2]) /\ UpdateSpec(g, i, l[at[i] + 3])
  <2>1. PICK t : t = to[i]
    OBVIOUS
  <2>2. /\ t \in Nat /\ t + 3 <= e
        /\ CreateSpec(g, i, d[t + 1]) /\ LookSpec(g, i, d[t + 2]) /\ UpdateSpec(g, i, d[t + 3])
    BY <1>6, <1>9, <2>1 DEF ManifestsAt
  <2>3. at[i] = 3 + t
    BY <2>1
  <2>4. t + 1 \in 1..e /\ t + 2 \in 1..e /\ t + 3 \in 1..e
    BY <1>7, <2>2
  <2>5. l[3 + (t + 1)] = d[t + 1] /\ l[3 + (t + 2)] = d[t + 2] /\ l[3 + (t + 3)] = d[t + 3]
    BY <1>7, <2>4
  <2>6. PICK w : w = 3 + t
    OBVIOUS
  <2>7. /\ w \in Nat /\ 3 + (t + 1) = w + 1 /\ 3 + (t + 2) = w + 2 /\ 3 + (t + 3) = w + 3
        /\ w + 3 <= Len(l) /\ 4 <= w + 1
    BY <1>7, <2>2, <2>6
  <2> QED
    BY <2>1, <2>2, <2>3, <2>5, <2>6, <2>7
<1>11. ASSUME NEW i \in Named("manifest"), NEW j \in Named("manifest"), i < j PROVE at[i] + 3 <= at[j]
  <2>1. PICK t, u : t = to[i] /\ u = to[j]
    OBVIOUS
  <2>2. t \in Nat /\ u \in Nat /\ t + 3 <= u
    BY <1>9, <1>11, <2>1 DEF ManifestsAt
  <2>3. (3 + t) + 3 <= 3 + u
    BY <2>2
  <2> QED
    BY <2>1, <2>3
<1>12. ASSUME NEW q \in 4..Len(l)
       PROVE  \E i \in Named("manifest") : \/ q \in {at[i] + 1, at[i] + 2, at[i] + 3}
                                           \/ at[i] + 4 <= q /\ ShowSpec(g, i, l[q])
  <2>1. PICK r : r = q - 3
    OBVIOUS
  <2>2. r \in 1..e /\ q = 3 + r
    BY <1>7, <2>1
  <2>3. PICK i \in Named("manifest") : \/ r \in {to[i] + 1, to[i] + 2, to[i] + 3}
                                       \/ to[i] + 4 <= r /\ ShowSpec(g, i, d[r])
    BY <1>6, <1>9, <2>2 DEF ManifestsOnly
  <2>4. l[q] = d[r]
    BY <1>7, <2>2
  <2>5. PICK t : t = to[i]
    OBVIOUS
  <2>6. t \in Nat /\ at[i] = 3 + t
    BY <1>9, <2>5 DEF ManifestsAt
  <2> HIDE DEF at
  <2>7. PICK w : w = 3 + t
    OBVIOUS
  <2>8. /\ r = t + 1 => q = w + 1
        /\ r = t + 2 => q = w + 2
        /\ r = t + 3 => q = w + 3
        /\ t + 4 <= r => w + 4 <= q
    BY <2>2, <2>6, <2>7
  <2> QED
    BY <2>3, <2>4, <2>5, <2>6, <2>7, <2>8
<1> HIDE DEF at
<1>13. ManifestsAt(g, l, at) /\ ManifestsOnly(g, l, at, 4)
  BY <1>10, <1>11, <1>12 DEF ManifestsAt, ManifestsOnly
<1> QED
  BY <1>4, <1>7, <1>8, <1>10, <1>13

(* What an entry of `push` generates.                                      *)
LEMMA PushesListed ==
  ASSUME IsSeq(task.names), NEW g
  PROVE  /\ IsSeq(PushImageSpecs(g)) /\ \A q \in DOMAIN PushImageSpecs(g) : PushSpec(PushImageSpecs(g)[q])
         /\ \A C : \A ms \in Sorted(C) : IsFiniteSet(C) =>
              LET l == PushImageSpecs(g) \o ManifestPushSpecs(ms)
              IN IsSeq(l) /\ \A q \in DOMAIN l : PushSpec(l[q])
<1> DEFINE n == Len(ImageNames(g))
           cmd(k) == Cmd("push", <<idFiles[ImageNames(g)[k][2]], ImageNames(g)[k][2]>>)
           a == PushImageSpecs(g)
           S == {x \in {cmd(k) : k \in 1..n} : PushSpec(x)}
<1>1. n \in Nat /\ DOMAIN ImageNames(g) = 1..n
  BY ImageNamesListed
<1>2. a = [k \in 1..n |-> cmd(k)]
  BY <1>1 DEF PushImageSpecs
<1>3. \A k \in 1..n : PushSpec(cmd(k))
  BY PlainFields DEF PushSpec
<1>4. \A k \in 1..n : cmd(k) \in S
  BY <1>3
<1> HIDE DEF cmd, n, a, S
<1>5. a \in Seq(S)
  BY <1>1, <1>2, <1>4, FunctionIsSeq
<1>6. IsSeq(a) /\ \A q \in DOMAIN a : PushSpec(a[q])
  BY <1>5, SeqIsSeq, LenProperties DEF S
<1>7. ASSUME NEW C, NEW ms \in Sorted(C), IsFiniteSet(C)
      PROVE  LET l == a \o ManifestPushSpecs(ms) IN IsSeq(l) /\ \A q \in DOMAIN l : PushSpec(l[q])
  <2> DEFINE b == ManifestPushSpecs(ms)
             push(k) == Cmd("manifest-push", <<ms[k].name>>)
             m == Cardinality(C)
             T == S \cup {x \in {push(k) : k \in 1..m} : PushSpec(x)}
  <2>1. m \in Nat /\ ms \in [1..m -> C]
    BY <1>7, AllInOrder DEF Sorted
  <2>2. b = [k \in 1..m |-> push(k)]
    BY <2>1 DEF ManifestPushSpecs
  <2>3. \A k \in 1..m : PushSpec(push(k))
    BY PlainFields DEF PushSpec
  <2>4. (\A k \in 1..m : push(k) \in T) /\ S \subseteq T /\ \A x \in T : PushSpec(x)
    BY <2>3 DEF S
  <2> HIDE DEF push, m, b, T
  <2>5. b \in Seq(T)
    BY <2>1, <2>2, <2>4, FunctionIsSeq
  <2>6. a \in Seq(T)
    BY <1>6, <1>5, <2>4, SeqOver, LenProperties DEF Elements
  <2> DEFINE l == a \o b
  <2>7. l \in Seq(T)
    BY <2>5, <2>6, Concatenation
  <2> HIDE DEF l
  <2>8. IsSeq(l) /\ \A q \in DOMAIN l : l[q] \in T
    BY <2>7, SeqIsSeq, LenProperties
  <2>9. IsSeq(l) /\ \A q \in DOMAIN l : PushSpec(l[q])
    BY <2>4, <2>8
  <2> QED
    BY <2>9 DEF l, b
<1> QED
  BY <1>6, <1>7 DEF a

-----------------------------------------------------------------------------

(* The recursion of Visited is one.                                        *)
LEMMA VisitExists ==
  ASSUME NEW g, NEW n \in Nat PROVE \E f : Sees(g, n, f)
<1> DEFINE None == {k \in Nat : ~\E f : Sees(g, k, f)}
<1> SUFFICES ASSUME None # {} PROVE FALSE
  OBVIOUS
<1>1. PICK k \in None : \A m \in None : k <= m
  BY LeastNumber
<1>2. CASE k = 0
  <2>1. Sees(g, 0, [i \in 0..0 |-> <<>>])
    BY DEF Sees
  <2> QED
    BY <1>2, <2>1
<1>3. CASE k > 0
  <2>1. k - 1 \in Nat /\ k - 1 \notin None
    BY <1>1, <1>3
  <2>2. PICK f : Sees(g, k - 1, f)
    BY <2>1
  <2> DEFINE N == Len(task.steps)
             Is(h, i) == IF i = 0 THEN <<>>
                         ELSE IF Skipped(task.steps[N + 1 - i]) \/ Contains(h[i - 1], Keeps(g, i))
                              THEN h[i - 1] ELSE Append(h[i - 1], Keeps(g, i))
             new == [i \in 0..k |-> IF i = k THEN Is(f, k) ELSE f[i]]
  <2>3. ASSUME NEW i \in 0..k PROVE new[i] = Is(new, i)
    <3>0. i = 0 \/ (i - 1 \in 0..k /\ i - 1 # k)
      BY <1>1
    <3>1. CASE i = k
      <4>1. i # 0 /\ new[i] = Is(f, k) /\ new[i - 1] = f[k - 1]
        BY <1>3, <3>0, <3>1
      <4> HIDE DEF new
      <4> QED
        BY <3>1, <4>1
    <3>2. CASE i # k
      <4>1. i \in 0..(k - 1) /\ new[i] = f[i]
        BY <3>2, <1>1
      <4>2. f[i] = Is(f, i)
        BY <4>1, <2>2 DEF Sees
      <4>3. i = 0 \/ new[i - 1] = f[i - 1]
        BY <3>0
      <4> HIDE DEF new
      <4> QED
        BY <4>1, <4>2, <4>3
    <3> QED
      BY <3>1, <3>2
  <2>4. new = [i \in 0..k |-> new[i]]
    OBVIOUS
  <2> HIDE DEF new
  <2>5. Sees(g, k, new)
    BY <2>3, <2>4 DEF Sees
  <2> QED
    BY <2>5
<1> QED
  BY <1>1, <1>2, <1>3

(* The containers to remove are a list of those kept for the steps, and of *)
(* all of them.                                                            *)
LEMMA VisitedAll ==
  ASSUME IsSeq(task.steps), NEW g, NEW v, v = Visited(g)
  PROVE  /\ IsSeq(v) /\ \A i \in Unskipped : \E k \in 1..Len(v) : v[k] = replace[g][STEP(StepID(i))].data
         /\ \A k \in 1..Len(v) : \E i \in Unskipped : v[k] = replace[g][STEP(StepID(i))].data
<1> DEFINE n == Len(task.steps)
<1>1. n \in Nat /\ DOMAIN task.steps = 1..n
  BY LenProperties DEF IsSeq
<1> DEFINE c == CHOOSE f : Sees(g, n, f)
<1>2. Sees(g, n, c)
  BY <1>1, VisitExists
<1>3. v = c[n]
  BY DEF Visited, Sees, Keeps
<1> HIDE DEF c
<1> DEFINE Of(k) == IF Skipped(task.steps[n + 1 - k]) \/ Contains(c[k - 1], Keeps(g, k))
                    THEN c[k - 1] ELSE Append(c[k - 1], Keeps(g, k))
<1>4. c[0] = <<>> /\ \A k \in 1..n : c[k] = Of(k)
  <2>0. n = Len(task.steps)
    OBVIOUS
  <2> HIDE DEF n
  <2>1. ASSUME NEW k \in 0..n
        PROVE  c[k] = IF k = 0 THEN <<>>
                      ELSE IF Skipped(task.steps[n + 1 - k]) \/ Contains(c[k - 1], Keeps(g, k))
                           THEN c[k - 1] ELSE Append(c[k - 1], Keeps(g, k))
    BY <1>2, <2>0 DEF Sees
  <2>2. 0 \in 0..n /\ \A k \in 1..n : k \in 0..n /\ k # 0
    BY <1>1
  <2> QED
    BY <2>1, <2>2
<1> HIDE DEF n
<1> DEFINE Good(m) == /\ IsSeq(c[m])
                      /\ \A r \in 1..Len(c[m]) : \E k \in 1..m : ~Skipped(task.steps[n + 1 - k]) /\ c[m][r] = Keeps(g, k)
                      /\ \A k \in 1..m : Skipped(task.steps[n + 1 - k]) \/ \E r \in 1..Len(c[m]) : c[m][r] = Keeps(g, k)
           Bad == {m \in 0..n : ~Good(m)}
<1>5. Bad = {}
  <2> SUFFICES ASSUME Bad # {} PROVE FALSE
    OBVIOUS
  <2>1. Bad \in SUBSET Nat
    BY <1>1
  <2>2. PICK m \in Bad : \A j \in Bad : m <= j
    BY <2>1, LeastNumber
  <2>3. m \in 0..n /\ ~Good(m)
    BY <2>2
  <2>4. m # 0
    BY <1>4, <2>3, NoSpecs
  <2>5. m \in 1..n /\ m - 1 \in 0..n /\ m - 1 \notin Bad /\ \A k \in 1..m : k = m \/ k \in 1..(m - 1)
    <3>1. m \in 1..n /\ m - 1 \in 0..n /\ m - 1 < m /\ \A k \in 1..m : k = m \/ k \in 1..(m - 1)
      BY <1>1, <2>3, <2>4
    <3>2. m - 1 \notin Bad
      <4> HIDE DEF Bad
      <4> QED
        BY <1>1, <2>1, <2>2, <3>1
    <3> QED
      BY <3>1, <3>2
  <2>6. Good(m - 1)
    BY <2>5
  <2>7. PICK s, x : s = c[m - 1] /\ x = Keeps(g, m)
    OBVIOUS
  <2>8. IsSeq(s) /\ Len(s) \in Nat /\ c[m] = Of(m)
    BY <1>4, <2>5, <2>6, <2>7, LenProperties DEF IsSeq
  <2>9. CASE Skipped(task.steps[n + 1 - m]) \/ Contains(s, x)
    <3>1. c[m] = s
      BY <2>7, <2>8, <2>9
    <3>2. Contains(s, x) => \E r \in 1..Len(s) : s[r] = x
      BY <2>8, LenProperties DEF Contains, IsSeq
    <3>3. ASSUME NEW k \in 1..m
          PROVE  Skipped(task.steps[n + 1 - k]) \/ \E r \in 1..Len(s) : s[r] = Keeps(g, k)
      BY <2>5, <2>6, <2>7, <2>9, <3>2
    <3>4. ASSUME NEW r \in 1..Len(s)
          PROVE  \E k \in 1..m : ~Skipped(task.steps[n + 1 - k]) /\ s[r] = Keeps(g, k)
      <4>1. PICK k \in 1..(m - 1) : ~Skipped(task.steps[n + 1 - k]) /\ s[r] = Keeps(g, k)
        BY <2>6, <2>7
      <4>2. k \in 1..m
        BY <2>5
      <4> QED
        BY <4>1, <4>2
    <3> HIDE DEF Of
    <3>5. Good(m)
      BY <2>8, <3>1, <3>3, <3>4
    <3> QED
      BY <2>3, <3>5
  <2>10. CASE ~Skipped(task.steps[n + 1 - m]) /\ ~Contains(s, x)
    <3>1. c[m] = Append(s, x)
      BY <2>7, <2>8, <2>10
    <3>2. s \in Seq(Elements(s) \cup {x})
      BY <2>8, SeqOver
    <3>3. /\ Append(s, x) \in Seq(Elements(s) \cup {x}) /\ Len(Append(s, x)) = Len(s) + 1
          /\ Append(s, x)[Len(s) + 1] = x /\ \A r \in 1..Len(s) : Append(s, x)[r] = s[r]
      BY <3>2, AppendProperties, LenProperties
    <3>4. IsSeq(c[m])
      BY <3>1, <3>3, SeqIsSeq
    <3>5. ASSUME NEW k \in 1..m, ~Skipped(task.steps[n + 1 - k])
          PROVE  \E r \in 1..Len(c[m]) : c[m][r] = Keeps(g, k)
      <4>1. CASE k = m
        BY <2>7, <2>8, <3>1, <3>3, <4>1
      <4>2. CASE k \in 1..(m - 1)
        <5>1. PICK r \in 1..Len(s) : s[r] = Keeps(g, k)
          BY <2>6, <2>7, <3>5, <4>2
        <5>2. r \in 1..(Len(s) + 1)
          BY <2>8
        <5> QED
          BY <3>1, <3>3, <5>1, <5>2
      <4> QED
        BY <2>5, <4>1, <4>2
    <3>6. ASSUME NEW r \in 1..Len(c[m])
          PROVE  \E k \in 1..m : ~Skipped(task.steps[n + 1 - k]) /\ c[m][r] = Keeps(g, k)
      <4>1. CASE r \in 1..Len(s)
        <5>1. PICK k \in 1..(m - 1) : ~Skipped(task.steps[n + 1 - k]) /\ s[r] = Keeps(g, k)
          BY <2>6, <2>7, <4>1
        <5>2. k \in 1..m
          BY <2>5
        <5> QED
          BY <3>1, <3>3, <4>1, <5>1, <5>2
      <4>2. CASE r = Len(s) + 1
        <5>1. c[m][r] = Keeps(g, m) /\ m \in 1..m
          BY <2>5, <2>7, <3>1, <3>3, <4>2
        <5> QED
          BY <2>7, <2>10, <5>1
      <4>3. Len(c[m]) = Len(s) + 1 /\ Len(s) \in Nat
        BY <2>8, <3>1, <3>3
      <4>4. r \in 1..Len(s) \/ r = Len(s) + 1
        <5> HIDE DEF Of, Good
        <5> QED
          BY <4>3
      <4> QED
        BY <4>1, <4>2, <4>4
    <3>7. Good(m)
      BY <3>4, <3>5, <3>6
    <3> QED
      BY <2>3, <3>7
  <2> QED
    BY <2>9, <2>10
<1>6. Good(n)
  <2>1. n \in 0..n
    BY <1>1
  <2> QED
    BY <1>5, <2>1
<1>7. ASSUME NEW i \in Unskipped PROVE \E k \in 1..Len(v) : v[k] = replace[g][STEP(StepID(i))].data
  <2>1. i \in 1..n
    BY <1>1 DEF Unskipped
  <2>2. PICK j : j = n + 1 - i
    OBVIOUS
  <2>3. j \in 1..n /\ n + 1 - j = i
    BY <1>1, <2>1, <2>2
  <2>4. Keeps(g, j) = replace[g][STEP(StepID(i))].data
    BY <2>3 DEF Keeps, n
  <2>5. ~Skipped(task.steps[n + 1 - j])
    BY <2>3 DEF Unskipped
  <2> QED
    BY <1>3, <1>6, <2>3, <2>4, <2>5
<1>8. ASSUME NEW r \in 1..Len(v) PROVE \E i \in Unskipped : v[r] = replace[g][STEP(StepID(i))].data
  <2>1. PICK k \in 1..n : ~Skipped(task.steps[n + 1 - k]) /\ v[r] = Keeps(g, k)
    BY <1>3, <1>6
  <2>2. PICK i : i = n + 1 - k
    OBVIOUS
  <2>3. i \in 1..n
    BY <1>1, <2>2
  <2>4. i \in Unskipped
    BY <1>1, <2>1, <2>2, <2>3 DEF Unskipped
  <2>5. v[r] = replace[g][STEP(StepID(i))].data
    BY <2>1, <2>2 DEF Keeps, n
  <2> QED
    BY <2>4, <2>5
<1> QED
  BY <1>3, <1>6, <1>7, <1>8

(* The manifest an entry updates, for the images of its platform.          *)
LEMMA UpdateSpecs ==
  ASSUME NEW n \in Nat, NEW s, NEW name
  PROVE  /\ SubList(<<Cmd("manifest-create", <<name>>)>> \o <<Cmd("manifest-add", <<name, IMAGE_ID>>)>>)
         /\ SubList([k \in 1..n |-> Cmd("manifest-remove", <<name, s[k]>>)] \o <<Cmd("manifest-add", <<name, IMAGE_ID>>)>>)
<1> DEFINE S == {x \in {Cmd("manifest-create", <<name>>), Cmd("manifest-add", <<name, IMAGE_ID>>)}
                       \cup {Cmd("manifest-remove", <<name, s[k]>>) : k \in 1..n} : SubSpec(x)}
           rm(k) == Cmd("manifest-remove", <<name, s[k]>>)
           create == Cmd("manifest-create", <<name>>)
           add == Cmd("manifest-add", <<name, IMAGE_ID>>)
           a == [k \in 1..n |-> rm(k)]
<1>1. SubSpec(create) /\ SubSpec(add) /\ \A k \in 1..n : SubSpec(rm(k))
  BY PlainFields DEF SubSpec
<1>2. create \in S /\ add \in S /\ \A k \in 1..n : rm(k) \in S
  BY <1>1
<1> HIDE DEF S, rm, create, add
<1>3. a \in Seq(S)
  BY <1>2, FunctionIsSeq
<1>4. <<create>> \in Seq(S) /\ <<add>> \in Seq(S)
  BY <1>2, ShortLists
<1> HIDE DEF a
<1>5. <<create>> \o <<add>> \in Seq(S) /\ a \o <<add>> \in Seq(S)
  BY <1>3, <1>4, Concatenation
<1>6. \A t \in Seq(S) : SubList(t)
  <2> SUFFICES ASSUME NEW t \in Seq(S) PROVE SubList(t)
    OBVIOUS
  <2>1. IsSeq(t) /\ \A k \in 1..Len(t) : t[k] \in S
    BY SeqIsSeq, LenProperties
  <2> QED
    BY <2>1 DEF SubList, S
<1> QED
  BY <1>5, <1>6 DEF a, rm, create, add

(* And the containers it removes.                                          *)
LEMMA RemovalSpecs ==
  ASSUME NEW v, IsSeq(v), NEW new, new = [k \in DOMAIN v |-> Cmd("rm", <<v[k]>>)]
  PROVE  /\ SubList(new) /\ Len(new) = Len(v)
         /\ \A k \in 1..Len(v) : new[k].op = "rm" /\ new[k].args = <<v[k]>>
<1> DEFINE n == Len(v)
           rm(k) == Cmd("rm", <<v[k]>>)
           S == {x \in {rm(k) : k \in 1..n} : SubSpec(x)}
<1>1. n \in Nat /\ DOMAIN v = 1..n
  BY LenProperties DEF IsSeq
<1>2. \A k \in 1..n : SubSpec(rm(k)) /\ rm(k).op = "rm" /\ rm(k).args = <<v[k]>>
  BY PlainFields DEF SubSpec
<1>3. new = [k \in 1..n |-> rm(k)] /\ \A k \in 1..n : rm(k) \in S
  BY <1>1, <1>2
<1> HIDE DEF rm, n
<1>4. new \in [1..n -> S]
  BY <1>3
<1> HIDE DEF S
<1>5. new \in Seq(S) /\ Len(new) = n /\ IsSeq(new) /\ \A k \in 1..n : new[k] = rm(k)
  <2>1. new \in Seq(S) /\ Len(new) = n
    BY <1>1, <1>4, FunctionIsSeq
  <2>2. \A k \in 1..n : new[k] = rm(k)
    BY <1>3
  <2> QED
    BY <2>1, <2>2, SeqIsSeq
<1>6. SubList(new)
  BY <1>2, <1>5 DEF SubList
<1> QED
  BY <1>2, <1>5, <1>6 DEF n

(* Most callbacks return no specs.                                         *)
LEMMA NoSubs == SubList(<<>>)
BY NoSpecs DEF SubList

(* A manifest is of finitely many images.                                  *)
LEMMA ImagesFinite ==
  ASSUME NEW S, IsFiniteSet(S) PROVE IsFiniteSet({m.image : m \in S})
<1> DEFINE T == {m.image : m \in S}
           f == [m \in S |-> m.image]
<1>1. f \in Surjection(S, T)
  BY DEF Surjection
<1> HIDE DEF T, f
<1>2. IsFiniteSet(T)
  BY <1>1, FS_Surjection
<1> QED
  BY <1>2 DEF T

(* A command or callback of buildah fails, or moves so.                    *)
LEMMA CtrMoves ==
  ASSUME EngineInv, Host, NEW g \in Entries, KeptRight(g), BuildahStep(g), stage[g] = "running",
         CtrSpec(Current(g)) \/ SubSpec(Current(g)), Current(g).op \in {"from", "rm"} => ~Current(g).ignore
  PROVE  Fails(g) \/ \E data, new : CtrMove(g, data, new)
<1> DEFINE op == Current(g).op
           Quiet(data) == Succeed(g, data, <<>>) /\ DOMAIN ctrs' \subseteq DOMAIN ctrs
<1>0. SubList(<<>>)
  BY NoSubs
<1>1. ASSUME NEW data, Quiet(data),
             op \notin {"from", "rm", "inspect-container", "keep-current", "delete-containers", "manifest-inspect"}
      PROVE  CtrMove(g, data, <<>>)
  BY <1>0, <1>1 DEF CtrMove, Moves
<1> HIDE DEF Quiet
<1>2. CASE Pull(g)
  <2>1. \E data : Quiet(data)
    BY <1>2 DEF Pull, host, Quiet
  <2> QED
    BY <1>1, <1>2, <2>1 DEF Pull, At
<1>3. CASE From(g)
  <2>1. PICK n : n = Cardinality({d \in DOMAIN ctrs : d[2] = g}) + 1
    OBVIOUS
  <2>2. PICK c : c = <<"container", g, n>>
    OBVIOUS
  <2>3. /\ op = "from" /\ ctrs' = Update(ctrs, c, InImage(Arg(g, 1)))
        /\ Succeed(g, <<"name", c>>, <<>>)
    BY <1>3, <2>1, <2>2 DEF From, At
  <2>4. DOMAIN ctrs' = DOMAIN ctrs \cup {c}
    BY <2>3 DEF Update
  <2>5. CtrMove(g, <<"name", c>>, <<>>)
    BY <1>0, <2>2, <2>3, <2>4 DEF CtrMove, Moves
  <2> QED
    BY <2>5
<1>4. CASE InspectContainer(g)
  <2>1. op = "inspect-container" /\ Succeed(g, Arg(g, 1)[2], <<>>) /\ ctrs' = ctrs
    BY <1>4 DEF InspectContainer, At, host
  <2>2. CtrMove(g, Arg(g, 1)[2], <<>>)
    BY <1>0, <2>1 DEF CtrMove, Moves
  <2> QED
    BY <2>2
<1>5. CASE Run(g) \/ CopyIn(g) \/ Copy(g)
  <2>1. op \in {"run", "copy-in", "copy"} /\ \E content : InContainer(g, content)
    BY <1>5 DEF Run, CopyIn, Copy, At
  <2>2. Quiet(Empty)
    BY <2>1 DEF InContainer, Quiet
  <2> QED
    BY <1>1, <2>1, <2>2
<1>6. CASE Rm(g)
  <2>1. op = "rm" /\ Succeed(g, Empty, <<>>) /\ ctrs' = [c \in DOMAIN ctrs \ {Arg(g, 1)} |-> ctrs[c]]
    BY <1>6 DEF Rm, At
  <2>2. DOMAIN ctrs' = DOMAIN ctrs \ {Arg(g, 1)}
    BY <2>1
  <2>3. CtrMove(g, Empty, <<>>)
    BY <1>0, <2>1, <2>2 DEF CtrMove, Moves
  <2> QED
    BY <2>3
<1>7. CASE KeepCurrent(g)
  <2>1. PICK data : data = IF CURRENT \in DOMAIN replace[g] THEN replace[g][CURRENT].data ELSE Empty
    OBVIOUS
  <2>2. op = "keep-current" /\ Succeed(g, data, <<>>) /\ ctrs' = ctrs
    BY <1>7, <2>1 DEF KeepCurrent, At, host
  <2>3. CtrMove(g, data, <<>>)
    BY <1>0, <2>1, <2>2 DEF CtrMove, Moves
  <2> QED
    BY <2>3
<1>8. CASE DeleteContainers(g)
  <2>0. op = "delete-containers" /\ ctrs' = ctrs
    BY <1>8 DEF DeleteContainers, At, host
  <2>a. ~Current(g).ignore
    BY <2>0 DEF CtrSpec, SubSpec
  <2>1. CASE \A i \in DOMAIN task.steps : Skipped(task.steps[i]) \/ STEP(StepID(i)) \in DOMAIN replace[g]
    <3>1. PICK v : v = Visited(g)
      OBVIOUS
    <3>2. PICK new : new = [k \in DOMAIN v |-> Cmd("rm", <<v[k]>>)]
      OBVIOUS
    <3>3. Succeed(g, Empty, new)
      BY <1>8, <2>1, <3>1, <3>2 DEF DeleteContainers
    <3>4. IsSeq(v) /\ \A i \in Unskipped : \E k \in 1..Len(v) : v[k] = replace[g][STEP(StepID(i))].data
      BY <3>1, VisitedAll DEF Host, StepsTyped
    <3>5. SubList(new) /\ Len(new) = Len(v) /\ \A k \in 1..Len(v) : new[k].op = "rm" /\ new[k].args = <<v[k]>>
      BY <3>2, <3>4, RemovalSpecs
    <3>6. \A i \in Unskipped : /\ STEP(StepID(i)) \in DOMAIN replace[g]
                               /\ \E k \in 1..Len(new) : /\ new[k].op = "rm"
                                                         /\ new[k].args = <<replace[g][STEP(StepID(i))].data>>
      <4> SUFFICES ASSUME NEW i \in Unskipped
                   PROVE  /\ STEP(StepID(i)) \in DOMAIN replace[g]
                          /\ \E k \in 1..Len(new) : /\ new[k].op = "rm"
                                                    /\ new[k].args = <<replace[g][STEP(StepID(i))].data>>
        OBVIOUS
      <4>1. STEP(StepID(i)) \in DOMAIN replace[g]
        BY <2>1 DEF Unskipped
      <4>2. PICK k \in 1..Len(v) : v[k] = replace[g][STEP(StepID(i))].data
        BY <3>4
      <4> QED
        BY <3>5, <4>1, <4>2
    <3>7. CtrMove(g, Empty, new)
      BY <2>0, <2>a, <3>3, <3>5, <3>6 DEF CtrMove, Moves
    <3> QED
      BY <3>7
  <2>2. CASE ~\A i \in DOMAIN task.steps : Skipped(task.steps[i]) \/ STEP(StepID(i)) \in DOMAIN replace[g]
    BY <1>8, <2>a, <2>2 DEF Fails, DeleteContainers
  <2> QED
    BY <2>1, <2>2
<1>9. CASE WriteFile(g)
  <2>0. op \in {"write-file", "write-redacted", "redact-file"} /\ ctrs' = ctrs
    BY <1>9 DEF WriteFile, At, host
  <2>1. (\E data : Succeed(g, data, <<>>)) \/ Fail(g, Empty)
    BY <1>9 DEF WriteFile
  <2>2. CASE \E data : Succeed(g, data, <<>>)
    BY <1>1, <2>0, <2>2 DEF Quiet
  <2>3. CASE Fail(g, Empty)
    <3>1. ~Current(g).ignore => Fails(g)
      BY <2>3 DEF Fails
    <3>2. Current(g).ignore => CtrMove(g, Empty, <<>>)
      BY <1>0, <2>0, <2>3 DEF CtrMove, Moves
    <3> QED
      BY <3>1, <3>2
  <2> QED
    BY <2>1, <2>2, <2>3
<1>10. CASE Commit(g) \/ Bud(g) \/ ReadIidFile(g) \/ TagImage(g) \/ InspectImage(g)
  <2>1. /\ op \in {"commit", "commit-final", "bud", "read-iidfile", "tag", "inspect-image"}
        /\ \E data : Quiet(data)
    BY <1>10 DEF Commit, Bud, ReadIidFile, TagImage, InspectImage, At, host, Quiet
  <2> QED
    BY <1>1, <2>1
<1>11. CASE ManifestCreate(g) \/ ManifestRemove(g) \/ ManifestAdd(g) \/ Push(g) \/ Login(g)
  <2>1. /\ op \in {"manifest-create", "manifest-remove", "manifest-add", "push", "manifest-push", "login"}
        /\ \E data : Quiet(data)
    BY <1>11 DEF ManifestCreate, ManifestRemove, ManifestAdd, Push, Login, At, host, Quiet
  <2> QED
    BY <1>1, <2>1
<1>12. CASE ManifestInspect(g)
  <2>1. PICK m, data : m = manifests[Arg(g, 1)] /\ data = <<"spec", m>>
    OBVIOUS
  <2>2. op = "manifest-inspect" /\ Arg(g, 1) \in DOMAIN manifests /\ Succeed(g, data, <<>>) /\ ctrs' = ctrs
    BY <1>12, <2>1 DEF ManifestInspect, At, host
  <2>3. IsFiniteSet(m) /\ data[2] = m
    BY <2>1, <2>2 DEF Host
  <2>4. CtrMove(g, data, <<>>)
    BY <1>0, <2>2, <2>3 DEF CtrMove, Moves
  <2> QED
    BY <2>4
<1>13. CASE ManifestUpdate(g)
  <2>0. op = "manifest-update" /\ ctrs' = ctrs
    BY <1>13 DEF ManifestUpdate, At, host
  <2>a. ~Current(g).ignore
    BY <2>0 DEF CtrSpec, SubSpec
  <2> DEFINE name == Arg(g, 1)
             add == <<Cmd("manifest-add", <<name, IMAGE_ID>>)>>
             spec == replace[g][MANIFEST_SPEC].data
             old == IF spec = Empty THEN {} ELSE {m.image : m \in SamePlatform(g, spec[2])}
             one == <<Cmd("manifest-create", <<name>>)>> \o add
             more == [k \in 1..Cardinality(old) |-> Cmd("manifest-remove", <<name, SetToSeq(old)[k]>>)] \o add
  <2>1. Succeed(g, Empty, IF MANIFEST_SPEC \notin DOMAIN replace[g] THEN one ELSE more)
    BY <1>13 DEF ManifestUpdate
  <2>2. SubList(one)
    BY UpdateSpecs
  <2>3. ASSUME MANIFEST_SPEC \in DOMAIN replace[g] PROVE SubList(more)
    <3>1. IsFiniteSet(old)
      <4>1. CASE spec = Empty
        BY <4>1, FS_EmptySet
      <4>2. CASE spec # Empty
        <5>1. IsFiniteSet(spec[2])
          BY <2>3, <4>2 DEF KeptRight
        <5>2. PICK S : S = SamePlatform(g, spec[2])
          OBVIOUS
        <5>3. IsFiniteSet(S)
          BY <5>1, <5>2, FS_Subset DEF SamePlatform
        <5>4. IsFiniteSet({m.image : m \in S})
          BY <5>3, ImagesFinite
        <5> QED
          BY <4>2, <5>2, <5>4
      <4> QED
        BY <4>1, <4>2
    <3>2. Cardinality(old) \in Nat
      BY <3>1, FS_CardinalityType
    <3> QED
      BY <3>2, UpdateSpecs
  <2>4. PICK new : Succeed(g, Empty, new) /\ SubList(new)
    <3> HIDE DEF one, more
    <3> QED
      BY <2>1, <2>2, <2>3
  <2>5. CtrMove(g, Empty, new)
    BY <2>0, <2>a, <2>4 DEF CtrMove, Moves
  <2> QED
    BY <2>5
<1>14. CASE CommandFails(g)
  <2>1. op \in BuildahCommands /\ (Fail(g, Empty) \/ NoToolCmd(g)) /\ ctrs' = ctrs
    BY <1>14 DEF CommandFails, host
  <2>2. op \notin {"keep-current", "delete-containers"}
    BY <2>1 DEF BuildahCommands
  <2>3. CASE Fail(g, Empty) /\ Current(g).ignore
    <3>1. CtrMove(g, Empty, <<>>)
      BY <1>0, <2>1, <2>2, <2>3 DEF CtrMove, Moves
    <3> QED
      BY <3>1
  <2>4. CASE NoToolCmd(g) \/ (Fail(g, Empty) /\ ~Current(g).ignore)
    BY <2>4 DEF Fails
  <2> QED
    BY <2>1, <2>3, <2>4
<1> QED
  BY <1>2, <1>3, <1>4, <1>5, <1>6, <1>7, <1>8, <1>9, <1>10, <1>11, <1>12, <1>13, <1>14 DEF BuildahStep

(* What an entry keeps when it moves.                                      *)
LEMMA MoveKeeps ==
  ASSUME EngineInv, NEW g \in Entries, stage[g] = "running", NEW data, NEW new, Moves(g, data, new)
  PROVE  /\ Current(g).out = NoToken => replace'[g] = replace[g]
         /\ Current(g).out # NoToken =>
              /\ DOMAIN replace'[g] = DOMAIN replace[g] \cup {Current(g).out}
              /\ replace'[g][Current(g).out].data = data
              /\ Current(g).ignore \/ replace'[g][Current(g).out].ok
              /\ \A t \in DOMAIN replace[g] : t # Current(g).out => replace'[g][t] = replace[g][t]
<1>1. PICK ok \in BOOLEAN : Keep(g, data, ok) /\ (Current(g).ignore \/ ok)
  BY DEF Moves, Succeed, Fail
<1>2. /\ Current(g).out = NoToken => replace'[g] = replace[g]
      /\ Current(g).out # NoToken => replace'[g] = Update(replace[g], Current(g).out, [data |-> data, ok |-> ok])
  BY <1>1, KeptOutput
<1>3. ASSUME Current(g).out # NoToken
      PROVE  /\ DOMAIN replace'[g] = DOMAIN replace[g] \cup {Current(g).out}
             /\ replace'[g][Current(g).out].data = data
             /\ Current(g).ignore \/ replace'[g][Current(g).out].ok
             /\ \A t \in DOMAIN replace[g] : t # Current(g).out => replace'[g][t] = replace[g][t]
  BY <1>1, <1>2, <1>3 DEF Update
<1> QED
  BY <1>2, <1>3

(* Its list of specs is not about what changes.                            *)
LEMMA CtrListStays ==
  ASSUME task' = task, NEW l, CtrList(l) PROVE CtrList(l)'
<1>1. Unskipped' = Unskipped
  BY DEF Unskipped
<1>2. \A i : StepID(i)' = StepID(i)
  BY DEF StepID
<1>3. \A q : KeptFrom(l, q) => KeptFrom(l, q)'
  BY <1>1, <1>2 DEF KeptFrom, MakesContainer, KeepSpec
<1> QED
  BY <1>3 DEF CtrList

(* The spec an entry has come to is of one list or the other.              *)
LEMMA CurrentCtr ==
  ASSUME EngineInv, NEW g \in Entries, stage[g] = "running", NEW l, NEW p, NEW sub, CtrsKept(g, l, p, sub)
  PROVE  /\ ComesTo(g, l, p, sub) /\ Here(g, l, p, sub)
         /\ sub = <<>> => p \in 1..Len(l) /\ Current(g) = l[p] /\ CtrSpec(l[p])
         /\ sub # <<>> => Current(g) = sub[1] /\ SubSpec(sub[1]) /\ Len(sub) \in Nat \ {0}
         /\ CtrSpec(Current(g)) \/ SubSpec(Current(g))
         /\ Current(g).op \in {"from", "rm"} => ~Current(g).ignore
<1>1. ComesTo(g, l, p, sub) /\ CtrList(l) /\ SubList(sub)
  BY DEF CtrsKept, Placed
<1>2. Here(g, l, p, sub)
  BY <1>1, PlaceCurrent DEF CtrList
<1>3. ASSUME sub = <<>>
      PROVE  /\ p \in 1..Len(l) /\ Current(g) = l[p] /\ CtrSpec(l[p])
             /\ Current(g).op \in {"from", "rm"} => ~Current(g).ignore
  <2>1. p \in 1..Len(l) /\ Current(g) = l[p]
    BY <1>2, <1>3 DEF Here
  <2>2. CtrSpec(l[p]) /\ (l[p].op = "from" => KeptFrom(l, p))
    BY <1>1, <2>1 DEF CtrList
  <2> QED
    BY <2>1, <2>2 DEF KeptFrom, MakesContainer, CtrSpec
<1>4. ASSUME sub # <<>> PROVE Current(g) = sub[1] /\ SubSpec(sub[1]) /\ Len(sub) \in Nat \ {0}
  <2>1. Current(g) = sub[1]
    BY <1>2, <1>4 DEF Here
  <2>2. Len(sub) \in Nat \ {0}
    BY <1>1, <1>4, EmptySeq, LenProperties DEF SubList, IsSeq
  <2> QED
    BY <1>1, <2>1, <2>2 DEF SubList
<1> QED
  BY <1>1, <1>2, <1>3, <1>4 DEF CtrSpec, SubSpec

(* A container is still removable when the entry has moved.                *)
LEMMA CtrProceeds ==
  ASSUME EngineInv, Host, task' = task, NEW g \in Entries, stage[g] = "running",
         KeptRight(g), NEW l, NEW p, NEW sub, CtrsKept(g, l, p, sub), NEW data, NEW new, CtrMove(g, data, new)
  PROVE  KeptRight(g)' /\ \E l2, p2, sub2 : CtrsKept(g, l2, p2, sub2)'
<1> DEFINE x == Current(g)
<1>1. /\ ComesTo(g, l, p, sub) /\ Here(g, l, p, sub)
      /\ sub = <<>> => p \in 1..Len(l) /\ x = l[p] /\ CtrSpec(l[p])
      /\ sub # <<>> => x = sub[1] /\ SubSpec(sub[1]) /\ Len(sub) \in Nat \ {0}
      /\ CtrSpec(x) \/ SubSpec(x)
  BY CurrentCtr
<1>2. /\ CtrList(l) /\ SubList(sub) /\ SubList(new) /\ Moves(g, data, new)
      /\ \A c \in DOMAIN ctrs : c[2] = g => Removable(g, l, p, sub, c)
  BY DEF CtrsKept, CtrMove
<1>3. x.ignore \in BOOLEAN /\ OutSpec(x) /\ (x.ignore => new = <<>>) /\ (sub # <<>> => new = <<>>)
  <2>1. x.ignore \in BOOLEAN
    BY <1>1 DEF CtrSpec, SubSpec
  <2>2. OutSpec(x)
    <3>1. MANIFEST_SPEC # NoToken
      BY TokensDiffer DEF Tokens
    <3> QED
      BY <1>1, <3>1 DEF CtrSpec, SubSpec, OutSpec
  <2>3. sub # <<>> => new = <<>>
    BY <1>1 DEF CtrMove, SubSpec
  <2> QED
    BY <2>1, <2>2, <2>3 DEF CtrMove
<1>4. IF sub = <<>> THEN Placed(g, l, p + 1, new)' ELSE Placed(g, l, p, Tail(sub))'
  BY <1>1, <1>2, <1>3, PlaceMoves DEF CtrList, SubList
<1>5. /\ x.out = NoToken => replace'[g] = replace[g]
      /\ x.out # NoToken =>
           /\ DOMAIN replace'[g] = DOMAIN replace[g] \cup {x.out}
           /\ replace'[g][x.out].data = data
           /\ \A t \in DOMAIN replace[g] : t # x.out => replace'[g][t] = replace[g][t]
  BY <1>2, MoveKeeps
<1>6. KeptRight(g)'
  <2>1. x.out # NoToken => IsToken(x.out)
    BY <1>3, TokensDiffer DEF OutSpec
  <2>2. x.out = MANIFEST_SPEC => data = Empty \/ IsFiniteSet(data[2])
    BY <1>3 DEF OutSpec, CtrMove
  <2>3. CASE x.out = NoToken
    BY <1>5, <2>3 DEF KeptRight
  <2>4. CASE x.out # NoToken
    <3>1. \A t \in DOMAIN replace'[g] : IsToken(t)
      BY <1>5, <2>1, <2>4 DEF KeptRight
    <3>2. ASSUME MANIFEST_SPEC \in DOMAIN replace'[g]
          PROVE  replace'[g][MANIFEST_SPEC].data = Empty \/ IsFiniteSet(replace'[g][MANIFEST_SPEC].data[2])
      <4>1. CASE x.out = MANIFEST_SPEC
        BY <1>5, <2>2, <2>4, <4>1
      <4>2. CASE x.out # MANIFEST_SPEC
        BY <1>5, <2>4, <3>2, <4>2 DEF KeptRight
      <4> QED
        BY <4>1, <4>2
    <3> QED
      BY <3>1, <3>2 DEF KeptRight
  <2> QED
    BY <2>3, <2>4
<1>7. CtrList(l)'
  BY <1>2, CtrListStays
<1>8. \A i : StepID(i)' = StepID(i) /\ Unskipped' = Unskipped
  BY DEF StepID, Unskipped
<1>9. CASE sub # <<>>
  <2>1. x = sub[1] /\ SubSpec(x) /\ Len(sub) \in Nat \ {0} /\ x.out = NoToken
    BY <1>1, <1>9 DEF SubSpec
  <2>2. replace'[g] = replace[g]
    BY <1>5, <2>1
  <2>3. PICK S : sub \in Seq(S)
    BY <1>2 DEF SubList, IsSeq
  <2>4. /\ Tail(sub) \in Seq(S) /\ Len(Tail(sub)) = Len(sub) - 1
        /\ \A k \in 1..Len(Tail(sub)) : k + 1 \in 1..Len(sub) /\ Tail(sub)[k] = sub[k + 1]
    BY <1>9, <2>3, TailElements
  <2>5. SubList(Tail(sub))
    BY <1>2, <2>4, SeqIsSeq DEF SubList
  <2>6. ASSUME NEW c \in DOMAIN ctrs', c[2] = g PROVE Removable(g, l, p, Tail(sub), c)'
    <3>1. x.op # "from" /\ DOMAIN ctrs' \subseteq DOMAIN ctrs
      BY <2>1 DEF SubSpec, CtrMove
    <3>2. c \in DOMAIN ctrs /\ Removable(g, l, p, sub, c)
      BY <1>2, <2>6, <3>1
    <3>3. ASSUME NEW k \in 1..Len(sub), sub[k].op = "rm", sub[k].args = <<c>>
          PROVE  \E j \in 1..Len(Tail(sub)) : Tail(sub)[j].op = "rm" /\ Tail(sub)[j].args = <<c>>
      <4>1. CASE k = 1
        <5>1. x.op = "rm" /\ x.args = <<c>>
          BY <2>1, <3>3, <4>1
        <5>2. ~IsToken(c)
          <6>1. PICK a, b : c = <<"container", a, b>>
            BY <3>2 DEF Host
          <6> QED
            BY <6>1, NotTokens
        <5>3. c \notin DOMAIN replace[g]
          BY <5>2 DEF KeptRight
        <5>4. Arg(g, 1) = c
          BY <5>1, <5>3 DEF Arg, Value
        <5> QED
          BY <2>6, <5>1, <5>4 DEF CtrMove
      <4>2. CASE k # 1
        <5>1. PICK n : n = Len(sub)
          OBVIOUS
        <5>2. k - 1 \in 1..(n - 1) /\ (k - 1) + 1 = k
          BY <2>1, <4>2, <5>1
        <5>3. k - 1 \in 1..Len(Tail(sub)) /\ Tail(sub)[k - 1] = sub[k]
          BY <2>4, <5>1, <5>2
        <5> QED
          BY <3>3, <5>3
      <4> QED
        BY <4>1, <4>2
    <3>4. Remembered(g, l, p, c) => Remembered(g, l, p, c)'
      BY <1>8, <2>2 DEF Remembered
    <3> QED
      BY <3>2, <3>3, <3>4 DEF Removable
  <2>7. CtrsKept(g, l, p, Tail(sub))'
    BY <1>4, <1>7, <1>9, <2>5, <2>6 DEF CtrsKept
  <2> QED
    BY <1>6, <2>7
<1>10. CASE sub = <<>>
  <2>1. p \in 1..Len(l) /\ x = l[p] /\ CtrSpec(x) /\ Len(l) \in Nat
    BY <1>1, <1>2, <1>10, LenProperties DEF CtrList, IsSeq
  <2>2. p \in Nat \ {0} /\ p + 1 > 1 /\ (p + 1) - 1 = p /\ (p > 1 => p + 1 > 2 /\ (p + 1) - 2 = p - 1)
    BY <2>1
  <2>3. x.op = "from" => KeptFrom(l, p)
    BY <1>2, <2>1 DEF CtrList
  <2>4. ASSUME NEW c \in DOMAIN ctrs', c[2] = g PROVE Removable(g, l, p + 1, new, c)'
    <3>1. CASE c \notin DOMAIN ctrs
      <4>1. x.op = "from"
        BY <3>1, <2>4 DEF CtrMove
      <4>2. data = <<"name", c>>
        BY <3>1, <2>4, <4>1 DEF CtrMove
      <4>3. x.out = CTR_NAME /\ \E D \in (p + 3)..Len(l) : l[D].op = "delete-containers"
        BY <2>1, <2>3, <4>1 DEF KeptFrom, MakesContainer
      <4>4. \E D \in (p + 1)..Len(l) : l[D].op = "delete-containers"
        BY <2>1, <4>3
      <4>5. CTR_NAME # NoToken
        BY TokensDiffer DEF Tokens
      <4>6. CTR_NAME \in DOMAIN replace'[g] /\ replace'[g][CTR_NAME].data = <<"name", c>>
        BY <1>5, <4>2, <4>3, <4>5
      <4>7. l[(p + 1) - 1].op = "from"
        BY <2>1, <2>2, <4>1
      <4>8. Remembered(g, l, p + 1, c)'
        BY <2>2, <4>6, <4>7 DEF Remembered
      <4> QED
        BY <4>4, <4>8 DEF Removable
    <3>2. CASE c \in DOMAIN ctrs
      <4>1. Removable(g, l, p, sub, c)
        BY <1>2, <2>4, <3>2
      <4>2. Len(sub) = 0
        BY <1>10, NoSpecs
      <4>3. PICK D \in p..Len(l) : l[D].op = "delete-containers"
        BY <4>1, <4>2 DEF Removable
      <4>4. Remembered(g, l, p, c)
        BY <4>1, <4>2 DEF Removable
      <4>5. ASSUME NEW i \in Unskipped, STEP(StepID(i)) \in DOMAIN replace[g],
                   replace[g][STEP(StepID(i))].data = c, \A r \in p..Len(l) : l[r].out # STEP(StepID(i))
            PROVE  /\ x.op = "delete-containers" => Removable(g, l, p + 1, new, c)'
                   /\ Remembered(g, l, p + 1, c)'
        <5>1. x.op = "delete-containers" => \E k \in 1..Len(new) : new[k].op = "rm" /\ new[k].args = <<c>>
          BY <4>5 DEF CtrMove
        <5>2. x.out # STEP(StepID(i))
          BY <2>1, <4>5
        <5>3. STEP(StepID(i)) \in DOMAIN replace'[g] /\ replace'[g][STEP(StepID(i))].data = c
          BY <1>5, <4>5, <5>2
        <5>4. \A r \in (p + 1)..Len(l) : l[r].out # STEP(StepID(i))
          BY <2>1, <4>5
        <5>5. Remembered(g, l, p + 1, c)'
          BY <1>8, <5>3, <5>4 DEF Remembered
        <5> QED
          BY <5>1, <5>5 DEF Removable
      <4>6. ASSUME p > 1, l[p - 1].op = "from", CTR_NAME \in DOMAIN replace[g], replace[g][CTR_NAME].data = <<"name", c>>
            PROVE  x.op # "delete-containers" /\ Remembered(g, l, p + 1, c)'
        <5>1. p - 1 \in 1..Len(l) /\ (p - 1) + 1 = p
          BY <2>1, <4>6
        <5>2. KeptFrom(l, p - 1)
          BY <1>2, <4>6, <5>1 DEF CtrList
        <5>3. x.op = "inspect-container" /\ x.args = <<CTR_NAME>> /\ x.out = CURRENT /\ ~x.ignore
          BY <2>1, <5>1, <5>2 DEF KeptFrom, MakesContainer
        <5>4. Arg(g, 1) = <<"name", c>>
          BY <4>6, <5>3 DEF Arg, Value
        <5>5. data = c
          BY <5>3, <5>4 DEF CtrMove
        <5>6. CURRENT # NoToken
          BY TokensDiffer DEF Tokens
        <5>7. CURRENT \in DOMAIN replace'[g] /\ replace'[g][CURRENT].data = c
          BY <1>5, <5>3, <5>5, <5>6
        <5>8. l[(p + 1) - 2].op = "from" /\ p + 1 > 2
          BY <2>2, <4>6
        <5>9. Remembered(g, l, p + 1, c)'
          BY <5>7, <5>8 DEF Remembered
        <5> QED
          BY <5>3, <5>9
      <4>7. ASSUME p > 2, l[p - 2].op = "from", CURRENT \in DOMAIN replace[g], replace[g][CURRENT].data = c
            PROVE  x.op # "delete-containers" /\ Remembered(g, l, p + 1, c)'
        <5>1. p - 2 \in 1..Len(l) /\ (p - 2) + 2 = p /\ (p - 2) + 3 = p + 1
          BY <2>1, <4>7
        <5>2. KeptFrom(l, p - 2)
          BY <1>2, <4>7, <5>1 DEF CtrList
        <5>3. PICK i \in Unskipped : /\ MakesContainer(l, p - 2, i)
                                     /\ \A r \in ((p - 2) + 3)..Len(l) : l[r].out # STEP(StepID(i))
          BY <5>2 DEF KeptFrom
        <5>4. KeepSpec(i, x)
          BY <2>1, <5>1, <5>3 DEF MakesContainer
        <5>5. x.op = "keep-current" /\ x.out = STEP(StepID(i)) /\ data = c
          BY <4>7, <5>4 DEF KeepSpec, CtrMove
        <5>6. x.out # NoToken
          BY <5>5, TokensDiffer
        <5>7. STEP(StepID(i)) \in DOMAIN replace'[g] /\ replace'[g][STEP(StepID(i))].data = c
          BY <1>5, <5>5, <5>6
        <5>8. \A r \in (p + 1)..Len(l) : l[r].out # STEP(StepID(i))
          BY <5>1, <5>3
        <5>9. Remembered(g, l, p + 1, c)'
          BY <1>8, <5>7, <5>8 DEF Remembered
        <5> QED
          BY <5>5, <5>9
      <4>8. CASE x.op = "delete-containers"
        BY <4>4, <4>5, <4>6, <4>7, <4>8 DEF Remembered
      <4>9. CASE x.op # "delete-containers"
        <5>1. D # p
          BY <2>1, <4>3, <4>9
        <5>2. D \in (p + 1)..Len(l)
          BY <2>1, <5>1
        <5>3. Remembered(g, l, p + 1, c)'
          BY <4>4, <4>5, <4>6, <4>7 DEF Remembered
        <5> QED
          BY <4>3, <5>2, <5>3 DEF Removable
      <4> QED
        BY <4>8, <4>9
    <3> QED
      BY <3>1, <3>2
  <2>5. CtrsKept(g, l, p + 1, new)'
    BY <1>2, <1>4, <1>7, <1>10, <2>4 DEF CtrsKept
  <2> QED
    BY <1>6, <2>5
<1> QED
  BY <1>9, <1>10

(* What GetExecSpecs of buildah generates makes no container it does not   *)
(* remove.                                                                 *)
LEMMA BuildContainers ==
  ASSUME IsSeq(task.names), NEW g, NEW l, l = BuildSpecs(g) PROVE CtrList(l)
<1>1. /\ IsSeq(l) /\ Len(l) \in Nat
      /\ l[1] = Cmd("bud", <<>>) /\ l[2] = CmdInto("read-iidfile", <<>>, IMAGE_ID)
      /\ l[3] = CmdInto("inspect-image", <<IMAGE_ID>>, DIGEST)
      /\ \E at : ManifestsAt(g, l, at) /\ ManifestsOnly(g, l, at, 4)
  BY BuildListed
<1>2. MANIFEST_SPEC \notin {NoToken, IMAGE_ID, DIGEST} /\ IMAGE_ID \in Tokens /\ DIGEST \in Tokens /\ MANIFEST_SPEC \in Tokens
  BY TokensDiffer DEF Tokens
<1>3. NoCtrSpec(l[1])
  BY <1>1, <1>2, PlainFields DEF NoCtrSpec, CtrSpec, OutSpec
<1>4. NoCtrSpec(l[2])
  BY <1>1, <1>2, IntoFields DEF NoCtrSpec, CtrSpec, OutSpec
<1>5. NoCtrSpec(l[3])
  BY <1>1, <1>2, IntoFields DEF NoCtrSpec, CtrSpec, OutSpec
<1>6. ASSUME NEW q \in 4..Len(l) PROVE NoCtrSpec(l[q])
  <2>1. TailSpec(l[q])
    BY <1>1, ManifestTail
  <2> QED
    BY <1>2, <2>1 DEF TailSpec, TailOps, NoCtrSpec, CtrSpec, OutSpec
<1>7. \A q \in 1..Len(l) : q = 1 \/ q = 2 \/ q = 3 \/ q \in 4..Len(l)
  BY <1>1
<1> QED
  BY <1>1, <1>3, <1>4, <1>5, <1>6, <1>7, NoContainers

(* Nor does what `push` generates.                                         *)
LEMMA PushContainers ==
  ASSUME NEW l, IsSeq(l), \A q \in DOMAIN l : PushSpec(l[q]) PROVE CtrList(l)
<1>1. MANIFEST_SPEC # NoToken
  BY TokensDiffer DEF Tokens
<1>2. \A x : PushSpec(x) => NoCtrSpec(x)
  BY <1>1 DEF PushSpec, NoCtrSpec, CtrSpec, OutSpec
<1>3. \A q \in 1..Len(l) : q \in DOMAIN l
  BY LenProperties DEF IsSeq
<1> QED
  BY <1>2, <1>3, NoContainers

(* The cache is of the manifests of some entries.                          *)
LEMMA CacheFinite ==
  ASSUME IsSeq(task.names), IsFiniteSet(mcache), NEW g PROVE IsFiniteSet(Cached(g))
<1> DEFINE entry(i) == [name |-> ManifestName(i, g), sub |-> i, seq |-> g]
           mine == {entry(i) : i \in Reached(g)}
           others == {m \in mcache : \A n \in mine : n.name # m.name}
<1>1. Cached(g) = others \cup mine
  BY DEF Cached
<1>2. IsFiniteSet(mine)
  <2> DEFINE D == Reached(g)
             f == [i \in D |-> entry(i)]
  <2>1. f \in Surjection(D, mine)
    BY DEF Surjection
  <2>2. IsFiniteSet(D)
    BY NamedFinite, FS_Subset DEF Reached
  <2> HIDE DEF D, mine, f
  <2> QED
    BY <2>1, <2>2, FS_Surjection
<1> HIDE DEF mine
<1>3. IsFiniteSet(others)
  BY FS_Subset
<1> HIDE DEF others
<1> QED
  BY <1>1, <1>2, <1>3, FS_Union

(* An entry that gets its specs can remove what they will make.            *)
LEMMA CtrGenerates ==
  ASSUME EngineInv, CtrInv, DistinctIDs, NEW g \in Entries, GenBuildah(g)
  PROVE  Host' /\ CtrEntry(g)' /\ ctrs' = ctrs /\ task' = task
<1>0. /\ task' = task /\ ctrs' = ctrs /\ manifests' = manifests
      /\ stage[g] = "started"
  BY DEF GenBuildah, GenPush, Generated, NotGenerated
<1>1. DOMAIN replace[g] = {} /\ \A c \in DOMAIN ctrs : c[2] # g
  BY <1>0 DEF CtrInv, CtrEntry
<1>2. StepsTyped /\ IsSeq(task.names) /\ IsSeq(task.steps) /\ IsFiniteSet(mcache)
  BY DEF CtrInv, Host, StepsTyped
<1>3. IsFiniteSet(mcache')
  BY <1>2, CacheFinite, FS_EmptySet DEF GenBuildah, GenPush
<1>4. Host'
  BY <1>0, <1>3 DEF CtrInv, Host, StepsTyped
<1>5. ASSUME NotGenerated(g) PROVE CtrEntry(g)'
  <2>1. stage'[g] = "failed"
    BY <1>5 DEF NotGenerated, Goto, EngineInv, TypeOK, ExecTypeOK
  <2> QED
    BY <2>1 DEF CtrEntry
<1>6. ASSUME NEW l, CtrList(l), Generated(g, l) PROVE CtrEntry(g)'
  <2>1. Placed(g, l, 1, <<>>)'
    BY <1>6, PlaceStarts DEF CtrList
  <2>2. stage'[g] \in {"running", "ok"}
    BY <2>1 DEF Placed
  <2>3. replace' = replace
    BY <1>6 DEF Generated
  <2>4. KeptRight(g)'
    BY <1>1, <2>3 DEF KeptRight
  <2>5. CtrList(l)'
    BY <1>0, <1>6, CtrListStays
  <2>6. CtrsKept(g, l, 1, <<>>)'
    BY <1>0, <1>1, <2>1, <2>5, NoSubs DEF CtrsKept
  <2> QED
    BY <2>2, <2>4, <2>6 DEF CtrEntry
<1>7. CASE NotGenerated(g)
  BY <1>0, <1>4, <1>5, <1>7
<1>8. CASE KindsKnown /\ Generated(g, XBuildSpecs(g))
  <2>1. PICK l : l = XBuildSpecs(g)
    OBVIOUS
  <2>2. PICK off, D, M, at : XBuildList(g, l, off, D, M, at)
    BY <1>2, <1>8, <2>1, XBuildListed
  <2>3. CtrList(l)
    BY <1>8, <2>2, XBuildContainers
  <2> QED
    BY <1>0, <1>4, <1>6, <1>8, <2>1, <2>3
<1>9. CASE Generated(g, BuildSpecs(g))
  <2>1. PICK l : l = BuildSpecs(g)
    OBVIOUS
  <2>2. CtrList(l)
    BY <1>2, <2>1, BuildContainers
  <2> QED
    BY <1>0, <1>4, <1>6, <1>9, <2>1, <2>2
<1>10. CASE GenPush(g)
  <2>1. NotGenerated(g) \/ Generated(g, PushImageSpecs(g))
        \/ \E ms \in Sorted(Cached(g)) : Generated(g, PushImageSpecs(g) \o ManifestPushSpecs(ms))
    BY <1>10 DEF GenPush
  <2>2. ASSUME NEW l, IsSeq(l), \A q \in DOMAIN l : PushSpec(l[q]), Generated(g, l) PROVE CtrEntry(g)'
    BY <1>6, <2>2, PushContainers
  <2>3. CASE Generated(g, PushImageSpecs(g))
    BY <1>0, <1>2, <1>4, <2>2, <2>3, PushesListed
  <2>4. ASSUME NEW ms \in Sorted(Cached(g)), Generated(g, PushImageSpecs(g) \o ManifestPushSpecs(ms))
        PROVE  CtrEntry(g)'
    <3>1. PICK l : l = PushImageSpecs(g) \o ManifestPushSpecs(ms)
      OBVIOUS
    <3>2. IsFiniteSet(Cached(g))
      BY <1>2, CacheFinite
    <3>3. IsSeq(l) /\ \A q \in DOMAIN l : PushSpec(l[q])
      BY <1>2, <3>1, <3>2, PushesListed
    <3> QED
      BY <2>2, <2>4, <3>1, <3>3
  <2> QED
    BY <1>0, <1>4, <1>5, <2>1, <2>3, <2>4
<1>11. CASE Generated(g, <<Cmd("login", <<>>)>>)
  <2>1. PICK x : x = Cmd("login", <<>>)
    OBVIOUS
  <2>2. NoCtrSpec(x)
    <3>1. MANIFEST_SPEC # NoToken
      BY TokensDiffer DEF Tokens
    <3> QED
      BY <2>1, <3>1, PlainFields DEF NoCtrSpec, CtrSpec, OutSpec
  <2>3. IsSeq(<<x>>) /\ Len(<<x>>) = 1 /\ <<x>>[1] = x
    BY OneSpec
  <2>4. PICK l : l = <<x>>
    OBVIOUS
  <2>5. CtrList(l)
    BY <2>2, <2>3, <2>4, NoContainers
  <2> QED
    BY <1>0, <1>4, <1>6, <1>11, <2>1, <2>4, <2>5
<1> QED
  BY <1>7, <1>8, <1>9, <1>10, <1>11 DEF GenBuildah, KindsKnown

(* What a step of buildah does to what the entries share.                  *)
LEMMA HostKept ==
  ASSUME CtrInv, NEW g \in Entries, BuildahStep(g)
  PROVE  /\ Host' /\ task' = task
         /\ \A c \in DOMAIN ctrs' : c \in DOMAIN ctrs \/ \E n : c = <<"container", g, n>>
<1>0. task' = task /\ mcache' = mcache
  BY DEF BuildahStep, fixed
<1> DEFINE Ctrs == \A c \in DOMAIN ctrs' : c \in DOMAIN ctrs \/ \E n : c = <<"container", g, n>>
           Mans == \A n \in DOMAIN manifests' : IsFiniteSet(manifests'[n])
<1>1. Host
  BY DEF CtrInv
<1>2. ctrs' = ctrs => Ctrs
  OBVIOUS
<1>3. manifests' = manifests => Mans
  BY <1>1 DEF Host
<1> SUFFICES Ctrs /\ Mans
  <2>1. ASSUME Ctrs PROVE \A c \in DOMAIN ctrs' : \E h, k : c = <<"container", h, k>>
    BY <1>1, <2>1 DEF Host
  <2> QED
    BY <1>0, <1>1, <2>1 DEF Host, StepsTyped
<1> HIDE DEF Mans, Ctrs
<1>4. CASE From(g)
  <2>1. PICK c, v, n : ctrs' = Update(ctrs, c, v) /\ c = <<"container", g, n>>
    BY <1>4 DEF From
  <2>2. DOMAIN ctrs' = DOMAIN ctrs \cup {c}
    BY <2>1 DEF Update
  <2>3. manifests' = manifests
    BY <1>4 DEF From
  <2> QED
    BY <1>3, <2>1, <2>2, <2>3 DEF Ctrs
<1>5. CASE Run(g) \/ CopyIn(g) \/ Copy(g) \/ Rm(g)
  <2>1. manifests' = manifests /\ \/ \E c, v : ctrs' = [ctrs EXCEPT ![c] = v]
                                  \/ \E X : ctrs' = [c \in DOMAIN ctrs \ X |-> ctrs[c]]
    BY <1>5 DEF Run, CopyIn, Copy, Rm, InContainer
  <2> QED
    BY <1>3, <2>1 DEF Ctrs
<1>6. CASE Pull(g) \/ InspectContainer(g) \/ KeepCurrent(g) \/ DeleteContainers(g) \/ WriteFile(g)
           \/ Commit(g) \/ Bud(g) \/ ReadIidFile(g) \/ TagImage(g) \/ InspectImage(g)
           \/ ManifestInspect(g) \/ ManifestUpdate(g) \/ Push(g) \/ Login(g) \/ CommandFails(g)
  <2>1. ctrs' = ctrs /\ manifests' = manifests
    BY <1>6 DEF Pull, InspectContainer, KeepCurrent, DeleteContainers, WriteFile, Commit, Bud, ReadIidFile,
                TagImage, InspectImage, ManifestInspect, ManifestUpdate, Push, Login, CommandFails, host
  <2> QED
    BY <1>2, <1>3, <2>1
<1>7. CASE ManifestCreate(g)
  <2>1. PICK x : ctrs' = ctrs /\ manifests' = Update(manifests, x, {})
    BY <1>7 DEF ManifestCreate
  <2>2. \A n \in DOMAIN manifests' : manifests'[n] = {} \/ (n \in DOMAIN manifests /\ manifests'[n] = manifests[n])
    BY <2>1 DEF Update
  <2>3. Mans
    BY <1>1, <2>2, FS_EmptySet DEF Mans, Host
  <2> QED
    BY <1>2, <2>1, <2>3
<1>8. CASE ManifestRemove(g) \/ ManifestAdd(g)
  <2>1. PICK x, X, Y : ctrs' = ctrs /\ manifests' = [manifests EXCEPT ![x] = (@ \ X) \cup Y] /\ IsFiniteSet(Y)
    <3>1. CASE ManifestRemove(g)
      <4>1. PICK x, X : ctrs' = ctrs /\ manifests' = [manifests EXCEPT ![x] = @ \ X]
        BY <3>1 DEF ManifestRemove
      <4>2. manifests' = [manifests EXCEPT ![x] = (@ \ X) \cup {}]
        BY <4>1
      <4> QED
        BY <4>1, <4>2, FS_EmptySet
    <3>2. CASE ManifestAdd(g)
      <4>1. PICK x, y : ctrs' = ctrs /\ manifests' = [manifests EXCEPT ![x] = @ \cup {y}]
        BY <3>2 DEF ManifestAdd
      <4>2. manifests' = [manifests EXCEPT ![x] = (@ \ {}) \cup {y}]
        BY <4>1
      <4> QED
        BY <4>1, <4>2, FS_Singleton
    <3> QED
      BY <1>8, <3>1, <3>2
  <2>2. ASSUME NEW n \in DOMAIN manifests' PROVE IsFiniteSet(manifests'[n])
    <3>1. n \in DOMAIN manifests /\ (manifests'[n] = manifests[n] \/ manifests'[n] = (manifests[n] \ X) \cup Y)
      BY <2>1
    <3>2. IsFiniteSet(manifests[n])
      BY <1>1, <3>1 DEF Host
    <3>3. IsFiniteSet(manifests[n] \ X)
      BY <3>2, FS_Subset
    <3> QED
      BY <2>1, <3>1, <3>2, <3>3, FS_Union
  <2> QED
    BY <1>2, <2>1, <2>2 DEF Mans
<1> QED
  BY <1>4, <1>5, <1>6, <1>7, <1>8 DEF BuildahStep

(* What another entry does leaves the containers of one to it.             *)
LEMMA CtrStays ==
  ASSUME CtrInv, task' = task, NEW h \in Entries,
         stage'[h] = stage[h], frames'[h] = frames[h], replace'[h] = replace[h],
         \A c \in DOMAIN ctrs' : c \in DOMAIN ctrs \/ c[2] # h
  PROVE  CtrEntry(h)'
<1>0. CtrEntry(h)
  BY DEF CtrInv
<1>1. KeptRight(h) => KeptRight(h)'
  BY DEF KeptRight
<1>2. \A i : StepID(i)' = StepID(i) /\ Unskipped' = Unskipped
  BY DEF StepID, Unskipped
<1>3. ASSUME NEW l, NEW p, NEW sub, CtrsKept(h, l, p, sub) PROVE CtrsKept(h, l, p, sub)'
  <2>1. CtrList(l)'
    BY <1>3, CtrListStays DEF CtrsKept
  <2>2. Placed(h, l, p, sub)'
    BY <1>3 DEF CtrsKept, Placed, ComesTo
  <2>3. \A c : Removable(h, l, p, sub, c) => Removable(h, l, p, sub, c)'
    BY <1>2 DEF Removable, Remembered
  <2> QED
    BY <1>3, <2>1, <2>2, <2>3 DEF CtrsKept
<1>4. stage[h] \in {"waiting", "started"} => \A c \in DOMAIN ctrs' : c[2] # h
  BY <1>0 DEF CtrEntry
<1> QED
  BY <1>0, <1>1, <1>3, <1>4 DEF CtrEntry

(* doRun keeps what one entry's specs keep to the entry.                   *)
LEMMA ExecutedReplace ==
  ASSUME EngineInv, NEW g \in Entries, Executed(g)
  PROVE  \A h \in Entries \ {g} : replace'[h] = replace[h]
<1>1. ASSUME NEW data, NEW ok, Keep(g, data, ok) PROVE \A h \in Entries \ {g} : replace'[h] = replace[h]
  BY <1>1 DEF Keep, EngineInv, TypeOK, ExecTypeOK
<1> QED
  BY <1>1 DEF Executed, Succeed, Fail, NoToolCmd

(* No error is caught: a spec of buildah that fails ends its entry.        *)
LEMMA FailsEnds ==
  ASSUME EngineInv, NEW g \in Entries, stage[g] = "running", NEW l, NEW p, NEW sub, ComesTo(g, l, p, sub), Fails(g)
  PROVE  stage'[g] = "failed"
<1>1. PICK S : frames[g] \in CallsOf(S)
  BY DEF ComesTo
<1>2. NoneIgnores(frames[g])
  BY DEF ComesTo
<1> QED
  BY <1>1, <1>2, FailCalls DEF Fails

(* A command or callback of buildah keeps the invariant.                   *)
LEMMA CtrStep ==
  ASSUME EngineInv, CtrInv, NEW g \in Entries, BuildahStep(g) PROVE CtrInv'
<1>1. /\ Host' /\ task' = task
      /\ \A c \in DOMAIN ctrs' : c \in DOMAIN ctrs \/ \E n : c = <<"container", g, n>>
  BY HostKept
<1>2. Executed(g) /\ stage[g] = "running"
  BY BuildahExecuted DEF Executed
<1>3. Entries' = Entries /\ \A h \in Entries \ {g} : stage'[h] = stage[h] /\ frames'[h] = frames[h] /\ replace'[h] = replace[h]
  BY <1>2, ExecutedStage, ExecutedReplace DEF Entries
<1>4. CtrEntry(g)'
  <2>1. KeptRight(g)
    BY <1>2 DEF CtrInv, CtrEntry
  <2>2. PICK l, p, sub : CtrsKept(g, l, p, sub)
    BY <1>2 DEF CtrInv, CtrEntry
  <2>3. /\ ComesTo(g, l, p, sub)
        /\ CtrSpec(Current(g)) \/ SubSpec(Current(g))
        /\ Current(g).op \in {"from", "rm"} => ~Current(g).ignore
    BY <1>2, <2>2, CurrentCtr
  <2>4. Host
    BY DEF CtrInv
  <2>5. Fails(g) \/ \E data, new : CtrMove(g, data, new)
    BY <1>2, <2>1, <2>3, <2>4, CtrMoves
  <2>6. CASE Fails(g)
    BY <1>2, <2>3, <2>6, FailsEnds DEF CtrEntry
  <2>7. CASE \E data, new : CtrMove(g, data, new)
    <3>1. PICK data, new : CtrMove(g, data, new)
      BY <2>7
    <3>2. KeptRight(g)' /\ \E l2, p2, sub2 : CtrsKept(g, l2, p2, sub2)'
      BY <1>1, <1>2, <2>1, <2>2, <2>4, <3>1, CtrProceeds
    <3>3. PICK l2, p2, sub2 : CtrsKept(g, l2, p2, sub2)'
      BY <3>2
    <3>4. stage'[g] \in {"running", "ok"}
      BY <3>3 DEF CtrsKept, Placed
    <3> QED
      BY <3>2, <3>4 DEF CtrEntry
  <2> QED
    BY <2>5, <2>6, <2>7
<1>5. ASSUME NEW h \in Entries, h # g PROVE CtrEntry(h)'
  BY <1>1, <1>3, <1>5, CtrStays
<1> QED
  BY <1>1, <1>3, <1>4, <1>5 DEF CtrInv

(* Steps and names are lists, of whatever tool.                            *)
LEMMA NamesListed == Init => StepsTyped
<1> SUFFICES ASSUME Init PROVE IsSeq(task.names) /\ IsSeq(task.steps)
  BY DEF StepsTyped
<1>1. job \in Jobs /\ task = IF job.tool \in {"buildah", "docker"} THEN job.task ELSE NoTask
  BY DEF Init
<1>2. CASE job.tool \in {"buildah", "docker"}
  BY <1>1, <1>2, SeqIsSeq, NamesAssumption
<1>3. CASE job.tool \notin {"buildah", "docker"}
  BY <1>1, <1>3, NoSpecs DEF NoTask
<1> QED
  BY <1>2, <1>3

(* The invariant holds at the start.                                       *)
LEMMA InitRemoved == Init => RemovedInv
<1> SUFFICES ASSUME Init PROVE RemovedInv
  OBVIOUS
<1>1. /\ job \in Jobs /\ stage = [g \in Entries |-> "waiting"] /\ replace = [g \in Entries |-> <<>>]
      /\ ctrs = <<>> /\ mcache = {} /\ manifests = job.manifests
  BY DEF Init, ExecInit, Entries
<1>2. EngineInv /\ StepsTyped
  BY InitEngine, NamesListed
<1>3. DOMAIN ctrs = {} /\ \A g \in Entries : stage[g] = "waiting" /\ DOMAIN replace[g] = {}
  BY <1>1
<1>4. Host
  BY <1>1, <1>2, <1>3, EarlierRunsAssumption, FS_EmptySet DEF Host
<1>5. CtrInv
  BY <1>3, <1>4 DEF CtrInv, CtrEntry
<1> QED
  BY <1>2, <1>3, <1>5 DEF RemovedInv

(* Every step keeps it.                                                    *)
LEMMA NextRemoved == RemovedInv /\ [Next]_vars => RemovedInv'
<1> SUFFICES ASSUME RemovedInv, [Next]_vars PROVE RemovedInv'
  OBVIOUS
<1>1. EngineInv /\ EngineInv'
  BY NextEngine DEF RemovedInv
<1>2. job' = job /\ task' = task
  BY DEF Next, BuildahNext, DockerNext, GoNext, CosignNext, Terminated, vars, buildahVars, GenBuildah, GenDocker,
     BuildahStep, DockerStep, fixed
<1>3. DistinctIDs' = DistinctIDs
  BY <1>2 DEF DistinctIDs, Unskipped, StepID
<1> DEFINE Done == IF job.tool = "buildah" THEN DistinctIDs => CtrInv' ELSE ctrs' = ctrs
<1> SUFFICES Done
  BY <1>1, <1>2, <1>3 DEF RemovedInv
<1>4. CASE UNCHANGED vars
  <2>1. UNCHANGED <<count, workers, stage, frames, replace, task, ctrs, manifests, mcache>>
    BY <1>4 DEF vars, execVars, buildahVars
  <2>2. ASSUME job.tool = "buildah", DistinctIDs PROVE CtrInv'
    <3>1. CtrInv
      BY <2>2 DEF RemovedInv
    <3>2. Host' /\ Entries' = Entries
      BY <2>1, <3>1 DEF CtrInv, Host, StepsTyped, Entries
    <3>3. ASSUME NEW h \in Entries PROVE CtrEntry(h)'
      BY <2>1, <3>1, CtrStays
    <3> QED
      BY <3>2, <3>3 DEF CtrInv
  <2> QED
    BY <2>1, <2>2
<1>5. ASSUME NEW g \in Entries, Start(g), UNCHANGED buildahVars PROVE Done
  <2>1. /\ UNCHANGED <<count, workers, frames, replace, task, ctrs, manifests, mcache>> /\ stage[g] = "waiting"
        /\ stage'[g] = "started" /\ \A h \in Entries \ {g} : stage'[h] = stage[h]
    BY <1>1, <1>5 DEF Start, Goto, buildahVars, EngineInv, TypeOK, ExecTypeOK
  <2>2. ASSUME job.tool = "buildah", DistinctIDs PROVE CtrInv'
    <3>1. CtrInv
      BY <2>2 DEF RemovedInv
    <3>2. Host' /\ Entries' = Entries
      BY <2>1, <3>1 DEF CtrInv, Host, StepsTyped, Entries
    <3>3. ASSUME NEW h \in Entries, h # g PROVE CtrEntry(h)'
      BY <2>1, <3>1, <3>3, CtrStays
    <3>4. CtrEntry(g)'
      BY <2>1, <3>1 DEF CtrInv, CtrEntry
    <3> QED
      BY <3>2, <3>3, <3>4 DEF CtrInv
  <2> QED
    BY <2>1, <2>2
<1>6. ASSUME NEW g \in Entries, job.tool = "buildah", BuildahNext(g) PROVE Done
  <2> SUFFICES ASSUME DistinctIDs PROVE CtrInv'
    BY <1>6
  <2>1. CtrInv
    BY <1>6 DEF RemovedInv
  <2>2. CASE BuildahStep(g)
    BY <1>1, <2>1, <2>2, CtrStep
  <2>3. CASE GenBuildah(g)
    <3>1. Host' /\ CtrEntry(g)' /\ ctrs' = ctrs /\ task' = task
      BY <1>1, <2>1, <2>3, CtrGenerates
    <3>2. /\ Entries' = Entries /\ replace' = replace
          /\ \A h \in Entries \ {g} : stage'[h] = stage[h] /\ frames'[h] = frames[h]
      <4>1. ASSUME NEW l, Generated(g, l)
            PROVE  /\ count' = count /\ replace' = replace
                   /\ \A h \in Entries \ {g} : stage'[h] = stage[h] /\ frames'[h] = frames[h]
        BY <1>1, <4>1 DEF Generated, Goto, EngineInv, TypeOK, ExecTypeOK
      <4>2. ASSUME NotGenerated(g)
            PROVE  /\ count' = count /\ replace' = replace
                   /\ \A h \in Entries \ {g} : stage'[h] = stage[h] /\ frames'[h] = frames[h]
        BY <1>1, <4>2 DEF NotGenerated, Goto, EngineInv, TypeOK, ExecTypeOK
      <4>3. NotGenerated(g) \/ \E l : Generated(g, l)
        BY <2>3 DEF GenBuildah, GenPush
      <4> QED
        BY <4>1, <4>2, <4>3 DEF Entries
    <3>3. ASSUME NEW h \in Entries, h # g PROVE CtrEntry(h)'
      BY <2>1, <3>1, <3>2, <3>3, CtrStays
    <3> QED
      BY <3>1, <3>2, <3>3 DEF CtrInv
  <2> QED
    BY <1>6, <2>2, <2>3 DEF BuildahNext
<1>7. ASSUME NEW g \in Entries, job.tool = "docker", DockerNext(g) PROVE Done
  <2>1. ctrs' = ctrs
    BY <1>7 DEF DockerNext, GenDocker, DockerStep, DockerBuild, DockerManifestLink,
       DockerManifestAnnotate, DockerPush, DockerLogin, DockerFails, buildahVars, host
  <2> QED
    BY <1>7, <2>1
<1>8. ASSUME NEW g \in Entries, job.tool \in {"golang", "cosign"}, GoNext(g) \/ CosignNext(g) PROVE Done
  BY <1>8 DEF GoNext, CosignNext, buildahVars
<1>9. CASE Terminated
  BY <1>4, <1>9 DEF Terminated
<1>10. ASSUME NEW g \in Entries,
             \/ Start(g) /\ UNCHANGED <<buildahVars, goVars, cosignVars, job>>
             \/ job.tool = "buildah" /\ BuildahNext(g)
             \/ job.tool = "docker" /\ DockerNext(g)
             \/ job.tool = "golang" /\ GoNext(g)
             \/ job.tool = "cosign" /\ CosignNext(g)
      PROVE  Done
  BY <1>5, <1>6, <1>7, <1>8, <1>10
<1> QED
  BY <1>4, <1>9, <1>10 DEF Next

(* For any xbuild whose steps have ids of their own, on any matrix and any *)
(* number of workers: an entry that ends well leaves no container behind,  *)
(* whatever its steps make and in whatever order the entries run           *)
(* (task_xbuild.go).  Two steps of one id are kept under one token: the    *)
(* container of the first is lost.                                         *)
THEOREM ToolRunContainers == Spec => [](DistinctIDs => ContainersRemoved)
<1>1. RemovedInv => (DistinctIDs => ContainersRemoved)
  <2> SUFFICES ASSUME RemovedInv, DistinctIDs, NEW g \in Entries, stage[g] = "ok", NEW c \in DOMAIN ctrs
               PROVE  c[2] # g
    BY DEF ContainersRemoved
  <2>1. CtrInv
    BY DEF RemovedInv
  <2>2. PICK l, p, sub : CtrsKept(g, l, p, sub)
    BY <2>1 DEF CtrInv, CtrEntry
  <2>3. p = Len(l) + 1 /\ sub = <<>> /\ Len(l) \in Nat
    BY <2>2, LenProperties DEF CtrsKept, CtrList, IsSeq, Placed
  <2>4. Len(sub) = 0 /\ ~\E D \in p..Len(l) : l[D].op = "delete-containers"
    BY <2>3, NoSpecs
  <2>5. ~Removable(g, l, p, sub, c)
    BY <2>4 DEF Removable
  <2> QED
    BY <2>2, <2>5 DEF CtrsKept
<1> QED
  BY InitRemoved, NextRemoved, <1>1, PTL DEF Spec

(* What is not known is not used.                                          *)
LEMMA SpecNotUsed ==
  ASSUME NEW x, NEW W, Uses(x, W), MANIFEST_SPEC \notin W PROVE NoSpecUsed(x)
<1>1. IsToken(MANIFEST_SPEC)
  BY TokensDiffer DEF Tokens
<1> QED
  BY <1>1 DEF Uses, NoSpecUsed

(* A list of specs that use no tokens.                                     *)
LEMMA NoUses ==
  ASSUME NEW l, IsSeq(l), Len(l) \in Nat,
         \A q \in 1..Len(l) : /\ SetSpec(l[q]) /\ Uses(l[q], {})
                              /\ l[q].op \notin {"read-iidfile", "manifest-update", "keep-current"}
  PROVE  SetList(l, 0)
<1>1. ASSUME NEW q \in 1..Len(l) PROVE SetAt(l, q, 0)
  <2>1. Uses(l[q], Known(l, q, {}))
    BY DEF Uses
  <2>2. NoSpecUsed(l[q])
    BY SpecNotUsed
  <2> QED
    BY <2>1, <2>2 DEF SetAt
<1>2. \A q \in 1..0 : Uses(l[q], {FROM_REF, CTR_NAME})
  OBVIOUS
<1> QED
  BY <1>1, <1>2 DEF SetList

(* What `login` generates.                                                 *)
LEMMA LoginSet == SetList(<<Cmd("login", <<>>)>>, 0)
<1>1. PICK x : x = Cmd("login", <<>>)
  OBVIOUS
<1>2. x.op = "login" /\ x.args = <<>> /\ x.out = NoToken /\ ~x.ignore /\ x.ignore \in BOOLEAN
  BY <1>1, PlainFields
<1>3. SetSpec(x) /\ Uses(x, {}) /\ x.op \notin {"read-iidfile", "manifest-update", "keep-current"}
  BY <1>2, FewArgs DEF SetSpec, Outputs, QuietOps
<1>4. IsSeq(<<x>>) /\ Len(<<x>>) = 1 /\ <<x>>[1] = x
  BY OneSpec
<1>5. \A q \in 1..1 : <<x>>[q] = x
  BY <1>4
<1> QED
  BY <1>1, <1>3, <1>4, <1>5, NoUses

(* What `push` generates names images of the entry's own, and their ids.   *)
LEMMA PushSet ==
  ASSUME IsSeq(task.names), NEW g, NoIdFile(g) = {}, \A n \in DOMAIN idFiles : ~IsToken(idFiles[n]),
         \A m \in mcache : ~IsToken(m.name)
  PROVE  /\ SetList(PushImageSpecs(g), 0)
         /\ \A ms \in Sorted(Cached(g)) : IsFiniteSet(Cached(g)) =>
              SetList(PushImageSpecs(g) \o ManifestPushSpecs(ms), 0)
<1> DEFINE n == Len(ImageNames(g))
           cmd(k) == Cmd("push", <<idFiles[ImageNames(g)[k][2]], ImageNames(g)[k][2]>>)
           a == PushImageSpecs(g)
           Fine(x) == SetSpec(x) /\ Uses(x, {}) /\ x.op \notin {"read-iidfile", "manifest-update", "keep-current"}
           S == {x \in {cmd(k) : k \in 1..n} \cup {Cmd("manifest-push", <<m.name>>) : m \in Cached(g)} : Fine(x)}
<1>1. n \in Nat /\ DOMAIN ImageNames(g) = 1..n
  BY ImageNamesListed
<1>2. a = [k \in 1..n |-> cmd(k)]
  BY <1>1 DEF PushImageSpecs
<1>3. ASSUME NEW k \in 1..n PROVE Fine(cmd(k))
  <2>1. PICK i \in Named("image") : ImageNames(g)[k] = <<i, ImageName(i, g)>>
    BY <1>1, ImageNamesListed
  <2>2. PICK img, name : name = ImageNames(g)[k][2] /\ img = idFiles[ImageNames(g)[k][2]]
    OBVIOUS
  <2>3. name = ImageName(i, g) /\ name \in DOMAIN idFiles
    BY <2>1, <2>2 DEF NoIdFile
  <2>4. ~IsToken(name)
    BY <2>3, NotTokens DEF ImageName
  <2>5. ~IsToken(img)
    BY <2>2, <2>3
  <2>6. cmd(k) = Cmd("push", <<img, name>>)
    BY <2>2
  <2>7. PICK x : x = Cmd("push", <<img, name>>)
    OBVIOUS
  <2>8. x.op = "push" /\ x.args = <<img, name>> /\ x.out = NoToken /\ ~x.ignore /\ x.ignore \in BOOLEAN
    BY <2>7, PlainFields
  <2>9. Fine(x)
    BY <2>4, <2>5, <2>8, FewArgs DEF SetSpec, Outputs, QuietOps
  <2> HIDE DEF Fine
  <2> QED
    BY <2>6, <2>7, <2>9
<1>4. ASSUME NEW m \in Cached(g) PROVE Fine(Cmd("manifest-push", <<m.name>>))
  <2>1. PICK name : name = m.name
    OBVIOUS
  <2>2. m \in mcache \/ \E i \in Reached(g) : name = ManifestName(i, g)
    BY <2>1 DEF Cached
  <2>3. ~IsToken(name)
    BY <2>1, <2>2, NotTokens DEF ManifestName
  <2>4. PICK x : x = Cmd("manifest-push", <<name>>)
    OBVIOUS
  <2>5. x.op = "manifest-push" /\ x.args = <<name>> /\ x.out = NoToken /\ ~x.ignore /\ x.ignore \in BOOLEAN
    BY <2>4, PlainFields
  <2>6. Fine(x)
    BY <2>3, <2>5, FewArgs DEF SetSpec, Outputs, QuietOps
  <2> HIDE DEF Fine
  <2> QED
    BY <2>1, <2>4, <2>6
<1> HIDE DEF Fine
<1>5. (\A k \in 1..n : cmd(k) \in S) /\ \A m \in Cached(g) : Cmd("manifest-push", <<m.name>>) \in S
  BY <1>3, <1>4
<1>6. \A x \in S : Fine(x)
  OBVIOUS
<1> HIDE DEF cmd, n, a, S
<1>7. a \in Seq(S)
  BY <1>1, <1>2, <1>5, FunctionIsSeq
<1>8. ASSUME NEW l \in Seq(S) PROVE SetList(l, 0)
  BY <1>6, NoUses, SeqIsSeq, LenProperties DEF Fine
<1>9. ASSUME NEW ms \in Sorted(Cached(g)), IsFiniteSet(Cached(g)) PROVE SetList(a \o ManifestPushSpecs(ms), 0)
  <2>1. PICK N : N = Cardinality(Cached(g))
    OBVIOUS
  <2>2. N \in Nat
    BY <1>9, <2>1, FS_CardinalityType
  <2>3. ms \in [1..N -> Cached(g)]
    BY <2>1 DEF SetToSeqs, Sorted
  <2>4. ManifestPushSpecs(ms) \in [1..N -> S]
    BY <1>5, <2>3 DEF ManifestPushSpecs
  <2>5. ManifestPushSpecs(ms) \in Seq(S)
    BY <2>2, <2>4, FunctionIsSeq
  <2>6. a \o ManifestPushSpecs(ms) \in Seq(S)
    BY <1>7, <2>5, Concatenation
  <2> QED
    BY <1>8, <2>6
<1> QED
  BY <1>7, <1>8, <1>9 DEF a

(* The specs of manifests use no tokens, and come after an image id.       *)
LEMMA ManifestSet ==
  ASSUME NEW g, NEW l, NEW at, NEW M \in Nat, ManifestsAt(g, l, at), ManifestsOnly(g, l, at, M), NEW q \in M..Len(l),
         NEW r \in 1..(q - 1), l[r].out = IMAGE_ID, NEW F
  PROVE  SetAt(l, q, F)
<1>1. PICK i \in Named("manifest") : ManifestSpec(g, i, l[q])
  BY ManifestTail
<1>2. PICK x, name : x = l[q] /\ name = ManifestName(i, g)
  OBVIOUS
<1>3. /\ x.args = <<name>> /\ x.ignore \in BOOLEAN
      /\ \/ x.op \in {"manifest-create", "manifest-update"} /\ x.out = NoToken
         \/ x.op = "manifest-inspect" /\ x.out \in {NoToken, MANIFEST_SPEC}
      /\ x.op = "manifest-update" => ~x.ignore
  BY <1>1, <1>2 DEF ManifestSpec, CreateSpec, LookSpec, UpdateSpec, ShowSpec
<1>4. ~IsToken(name)
  BY <1>2, NotTokens DEF ManifestName
<1>5. Uses(x, Known(l, q, {})) /\ NoSpecUsed(x)
  BY <1>3, <1>4, SpecNotUsed, FewArgs
<1>6. Outputs(x)
  BY <1>3 DEF Outputs, QuietOps
<1>7. SetSpec(x)
  BY <1>2, <1>3, <1>6 DEF SetSpec
<1>8. IMAGE_ID \in Known(l, q, {})
  BY DEF Known
<1> QED
  BY <1>2, <1>3, <1>5, <1>7, <1>8 DEF SetAt

(* What `build` generates.                                                 *)
LEMMA BuildSet ==
  ASSUME IsSeq(task.names), NEW g, NEW l, l = BuildSpecs(g) PROVE SetList(l, 0)
<1>1. /\ IsSeq(l) /\ Len(l) \in Nat /\ 3 <= Len(l)
      /\ l[1] = Cmd("bud", <<>>) /\ l[2] = CmdInto("read-iidfile", <<>>, IMAGE_ID)
      /\ l[3] = CmdInto("inspect-image", <<IMAGE_ID>>, DIGEST)
  BY BuildListed
<1>2. PICK at : ManifestsAt(g, l, at) /\ ManifestsOnly(g, l, at, 4)
  BY BuildListed
<1>3. l[1].op = "bud" /\ l[1].args = <<>> /\ l[1].out = NoToken /\ ~l[1].ignore /\ l[1].ignore \in BOOLEAN
  BY <1>1, PlainFields
<1>4. l[2].op = "read-iidfile" /\ l[2].args = <<>> /\ l[2].out = IMAGE_ID /\ ~l[2].ignore /\ l[2].ignore \in BOOLEAN
  BY <1>1, IntoFields
<1>5. l[3].op = "inspect-image" /\ l[3].args = <<IMAGE_ID>> /\ l[3].out = DIGEST /\ ~l[3].ignore /\ l[3].ignore \in BOOLEAN
  BY <1>1, IntoFields
<1>6. SetAt(l, 1, 0)
  BY <1>3, FewArgs DEF SetAt, SetSpec, Outputs, QuietOps, NoSpecUsed
<1>7. SetAt(l, 2, 0)
  <2>1. 1 \in 1..(2 - 1) /\ l[1].op \in {"commit-final", "bud"}
    BY <1>3
  <2>2. SetSpec(l[2])
    BY <1>4 DEF SetSpec, Outputs
  <2>3. Uses(l[2], Known(l, 2, {})) /\ NoSpecUsed(l[2])
    BY <1>4, FewArgs DEF NoSpecUsed
  <2> QED
    BY <1>4, <2>1, <2>2, <2>3 DEF SetAt
<1>8. SetAt(l, 3, 0)
  <2>1. IMAGE_ID \in Known(l, 3, {})
    BY <1>4 DEF Known
  <2>2. SetSpec(l[3])
    BY <1>5 DEF SetSpec, Outputs
  <2>3. Uses(l[3], Known(l, 3, {})) /\ Uses(l[3], {IMAGE_ID})
    BY <1>5, <2>1, FewArgs
  <2>4. NoSpecUsed(l[3])
    BY <2>3, SpecNotUsed, TokensDiffer
  <2> QED
    BY <1>5, <2>2, <2>3, <2>4 DEF SetAt
<1>9. ASSUME NEW q \in 4..Len(l) PROVE SetAt(l, q, 0)
  BY <1>1, <1>2, <1>4, ManifestSet
<1>10. \A q \in 1..Len(l) : q = 1 \/ q = 2 \/ q = 3 \/ q \in 4..Len(l)
  BY <1>1
<1>11. \A q \in 1..0 : Uses(l[q], {FROM_REF, CTR_NAME})
  OBVIOUS
<1> QED
  BY <1>1, <1>6, <1>7, <1>8, <1>9, <1>10, <1>11 DEF SetList

(* No name of an image is a token.                                         *)
LEMMA RealNamesPlain ==
  ASSUME IsSeq(task.names), NEW g, NEW k \in DOMAIN RealImageNames(g) PROVE ~IsToken(RealImageNames(g)[k])
<1> DEFINE last == {i \in DOMAIN task.steps : ~Skipped(task.steps[i]) /\ IsLastStep(i)}
           own == [i \in DOMAIN ImageNames(g) |-> ImageNames(g)[i][2]]
           as == <<"name", task.steps[CHOOSE i \in last : TRUE].as>>
           S == {x \in {own[i] : i \in DOMAIN ImageNames(g)} \cup {as} : ~IsToken(x)}
<1>1. RealImageNames(g) = own \o <<>> \/ RealImageNames(g) = own \o <<as>>
  BY DEF RealImageNames
<1>2. PICK n \in Nat : DOMAIN ImageNames(g) = 1..n
  BY ImageNamesListed
<1>3. own = [i \in 1..n |-> own[i]] /\ \A i \in 1..n : own[i] = ImageNames(g)[i][2]
  BY <1>2
<1>4. as \in S
  BY NotTokens
<1>5. ASSUME NEW j \in 1..n PROVE own[j] \in S
  <2>1. PICK i \in Named("image") : ImageNames(g)[j] = <<i, ImageName(i, g)>>
    BY <1>2, ImageNamesListed
  <2>2. own[j] = ImageName(i, g)
    BY <1>3, <2>1
  <2>3. ~IsToken(own[j])
    BY <2>2, NotTokens DEF ImageName
  <2> QED
    BY <1>2, <2>3
<1>6. \A x \in S : ~IsToken(x)
  OBVIOUS
<1> HIDE DEF own, as, last, S
<1>7. own \in Seq(S)
  BY <1>3, <1>5, FunctionIsSeq
<1>8. RealImageNames(g) \in Seq(S)
  BY <1>1, <1>4, <1>7, Concatenation, ShortLists
<1> QED
  BY <1>6, <1>8, LenProperties

(* The last of the steps that are not skipped.                             *)
LEMMA LastStep ==
  ASSUME StepsTyped, Unskipped # {} PROVE \E i \in Unskipped : IsLastStep(i)
<1> DEFINE n == Len(task.steps)
           Below == {n - i : i \in Unskipped}
<1>1. n \in Nat /\ DOMAIN task.steps = 1..n
  BY LenProperties DEF StepsTyped, IsSeq
<1>2. Unskipped \subseteq 1..n
  BY <1>1 DEF Unskipped
<1> HIDE DEF n
<1>3. Below \in SUBSET Nat /\ Below # {}
  <2>1. \A i \in Unskipped : n - i \in Nat
    BY <1>1, <1>2
  <2> QED
    BY <2>1
<1>4. PICK m \in Below : \A k \in Below : m <= k
  BY <1>3, LeastNumber
<1>5. PICK i \in Unskipped : m = n - i
  BY <1>4
<1>6. ASSUME NEW j \in DOMAIN task.steps, j > i PROVE Skipped(task.steps[j])
  <2>1. j \notin Unskipped
    <3> SUFFICES ASSUME j \in Unskipped PROVE FALSE
      OBVIOUS
    <3>1. n - i <= n - j
      BY <1>4, <1>5
    <3> QED
      BY <1>1, <1>2, <1>6, <3>1
  <2> QED
    BY <2>1 DEF Unskipped
<1> QED
  BY <1>6 DEF IsLastStep

(* A spec of a step, and what it needs, in the list of the task.           *)
LEMMA StepSet ==
  ASSUME NEW i, NEW b, NEW f, StepBlock(i, b, f), NEW k \in 1..Len(b)
  PROVE  /\ SetSpec(b[k]) /\ b[k].op \notin {"read-iidfile", "manifest-update", "manifest-inspect"}
         /\ b[k].op = "keep-current" => k = 1 \/ (task.steps[i].do = "from" /\ k = f + 2)
<1>1. /\ Len(b) \in Nat /\ f \in {2, 3} /\ KeepSpec(i, b[1])
      /\ task.steps[i].do = "from" => f + 2 <= Len(b) /\ MakesContainer(b, f, i)
      /\ \A j \in 2..Len(b) : task.steps[i].do # "from" \/ j \notin {f, f + 1, f + 2} =>
           PlainSpec(b[j]) \/ CommitSpec(b[j])
  BY DEF StepBlock
<1>2. ASSUME NEW x, KeepSpec(i, x) PROVE SetSpec(x) /\ x.op = "keep-current"
  BY <1>2 DEF KeepSpec, SetSpec, Outputs
<1>3. CASE k = 1
  BY <1>1, <1>2, <1>3
<1>4. CASE task.steps[i].do = "from" /\ k = f
  BY <1>1, <1>4 DEF MakesContainer, SetSpec, Outputs
<1>5. CASE task.steps[i].do = "from" /\ k = f + 1
  BY <1>1, <1>5 DEF MakesContainer, SetSpec, Outputs
<1>6. CASE task.steps[i].do = "from" /\ k = f + 2
  BY <1>1, <1>2, <1>6 DEF MakesContainer
<1>7. CASE k \in 2..Len(b) /\ (task.steps[i].do # "from" \/ k \notin {f, f + 1, f + 2})
  <2>1. PICK x : x = b[k]
    OBVIOUS
  <2>2. PlainSpec(x) \/ CommitSpec(x)
    BY <1>1, <1>7, <2>1
  <2>3. PlainSpec(x) => Outputs(x) /\ x.op \notin {"manifest-inspect", "read-iidfile", "manifest-update", "keep-current"}
    BY DEF PlainSpec, Outputs, QuietOps
  <2>4. CommitSpec(x) => Outputs(x) /\ x.op \notin {"manifest-inspect", "read-iidfile", "manifest-update", "keep-current"}
    BY DEF CommitSpec, Outputs, QuietOps
  <2>5. x.ignore \in BOOLEAN /\ (x.ignore => x.out = COPY_IMAGE)
    BY <2>2 DEF PlainSpec, CommitSpec
  <2>6. SetSpec(x)
    BY <2>2, <2>3, <2>4, <2>5 DEF SetSpec
  <2> QED
    BY <2>1, <2>2, <2>3, <2>4, <2>6
<1>8. k = 1 \/ k \in 2..Len(b)
  BY <1>1
<1> QED
  BY <1>3, <1>4, <1>5, <1>6, <1>7, <1>8

(* The list of an xbuild is such, up to what its first container is for.   *)
LEMMA XBuildSet ==
  ASSUME StepsTyped, KindsKnown, StartsFrom, EarlierSteps, task.kind = "xbuild",
         NEW g, NEW l, NEW off, NEW D, NEW M, NEW at, XBuildList(g, l, off, D, M, at)
  PROVE  \E F : SetList(l, F)
<1>1. /\ D \in Nat \ {0} /\ Len(l) \in Nat /\ D < Len(l)
      /\ \A q \in 1..(D - 1) : \E i \in Unskipped : \E k : q = off[i] + k /\ k \in 1..Len(StepSpecs(g, i))
      /\ \A i \in Unskipped : \E b, f : /\ StepBlock(i, b, f) /\ off[i] \in Nat /\ off[i] + Len(b) < D
                                        /\ b = StepSpecs(g, i) /\ \A k \in 1..Len(b) : l[off[i] + k] = b[k]
  BY XBuildStep
<1>2. /\ IsSeq(l) /\ M \in Nat /\ D + 2 <= M /\ M <= Len(l) + 1
      /\ l[D] = Cmd("delete-containers", <<>>) /\ l[D + 1] = CmdInto("read-iidfile", <<>>, IMAGE_ID)
      /\ \A q \in (D + 2)..(M - 1) : \E k \in DOMAIN RealImageNames(g) : l[q] = Cmd("tag", <<IMAGE_ID, RealImageNames(g)[k]>>)
      /\ ManifestsAt(g, l, at) /\ ManifestsOnly(g, l, at, M)
  BY DEF XBuildList
<1>3. Unskipped \subseteq Nat
  BY LenProperties DEF Unskipped, StepsTyped, IsSeq
<1>4. ASSUME NEW i \in Unskipped, NEW j \in Unskipped, i < j PROVE off[i] + Len(StepSpecs(g, i)) <= off[j]
  BY <1>4 DEF XBuildList, StepsAt
<1>5. PICK z \in Unskipped : task.steps[z].do = "from" /\ \A j \in Unskipped : z <= j
  BY DEF StartsFrom
<1>6. PICK B, f : /\ StepBlock(z, B, f) /\ off[z] \in Nat /\ off[z] + Len(B) < D
                  /\ B = StepSpecs(g, z) /\ \A k \in 1..Len(B) : l[off[z] + k] = B[k]
  BY <1>1
<1>7. /\ Len(B) \in Nat /\ f \in {2, 3} /\ f + 2 <= Len(B)
      /\ KeepSpec(z, B[1]) /\ MakesContainer(B, f, z) /\ \A k \in 1..f : Uses(B[k], {FROM_REF})
  BY <1>5, <1>6 DEF StepBlock
<1>8. off[z] = 0
  <2>1. 1 \in 1..(D - 1)
    BY <1>1, <1>6, <1>7
  <2>2. PICK i \in Unskipped : \E k : 1 = off[i] + k /\ k \in 1..Len(StepSpecs(g, i))
    BY <1>1, <2>1
  <2>3. off[i] \in Nat
    BY <1>1
  <2>4. off[i] = 0
    <3>1. PICK k : 1 = off[i] + k /\ k \in 1..Len(StepSpecs(g, i))
      BY <2>2
    <3>2. Len(StepSpecs(g, i)) \in Nat
      <4>1. PICK b, h : StepBlock(i, b, h) /\ b = StepSpecs(g, i)
        BY <1>1
      <4> QED
        BY <4>1 DEF StepBlock
    <3> QED
      BY <2>3, <3>1, <3>2
  <2>5. CASE i = z
    BY <2>4, <2>5
  <2>6. CASE i # z
    <3>1. z < i
      BY <1>3, <1>5, <2>6
    <3>2. off[z] + Len(B) <= off[i]
      BY <1>4, <1>6, <3>1
    <3> QED
      BY <1>6, <1>7, <2>4, <3>2
  <2> QED
    BY <2>5, <2>6
<1>9. \A k \in 1..Len(B) : l[k] = B[k]
  BY <1>6, <1>7, <1>8
<1> DEFINE F == f + 2
<1>10. /\ F \in 2..Len(l) /\ F # 0 /\ l[1] = B[1] /\ l[f + 1] = B[f + 1] /\ l[F] = B[F]
  <2>1. F \in 2..Len(l) /\ F # 0 /\ 1 \in 1..Len(B) /\ f + 1 \in 1..Len(B) /\ F \in 1..Len(B)
    BY <1>1, <1>6, <1>7, <1>8
  <2> HIDE DEF F
  <2> QED
    BY <1>9, <2>1
<1>11. l[F].op = "keep-current" /\ l[F].out = l[1].out /\ (\E id : l[1].out = STEP(id)) /\ l[f + 1].out = CURRENT
  BY <1>7, <1>10 DEF MakesContainer, KeepSpec
<1>12. ASSUME NEW q \in 1..F PROVE Uses(l[q], {FROM_REF, CTR_NAME})
  <2>1. q \in 1..Len(B) /\ l[q] = B[q] /\ (q \in 1..f \/ q = f + 1 \/ q = f + 2)
    BY <1>7, <1>9
  <2>2. CASE q \in 1..f
    BY <1>7, <2>1, <2>2 DEF Uses
  <2>3. CASE q = f + 1
    BY <1>7, <2>1, <2>3, FewArgs DEF MakesContainer
  <2>4. CASE q = f + 2
    <3>1. l[q].args = <<>>
      BY <1>7, <2>1, <2>4 DEF MakesContainer, KeepSpec
    <3> QED
      BY <3>1, FewArgs
  <2> QED
    BY <2>1, <2>2, <2>3, <2>4
<1>13. ASSUME NEW q \in (f + 2)..Len(l) PROVE CURRENT \in Known(l, q, {})
  BY <1>1, <1>7, <1>11 DEF Known
<1>14. ASSUME NEW i \in Unskipped, i # z PROVE off[i] \in Nat /\ f + 2 <= off[i]
  <2>1. z < i
    BY <1>3, <1>5, <1>14
  <2>2. off[z] + Len(B) <= off[i] /\ off[i] \in Nat
    BY <1>1, <1>4, <1>6, <2>1
  <2> QED
    BY <1>7, <1>8, <2>2
<1> HIDE DEF F
<1>15. ASSUME NEW q \in 1..(D - 1) PROVE SetAt(l, q, F)
  <2>1. PICK i \in Unskipped : \E k : q = off[i] + k /\ k \in 1..Len(StepSpecs(g, i))
    BY <1>1
  <2>2. PICK k : q = off[i] + k /\ k \in 1..Len(StepSpecs(g, i))
    BY <2>1
  <2>3. PICK b, h : /\ StepBlock(i, b, h) /\ off[i] \in Nat /\ off[i] + Len(b) < D
                    /\ b = StepSpecs(g, i) /\ \A j \in 1..Len(b) : l[off[i] + j] = b[j]
    BY <1>1
  <2>4. k \in 1..Len(b) /\ l[q] = b[k] /\ Len(b) \in Nat /\ q \in 1..Len(l)
    BY <1>1, <2>2, <2>3 DEF StepBlock
  <2>5. /\ SetSpec(b[k]) /\ b[k].op \notin {"read-iidfile", "manifest-update"}
        /\ b[k].op = "keep-current" => k = 1 \/ (task.steps[i].do = "from" /\ k = h + 2)
    BY <2>3, <2>4, StepSet
  <2> DEFINE W == IF task.steps[i].do = "from" THEN {} ELSE StepTokens(i)
  <2>6. Uses(b[k], Known(b, k, W))
    BY <2>3, <2>4 DEF StepBlock
  <2>7. ASSUME i # z PROVE CURRENT \in Known(l, q, {})
    <3>1. off[i] \in Nat /\ f + 2 <= off[i]
      BY <1>14, <2>7
    <3>2. q \in (f + 2)..Len(l)
      BY <1>7, <2>2, <2>4, <3>1
    <3> QED
      BY <1>13, <3>2
  <2>8. W \subseteq Known(l, q, {})
    <3> SUFFICES ASSUME task.steps[i].do # "from" PROVE StepTokens(i) \subseteq Known(l, q, {})
      OBVIOUS
    <3>1. i # z
      BY <1>5
    <3>2. ASSUME task.steps[i].do = "copy-step" PROVE STEP(<<"id", task.steps[i].ref>>) \in Known(l, q, {})
      <4>1. PICK j \in Unskipped : j < i /\ StepID(j) = <<"id", task.steps[i].ref>>
        BY <3>2 DEF EarlierSteps
      <4>2. PICK c, e : /\ StepBlock(j, c, e) /\ off[j] \in Nat
                        /\ c = StepSpecs(g, j) /\ \A m \in 1..Len(c) : l[off[j] + m] = c[m]
        BY <1>1
      <4>3. Len(c) \in Nat /\ 1 <= Len(c) /\ KeepSpec(j, c[1])
        BY <4>2 DEF StepBlock
      <4>4. off[j] + Len(c) <= off[i]
        BY <1>4, <4>1, <4>2
      <4>5. PICK r : r = off[j] + 1
        OBVIOUS
      <4>6. r \in 1..(q - 1)
        BY <2>2, <2>3, <2>4, <4>2, <4>3, <4>4, <4>5
      <4>7. l[r] = c[1]
        BY <4>2, <4>3, <4>5
      <4>8. l[r].out = STEP(<<"id", task.steps[i].ref>>)
        BY <4>1, <4>3, <4>7 DEF KeepSpec
      <4> QED
        BY <4>6, <4>8 DEF Known
    <3> QED
      BY <2>7, <3>1, <3>2 DEF StepTokens
  <2>9. Known(b, k, W) \subseteq Known(l, q, {})
    <3>1. ASSUME NEW r \in 1..(k - 1) PROVE b[r].out \in Known(l, q, {})
      <4>1. r \in 1..Len(b) /\ off[i] + r \in 1..(q - 1)
        BY <2>2, <2>3, <2>4
      <4>2. l[off[i] + r] = b[r]
        BY <2>3, <4>1
      <4> QED
        BY <4>1, <4>2 DEF Known
    <3> HIDE DEF W
    <3> QED
      BY <2>8, <3>1 DEF Known
  <2> HIDE DEF W
  <2>10. Uses(l[q], Known(l, q, {}))
    BY <2>4, <2>6, <2>9 DEF Uses
  <2>11. ASSUME l[q].op = "keep-current" PROVE (q = 1 /\ F # 0) \/ CURRENT \in Known(l, q, {})
    <3>1. CASE i # z
      BY <2>7, <3>1
    <3>2. CASE i = z /\ k = 1
      BY <1>8, <1>10, <2>2, <3>2
    <3>3. CASE i = z /\ k = h + 2
      <4>1. MakesContainer(b, h, i) /\ h \in {2, 3}
        BY <1>5, <2>3, <3>3 DEF StepBlock
      <4>2. b[h + 1].out = CURRENT /\ h + 1 \in 1..(k - 1)
        BY <3>3, <4>1 DEF MakesContainer
      <4>3. h + 1 \in 1..Len(b) /\ off[i] + (h + 1) \in 1..(q - 1)
        BY <1>8, <2>2, <2>4, <3>3, <4>1
      <4>4. l[off[i] + (h + 1)].out = CURRENT
        BY <2>3, <4>2, <4>3
      <4> QED
        BY <4>3, <4>4 DEF Known
    <3> QED
      BY <2>4, <2>5, <2>11, <3>1, <3>2, <3>3
  <2>12. MANIFEST_SPEC \notin Known(b, k, W)
    <3>1. MANIFEST_SPEC \notin W
      BY TokensDiffer DEF W, StepTokens, Tokens
    <3>2. ASSUME NEW r \in 1..(k - 1) PROVE b[r].out # MANIFEST_SPEC
      <4>1. r \in 1..Len(b)
        BY <2>4
      <4>2. SetSpec(b[r]) /\ b[r].op # "manifest-inspect"
        BY <2>3, <4>1, StepSet
      <4> QED
        BY <4>2, TokensDiffer DEF SetSpec, Outputs, Tokens
    <3> QED
      BY <3>1, <3>2 DEF Known
  <2>13. NoSpecUsed(l[q])
    BY <2>4, <2>6, <2>12, SpecNotUsed
  <2> QED
    BY <2>4, <2>5, <2>10, <2>11, <2>13 DEF SetAt
<1>16. SetAt(l, D, F)
  <2>1. l[D].op = "delete-containers" /\ l[D].args = <<>> /\ l[D].out = NoToken /\ ~l[D].ignore /\ l[D].ignore \in BOOLEAN
    BY <1>2, PlainFields
  <2> QED
    BY <2>1, FewArgs DEF SetAt, SetSpec, Outputs, QuietOps, NoSpecUsed
<1>17. /\ l[D + 1].op = "read-iidfile" /\ l[D + 1].args = <<>> /\ l[D + 1].out = IMAGE_ID
       /\ ~l[D + 1].ignore /\ l[D + 1].ignore \in BOOLEAN
  BY <1>2, IntoFields
<1>18. SetAt(l, D + 1, F)
  <2>1. PICK i \in Unskipped : IsLastStep(i)
    BY <1>5, LastStep
  <2>2. PICK b, h : /\ StepBlock(i, b, h) /\ off[i] \in Nat /\ off[i] + Len(b) < D
                    /\ \A j \in 1..Len(b) : l[off[i] + j] = b[j]
    BY <1>1
  <2>3. PICK n : n = Len(b)
    OBVIOUS
  <2>4. n \in Nat /\ 1 <= n /\ b[n].op = "commit-final"
    BY <2>1, <2>2, <2>3 DEF StepBlock
  <2>5. off[i] + n \in 1..(D + 1 - 1) /\ n \in 1..n
    BY <1>1, <2>2, <2>3, <2>4
  <2>6. l[off[i] + n].op = "commit-final"
    BY <2>2, <2>3, <2>4, <2>5
  <2>7. SetSpec(l[D + 1])
    BY <1>17 DEF SetSpec, Outputs
  <2>8. Uses(l[D + 1], Known(l, D + 1, {})) /\ NoSpecUsed(l[D + 1])
    BY <1>17, FewArgs DEF NoSpecUsed
  <2>9. PICK q : q = D + 1
    OBVIOUS
  <2>10. /\ l[q].op = "read-iidfile" /\ SetSpec(l[q]) /\ Uses(l[q], Known(l, q, {})) /\ NoSpecUsed(l[q])
         /\ \E r \in 1..(q - 1) : l[r].op \in {"commit-final", "bud"}
    <3>1. l[q].op = "read-iidfile" /\ SetSpec(l[q])
      BY <1>17, <2>7, <2>9
    <3>2. Uses(l[q], Known(l, q, {})) /\ NoSpecUsed(l[q])
      BY <2>8, <2>9
    <3>3. PICK r : r = off[i] + n
      OBVIOUS
    <3>4. r \in 1..(q - 1)
      BY <1>1, <2>2, <2>3, <2>4, <2>9, <3>3
    <3>5. l[r].op \in {"commit-final", "bud"}
      BY <2>6, <3>3
    <3> QED
      BY <3>1, <3>2, <3>4, <3>5
  <2>11. SetAt(l, q, F)
    BY <2>10 DEF SetAt
  <2> QED
    BY <2>9, <2>11
<1>19. ASSUME NEW q \in (D + 2)..(M - 1) PROVE SetAt(l, q, F)
  <2>1. PICK k \in DOMAIN RealImageNames(g) : l[q] = Cmd("tag", <<IMAGE_ID, RealImageNames(g)[k]>>)
    BY <1>2
  <2>2. PICK name : name = RealImageNames(g)[k]
    OBVIOUS
  <2>3. ~IsToken(name)
    BY <2>2, RealNamesPlain DEF StepsTyped
  <2>4. l[q].op = "tag" /\ l[q].args = <<IMAGE_ID, name>> /\ l[q].out = NoToken /\ ~l[q].ignore /\ l[q].ignore \in BOOLEAN
    BY <2>1, <2>2, PlainFields
  <2>5. D + 1 \in 1..(q - 1)
    BY <1>1, <1>2
  <2>6. IMAGE_ID \in Known(l, q, {})
    BY <1>17, <2>5 DEF Known
  <2>7. SetSpec(l[q])
    BY <2>4 DEF SetSpec, Outputs, QuietOps
  <2>8. Uses(l[q], Known(l, q, {})) /\ Uses(l[q], {IMAGE_ID})
    BY <2>3, <2>4, <2>6, FewArgs
  <2>9. NoSpecUsed(l[q])
    BY <2>8, SpecNotUsed, TokensDiffer
  <2> QED
    BY <2>4, <2>7, <2>8, <2>9 DEF SetAt
<1>20. ASSUME NEW q \in M..Len(l) PROVE SetAt(l, q, F)
  BY <1>1, <1>2, <1>17, ManifestSet
<1>21. \A q \in 1..Len(l) : q \in 1..(D - 1) \/ q = D \/ q = D + 1 \/ q \in (D + 2)..(M - 1) \/ q \in M..Len(l)
  BY <1>1, <1>2
<1>22. \A q \in 1..Len(l) : SetAt(l, q, F)
  BY <1>15, <1>16, <1>18, <1>19, <1>20, <1>21
<1>23. SetList(l, F)
  BY <1>1, <1>2, <1>10, <1>11, <1>12, <1>22 DEF SetList
<1> QED
  BY <1>23

(* A list of such specs.                                                   *)
LEMMA SubsListed ==
  ASSUME NEW g, NEW S, \A x \in S : SubSet(g, x), NEW s \in Seq(S) PROVE SubsSet(g, s)
<1>1. IsSeq(s) /\ \A k \in 1..Len(s) : s[k] \in S
  BY SeqIsSeq, LenProperties
<1> QED
  BY <1>1 DEF SubsSet

(* The specs that update a manifest.                                       *)
LEMMA UpdatesSet ==
  ASSUME NEW g, IMAGE_ID \in DOMAIN replace[g], NEW name, ~IsToken(name),
         NEW n \in Nat, NEW s, \A k \in 1..n : ~IsToken(s[k])
  PROVE  /\ SubsSet(g, <<Cmd("manifest-create", <<name>>)>> \o <<Cmd("manifest-add", <<name, IMAGE_ID>>)>>)
         /\ SubsSet(g, [k \in 1..n |-> Cmd("manifest-remove", <<name, s[k]>>)] \o <<Cmd("manifest-add", <<name, IMAGE_ID>>)>>)
<1> DEFINE rm(k) == Cmd("manifest-remove", <<name, s[k]>>)
           create == Cmd("manifest-create", <<name>>)
           add == Cmd("manifest-add", <<name, IMAGE_ID>>)
           a == [k \in 1..n |-> rm(k)]
           S == {x \in {create, add} \cup {rm(k) : k \in 1..n} : SubSet(g, x)}
           W == {IMAGE_ID} \cap DOMAIN replace[g]
<1>1. SubSet(g, create)
  <2>1. create.op = "manifest-create" /\ create.args = <<name>> /\ create.out = NoToken /\ ~create.ignore /\ create.ignore \in BOOLEAN
    BY PlainFields
  <2> HIDE DEF create
  <2>2. Uses(create, W)
    BY <2>1, FewArgs
  <2> QED
    BY <2>1, <2>2 DEF SubSet, SubSpec
<1>2. SubSet(g, add)
  <2>1. add.op = "manifest-add" /\ add.args = <<name, IMAGE_ID>> /\ add.out = NoToken /\ ~add.ignore /\ add.ignore \in BOOLEAN
    BY PlainFields
  <2> HIDE DEF add
  <2>2. Uses(add, W)
    BY <2>1, FewArgs
  <2> QED
    BY <2>1, <2>2 DEF SubSet, SubSpec
<1>3. ASSUME NEW k \in 1..n PROVE SubSet(g, rm(k))
  <2>1. PICK x, y : x = rm(k) /\ y = s[k]
    OBVIOUS
  <2>2. x.op = "manifest-remove" /\ x.args = <<name, y>> /\ x.out = NoToken /\ ~x.ignore /\ x.ignore \in BOOLEAN
    BY <2>1, PlainFields
  <2>3. Uses(x, W)
    BY <2>1, <2>2, FewArgs
  <2>4. SubSet(g, x)
    BY <2>2, <2>3 DEF SubSet, SubSpec
  <2> QED
    BY <2>1, <2>4
<1>4. create \in S /\ add \in S /\ (\A k \in 1..n : rm(k) \in S) /\ \A x \in S : SubSet(g, x)
  BY <1>1, <1>2, <1>3
<1> HIDE DEF S, rm, create, add
<1>5. a \in Seq(S)
  BY <1>4, FunctionIsSeq
<1>6. <<create>> \in Seq(S) /\ <<add>> \in Seq(S)
  BY <1>4, ShortLists
<1> HIDE DEF a
<1>7. <<create>> \o <<add>> \in Seq(S) /\ a \o <<add>> \in Seq(S)
  BY <1>5, <1>6, Concatenation
<1>8. SubsSet(g, <<create>> \o <<add>>) /\ SubsSet(g, a \o <<add>>)
  BY <1>4, <1>7, SubsListed
<1> QED
  BY <1>8 DEF a, rm, create, add

(* And those that remove containers.                                       *)
LEMMA RemovalsSet ==
  ASSUME NEW g, NEW v, IsSeq(v), \A k \in 1..Len(v) : ~IsToken(v[k]),
         NEW new, new = [k \in DOMAIN v |-> Cmd("rm", <<v[k]>>)]
  PROVE  SubsSet(g, new)
<1> DEFINE n == Len(v)
           rm(k) == Cmd("rm", <<v[k]>>)
           S == {x \in {rm(k) : k \in 1..n} : SubSet(g, x)}
<1>1. n \in Nat /\ DOMAIN v = 1..n
  BY LenProperties DEF IsSeq
<1>2. ASSUME NEW k \in 1..n PROVE SubSet(g, rm(k))
  <2>1. PICK x, y : x = rm(k) /\ y = v[k]
    OBVIOUS
  <2>2. x.op = "rm" /\ x.args = <<y>> /\ x.out = NoToken /\ ~x.ignore /\ x.ignore \in BOOLEAN
    BY <2>1, PlainFields
  <2>3. Uses(x, {IMAGE_ID} \cap DOMAIN replace[g])
    BY <2>1, <2>2, FewArgs
  <2>4. SubSet(g, x)
    BY <2>2, <2>3 DEF SubSet, SubSpec
  <2> QED
    BY <2>1, <2>4
<1>3. (\A k \in 1..n : rm(k) \in S) /\ \A x \in S : SubSet(g, x)
  BY <1>2
<1>4. new = [k \in 1..n |-> rm(k)]
  BY <1>1
<1> HIDE DEF S, rm, n
<1>5. new \in [1..n -> S]
  BY <1>3, <1>4
<1>6. new \in Seq(S)
  BY <1>1, <1>5, FunctionIsSeq
<1> QED
  BY <1>3, <1>6, SubsListed

(* There may be none.                                                      *)
LEMMA NoneSet == ASSUME NEW g PROVE SubsSet(g, <<>>)
BY NoSpecs DEF SubsSet

(* SetToSeq of a finite set is of its elements.                            *)
LEMMA SeqOfSet ==
  ASSUME NEW S, IsFiniteSet(S)
  PROVE  Cardinality(S) \in Nat /\ \A k \in 1..Cardinality(S) : SetToSeq(S)[k] \in S
<1>1. Cardinality(S) \in Nat /\ \E f : f \in Bijection(1..Cardinality(S), S)
  BY FS_CardinalityType DEF ExistsBijection
<1>2. \E f \in [1..Cardinality(S) -> S] : IsInjective(f)
  BY <1>1 DEF Bijection, Injection, IsInjective
<1>3. SetToSeq(S) \in [1..Cardinality(S) -> S]
  BY <1>2 DEF SetToSeq
<1> QED
  BY <1>1, <1>3

(* It keeps something.                                                     *)
LEMMA SomethingKept ==
  ASSUME NEW t, NEW d, NEW unset, IsToken(t), d # Empty, ~IsToken(d), t \notin {CTR_NAME, MANIFEST_SPEC}
  PROVE  DataSet(t, d, unset)
BY DEF DataSet

(* A spec that returns none and keeps something moves so.                  *)
LEMMA PlainMove ==
  ASSUME NEW g, NEW data, NEW first \in BOOLEAN, Moves(g, data, <<>>),
         Current(g).op \notin {"commit-final", "bud"},
         Current(g).out # NoToken => DataSet(Current(g).out, data, IF first THEN Current(g).out ELSE NoToken)
  PROVE  SetMove(g, data, <<>>, first)
BY NoneSet DEF SetMove

(* A command or callback of buildah fails, or moves so.                    *)
LEMMA SetMoves ==
  ASSUME SetHost, NEW g \in Entries, BuildahStep(g), stage[g] = "running",
         NEW unset, NEW first \in BOOLEAN, ReadySet(g, unset, first)
  PROVE  Fails(g) \/ \E data, new : SetMove(g, data, new, first)
<1> DEFINE x == Current(g)
           Good(data) == DataSet(x.out, data, IF first THEN x.out ELSE NoToken)
           CanMove == \E data : SetMove(g, data, <<>>, first)
<1>0. /\ \A t \in DOMAIN replace[g] : DataSet(t, replace[g][t].data, unset)
      /\ SetSpec(x) \/ SubSet(g, x)
      /\ Uses(x, DOMAIN replace[g])
      /\ x.op = "read-iidfile" => iid[g] # Empty
      /\ x.op = "manifest-update" => IMAGE_ID \in DOMAIN replace[g]
      /\ x.op = "keep-current" => first \/ (CURRENT \in DOMAIN replace[g] /\ unset # CURRENT)
  BY DEF ReadySet
<1>1. /\ x.ignore \in BOOLEAN /\ (SetSpec(x) => Outputs(x))
      /\ x.ignore => x.op \in {"manifest-create", "manifest-inspect"} \/ x.out = COPY_IMAGE
  BY <1>0 DEF SetSpec, SubSet, SubSpec
<1>2. \A t \in DOMAIN replace[g] : IsToken(t)
  BY <1>0 DEF DataSet
<1>3. ASSUME NEW a, ~IsToken(a) PROVE Value(g, a) = a
  BY <1>2, <1>3 DEF Value
<1>4. ASSUME NEW data, Succeed(g, data, <<>>), x.op \notin {"commit-final", "bud"}, x.out = NoToken \/ Good(data)
      PROVE  CanMove
  <2>1. Moves(g, data, <<>>)
    BY <1>4 DEF Moves
  <2>2. SetMove(g, data, <<>>, first)
    BY <1>4, <2>1, PlainMove
  <2> QED
    BY <2>2
<1>5. ASSUME NEW data, data # Empty, ~IsToken(data), IsToken(x.out), x.out \notin {CTR_NAME, MANIFEST_SPEC} PROVE Good(data)
  BY <1>5, SomethingKept
<1>6. ASSUME SubSet(g, x) PROVE x.out = NoToken
  BY <1>6 DEF SubSet, SubSpec
<1> HIDE DEF Good, CanMove
<1>7. CASE Pull(g)
  <2>1. x.op = "pull"
    BY <1>7 DEF Pull, At
  <2>2. SetSpec(x)
    BY <1>0, <2>1 DEF SubSet, SubSpec
  <2>3. x.out \in {FROM_REF, COPY_IMAGE} /\ \E n : x.args = <<<<"name", n>>>>
    BY <1>1, <2>1, <2>2 DEF Outputs, QuietOps
  <2>4. PICK n : x.args = <<<<"name", n>>>>
    BY <2>3
  <2>5. Arg(g, 1) = <<"name", n>>
    <3>1. PICK a : a = <<"name", n>>
      OBVIOUS
    <3>2. ~IsToken(a)
      BY <3>1, NotTokens
    <3>3. Value(g, a) = a
      BY <1>3, <3>2
    <3>4. x.args[1] = a
      BY <2>4, <3>1
    <3> QED
      BY <3>1, <3>3, <3>4 DEF Arg
  <2>6. PICK data : Succeed(g, data, <<>>) /\ data = IF <<"name", n>> \in DOMAIN tags THEN tags[<<"name", n>>] ELSE <<"name", n>>
    BY <1>7, <2>5 DEF Pull
  <2>7. data # Empty
    BY <2>6 DEF SetHost, Empty
  <2>8. Good(data)
    <3>1. \A t \in {FROM_REF, COPY_IMAGE} : IsToken(t) /\ t \notin {CTR_NAME, CURRENT, IMAGE_ID, MANIFEST_SPEC} /\ \A id : t # STEP(id)
      <4>1. /\ {FROM_REF, COPY_IMAGE} \subseteq Tokens
            /\ {FROM_REF, COPY_IMAGE} \cap {CTR_NAME, CURRENT, IMAGE_ID, MANIFEST_SPEC} = {}
        BY DEF Tokens, CURRENT, CTR_NAME, FROM_REF, COPY_IMAGE, IMAGE_ID, MANIFEST_SPEC
      <4> QED
        BY <4>1, TokensDiffer
    <3> QED
      BY <2>3, <2>7, <3>1 DEF Good, DataSet
  <2> QED
    BY <1>4, <2>1, <2>6, <2>8 DEF CanMove
<1>8. CASE From(g)
  <2>1. x.op = "from"
    BY <1>8 DEF From, At
  <2>2. PICK n : n = Cardinality({d \in DOMAIN ctrs : d[2] = g}) + 1
    OBVIOUS
  <2>3. PICK data : data = <<"name", <<"container", g, n>>>> /\ Succeed(g, data, <<>>)
    BY <1>8, <2>2 DEF From
  <2>4. x.out = NoToken \/ x.out = CTR_NAME
    BY <1>0, <1>1, <1>6, <2>1 DEF Outputs
  <2>5. data # Empty
    BY <2>3 DEF Empty
  <2>6. CTR_NAME \notin {CURRENT, IMAGE_ID, MANIFEST_SPEC} /\ IsToken(CTR_NAME) /\ \A id : CTR_NAME # STEP(id)
    BY TokensDiffer DEF Tokens
  <2>7. x.out = CTR_NAME => Good(data)
    BY <2>3, <2>5, <2>6 DEF Good, DataSet
  <2> QED
    BY <1>4, <2>1, <2>3, <2>4, <2>7 DEF CanMove
<1>9. CASE InspectContainer(g)
  <2>1. x.op = "inspect-container" /\ Succeed(g, Arg(g, 1)[2], <<>>)
    BY <1>9 DEF InspectContainer, At
  <2>2. SetSpec(x)
    BY <1>0, <2>1 DEF SubSet, SubSpec
  <2>3. x.args = <<CTR_NAME>> /\ x.out = CURRENT
    BY <1>1, <2>1, <2>2 DEF Outputs, QuietOps
  <2>4. CTR_NAME \in DOMAIN replace[g]
    BY <1>0, <2>3, TokensDiffer DEF Uses, Tokens
  <2>5. PICK h, k : replace[g][CTR_NAME].data = <<"name", <<"container", h, k>>>>
    BY <1>0, <2>4 DEF DataSet
  <2>6. Arg(g, 1)[2] = <<"container", h, k>>
    BY <2>3, <2>4, <2>5 DEF Arg, Value
  <2>7. PICK data : data = <<"container", h, k>>
    OBVIOUS
  <2>8. data # Empty /\ ~IsToken(data) /\ Succeed(g, data, <<>>)
    BY <2>1, <2>6, <2>7, NotTokens DEF Empty
  <2>9. CURRENT \notin {CTR_NAME, MANIFEST_SPEC} /\ IsToken(CURRENT)
    BY TokensDiffer DEF Tokens
  <2>10. Good(data)
    BY <1>5, <2>3, <2>8, <2>9
  <2> QED
    BY <1>4, <2>1, <2>8, <2>10 DEF CanMove
<1>10. CASE Run(g) \/ CopyIn(g) \/ Copy(g) \/ Rm(g)
  <2>1. x.op \in {"run", "copy-in", "copy", "rm"} /\ Succeed(g, Empty, <<>>)
    BY <1>10 DEF Run, CopyIn, Copy, Rm, At, InContainer
  <2>2. x.out = NoToken
    BY <1>0, <1>1, <1>6, <2>1 DEF Outputs
  <2> QED
    BY <1>4, <2>1, <2>2 DEF CanMove
<1>11. CASE KeepCurrent(g)
  <2>1. PICK data : data = IF CURRENT \in DOMAIN replace[g] THEN replace[g][CURRENT].data ELSE Empty
    OBVIOUS
  <2>2. x.op = "keep-current" /\ Succeed(g, data, <<>>)
    BY <1>11, <2>1 DEF KeepCurrent, At
  <2>3. SetSpec(x)
    BY <1>0, <2>2 DEF SubSet, SubSpec
  <2>4. PICK id : x.out = STEP(id)
    BY <1>1, <2>2, <2>3 DEF Outputs, QuietOps
  <2>5. ~IsToken(data)
    BY <1>0, <2>1, NotTokens DEF DataSet
  <2>6. ~first => data # Empty
    <3>1. CURRENT \notin {COPY_IMAGE, MANIFEST_SPEC}
      BY TokensDiffer DEF Tokens
    <3> QED
      BY <1>0, <2>1, <2>2, <3>1 DEF DataSet
  <2>7. IsToken(x.out) /\ x.out \notin {CTR_NAME, MANIFEST_SPEC}
    BY <2>4, TokensDiffer DEF Tokens
  <2>8. ASSUME first PROVE Good(data)
    BY <2>5, <2>7, <2>8 DEF Good, DataSet
  <2>9. Good(data)
    <3>1. CASE ~first
      BY <1>5, <2>5, <2>6, <2>7, <3>1
    <3> QED
      BY <2>8, <3>1
  <2> QED
    BY <1>4, <2>2, <2>9 DEF CanMove
<1>12. CASE DeleteContainers(g)
  <2>0. x.op = "delete-containers"
    BY <1>12 DEF DeleteContainers, At
  <2>a. ~x.ignore /\ x.out = NoToken
    <3>1. SetSpec(x)
      BY <1>0, <2>0 DEF SubSet, SubSpec
    <3>2. x.out = NoToken
      BY <1>1, <2>0, <3>1 DEF Outputs
    <3>3. COPY_IMAGE # NoToken
      BY TokensDiffer DEF Tokens
    <3> QED
      BY <1>1, <2>0, <3>2, <3>3
  <2>1. CASE \A i \in DOMAIN task.steps : Skipped(task.steps[i]) \/ STEP(StepID(i)) \in DOMAIN replace[g]
    <3>1. PICK v : v = Visited(g)
      OBVIOUS
    <3>2. PICK new : new = [k \in DOMAIN v |-> Cmd("rm", <<v[k]>>)]
      OBVIOUS
    <3>3. Succeed(g, Empty, new)
      BY <1>12, <2>1, <3>1, <3>2 DEF DeleteContainers
    <3>4. IsSeq(v) /\ \A k \in 1..Len(v) : \E i \in Unskipped : v[k] = replace[g][STEP(StepID(i))].data
      BY <3>1, VisitedAll DEF SetHost, StepsTyped
    <3>5. ASSUME NEW k \in 1..Len(v) PROVE ~IsToken(v[k])
      <4>1. PICK i \in Unskipped : v[k] = replace[g][STEP(StepID(i))].data
        BY <3>4
      <4>2. STEP(StepID(i)) \in DOMAIN replace[g]
        BY <2>1 DEF Unskipped
      <4> QED
        BY <1>0, <4>1, <4>2 DEF DataSet
    <3>6. SubsSet(g, new)
      BY <3>2, <3>4, <3>5, RemovalsSet
    <3>7. SetMove(g, Empty, new, first)
      BY <2>0, <2>a, <3>3, <3>6 DEF SetMove, Moves
    <3> QED
      BY <3>7
  <2>2. CASE ~\A i \in DOMAIN task.steps : Skipped(task.steps[i]) \/ STEP(StepID(i)) \in DOMAIN replace[g]
    BY <1>12, <2>a, <2>2 DEF Fails, DeleteContainers
  <2> QED
    BY <2>1, <2>2
<1>13. CASE WriteFile(g)
  <2>0. x.op \in {"write-file", "write-redacted", "redact-file"}
    BY <1>13 DEF WriteFile, At
  <2>1. Succeed(g, <<"file">>, <<>>) \/ Succeed(g, <<"redacted">>, <<>>) \/ Fail(g, Empty)
    BY <1>13 DEF WriteFile
  <2>2. SetSpec(x)
    BY <1>0, <2>0 DEF SubSet, SubSpec
  <2>3. x.out \in {SRC, REDACTED}
    BY <1>1, <2>0, <2>2 DEF Outputs, QuietOps
  <2>4. IsToken(x.out) /\ x.out \notin {CTR_NAME, MANIFEST_SPEC, COPY_IMAGE}
    BY <2>3, TokensDiffer DEF Tokens
  <2>5. Good(<<"file">>) /\ Good(<<"redacted">>)
    BY <1>5, <2>4, NotTokens DEF Empty
  <2>6. ~x.ignore
    BY <1>1, <2>0, <2>4
  <2>7. CASE Fail(g, Empty)
    BY <2>6, <2>7 DEF Fails
  <2> QED
    BY <1>4, <2>0, <2>1, <2>5, <2>7 DEF CanMove
<1>14. CASE Commit(g) \/ Bud(g)
  <2>1. PICK n : n = Cardinality({i \in DOMAIN images : i[2] = g}) + 1
    OBVIOUS
  <2>2. /\ x.op \in {"commit", "commit-final", "bud"} /\ Succeed(g, Empty, <<>>)
        /\ iid' = iid \/ iid' = [iid EXCEPT ![g] = <<"id", g, n>>]
        /\ x.op \in {"commit-final", "bud"} => iid' = [iid EXCEPT ![g] = <<"id", g, n>>]
    BY <1>14, <2>1 DEF Commit, Bud, At, NewImage
  <2>3. x.op \in {"commit-final", "bud"} => iid'[g] # Empty
    BY <2>2 DEF SetHost, Empty
  <2>4. x.out = NoToken
    BY <1>0, <1>1, <1>6, <2>2 DEF Outputs
  <2>5. SetMove(g, Empty, <<>>, first)
    BY <2>2, <2>3, <2>4, NoneSet DEF SetMove, Moves
  <2> QED
    BY <2>5
<1>15. CASE ReadIidFile(g)
  <2>1. x.op = "read-iidfile" /\ Succeed(g, iid[g], <<>>)
    BY <1>15 DEF ReadIidFile, At
  <2>2. SetSpec(x)
    BY <1>0, <2>1 DEF SubSet, SubSpec
  <2>3. x.out = IMAGE_ID
    BY <1>1, <2>1, <2>2 DEF Outputs, QuietOps
  <2>4. PICK i, k : iid[g] = <<"id", i, k>>
    BY <1>0, <2>1 DEF SetHost
  <2>5. IMAGE_ID \notin {CTR_NAME, MANIFEST_SPEC} /\ IsToken(IMAGE_ID)
    BY TokensDiffer DEF Tokens
  <2>6. Good(iid[g])
    BY <1>0, <1>5, <2>1, <2>3, <2>4, <2>5, NotTokens
  <2> QED
    BY <1>4, <2>1, <2>6 DEF CanMove
<1>16. CASE InspectImage(g)
  <2>1. PICK data : data = <<"digest", Arg(g, 1)>> /\ Succeed(g, data, <<>>)
    BY <1>16 DEF InspectImage
  <2>2. x.op = "inspect-image"
    BY <1>16 DEF InspectImage, At
  <2>3. SetSpec(x)
    BY <1>0, <2>2 DEF SubSet, SubSpec
  <2>4. x.out = DIGEST
    BY <1>1, <2>2, <2>3 DEF Outputs, QuietOps
  <2>5. DIGEST \notin {CTR_NAME, MANIFEST_SPEC} /\ IsToken(DIGEST)
    BY TokensDiffer DEF Tokens
  <2>6. data # Empty /\ ~IsToken(data)
    BY <2>1, NotTokens DEF Empty
  <2>7. Good(data)
    BY <1>5, <2>4, <2>5, <2>6
  <2> QED
    BY <1>4, <2>1, <2>2, <2>7 DEF CanMove
<1>17. CASE TagImage(g) \/ ManifestCreate(g) \/ ManifestRemove(g) \/ ManifestAdd(g) \/ Push(g) \/ Login(g)
  <2>1. /\ x.op \in {"tag", "manifest-create", "manifest-remove", "manifest-add", "push", "manifest-push", "login"}
        /\ Succeed(g, Empty, <<>>)
    BY <1>17 DEF TagImage, ManifestCreate, ManifestRemove, ManifestAdd, Push, Login, At
  <2>2. x.out = NoToken
    BY <1>0, <1>1, <1>6, <2>1 DEF Outputs
  <2> QED
    BY <1>4, <2>1, <2>2 DEF CanMove
<1>18. CASE ManifestInspect(g)
  <2>1. PICK m, data : m = manifests[Arg(g, 1)] /\ data = <<"spec", m>>
    OBVIOUS
  <2>2. x.op = "manifest-inspect" /\ Arg(g, 1) \in DOMAIN manifests /\ Succeed(g, data, <<>>)
    BY <1>18, <2>1 DEF ManifestInspect, At
  <2>3. ImagesPlain(m) /\ data[2] = m /\ data # Empty
    BY <2>1, <2>2 DEF SetHost, Empty
  <2>4. x.out \in {NoToken, MANIFEST_SPEC}
    BY <1>0, <1>1, <1>6, <2>2 DEF Outputs
  <2>5. MANIFEST_SPEC \notin {CTR_NAME, CURRENT, IMAGE_ID} /\ IsToken(MANIFEST_SPEC) /\ \A id : MANIFEST_SPEC # STEP(id)
    BY TokensDiffer DEF Tokens
  <2>6. x.out = MANIFEST_SPEC => Good(data)
    BY <2>3, <2>5 DEF Good, DataSet
  <2> QED
    BY <1>4, <2>2, <2>4, <2>6 DEF CanMove
<1>19. CASE ManifestUpdate(g)
  <2>0. x.op = "manifest-update"
    BY <1>19 DEF ManifestUpdate, At
  <2>a. SetSpec(x)
    BY <1>0, <2>0 DEF SubSet, SubSpec
  <2>b. ~x.ignore /\ x.out = NoToken
    <3>1. x.out = NoToken
      BY <1>1, <2>0, <2>a DEF Outputs
    <3>2. COPY_IMAGE # NoToken
      BY TokensDiffer DEF Tokens
    <3> QED
      BY <1>1, <2>0, <3>1, <3>2
  <2>c. IMAGE_ID \in DOMAIN replace[g]
    BY <1>0, <2>0
  <2> DEFINE name == Arg(g, 1)
             add == <<Cmd("manifest-add", <<name, IMAGE_ID>>)>>
             spec == replace[g][MANIFEST_SPEC].data
             old == IF spec = Empty THEN {} ELSE {m.image : m \in SamePlatform(g, spec[2])}
             one == <<Cmd("manifest-create", <<name>>)>> \o add
             more == [k \in 1..Cardinality(old) |-> Cmd("manifest-remove", <<name, SetToSeq(old)[k]>>)] \o add
  <2>d. ~IsToken(name)
    <3>1. PICK i, h : x.args = <<ManifestName(i, h)>>
      BY <2>0, <2>a DEF SetSpec
    <3>2. PICK a : a = ManifestName(i, h) /\ x.args = <<a>>
      BY <3>1
    <3>3. ~IsToken(a)
      BY <3>2, NotTokens DEF ManifestName
    <3>4. name = a
      BY <1>3, <3>2, <3>3 DEF Arg
    <3> QED
      BY <3>3, <3>4
  <2>1. Succeed(g, Empty, IF MANIFEST_SPEC \notin DOMAIN replace[g] THEN one ELSE more)
    BY <1>19 DEF ManifestUpdate
  <2> HIDE DEF name
  <2>2. SubsSet(g, one)
    <3>1. PICK n, s : n \in Nat /\ n = 0 /\ s = <<>>
      OBVIOUS
    <3>2. \A k \in 1..n : ~IsToken(s[k])
      BY <3>1
    <3> QED
      BY <2>c, <2>d, <3>1, <3>2, UpdatesSet
  <2>3. ASSUME MANIFEST_SPEC \in DOMAIN replace[g] PROVE SubsSet(g, more)
    <3>1. IsFiniteSet(old) /\ \A i \in old : ~IsToken(i)
      <4>1. CASE spec = Empty
        BY <4>1, FS_EmptySet
      <4>2. CASE spec # Empty
        <5>1. ImagesPlain(spec[2])
          BY <1>0, <2>3, <4>2 DEF DataSet
        <5>2. PICK S : S = SamePlatform(g, spec[2])
          OBVIOUS
        <5>3. IsFiniteSet(S) /\ \A m \in S : ~IsToken(m.image)
          BY <5>1, <5>2, FS_Subset DEF ImagesPlain, SamePlatform
        <5>4. IsFiniteSet({m.image : m \in S}) /\ \A i \in {m.image : m \in S} : ~IsToken(i)
          BY <5>3, ImagesFinite
        <5> QED
          BY <4>2, <5>2, <5>4
      <4> QED
        BY <4>1, <4>2
    <3>2. PICK n, s : n = Cardinality(old) /\ s = SetToSeq(old)
      OBVIOUS
    <3>3. n \in Nat /\ \A k \in 1..n : s[k] \in old
      BY <3>1, <3>2, SeqOfSet
    <3>4. \A k \in 1..n : ~IsToken(s[k])
      BY <3>1, <3>3
    <3>5. SubsSet(g, [k \in 1..n |-> Cmd("manifest-remove", <<name, s[k]>>)] \o <<Cmd("manifest-add", <<name, IMAGE_ID>>)>>)
      BY <2>c, <2>d, <3>3, <3>4, UpdatesSet
    <3> HIDE DEF old
    <3> QED
      BY <3>2, <3>5
  <2>4. PICK new : Succeed(g, Empty, new) /\ SubsSet(g, new)
    <3> HIDE DEF one, more
    <3> QED
      BY <2>1, <2>2, <2>3
  <2>5. SetMove(g, Empty, new, first)
    BY <2>0, <2>b, <2>4 DEF SetMove, Moves
  <2> QED
    BY <2>5
<1>20. CASE CommandFails(g)
  <2>1. x.op \in BuildahCommands /\ (Fail(g, Empty) \/ NoToolCmd(g))
    BY <1>20 DEF CommandFails
  <2>2. CASE Fail(g, Empty) /\ x.ignore
    <3>1. Moves(g, Empty, <<>>)
      BY <2>2 DEF Moves
    <3>2. SetSpec(x) \/ x.out = NoToken
      BY <1>0, <1>6
    <3>3. x.out \in {NoToken, MANIFEST_SPEC, COPY_IMAGE} /\ x.op \notin {"commit-final", "bud"}
      BY <1>0, <1>1, <1>6, <2>2, TokensDiffer DEF Outputs, Tokens, SubSet, SubSpec
    <3>4. /\ IsToken(MANIFEST_SPEC) /\ IsToken(COPY_IMAGE) /\ COPY_IMAGE # MANIFEST_SPEC
          /\ {COPY_IMAGE, MANIFEST_SPEC} \cap {CTR_NAME, CURRENT, IMAGE_ID} = {}
          /\ \A id : STEP(id) \notin {COPY_IMAGE, MANIFEST_SPEC}
      BY TokensDiffer DEF Tokens
    <3>5. x.out # NoToken => Good(Empty)
      BY <3>3, <3>4 DEF Good, DataSet
    <3>6. SetMove(g, Empty, <<>>, first)
      BY <3>1, <3>3, <3>5, PlainMove DEF Good
    <3> QED
      BY <3>6
  <2>3. CASE NoToolCmd(g) \/ (Fail(g, Empty) /\ ~x.ignore)
    BY <2>3 DEF Fails
  <2> QED
    BY <1>1, <2>1, <2>2, <2>3
<1> QED
  BY <1>7, <1>8, <1>9, <1>10, <1>11, <1>12, <1>13, <1>14, <1>15, <1>16, <1>17, <1>18, <1>19, <1>20 DEF BuildahStep, CanMove

(* What a map has after UpdateAll.                                         *)
LEMMA OverrideValues ==
  ASSUME NEW S, NEW v, NEW f, NEW h, h = UpdateAll(f, S, v)
  PROVE  \A k \in DOMAIN h : h[k] = v \/ (k \in DOMAIN f /\ h[k] = f[k])
BY DEF UpdateAll

(* What a step of buildah does to what the entries share.                  *)
LEMMA SetHostKept ==
  ASSUME SetHost, NEW g \in Entries, BuildahStep(g), stage[g] = "running", Entries' = Entries,
         NEW unset, NEW first \in BOOLEAN, ReadySet(g, unset, first)
  PROVE  SetHost' /\ IidsMade(g) /\ UNCHANGED fixed
<1>0. UNCHANGED fixed /\ task' = task /\ mcache' = mcache
  BY DEF BuildahStep, fixed
<1>1. TagsSet /\ IdsSet /\ FilesSet /\ ManifestsSet
  BY DEF SetHost, TagsSet, IdsSet, FilesSet, ManifestsSet
<1>2. /\ tags' = tags => TagsSet'
      /\ images' = images => IdsSet'
      /\ idFiles' = idFiles => FilesSet'
      /\ manifests' = manifests => ManifestsSet'
  BY <1>1 DEF TagsSet, IdsSet, FilesSet, ManifestsSet
<1> DEFINE Done == TagsSet' /\ IdsSet' /\ FilesSet' /\ ManifestsSet' /\ IidsMade(g)
<1>3. ASSUME UNCHANGED <<images, tags, iid, idFiles, manifests>> PROVE Done
  BY <1>2, <1>3 DEF IidsMade
<1>4. ASSUME Commit(g) \/ Bud(g) PROVE Done
  <2>1. PICK n : n = Cardinality({i \in DOMAIN images : i[2] = g}) + 1
    OBVIOUS
  <2>2. PICK new : new = <<"id", g, n>>
    OBVIOUS
  <2>3. /\ \E c : images' = Update(images, new, c)
        /\ (\E t : tags' = Update(tags, t, new)) \/ (\E S : tags' = UpdateAll(tags, S, new))
        /\ iid' = iid \/ iid' = [iid EXCEPT ![g] = new]
        /\ idFiles' = idFiles /\ manifests' = manifests
    BY <1>4, <2>1, <2>2 DEF Commit, Bud, NewImage
  <2>4. DOMAIN images' = DOMAIN images \cup {new}
    BY <2>3 DEF Update
  <2>5. IdsSet'
    BY <1>1, <2>2, <2>4 DEF IdsSet
  <2>6. \A t \in DOMAIN tags' : tags'[t] = new \/ (t \in DOMAIN tags /\ tags'[t] = tags[t])
    <3>1. CASE \E t : tags' = Update(tags, t, new)
      BY <3>1 DEF Update
    <3>2. ASSUME NEW S, tags' = UpdateAll(tags, S, new)
          PROVE  \A t \in DOMAIN tags' : tags'[t] = new \/ (t \in DOMAIN tags /\ tags'[t] = tags[t])
      BY <3>2, OverrideValues
    <3> QED
      BY <2>3, <3>1, <3>2
  <2>7. new # Empty
    BY <2>2 DEF Empty
  <2>8. TagsSet'
    BY <1>1, <2>6, <2>7 DEF TagsSet
  <2> QED
    BY <1>2, <2>2, <2>3, <2>5, <2>8 DEF IidsMade
<1>5. ASSUME ReadIidFile(g) PROVE Done
  <2>1. /\ \E S : idFiles' = UpdateAll(idFiles, S, iid[g])
        /\ UNCHANGED <<images, tags, iid, manifests>>
    BY <1>5 DEF ReadIidFile
  <2>2. \A n \in DOMAIN idFiles' : idFiles'[n] = iid[g] \/ (n \in DOMAIN idFiles /\ idFiles'[n] = idFiles[n])
    BY <2>1, OverrideValues
  <2>3. ~IsToken(iid[g])
    <3>1. iid[g] = Empty \/ \E i, k : iid[g] = <<"id", i, k>>
      BY DEF SetHost
    <3> QED
      BY <3>1, NotTokens
  <2>4. FilesSet'
    BY <1>1, <2>2, <2>3 DEF FilesSet
  <2> QED
    BY <1>2, <2>1, <2>4 DEF IidsMade
<1>6. ASSUME TagImage(g) PROVE Done
  <2>1. PICK img \in DOMAIN images : \E t : tags' = Update(tags, t, img)
    BY <1>6 DEF TagImage
  <2>2. img # Empty
    BY <1>1 DEF IdsSet, Empty
  <2>3. \A t \in DOMAIN tags' : tags'[t] = img \/ (t \in DOMAIN tags /\ tags'[t] = tags[t])
    BY <2>1 DEF Update
  <2>4. TagsSet'
    BY <1>1, <2>2, <2>3 DEF TagsSet
  <2>5. UNCHANGED <<images, iid, idFiles, manifests>>
    BY <1>6 DEF TagImage
  <2> QED
    BY <1>2, <2>4, <2>5 DEF IidsMade
<1>7. ASSUME ManifestCreate(g) PROVE Done
  <2>1. PICK n : manifests' = Update(manifests, n, {})
    BY <1>7 DEF ManifestCreate
  <2>2. \A m \in DOMAIN manifests' : manifests'[m] = {} \/ (m \in DOMAIN manifests /\ manifests'[m] = manifests[m])
    BY <2>1 DEF Update
  <2>3. ManifestsSet'
    BY <1>1, <2>2, FS_EmptySet DEF ManifestsSet, ImagesPlain
  <2>4. UNCHANGED <<images, tags, iid, idFiles>>
    BY <1>7 DEF ManifestCreate
  <2> QED
    BY <1>2, <2>3, <2>4 DEF IidsMade
<1>8. ASSUME ManifestRemove(g) PROVE Done
  <2>1. PICK n, X : manifests' = [manifests EXCEPT ![n] = @ \ X]
    BY <1>8 DEF ManifestRemove
  <2>2. ASSUME NEW m \in DOMAIN manifests' PROVE ImagesPlain(manifests'[m])
    <3>1. m \in DOMAIN manifests /\ manifests'[m] \subseteq manifests[m]
      BY <2>1
    <3>2. ImagesPlain(manifests[m])
      BY <1>1, <3>1 DEF ManifestsSet
    <3> QED
      BY <3>1, <3>2, FS_Subset DEF ImagesPlain
  <2>3. ManifestsSet'
    BY <2>2 DEF ManifestsSet
  <2>4. UNCHANGED <<images, tags, iid, idFiles>>
    BY <1>8 DEF ManifestRemove
  <2> QED
    BY <1>2, <2>3, <2>4 DEF IidsMade
<1>9. ASSUME ManifestAdd(g) PROVE Done
  <2>1. PICK n, p, i : i = Arg(g, 2) /\ manifests' = [manifests EXCEPT ![n] = @ \cup {[platform |-> p, image |-> i]}]
    BY <1>9 DEF ManifestAdd
  <2>2. ~IsToken(i)
    <3>1. Current(g).op = "manifest-add"
      BY <1>9 DEF ManifestAdd, At
    <3>2. ~SetSpec(Current(g))
      BY <3>1 DEF SetSpec, Outputs, QuietOps
    <3>3. SubSet(g, Current(g))
      BY <3>2 DEF ReadySet
    <3>4. IMAGE_ID \in DOMAIN replace[g] /\ Current(g).args[2] = IMAGE_ID
      BY <3>1, <3>3 DEF SubSet
    <3>5. DataSet(IMAGE_ID, replace[g][IMAGE_ID].data, unset)
      BY <3>4 DEF ReadySet
    <3> QED
      BY <2>1, <3>4, <3>5 DEF Arg, Value, DataSet
  <2>3. ASSUME NEW m \in DOMAIN manifests' PROVE ImagesPlain(manifests'[m])
    <3>1. PICK e : e = [platform |-> p, image |-> i]
      OBVIOUS
    <3>2. m \in DOMAIN manifests /\ (manifests'[m] = manifests[m] \/ manifests'[m] = manifests[m] \cup {e})
      BY <2>1, <3>1
    <3>3. ImagesPlain(manifests[m])
      BY <1>1, <3>2 DEF ManifestsSet
    <3>4. IsFiniteSet(manifests[m] \cup {e})
      BY <3>3, FS_Singleton, FS_Union DEF ImagesPlain
    <3>5. ~IsToken(e.image)
      BY <2>2, <3>1
    <3> QED
      BY <3>2, <3>3, <3>4, <3>5 DEF ImagesPlain
  <2>4. ManifestsSet'
    BY <2>3 DEF ManifestsSet
  <2>5. UNCHANGED <<images, tags, iid, idFiles>>
    BY <1>9 DEF ManifestAdd
  <2> QED
    BY <1>2, <2>4, <2>5 DEF IidsMade
<1>10. ASSUME \/ Pull(g) \/ From(g) \/ InspectContainer(g) \/ Run(g) \/ CopyIn(g) \/ Copy(g) \/ Rm(g)
              \/ KeepCurrent(g) \/ DeleteContainers(g) \/ WriteFile(g) \/ InspectImage(g)
              \/ ManifestInspect(g) \/ ManifestUpdate(g) \/ Push(g) \/ Login(g) \/ CommandFails(g)
       PROVE  Done
  <2>1. UNCHANGED <<images, tags, iid, idFiles, manifests>>
    BY <1>10 DEF Pull, From, InspectContainer, Run, CopyIn, Copy, Rm, InContainer, KeepCurrent, DeleteContainers,
                 WriteFile, InspectImage, ManifestInspect, ManifestUpdate, Push, Login, CommandFails, host
  <2> QED
    BY <1>3, <2>1
<1>11. Done
  BY <1>4, <1>5, <1>6, <1>7, <1>8, <1>9, <1>10 DEF BuildahStep
<1> HIDE DEF Done
<1>12. DOMAIN iid' = Entries /\ \A h \in Entries : iid'[h] = Empty \/ \E i, k : iid'[h] = <<"id", i, k>>
  BY <1>11 DEF SetHost, Done, IidsMade
<1>13. StepsTyped'
  BY <1>0 DEF StepsTyped, SetHost
<1>14. SetHost'
  <2>1. IsFiniteSet(mcache') /\ \A m \in mcache' : ~IsToken(m.name)
    BY <1>0 DEF SetHost
  <2> QED
    BY <1>11, <1>12, <1>13, <2>1 DEF SetHost, Done, TagsSet, IdsSet, FilesSet, ManifestsSet
<1> QED
  BY <1>0, <1>11, <1>14 DEF Done

(* The spec an entry has come to is ready.                                 *)
LEMMA CurrentSet ==
  ASSUME EngineInv, NEW g \in Entries, stage[g] = "running", NEW l, NEW F, NEW p, NEW sub, SetKept(g, l, F, p, sub)
  PROVE  /\ ComesTo(g, l, p, sub) /\ IsSeq(l) /\ IsSeq(sub) /\ Len(l) \in Nat /\ p \in 1..(Len(l) + 1)
         /\ sub = <<>> => p \in 1..Len(l) /\ Current(g) = l[p] /\ SetAt(l, p, F)
         /\ sub # <<>> => Current(g) = sub[1] /\ SubSet(g, sub[1]) /\ Len(sub) \in Nat \ {0}
         /\ ReadySet(g, UnsetAt(l, F, p), sub = <<>> /\ p = 1 /\ F # 0)
<1>1. ComesTo(g, l, p, sub) /\ SetList(l, F) /\ SubsSet(g, sub)
  BY DEF SetKept, Placed
<1>2. IsSeq(l) /\ IsSeq(sub) /\ Len(l) \in Nat /\ p \in 1..(Len(l) + 1)
  BY <1>1 DEF SetList, SubsSet, ComesTo
<1>3. Here(g, l, p, sub)
  BY <1>1, <1>2, PlaceCurrent
<1>4. /\ \A q \in 1..(p - 1) : l[q].out # NoToken => l[q].out \in DOMAIN replace[g]
      /\ \A t \in DOMAIN replace[g] : DataSet(t, replace[g][t].data, UnsetAt(l, F, p))
      /\ (\E q \in 1..(p - 1) : l[q].op \in {"commit-final", "bud"}) => iid[g] # Empty
  BY DEF SetKept
<1>5. ASSUME NEW t \in Known(l, p, {}), IsToken(t) PROVE t \in DOMAIN replace[g]
  BY <1>4, <1>5, TokensDiffer DEF Known
<1>6. IsToken(IMAGE_ID) /\ IsToken(CURRENT) /\ CURRENT # NoToken /\ \A id : STEP(id) # CURRENT
  BY TokensDiffer DEF Tokens
<1> DEFINE first == sub = <<>> /\ p = 1 /\ F # 0
           x == Current(g)
<1>7. ASSUME sub = <<>>
      PROVE  p \in 1..Len(l) /\ x = l[p] /\ SetAt(l, p, F) /\ ReadySet(g, UnsetAt(l, F, p), first)
  <2>1. p \in 1..Len(l) /\ x = l[p]
    BY <1>3, <1>7 DEF Here
  <2>2. SetAt(l, p, F)
    BY <1>1, <2>1 DEF SetList
  <2>3. /\ SetSpec(x) /\ Uses(x, Known(l, p, {}))
        /\ x.op = "read-iidfile" => \E r \in 1..(p - 1) : l[r].op \in {"commit-final", "bud"}
        /\ x.op = "manifest-update" => IMAGE_ID \in Known(l, p, {})
        /\ x.op = "keep-current" => (p = 1 /\ F # 0) \/ CURRENT \in Known(l, p, {})
    BY <2>1, <2>2 DEF SetAt
  <2>4. Uses(x, DOMAIN replace[g])
    BY <1>5, <2>3 DEF Uses
  <2>5. UnsetAt(l, F, p) # CURRENT
    BY <1>1, <1>2, <1>6 DEF UnsetAt, SetList
  <2>6. x.op = "keep-current" => first \/ (CURRENT \in DOMAIN replace[g] /\ UnsetAt(l, F, p) # CURRENT)
    BY <1>5, <1>6, <1>7, <2>3, <2>5
  <2>7. x.op = "manifest-update" => IMAGE_ID \in DOMAIN replace[g]
    BY <1>5, <1>6, <2>3
  <2> HIDE DEF first, x
  <2>8. ReadySet(g, UnsetAt(l, F, p), first)
    BY <1>4, <2>3, <2>4, <2>6, <2>7 DEF ReadySet, x
  <2> QED
    BY <2>1, <2>2, <2>8
<1>8. ASSUME sub # <<>>
      PROVE  x = sub[1] /\ SubSet(g, sub[1]) /\ Len(sub) \in Nat \ {0} /\ ReadySet(g, UnsetAt(l, F, p), first)
  <2>1. x = sub[1]
    BY <1>3, <1>8 DEF Here
  <2>2. Len(sub) \in Nat \ {0}
    BY <1>2, <1>8, EmptySeq, LenProperties DEF IsSeq
  <2>3. SubSet(g, x)
    BY <1>1, <2>1, <2>2 DEF SubsSet
  <2>4. Uses(x, DOMAIN replace[g]) /\ x.op \notin {"read-iidfile", "manifest-update", "keep-current"}
    BY <2>3 DEF SubSet, SubSpec, Uses
  <2> HIDE DEF first, x
  <2>5. ReadySet(g, UnsetAt(l, F, p), first)
    BY <1>4, <2>3, <2>4 DEF ReadySet, x
  <2> QED
    BY <2>1, <2>2, <2>3, <2>5 DEF x
<1> QED
  BY <1>1, <1>2, <1>7, <1>8

(* What an entry has come to is not about what changes.                    *)
LEMMA SetListStays ==
  ASSUME task' = task, matrix' = matrix, NEW l, NEW F, SetList(l, F) PROVE SetList(l, F)'
<1>1. \A i, g : ManifestName(i, g)' = ManifestName(i, g)
  BY DEF ManifestName, Targets, Tag, GetDefaultTag
<1>2. \A x : SetSpec(x) => SetSpec(x)'
  BY <1>1 DEF SetSpec
<1>3. \A q : SetAt(l, q, F) => SetAt(l, q, F)'
  BY <1>2 DEF SetAt
<1> QED
  BY <1>3 DEF SetList

(* Nor are the specs a callback returned.                                  *)
LEMMA SubsStay ==
  ASSUME NEW g, replace'[g] = replace[g], NEW s, SubsSet(g, s) PROVE SubsSet(g, s)'
<1>1. \A x : SubSet(g, x) => SubSet(g, x)'
  BY DEF SubSet
<1> QED
  BY <1>1 DEF SubsSet

(* With a token the rest may be less than set for.                         *)
LEMMA SetForAll ==
  ASSUME NEW t, NEW d, NEW unset, NEW other, DataSet(t, d, unset), unset = NoToken \/ t # unset \/ unset = other
  PROVE  DataSet(t, d, other)
<1>1. t # NoToken
  BY TokensDiffer DEF DataSet
<1> QED
  BY <1>1 DEF DataSet

(* What the specs to come use is there when an entry has moved.            *)
LEMMA SetProceeds ==
  ASSUME EngineInv, task' = task, matrix' = matrix, NEW g \in Entries, stage[g] = "running",
         DOMAIN iid' = Entries, IidsMade(g), SetHost,
         NEW l, NEW F, NEW p, NEW sub, SetKept(g, l, F, p, sub),
         NEW data, NEW new, SetMove(g, data, new, sub = <<>> /\ p = 1 /\ F # 0)
  PROVE  \E p2, sub2 : SetKept(g, l, F, p2, sub2)'
<1> DEFINE x == Current(g)
           first == sub = <<>> /\ p = 1 /\ F # 0
<1>1. /\ ComesTo(g, l, p, sub) /\ IsSeq(l) /\ IsSeq(sub) /\ Len(l) \in Nat /\ p \in 1..(Len(l) + 1)
      /\ sub = <<>> => p \in 1..Len(l) /\ x = l[p] /\ SetAt(l, p, F)
      /\ sub # <<>> => x = sub[1] /\ SubSet(g, sub[1]) /\ Len(sub) \in Nat \ {0}
  BY CurrentSet
<1>2. /\ SetList(l, F) /\ SubsSet(g, sub)
      /\ \A q \in 1..(p - 1) : l[q].out # NoToken => l[q].out \in DOMAIN replace[g]
      /\ \A t \in DOMAIN replace[g] : DataSet(t, replace[g][t].data, UnsetAt(l, F, p))
      /\ (\E q \in 1..(p - 1) : l[q].op \in {"commit-final", "bud"}) => iid[g] # Empty
  BY DEF SetKept
<1>3. /\ Moves(g, data, new) /\ SubsSet(g, new) /\ (x.ignore => new = <<>>)
      /\ x.out # NoToken => DataSet(x.out, data, IF first THEN x.out ELSE NoToken)
      /\ x.op \in {"commit-final", "bud"} => iid'[g] # Empty
      /\ new # <<>> => x.out = NoToken /\ x.op \in {"delete-containers", "manifest-update"}
  BY DEF SetMove
<1>4. x.ignore \in BOOLEAN /\ IsSeq(new) /\ (sub # <<>> => new = <<>> /\ x.out = NoToken /\ x.op \notin {"commit-final", "bud"})
  <2>1. sub = <<>> => x.ignore \in BOOLEAN
    BY <1>1 DEF SetAt, SetSpec
  <2>2. sub # <<>> => x.ignore \in BOOLEAN /\ x.out = NoToken /\ x.op \notin {"delete-containers", "manifest-update", "commit-final", "bud"}
    BY <1>1 DEF SubSet, SubSpec
  <2>3. IsSeq(new)
    BY <1>3 DEF SubsSet
  <2> HIDE DEF x
  <2> QED
    BY <1>3, <2>1, <2>2, <2>3
<1>5. IF sub = <<>> THEN Placed(g, l, p + 1, new)' ELSE Placed(g, l, p, Tail(sub))'
  BY <1>1, <1>3, <1>4, PlaceMoves
<1>6. /\ x.out = NoToken => replace'[g] = replace[g]
      /\ x.out # NoToken =>
           /\ DOMAIN replace'[g] = DOMAIN replace[g] \cup {x.out}
           /\ replace'[g][x.out].data = data
           /\ \A t \in DOMAIN replace[g] : t # x.out => replace'[g][t] = replace[g][t]
  BY <1>3, MoveKeeps
<1>7. SetList(l, F)'
  BY <1>2, SetListStays
<1>8. iid[g] # Empty => iid'[g] # Empty
  BY DEF IidsMade, SetHost, Empty
<1> HIDE DEF x, first
<1>9. CASE sub # <<>>
  <2>1. replace'[g] = replace[g] /\ x.out = NoToken
    BY <1>4, <1>6, <1>9
  <2>2. PICK S : sub \in Seq(S)
    BY <1>1 DEF IsSeq
  <2>3. /\ Tail(sub) \in Seq(S) /\ \A k \in 1..Len(Tail(sub)) : k + 1 \in 1..Len(sub) /\ Tail(sub)[k] = sub[k + 1]
    BY <1>9, <2>2, TailElements
  <2>4. SubsSet(g, Tail(sub))
    BY <1>2, <2>3, SeqIsSeq DEF SubsSet
  <2>5. SubsSet(g, Tail(sub))'
    BY <2>1, <2>4, SubsStay
  <2>6. Placed(g, l, p, Tail(sub))'
    BY <1>5, <1>9
  <2>7. SetKept(g, l, F, p, Tail(sub))'
    BY <1>2, <1>7, <1>8, <2>1, <2>5, <2>6 DEF SetKept, UnsetAt
  <2> QED
    BY <2>7
<1>10. CASE sub = <<>>
  <2>1. p \in 1..Len(l) /\ x = l[p] /\ SetAt(l, p, F) /\ Placed(g, l, p + 1, new)'
    BY <1>1, <1>5, <1>10
  <2>2. SubsSet(g, new)'
    <3>1. CASE new = <<>>
      BY <3>1, NoSpecs DEF SubsSet
    <3>2. CASE new # <<>>
      BY <1>3, <1>6, <3>2, SubsStay DEF x
    <3> QED
      BY <3>1, <3>2
  <2>3. PICK r : r = p + 1
    OBVIOUS
  <2>4. \A q \in 1..(r - 1) : q \in 1..(p - 1) \/ q = p
    BY <1>1, <2>1, <2>3
  <2>5. ASSUME NEW q \in 1..(r - 1), l[q].out # NoToken PROVE l[q].out \in DOMAIN replace'[g]
    BY <1>2, <1>6, <2>1, <2>4, <2>5
  <2>6. (\E q \in 1..(r - 1) : l[q].op \in {"commit-final", "bud"}) => iid'[g] # Empty
    BY <1>2, <1>3, <1>8, <2>1, <2>4 DEF x
  <2>7. /\ r <= F => p <= F
        /\ p <= F /\ ~(r <= F) => p = F /\ p # 1 /\ F # 0
        /\ first => r <= F
    BY <1>2, <2>1, <2>3 DEF SetList, first
  <2>8. /\ UnsetAt(l, F, p) = NoToken \/ UnsetAt(l, F, p) = UnsetAt(l, F, r) \/ UnsetAt(l, F, p) = x.out
        /\ p = F => UnsetAt(l, F, p) = x.out
    <3>1. p = F => l[1].out = x.out
      BY <1>2, <2>1 DEF SetList
    <3>2. (p <= F /\ p = F) => UnsetAt(l, F, p) = x.out
      BY <3>1 DEF UnsetAt
    <3>3. p = F => p <= F
      BY <2>1
    <3> QED
      BY <2>7, <3>2, <3>3 DEF UnsetAt
  <2>9. ASSUME NEW t \in DOMAIN replace'[g] PROVE DataSet(t, replace'[g][t].data, UnsetAt(l, F, r))
    <3>1. CASE x.out # NoToken /\ t = x.out
      <4>1. DataSet(t, data, IF first THEN x.out ELSE NoToken) /\ replace'[g][t].data = data
        BY <1>3, <1>6, <3>1 DEF x, first
      <4>2. CASE first
        <5>1. UnsetAt(l, F, r) = x.out
          BY <2>1, <2>7, <4>2 DEF UnsetAt, first
        <5> QED
          BY <4>1, <4>2, <5>1
      <4>3. CASE ~first
        BY <4>1, <4>3, SetForAll
      <4> QED
        BY <4>2, <4>3
    <3>2. CASE x.out = NoToken \/ t # x.out
      <4>1. t \in DOMAIN replace[g] /\ replace'[g][t] = replace[g][t]
        BY <1>6, <2>9, <3>2
      <4>2. DataSet(t, replace[g][t].data, UnsetAt(l, F, p))
        BY <1>2, <4>1
      <4>3. t # NoToken
        BY <4>2, TokensDiffer DEF DataSet
      <4>4. t # x.out
        BY <3>2, <4>3
      <4>5. DataSet(t, replace[g][t].data, UnsetAt(l, F, r))
        BY <2>8, <4>2, <4>4, SetForAll
      <4> QED
        BY <4>1, <4>5
    <3> QED
      BY <3>1, <3>2
  <2>10. Placed(g, l, r, new)'
    BY <2>1, <2>3
  <2>11. SetKept(g, l, F, r, new)'
    BY <1>7, <2>2, <2>5, <2>6, <2>9, <2>10 DEF SetKept, UnsetAt
  <2> QED
    BY <2>11
<1> QED
  BY <1>9, <1>10

(* The cache is of names, none of which is a token.                        *)
LEMMA CachePlain ==
  ASSUME NEW g, \A m \in mcache : ~IsToken(m.name) PROVE \A m \in Cached(g) : ~IsToken(m.name)
<1>1. ASSUME NEW c \in Cached(g) PROVE ~IsToken(c.name)
  <2>1. PICK n : n = c.name
    OBVIOUS
  <2>2. c \in mcache \/ \E i \in Reached(g) : n = ManifestName(i, g)
    BY <2>1 DEF Cached
  <2>3. ~IsToken(n)
    BY <2>1, <2>2, NotTokens DEF ManifestName
  <2> QED
    BY <2>1, <2>3
<1> QED
  BY <1>1

(* An entry starts with nothing kept, which its list does not need.        *)
LEMMA SetStarts ==
  ASSUME EngineInv, NEW g \in Entries, task' = task, matrix' = matrix, DOMAIN replace[g] = {},
         NEW l, NEW F, SetList(l, F), Generated(g, l)
  PROVE  SetEntry(g)'
<1>1. Placed(g, l, 1, <<>>)'
  BY PlaceStarts DEF SetList
<1>2. replace' = replace /\ stage'[g] \notin {"waiting", "started"}
  BY <1>1 DEF Generated, Placed
<1>3. SubsSet(g, <<>>)'
  BY NoSpecs DEF SubsSet
<1>4. SetList(l, F)'
  BY SetListStays
<1>5. DOMAIN replace'[g] = {}
  BY <1>2
<1>6. \A q \in 1..(1 - 1) : FALSE
  OBVIOUS
<1>7. SetKept(g, l, F, 1, <<>>)'
  BY <1>1, <1>3, <1>4, <1>5, <1>6 DEF SetKept
<1> QED
  BY <1>2, <1>7 DEF SetEntry

(* GetExecSpecs of buildah generates such lists only.                      *)
LEMMA SetGenerates ==
  ASSUME EngineInv, SetInv, StartsFrom, EarlierSteps, NEW g \in Entries, GenBuildah(g)
  PROVE  /\ SetHost' /\ SetEntry(g)' /\ task' = task /\ matrix' = matrix
         /\ \A h \in Entries \ {g} : iid'[h] = iid[h]
<1>0. /\ UNCHANGED <<task, matrix, tags, images, idFiles, manifests, count>> /\ stage[g] = "started"
      /\ iid' = iid \/ iid' = [iid EXCEPT ![g] = Empty]
      /\ mcache' \in {mcache, Cached(g), {}}
  BY DEF GenBuildah, GenPush, Generated, NotGenerated
<1>1. DOMAIN replace[g] = {} /\ SetHost
  BY <1>0 DEF SetInv, SetEntry
<1>2. StepsTyped /\ IsSeq(task.names) /\ IsFiniteSet(mcache) /\ \A m \in mcache : ~IsToken(m.name)
  BY <1>1 DEF SetHost, StepsTyped
<1>3. IsFiniteSet(mcache') /\ \A m \in mcache' : ~IsToken(m.name)
  <2>1. IsFiniteSet(Cached(g)) /\ \A m \in Cached(g) : ~IsToken(m.name)
    BY <1>2, CacheFinite, CachePlain
  <2>2. IsFiniteSet({}) /\ \A m \in {} : ~IsToken(m.name)
    BY FS_EmptySet
  <2> QED
    BY <1>0, <1>2, <2>1, <2>2
<1>4. SetHost' /\ \A h \in Entries \ {g} : iid'[h] = iid[h]
  <2>1. Entries' = Entries
    BY <1>0 DEF Entries
  <2>2. /\ DOMAIN iid' = Entries
        /\ \A h \in Entries : iid'[h] = Empty \/ \E i, k : iid'[h] = <<"id", i, k>>
        /\ \A h \in Entries \ {g} : iid'[h] = iid[h]
    BY <1>0, <1>1 DEF SetHost
  <2> QED
    BY <1>0, <1>1, <1>3, <2>1, <2>2 DEF SetHost, StepsTyped
<1>5. ASSUME NotGenerated(g) PROVE SetEntry(g)'
  <2>1. stage'[g] = "failed"
    BY <1>5 DEF NotGenerated, Goto, EngineInv, TypeOK, ExecTypeOK
  <2> QED
    BY <2>1 DEF SetEntry
<1>6. ASSUME NEW l, NEW F, SetList(l, F), Generated(g, l) PROVE SetEntry(g)'
  BY <1>0, <1>1, <1>6, SetStarts
<1>7. CASE task.kind = "xbuild" /\ KindsKnown /\ Generated(g, XBuildSpecs(g))
  <2>1. PICK l : l = XBuildSpecs(g)
    OBVIOUS
  <2>2. PICK off, D, M, at : XBuildList(g, l, off, D, M, at)
    BY <1>2, <1>7, <2>1, XBuildListed
  <2>3. PICK F : SetList(l, F)
    BY <1>2, <1>7, <2>2, XBuildSet
  <2> QED
    BY <1>0, <1>4, <1>6, <1>7, <2>1, <2>3
<1>8. CASE Generated(g, BuildSpecs(g))
  <2>1. PICK l : l = BuildSpecs(g)
    OBVIOUS
  <2>2. SetList(l, 0)
    BY <1>2, <2>1, BuildSet
  <2> QED
    BY <1>0, <1>4, <1>6, <1>8, <2>1, <2>2
<1>9. CASE GenPush(g) /\ ~NotGenerated(g)
  <2>1. NoIdFile(g) = {}
    BY <1>9 DEF GenPush
  <2>2. /\ SetList(PushImageSpecs(g), 0)
        /\ \A ms \in Sorted(Cached(g)) : SetList(PushImageSpecs(g) \o ManifestPushSpecs(ms), 0)
    <3>1. IsFiniteSet(Cached(g)) /\ \A n \in DOMAIN idFiles : ~IsToken(idFiles[n])
      BY <1>1, <1>2, CacheFinite DEF SetHost
    <3> QED
      BY <1>2, <2>1, <3>1, PushSet
  <2>3. Generated(g, PushImageSpecs(g)) \/ \E ms \in Sorted(Cached(g)) : Generated(g, PushImageSpecs(g) \o ManifestPushSpecs(ms))
    BY <1>9, <2>1 DEF GenPush
  <2> QED
    BY <1>0, <1>4, <1>6, <2>2, <2>3
<1>10. CASE Generated(g, <<Cmd("login", <<>>)>>)
  BY <1>0, <1>4, <1>6, <1>10, LoginSet
<1>11. NotGenerated(g) \/ (task.kind = "xbuild" /\ KindsKnown /\ Generated(g, XBuildSpecs(g)))
       \/ Generated(g, BuildSpecs(g)) \/ GenPush(g) \/ Generated(g, <<Cmd("login", <<>>)>>)
  BY DEF GenBuildah, KindsKnown
<1> QED
  BY <1>0, <1>4, <1>5, <1>7, <1>8, <1>9, <1>10, <1>11

(* What another entry does leaves those of one as they are.                *)
LEMMA SetStays ==
  ASSUME task' = task, matrix' = matrix, NEW h \in Entries, SetEntry(h),
         stage'[h] = stage[h], frames'[h] = frames[h], replace'[h] = replace[h], iid'[h] = iid[h]
  PROVE  SetEntry(h)'
<1>1. ASSUME NEW l, NEW F, NEW p, NEW sub, SetKept(h, l, F, p, sub) PROVE SetKept(h, l, F, p, sub)'
  <2>1. SetList(l, F)' /\ SubsSet(h, sub)'
    BY <1>1, SetListStays, SubsStay DEF SetKept
  <2>2. Placed(h, l, p, sub)'
    BY <1>1 DEF SetKept, Placed, ComesTo
  <2> QED
    BY <1>1, <2>1, <2>2 DEF SetKept, UnsetAt
<1> QED
  BY <1>1 DEF SetEntry

(* A command or callback keeps the invariant.                              *)
LEMMA SetStep ==
  ASSUME EngineInv, SetInv, NEW g \in Entries, BuildahStep(g) PROVE SetInv'
<1>1. SetHost
  BY DEF SetInv
<1>2. Executed(g) /\ stage[g] = "running"
  BY BuildahExecuted DEF Executed
<1>3. Entries' = Entries /\ \A h \in Entries \ {g} : stage'[h] = stage[h] /\ frames'[h] = frames[h] /\ replace'[h] = replace[h]
  BY <1>2, ExecutedStage, ExecutedReplace DEF Entries
<1>4. PICK l, F, p, sub : SetKept(g, l, F, p, sub)
  BY <1>2 DEF SetInv, SetEntry
<1>5. PICK unset, first : unset = UnsetAt(l, F, p) /\ first = (sub = <<>> /\ p = 1 /\ F # 0)
  OBVIOUS
<1>6. first \in BOOLEAN /\ ComesTo(g, l, p, sub) /\ ReadySet(g, unset, first)
  BY <1>2, <1>4, <1>5, CurrentSet
<1>7. SetHost' /\ IidsMade(g) /\ UNCHANGED fixed
  BY <1>1, <1>2, <1>3, <1>6, SetHostKept
<1>8. task' = task /\ matrix' = matrix /\ DOMAIN iid' = Entries /\ \A h \in Entries \ {g} : iid'[h] = iid[h]
  BY <1>1, <1>3, <1>7 DEF fixed, IidsMade, SetHost
<1>9. SetEntry(g)'
  <2>1. Fails(g) \/ \E data, new : SetMove(g, data, new, first)
    BY <1>1, <1>2, <1>6, SetMoves
  <2>2. CASE Fails(g)
    BY <1>2, <1>6, <2>2, FailsEnds DEF SetEntry
  <2>3. CASE \E data, new : SetMove(g, data, new, first)
    <3>1. PICK data, new : SetMove(g, data, new, sub = <<>> /\ p = 1 /\ F # 0)
      BY <1>5, <2>3
    <3>2. PICK p2, sub2 : SetKept(g, l, F, p2, sub2)'
      BY <1>1, <1>2, <1>4, <1>7, <1>8, <3>1, SetProceeds
    <3>3. stage'[g] \in {"running", "ok"}
      BY <3>2 DEF SetKept, Placed
    <3> QED
      BY <3>2, <3>3 DEF SetEntry
  <2> QED
    BY <2>1, <2>2, <2>3
<1>10. ASSUME NEW h \in Entries, h # g PROVE SetEntry(h)'
  BY <1>3, <1>8, <1>10, SetStays DEF SetInv
<1> QED
  BY <1>3, <1>7, <1>9, <1>10 DEF SetInv

(* So what a spec uses has been kept, and is something.                    *)
LEMMA SetUsed ==
  ASSUME EngineInv, NEW g \in Entries, stage[g] = "running", NEW l, NEW F, NEW p, NEW sub, SetKept(g, l, F, p, sub),
         NEW i \in DOMAIN Current(g).args, NEW a, a = Current(g).args[i], IsToken(a)
  PROVE  a \in DOMAIN replace[g] /\ (a # COPY_IMAGE => replace[g][a].data # Empty)
<1> DEFINE x == Current(g)
<1>1. /\ p \in 1..(Len(l) + 1) /\ Len(l) \in Nat
      /\ sub = <<>> => p \in 1..Len(l) /\ x = l[p] /\ SetAt(l, p, F)
      /\ sub # <<>> => x = sub[1] /\ SubSet(g, sub[1])
      /\ ReadySet(g, UnsetAt(l, F, p), sub = <<>> /\ p = 1 /\ F # 0)
  BY CurrentSet
<1>2. SetList(l, F)
  BY DEF SetKept
<1>3. Uses(x, DOMAIN replace[g]) /\ \A t \in DOMAIN replace[g] : DataSet(t, replace[g][t].data, UnsetAt(l, F, p))
  BY <1>1 DEF ReadySet
<1>4. a \in DOMAIN replace[g] /\ DataSet(a, replace[g][a].data, UnsetAt(l, F, p))
  BY <1>3 DEF Uses
<1>5. ASSUME sub # <<>> PROVE a = IMAGE_ID
  BY <1>1, <1>5 DEF SubSet, Uses
<1>6. a # MANIFEST_SPEC
  <2>1. CASE sub = <<>>
    BY <1>1, <2>1 DEF SetAt, NoSpecUsed
  <2>2. CASE sub # <<>>
    BY <1>5, <2>2, TokensDiffer
  <2> QED
    BY <2>1, <2>2
<1>7. a # UnsetAt(l, F, p)
  <2>1. CASE p <= F
    <3>1. PICK id : l[1].out = STEP(id)
      BY <1>1, <1>2, <2>1 DEF SetList
    <3>2. p \in 1..F
      BY <1>1, <1>2, <2>1 DEF SetList
    <3>3. sub = <<>> => Uses(x, {FROM_REF, CTR_NAME})
      BY <1>1, <1>2, <3>2 DEF SetList
    <3>4. a \in {IMAGE_ID, FROM_REF, CTR_NAME}
      BY <1>5, <3>3 DEF Uses
    <3>5. a \in Tokens
      BY <3>4 DEF Tokens
    <3> QED
      BY <2>1, <3>1, <3>5, TokensDiffer DEF UnsetAt
  <2>2. CASE ~(p <= F)
    BY <2>2, TokensDiffer DEF UnsetAt
  <2> QED
    BY <2>1, <2>2
<1> QED
  BY <1>4, <1>6, <1>7 DEF DataSet

(* It holds at first.                                                      *)
LEMMA InitPlaceholders == Init => PlaceholdersInv
<1> SUFFICES ASSUME Init PROVE PlaceholdersInv
  OBVIOUS
<1>1. /\ job \in Jobs /\ stage = [g \in Entries |-> "waiting"] /\ replace = [g \in Entries |-> <<>>]
      /\ iid = [g \in Entries |-> Empty] /\ images = <<>> /\ mcache = {}
      /\ manifests = job.manifests /\ idFiles = job.idFiles /\ tags = job.tags
  BY DEF Init, ExecInit, Entries
<1>2. EngineInv /\ StepsTyped
  BY InitEngine, NamesListed
<1>3. DOMAIN images = {} /\ \A g \in Entries : stage[g] = "waiting" /\ DOMAIN replace[g] = {}
  BY <1>1
<1>4. DOMAIN iid = Entries /\ \A h \in Entries : iid[h] = Empty
  BY <1>1
<1>5. \A n \in DOMAIN manifests : ImagesPlain(manifests[n])
  BY <1>1, EarlierRunsAssumption DEF ImagesPlain, LeftImage
<1>6. (\A n \in DOMAIN tags : tags[n] # Empty) /\ \A n \in DOMAIN idFiles : ~IsToken(idFiles[n])
  BY <1>1, EarlierRunsAssumption
<1>7. IsFiniteSet(mcache) /\ \A m \in mcache : ~IsToken(m.name)
  BY <1>1, FS_EmptySet
<1>8. SetHost
  BY <1>2, <1>3, <1>4, <1>5, <1>6, <1>7 DEF SetHost
<1>9. SetInv
  BY <1>3, <1>8 DEF SetInv, SetEntry
<1> QED
  BY <1>2, <1>9 DEF PlaceholdersInv

(* Every step keeps it.                                                    *)
LEMMA NextPlaceholders == PlaceholdersInv /\ [Next]_vars => PlaceholdersInv'
<1> SUFFICES ASSUME PlaceholdersInv, [Next]_vars PROVE PlaceholdersInv'
  OBVIOUS
<1>1. EngineInv /\ EngineInv'
  BY NextEngine DEF PlaceholdersInv
<1>2. job' = job /\ task' = task /\ matrix' = matrix
  BY DEF Next, BuildahNext, DockerNext, GoNext, CosignNext, Terminated, vars, buildahVars, GenBuildah, GenDocker,
     BuildahStep, DockerStep, fixed
<1>3. StartsFrom' = StartsFrom /\ EarlierSteps' = EarlierSteps
  BY <1>2 DEF StartsFrom, EarlierSteps, Unskipped, StepID
<1> SUFFICES ASSUME job.tool = "buildah", StartsFrom, EarlierSteps PROVE SetInv'
  BY <1>1, <1>2, <1>3 DEF PlaceholdersInv
<1>4. SetInv
  BY DEF PlaceholdersInv
<1>5. CASE UNCHANGED vars
  <2>1. UNCHANGED <<count, stage, frames, replace, task, matrix, tags, images, idFiles, iid, manifests, mcache>>
    BY <1>5 DEF vars, execVars, buildahVars
  <2>2. SetHost' /\ Entries' = Entries
    BY <1>4, <2>1 DEF SetInv, SetHost, StepsTyped, Entries
  <2>3. ASSUME NEW h \in Entries PROVE SetEntry(h)'
    BY <1>4, <2>1, SetStays DEF SetInv
  <2> QED
    BY <2>2, <2>3 DEF SetInv
<1>6. ASSUME NEW g \in Entries, Start(g), UNCHANGED buildahVars PROVE SetInv'
  <2>1. /\ UNCHANGED <<count, frames, replace, task, matrix, tags, images, idFiles, iid, manifests, mcache>>
        /\ stage[g] = "waiting" /\ stage'[g] = "started" /\ \A h \in Entries \ {g} : stage'[h] = stage[h]
    BY <1>1, <1>6 DEF Start, Goto, buildahVars, EngineInv, TypeOK, ExecTypeOK
  <2>2. SetHost' /\ Entries' = Entries
    BY <1>4, <2>1 DEF SetInv, SetHost, StepsTyped, Entries
  <2>3. ASSUME NEW h \in Entries, h # g PROVE SetEntry(h)'
    BY <1>4, <2>1, <2>3, SetStays DEF SetInv
  <2>4. SetEntry(g)'
    BY <1>4, <2>1 DEF SetInv, SetEntry
  <2> QED
    BY <2>2, <2>3, <2>4 DEF SetInv
<1>7. ASSUME NEW g \in Entries, BuildahNext(g) PROVE SetInv'
  <2>1. CASE BuildahStep(g)
    BY <1>1, <1>4, <2>1, SetStep
  <2>2. CASE GenBuildah(g)
    <3>1. SetHost' /\ SetEntry(g)' /\ \A h \in Entries \ {g} : iid'[h] = iid[h]
      BY <1>1, <1>4, <2>2, SetGenerates
    <3>2. /\ Entries' = Entries /\ replace' = replace
          /\ \A h \in Entries \ {g} : stage'[h] = stage[h] /\ frames'[h] = frames[h]
      <4>1. ASSUME NEW l, Generated(g, l)
            PROVE  /\ count' = count /\ replace' = replace
                   /\ \A h \in Entries \ {g} : stage'[h] = stage[h] /\ frames'[h] = frames[h]
        BY <1>1, <4>1 DEF Generated, Goto, EngineInv, TypeOK, ExecTypeOK
      <4>2. ASSUME NotGenerated(g)
            PROVE  /\ count' = count /\ replace' = replace
                   /\ \A h \in Entries \ {g} : stage'[h] = stage[h] /\ frames'[h] = frames[h]
        BY <1>1, <4>2 DEF NotGenerated, Goto, EngineInv, TypeOK, ExecTypeOK
      <4>3. NotGenerated(g) \/ \E l : Generated(g, l)
        BY <2>2 DEF GenBuildah, GenPush
      <4> QED
        BY <4>1, <4>2, <4>3 DEF Entries
    <3>3. ASSUME NEW h \in Entries, h # g PROVE SetEntry(h)'
      BY <1>2, <1>4, <3>1, <3>2, <3>3, SetStays DEF SetInv
    <3> QED
      BY <3>1, <3>2, <3>3 DEF SetInv
  <2> QED
    BY <1>7, <2>1, <2>2 DEF BuildahNext
<1>8. CASE Terminated
  BY <1>5, <1>8 DEF Terminated
<1> QED
  BY <1>5, <1>6, <1>7, <1>8 DEF Next

(* For any task of buildah whose first step makes a container and which    *)
(* copies from earlier steps only, on any matrix, with any number of       *)
(* workers and whatever earlier runs left: a buildah command is run with   *)
(* every token in it replaced, and by something (run.go's doRun, the       *)
(* tokens of task_xbuild.go and task_build.go). The container the first    *)
(* step begins with is nothing; no command is given that.                  *)
THEOREM ToolRunPlaceholders ==
  Spec => [](job.tool = "buildah" /\ StartsFrom /\ EarlierSteps => PlaceholdersSet)
<1>1. PlaceholdersInv => (job.tool = "buildah" /\ StartsFrom /\ EarlierSteps => PlaceholdersSet)
  <2> SUFFICES ASSUME PlaceholdersInv, job.tool = "buildah", StartsFrom, EarlierSteps,
                      NEW g \in Entries, stage[g] = "running",
                      NEW i \in DOMAIN Current(g).args, NEW a, a = Current(g).args[i], IsToken(a)
               PROVE  a \in DOMAIN replace[g] /\ (a # COPY_IMAGE => replace[g][a].data # Empty)
    BY DEF PlaceholdersSet
  <2>1. EngineInv /\ SetInv
    BY DEF PlaceholdersInv
  <2>2. PICK l, F, p, sub : SetKept(g, l, F, p, sub)
    BY <2>1 DEF SetInv, SetEntry
  <2> QED
    BY <2>1, <2>2, SetUsed
<1> QED
  BY InitPlaceholders, NextPlaceholders, <1>1, PTL DEF Spec

-----------------------------------------------------------------------------

(* Manifests                                                               *)

(* A callback of buildah that removes containers returns such a list.      *)
LEMMA RemovalList ==
  ASSUME NEW v, IsSeq(v) PROVE RmList([k \in DOMAIN v |-> Cmd("rm", <<v[k]>>)])
<1>1. PICK new : new = [k \in DOMAIN v |-> Cmd("rm", <<v[k]>>)]
  OBVIOUS
<1>2. SubList(new) /\ Len(new) = Len(v) /\ \A k \in 1..Len(v) : new[k].op = "rm" /\ new[k].args = <<v[k]>>
  BY <1>1, RemovalSpecs
<1>3. RmList(new)
  BY <1>2 DEF RmList, CallSpec, SubList, SubSpec
<1> QED
  BY <1>1, <1>3

(* A command or callback of buildah fails and changes nothing, or moves so.*)
LEMMA ManMoves ==
  ASSUME EngineInv, StepsTyped, NEW g \in Entries, BuildahStep(g), stage[g] = "running",
         Current(g).op \in {"delete-containers", "read-iidfile", "manifest-update", "manifest-remove", "manifest-add"} =>
           ~Current(g).ignore
  PROVE  \/ Fails(g) /\ UNCHANGED <<iid, images, manifests>>
         \/ /\ \E data, new : ManMove(g, data, new)
            /\ \A i \in DOMAIN images' : i \in DOMAIN images \/ \E h, k : i = <<"id", h, k>>
<1> DEFINE x == Current(g)
           Quiet == \A n : Linked(n)' = Linked(n)
           Loud == {"delete-containers", "read-iidfile", "manifest-inspect", "manifest-update", "manifest-remove", "manifest-add"}
           CanMove == \E data, new : ManMove(g, data, new)
           Held == \A i \in DOMAIN images' : i \in DOMAIN images \/ \E h, k : i = <<"id", h, k>>
<1>1. manifests' = manifests => Quiet
  BY DEF Linked
<1>2. ASSUME NEW data, Moves(g, data, <<>>), x.op \notin Loud, iid' = iid, Quiet PROVE CanMove
  BY <1>2 DEF ManMove
<1>3. images' = images => Held
  OBVIOUS
<1> HIDE DEF Quiet, CanMove, Held
<1>4. CASE \/ Pull(g) \/ From(g) \/ InspectContainer(g) \/ Run(g) \/ CopyIn(g) \/ Copy(g) \/ Rm(g)
           \/ KeepCurrent(g) \/ TagImage(g) \/ InspectImage(g) \/ Push(g) \/ Login(g)
  <2>1. /\ \E data : Succeed(g, data, <<>>)
        /\ UNCHANGED <<images, iid, manifests>> /\ x.op \notin Loud
    BY <1>4 DEF Pull, From, InspectContainer, Run, CopyIn, Copy, Rm, InContainer, KeepCurrent, TagImage,
                InspectImage, Push, Login, At, host
  <2>2. PICK data : Moves(g, data, <<>>)
    BY <2>1 DEF Moves
  <2>3. Quiet /\ Held /\ iid' = iid
    BY <1>1, <1>3, <2>1
  <2>4. CanMove
    BY <1>2, <2>1, <2>2, <2>3
  <2> QED
    BY <2>3, <2>4 DEF CanMove, Held
<1>5. CASE WriteFile(g)
  <2>1. /\ \E data : Succeed(g, data, <<>>) \/ Fail(g, data)
        /\ UNCHANGED <<images, iid, manifests>> /\ x.op \notin Loud
    BY <1>5 DEF WriteFile, At, host
  <2>2. PICK data : Succeed(g, data, <<>>) \/ Fail(g, data)
    BY <2>1
  <2>3. CASE Moves(g, data, <<>>)
    <3>1. Quiet /\ Held /\ iid' = iid
      BY <1>1, <1>3, <2>1
    <3>2. CanMove
      BY <1>2, <2>1, <2>3, <3>1
    <3> QED
      BY <3>1, <3>2 DEF CanMove, Held
  <2>4. CASE ~Moves(g, data, <<>>)
    BY <2>1, <2>2, <2>4 DEF Moves, Fails
  <2> QED
    BY <2>3, <2>4
<1>6. CASE DeleteContainers(g)
  <2>1. x.op = "delete-containers" /\ UNCHANGED <<images, iid, manifests>> /\ ~x.ignore
    BY <1>6 DEF DeleteContainers, At, host
  <2>2. PICK v : v = Visited(g)
    OBVIOUS
  <2>3. PICK new : new = [k \in DOMAIN v |-> Cmd("rm", <<v[k]>>)]
    OBVIOUS
  <2>4. Succeed(g, Empty, new) \/ Fail(g, Empty)
    BY <1>6, <2>2, <2>3 DEF DeleteContainers
  <2>5. IsSeq(v)
    BY <2>2, VisitedAll DEF StepsTyped
  <2>6. RmList(new)
    BY <2>3, <2>5, RemovalList
  <2>7. CASE Succeed(g, Empty, new)
    <3>1. ManMove(g, Empty, new)
      BY <1>1, <2>1, <2>6, <2>7 DEF ManMove, Moves, Quiet
    <3> QED
      BY <1>3, <2>1, <3>1 DEF CanMove
  <2> QED
    BY <2>1, <2>4, <2>7 DEF Fails
<1>7. CASE Commit(g) \/ Bud(g)
  <2>1. PICK n : n = Cardinality({i \in DOMAIN images : i[2] = g}) + 1
    OBVIOUS
  <2>2. PICK new : new = <<"id", g, n>>
    OBVIOUS
  <2>3. /\ x.op \in {"commit", "commit-final", "bud"} /\ Succeed(g, Empty, <<>>)
        /\ iid' = iid \/ (x.op \in {"commit-final", "bud"} /\ iid' = [iid EXCEPT ![g] = new])
        /\ \E c : images' = Update(images, new, c)
        /\ manifests' = manifests
    BY <1>7, <2>1, <2>2 DEF Commit, Bud, At, NewImage
  <2>4. ManMove(g, Empty, <<>>)
    BY <1>1, <2>2, <2>3 DEF ManMove, Moves, Quiet
  <2>5. DOMAIN images' = DOMAIN images \cup {new}
    BY <2>3 DEF Update
  <2> QED
    BY <2>2, <2>4, <2>5 DEF CanMove, Held
<1>8. CASE ReadIidFile(g)
  <2>1. x.op = "read-iidfile" /\ Succeed(g, iid[g], <<>>) /\ UNCHANGED <<images, iid, manifests>>
    BY <1>8 DEF ReadIidFile, At
  <2>2. ManMove(g, iid[g], <<>>)
    BY <1>1, <2>1 DEF ManMove, Moves, Quiet
  <2> QED
    BY <1>3, <2>1, <2>2 DEF CanMove
<1>9. CASE ManifestCreate(g)
  <2>1. /\ x.op = "manifest-create" /\ Succeed(g, Empty, <<>>) /\ UNCHANGED <<images, iid>>
        /\ Arg(g, 1) \notin DOMAIN manifests /\ manifests' = Update(manifests, Arg(g, 1), {})
    BY <1>9 DEF ManifestCreate, At
  <2>2. Quiet
    BY <2>1 DEF Quiet, Linked, Update
  <2>3. Moves(g, Empty, <<>>) /\ x.op \notin Loud /\ iid' = iid /\ images' = images
    BY <2>1 DEF Moves
  <2>4. CanMove
    BY <1>2, <2>2, <2>3
  <2> QED
    BY <1>3, <2>3, <2>4 DEF CanMove, Held
<1>10. CASE ManifestInspect(g)
  <2>1. /\ x.op = "manifest-inspect" /\ UNCHANGED <<images, iid, manifests>>
        /\ Succeed(g, <<"spec", Linked(Arg(g, 1))>>, <<>>)
    BY <1>10 DEF ManifestInspect, At, host, Linked
  <2>2. PICK data : data = <<"spec", Linked(Arg(g, 1))>>
    OBVIOUS
  <2>3. ManMove(g, data, <<>>)
    BY <1>1, <2>1, <2>2 DEF ManMove, Moves, Quiet
  <2> QED
    BY <1>3, <2>1, <2>3 DEF CanMove
<1>11. CASE ManifestUpdate(g)
  <2>1. x.op = "manifest-update" /\ UNCHANGED <<images, iid, manifests>>
    BY <1>11 DEF ManifestUpdate, At, host
  <2>2. PICK new : /\ Succeed(g, Empty, new)
                   /\ MANIFEST_SPEC \in DOMAIN replace[g] =>
                        new = UpdateSpecsOf(Arg(g, 1), Cardinality(OldImages(g)), SetToSeq(OldImages(g)))
    BY <1>11 DEF ManifestUpdate, UpdateSpecsOf, OldImages
  <2>3. ManMove(g, Empty, new)
    BY <1>1, <2>1, <2>2 DEF ManMove, Moves, Quiet
  <2> QED
    BY <1>3, <2>1, <2>3 DEF CanMove
<1>12. CASE ManifestRemove(g)
  <2>1. /\ x.op = "manifest-remove" /\ Succeed(g, Empty, <<>>) /\ UNCHANGED <<images, iid>>
        /\ manifests' = [manifests EXCEPT ![Arg(g, 1)] = @ \ {m \in manifests[Arg(g, 1)] : m.image = Arg(g, 2)}]
    BY <1>12 DEF ManifestRemove, At
  <2>2. PICK a, b : a = Arg(g, 1) /\ b = Arg(g, 2)
    OBVIOUS
  <2>3. \A n : Linked(n)' = IF n = a THEN {m \in Linked(n) : m.image # b} ELSE Linked(n)
    BY <2>1, <2>2 DEF Linked
  <2>4. ManMove(g, Empty, <<>>)
    BY <2>1, <2>2, <2>3 DEF ManMove, Moves
  <2> QED
    BY <1>3, <2>1, <2>4 DEF CanMove
<1>13. CASE ManifestAdd(g)
  <2>1. PICK a, b, e : a = Arg(g, 1) /\ b = Arg(g, 2) /\ e = [platform |-> PlatformOf(g), image |-> b]
    OBVIOUS
  <2>2. /\ x.op = "manifest-add" /\ Succeed(g, Empty, <<>>) /\ UNCHANGED <<images, iid>>
        /\ a \in DOMAIN manifests /\ b \in DOMAIN images /\ manifests' = [manifests EXCEPT ![a] = @ \cup {e}]
    BY <1>13, <2>1 DEF ManifestAdd, At
  <2>3. \A n : Linked(n)' = IF n = a THEN Linked(n) \cup {e} ELSE Linked(n)
    BY <2>2 DEF Linked
  <2>4. ManMove(g, Empty, <<>>)
    BY <2>1, <2>2, <2>3 DEF ManMove, Moves
  <2> QED
    BY <1>3, <2>2, <2>4 DEF CanMove
<1>14. CASE CommandFails(g)
  <2>1. (Fail(g, Empty) \/ NoToolCmd(g)) /\ UNCHANGED <<images, iid, manifests>>
    BY <1>14 DEF CommandFails, host
  <2>2. CASE Fail(g, Empty) /\ x.ignore
    <3>1. x.op \notin {"delete-containers", "read-iidfile", "manifest-update", "manifest-remove", "manifest-add"}
      BY <2>2
    <3>2. ManMove(g, Empty, <<>>)
      BY <1>1, <2>1, <2>2, <3>1 DEF ManMove, Moves, Quiet
    <3> QED
      BY <1>3, <2>1, <3>2 DEF CanMove
  <2> QED
    BY <2>1, <2>2 DEF Fails
<1> QED
  BY <1>4, <1>5, <1>6, <1>7, <1>8, <1>9, <1>10, <1>11, <1>12, <1>13, <1>14 DEF BuildahStep, CanMove, Held

(* The list of a `build` is such.                                          *)
LEMMA BuildManifests ==
  ASSUME IsSeq(task.names), NEW g, NEW l, l = BuildSpecs(g)
  PROVE  \E R, M, at : ManList(g, l, R, M, at)
<1>1. /\ IsSeq(l) /\ Len(l) \in Nat /\ 3 <= Len(l)
      /\ l[1] = Cmd("bud", <<>>) /\ l[2] = CmdInto("read-iidfile", <<>>, IMAGE_ID)
      /\ l[3] = CmdInto("inspect-image", <<IMAGE_ID>>, DIGEST)
  BY BuildListed
<1>2. PICK at : /\ ManifestsAt(g, l, at) /\ ManifestsOnly(g, l, at, 4)
                /\ \A i \in Named("manifest") : 4 <= at[i] + 1
  BY BuildListed
<1>3. /\ l[1].op = "bud" /\ l[1].out = NoToken /\ l[1].ignore \in BOOLEAN
      /\ l[2].op = "read-iidfile" /\ l[2].out = IMAGE_ID /\ ~l[2].ignore /\ l[2].ignore \in BOOLEAN
      /\ l[3].op = "inspect-image" /\ l[3].out = DIGEST /\ l[3].ignore \in BOOLEAN
  BY <1>1, IntoFields, PlainFields
<1>4. IsToken(IMAGE_ID) /\ IsToken(DIGEST) /\ MANIFEST_SPEC \notin {IMAGE_ID, DIGEST} /\ IMAGE_ID \notin {NoToken, DIGEST}
  BY TokensDiffer DEF Tokens, IMAGE_ID, DIGEST, NoToken
<1>5. HeadSpec(l[1]) /\ HeadSpec(l[2]) /\ HeadSpec(l[3])
  BY <1>3, <1>4 DEF HeadSpec, HeadOps
<1>6. ASSUME NEW q \in 1..(4 - 1)
      PROVE  HeadSpec(l[q]) /\ (q # 2 => l[q].out # IMAGE_ID) /\ (l[q].op \in {"commit-final", "bud"} => q < 2)
  <2>1. q = 1 \/ q = 2 \/ q = 3
    OBVIOUS
  <2> QED
    BY <1>3, <1>4, <1>5, <2>1
<1>7. 4 <= Len(l) + 1
  BY <1>1
<1>8. ManList(g, l, 2, 4, at)
  BY <1>1, <1>2, <1>3, <1>6, <1>7 DEF ManList
<1> QED
  BY <1>8

(* And so is that of an xbuild.                                            *)
LEMMA XBuildManifests ==
  ASSUME StepsTyped, KindsKnown, NEW g, NEW l, l = XBuildSpecs(g)
  PROVE  \E R, M, at : ManList(g, l, R, M, at)
<1>1. PICK off, D, M, at : XBuildList(g, l, off, D, M, at)
  BY XBuildListed
<1>2. /\ IsSeq(l) /\ Len(l) \in Nat /\ D \in Nat \ {0} /\ M \in Nat /\ D + 2 <= M /\ M <= Len(l) + 1
      /\ l[D] = Cmd("delete-containers", <<>>) /\ l[D + 1] = CmdInto("read-iidfile", <<>>, IMAGE_ID)
      /\ ManifestsAt(g, l, at) /\ ManifestsOnly(g, l, at, M)
      /\ \A i \in Named("manifest") : M <= at[i] + 1
  BY <1>1 DEF XBuildList
<1>3. /\ l[D].op = "delete-containers" /\ l[D].out = NoToken /\ ~l[D].ignore /\ l[D].ignore \in BOOLEAN
      /\ l[D + 1].op = "read-iidfile" /\ l[D + 1].out = IMAGE_ID /\ ~l[D + 1].ignore /\ l[D + 1].ignore \in BOOLEAN
  BY <1>2, IntoFields, PlainFields
<1>4. /\ \A t \in StepOuts : t # IMAGE_ID /\ t # MANIFEST_SPEC /\ (t = NoToken \/ IsToken(t))
      /\ \A id : STEP(id) \notin {IMAGE_ID, MANIFEST_SPEC} /\ IsToken(STEP(id))
      /\ IsToken(IMAGE_ID) /\ IMAGE_ID \notin {NoToken, MANIFEST_SPEC}
  BY TokensDiffer DEF Tokens, StepOuts, IMAGE_ID, MANIFEST_SPEC, NoToken, CURRENT, CTR_NAME, FROM_REF, COPY_IMAGE, SRC, REDACTED
<1>5. PICK R : R = D + 1
  OBVIOUS
<1>6. ASSUME NEW q \in 1..(D - 1)
      PROVE  HeadSpec(l[q]) /\ l[q].out # IMAGE_ID
  <2>0. PICK i \in Unskipped : \E k \in 1..Len(StepSpecs(g, i)) : q = off[i] + k
    BY <1>1, XBuildStep
  <2>1. PICK k : q = off[i] + k /\ k \in 1..Len(StepSpecs(g, i))
    BY <2>0
  <2>2. PICK b, f : StepBlock(i, b, f) /\ b = StepSpecs(g, i) /\ \A j \in 1..Len(b) : l[off[i] + j] = b[j]
    BY <1>1, XBuildStep
  <2>3. k \in 1..Len(b) /\ l[q] = b[k]
    BY <2>1, <2>2
  <2>4. b[k].op \in StepOps /\ b[k].ignore \in BOOLEAN /\ b[k].out \in StepOuts \cup {STEP(StepID(i))}
    BY <2>2, <2>3, StepKinds
  <2>5. b[k].op \notin {"delete-containers", "read-iidfile"}
    BY <2>4 DEF StepOps, GenOps
  <2> QED
    BY <1>4, <2>3, <2>4, <2>5 DEF HeadSpec, HeadOps
<1>7. ASSUME NEW q \in 1..(M - 1)
      PROVE  HeadSpec(l[q]) /\ (q # R => l[q].out # IMAGE_ID) /\ (l[q].op \in {"commit-final", "bud"} => q < R)
  <2>1. CASE q \in 1..(D - 1)
    BY <1>2, <1>5, <1>6, <2>1
  <2>2. CASE q = D
    BY <1>3, <1>4, <1>5, <2>2 DEF HeadSpec, HeadOps
  <2>3. CASE q = D + 1
    BY <1>3, <1>4, <1>5, <2>3 DEF HeadSpec, HeadOps
  <2>4. CASE q \in (D + 2)..(M - 1)
    <3>1. PICK y : l[q] = Cmd("tag", <<IMAGE_ID, y>>)
      BY <1>1, <2>4 DEF XBuildList
    <3>2. l[q].op = "tag" /\ l[q].out = NoToken /\ l[q].ignore \in BOOLEAN
      BY <3>1, PlainFields
    <3> QED
      BY <1>4, <3>2 DEF HeadSpec, HeadOps
  <2> QED
    BY <1>2, <2>1, <2>2, <2>3, <2>4
<1>8. R \in Nat \ {0} /\ R < M
  BY <1>2, <1>5
<1>9. ManList(g, l, R, M, at)
  BY <1>2, <1>3, <1>5, <1>7, <1>8 DEF ManList
<1> QED
  BY <1>9

(* What names and platforms are of does not change.                        *)
LEMMA PlatformsStay ==
  ASSUME UNCHANGED <<task, matrix>>, Entries' = Entries
  PROVE  /\ \A g : PlatformOf(g)' = PlatformOf(g)
         /\ \A img, p : Fits(img, p)' = Fits(img, p)
         /\ \A S : ImagesRight(S)' = ImagesRight(S)
<1>1. \A g : PlatformOf(g)' = PlatformOf(g)
  BY DEF PlatformOf
<1>2. \A img, p : Fits(img, p)' = Fits(img, p)
  BY <1>1 DEF Fits
<1>3. \A S : ImagesRight(S)' = ImagesRight(S)
  BY <1>2 DEF ImagesRight
<1> QED
  BY <1>1, <1>2, <1>3

(* Nor which entries have their platforms to themselves.                   *)
LEMMA AloneStay ==
  ASSUME UNCHANGED <<task, matrix>>, Entries' = Entries
  PROVE  /\ \A i, g : Alone(i, g)' = Alone(i, g)
         /\ \A i : LastNamed(i)' = LastNamed(i)
<1>1. \A i, g : Alone(i, g)' = Alone(i, g)
  BY NamesStay, PlatformsStay DEF Alone
<1>2. \A i : LastNamed(i)' = LastNamed(i)
  BY NamesStay DEF LastNamed
<1> QED
  BY <1>1, <1>2

(* Nor what a list is like.                                                *)
LEMMA ManListStays ==
  ASSUME UNCHANGED <<task, matrix>>, NEW g, NEW l, NEW R, NEW M, NEW at, ManList(g, l, R, M, at)
  PROVE  ManList(g, l, R, M, at)'
<1>1. Named("manifest")' = Named("manifest") /\ \A i : ManifestName(i, g)' = ManifestName(i, g)
  BY NamesStay
<1>2. ManifestsAt(g, l, at)'
  BY <1>1 DEF ManList, ManifestsAt, CreateSpec, LookSpec, UpdateSpec
<1>3. ManifestsOnly(g, l, at, M)'
  BY <1>1 DEF ManList, ManifestsOnly, ShowSpec
<1> QED
  BY <1>1, <1>2, <1>3 DEF ManList, HeadSpec

(* Nor what the specs are that a callback returned.                        *)
LEMMA SubsFitStay ==
  ASSUME UNCHANGED <<task, matrix>>, Entries' = Entries, NEW g, NEW M, NEW at, NEW p, NEW s, SubsFit(g, M, at, p, s)
  PROVE  SubsFit(g, M, at, p, s)'
<1>1. Named("manifest")' = Named("manifest") /\ \A i : ManifestName(i, g)' = ManifestName(i, g)
  BY NamesStay
<1>2. PlatformOf(g)' = PlatformOf(g) /\ \A img, q : Fits(img, q)' = Fits(img, q)
  BY PlatformsStay
<1> QED
  BY <1>1, <1>2 DEF SubsFit, RmList, UpdateList, Removes, Adds, CallSpec

(* SetToSeq of a finite set has all its elements.                          *)
LEMMA SeqHasAll ==
  ASSUME NEW S, IsFiniteSet(S), NEW x \in S
  PROVE  \E k \in 1..Cardinality(S) : SetToSeq(S)[k] = x
<1>1. PICK n \in Nat : n = Cardinality(S) /\ \E f : f \in Bijection(1..n, S)
  BY FS_CardinalityType DEF ExistsBijection
<1>2. \E f \in [1..n -> S] : IsInjective(f)
  BY <1>1 DEF Bijection, Injection, IsInjective
<1>3. PICK f : f = SetToSeq(S)
  OBVIOUS
<1>4. f \in [1..n -> S] /\ IsInjective(f)
  BY <1>1, <1>2, <1>3 DEF SetToSeq
<1>5. f \in Injection(1..n, S)
  BY <1>4 DEF Injection, IsInjective
<1>6. IsFiniteSet(1..n) /\ Cardinality(1..n) = n
  BY FS_Interval, <1>1
<1>7. f \in Surjection(1..n, S)
  BY <1>1, <1>5, <1>6, FS_Injection
<1> QED
  BY <1>1, <1>3, <1>7 DEF Surjection

(* What another entry does to the manifest of a target, if it is not for   *)
(* the same platform, is not to the images there for the platform of one.  *)
LEMMA TargetStays ==
  ASSUME UNCHANGED <<task, matrix>>, Entries' = Entries, ManHost, NEW g \in Entries, NEW h \in Entries \ {g},
         replace'[h] = replace[h], iid'[h] = iid[h], \A n : Touched(g, n),
         NEW i, NEW at, NEW p, NEW s, TargetRight(h, i, at, p, s)
  PROVE  TargetRight(h, i, at, p, s)'
<1>1. PICK n : n = ManifestName(i, h)
  OBVIOUS
<1>2. /\ ManifestName(i, h)' = n /\ PlatformOf(h)' = PlatformOf(h) /\ Alone(i, h)' = Alone(i, h)
      /\ LastNamed(i)' = LastNamed(i)
  BY <1>1, NamesStay, PlatformsStay, AloneStay
<1>3. Own(h)' = Own(h)
  BY <1>2 DEF Own
<1>4. ASSUME Alone(i, h)
      PROVE  /\ OfPlatform(h, i)' \subseteq OfPlatform(h, i)
             /\ iid[h] # Empty /\ Own(h) \in Linked(n) => Own(h) \in Linked(n)'
  <2>1. CASE Linked(n)' = Linked(n)
    BY <1>1, <1>2, <2>1 DEF OfPlatform, SamePlatform
  <2>2. CASE \E j : n = ManifestName(j, g)
    <3>1. n = ManifestName(i, g)
      BY <1>1, <2>2 DEF ManifestName
    <3>2. PlatformOf(g) # PlatformOf(h)
      BY <1>1, <1>4, <3>1 DEF Alone
    <3>3. /\ \A m \in Linked(n)' : m \in Linked(n) \/ m.platform = PlatformOf(g)
          /\ \A m \in Linked(n) : m \in Linked(n)' \/ Fits(m.image, PlatformOf(g))
      BY <2>1 DEF Touched
    <3>4. OfPlatform(h, i)' \subseteq OfPlatform(h, i)
      BY <1>1, <1>2, <3>2, <3>3 DEF OfPlatform, SamePlatform
    <3>5. ASSUME iid[h] # Empty PROVE ~Fits(iid[h], PlatformOf(g))
      BY <3>2, <3>5 DEF ManHost, Fits
    <3>6. Own(h).image = iid[h]
      BY DEF Own
    <3> QED
      BY <3>3, <3>4, <3>5, <3>6
  <2> QED
    BY <2>1, <2>2 DEF Touched
<1>5. LookedAt(h)' = LookedAt(h) /\ Updated(at, i, p, s)' = Updated(at, i, p, s)
  BY DEF LookedAt, Updated
<1> QED
  BY <1>1, <1>2, <1>3, <1>4, <1>5 DEF TargetRight

(* What another entry does leaves an entry as it is.                       *)
LEMMA ManStays ==
  ASSUME UNCHANGED <<task, matrix>>, Entries' = Entries, ManHost, NEW g \in Entries, NEW h \in Entries \ {g},
         ManEntry(h), stage'[h] = stage[h], frames'[h] = frames[h],
         replace'[h] = replace[h], iid'[h] = iid[h], \A n : Touched(g, n)
  PROVE  ManEntry(h)'
<1>1. LookRight(h) => LookRight(h)'
  BY PlatformsStay DEF LookRight
<1>2. ASSUME NEW l, NEW R, NEW M, NEW at, NEW p, NEW s, ManPlace(h, l, R, M, at, p, s)
      PROVE  ManPlace(h, l, R, M, at, p, s)'
  <2>1. /\ ManList(h, l, R, M, at) /\ Placed(h, l, p, s) /\ SubsFit(h, M, at, p, s)
        /\ p > R => IMAGE_ID \in DOMAIN replace[h] /\ replace[h][IMAGE_ID].data = iid[h]
        /\ \A i \in Named("manifest") : TargetRight(h, i, at, p, s)
    BY <1>2 DEF ManPlace
  <2>2. ManList(h, l, R, M, at)'
    BY <2>1, ManListStays
  <2>3. SubsFit(h, M, at, p, s)'
    BY <2>1, SubsFitStay
  <2>4. Placed(h, l, p, s)'
    BY <2>1 DEF Placed, ComesTo
  <2>5. Named("manifest")' = Named("manifest")
    BY NamesStay
  <2>6. \A i \in Named("manifest") : TargetRight(h, i, at, p, s)'
    BY <2>1, TargetStays
  <2> QED
    BY <2>1, <2>2, <2>3, <2>4, <2>5, <2>6 DEF ManPlace
<1> QED
  BY <1>1, <1>2 DEF ManEntry

(* What the entries share, after a step of one.                            *)
LEMMA ManHostStays ==
  ASSUME ManHost, UNCHANGED <<task, matrix>>, Entries' = Entries, NEW g \in Entries,
         \A i \in DOMAIN images' : i \in DOMAIN images \/ \E h, k : i = <<"id", h, k>>,
         NEW v, v = Empty \/ \E k : v = <<"id", g, k>>, iid' = iid \/ iid' = [iid EXCEPT ![g] = v],
         \A n : ImagesRight(Linked(n)')
  PROVE  ManHost'
<1>1. \A n : ImagesRight(Linked(n))'
  BY PlatformsStay DEF ImagesRight
<1>2. StepsTyped'
  BY DEF ManHost, StepsTyped
<1>3. \A i \in DOMAIN images' : \E h, k : i = <<"id", h, k>>
  BY DEF ManHost
<1>4. DOMAIN iid' = Entries /\ \A h \in Entries : iid'[h] = Empty \/ \E k : iid'[h] = <<"id", h, k>>
  BY DEF ManHost
<1> QED
  BY <1>1, <1>2, <1>3, <1>4 DEF ManHost

(* An entry starts before the manifests of its list.                       *)
LEMMA ManStarts ==
  ASSUME EngineInv, NEW g \in Entries, UNCHANGED <<task, matrix>>, Entries' = Entries, DOMAIN replace[g] = {},
         NEW l, NEW R, NEW M, NEW at, ManList(g, l, R, M, at), Generated(g, l)
  PROVE  ManEntry(g)'
<1>1. /\ IsSeq(l) /\ R \in Nat \ {0} /\ M \in Nat /\ R < M
      /\ \A i \in Named("manifest") : at[i] \in Nat /\ M <= at[i] + 1
  BY DEF ManList, ManifestsAt
<1>2. Placed(g, l, 1, <<>>)'
  BY <1>1, PlaceStarts
<1>3. replace' = replace /\ stage'[g] \notin {"waiting", "started"} /\ DOMAIN replace'[g] = {}
  BY <1>2 DEF Generated, Placed
<1>4. ManList(g, l, R, M, at)'
  BY ManListStays
<1>5. SubsFit(g, M, at, 1, <<>>)'
  BY DEF SubsFit
<1>6. ~(1 > R)
  BY <1>1
<1>7. ASSUME NEW i \in Named("manifest") PROVE TargetRight(g, i, at, 1, <<>>)'
  <2>1. at[i] >= 1
    BY <1>1
  <2>2. ~(1 > at[i] + 2) /\ 1 # at[i] + 3 /\ 1 # at[i] + 4 /\ ~(1 > at[i] + 4)
    BY <2>1, <1>1
  <2> QED
    BY <2>2 DEF TargetRight, Updated
<1>8. Named("manifest")' = Named("manifest")
  BY NamesStay
<1>9. ManPlace(g, l, R, M, at, 1, <<>>)'
  BY <1>2, <1>4, <1>5, <1>6, <1>7, <1>8 DEF ManPlace
<1>10. LookRight(g)'
  BY <1>3 DEF LookRight
<1> QED
  BY <1>3, <1>9, <1>10 DEF ManEntry

(* GetExecSpecs of an xbuild or a build.                                   *)
LEMMA ManGenerates ==
  ASSUME EngineInv, ManInv, Building, NEW g \in Entries, GenBuildah(g)
  PROVE  /\ ManHost' /\ ManEntry(g)' /\ UNCHANGED <<task, matrix, manifests>>
         /\ \A h \in Entries \ {g} : iid'[h] = iid[h]
<1>0. /\ UNCHANGED <<task, matrix, images, manifests, count>> /\ stage[g] = "started"
      /\ iid' = iid \/ iid' = [iid EXCEPT ![g] = Empty]
  BY DEF GenBuildah, GenPush, Generated, NotGenerated
<1>1. DOMAIN replace[g] = {} /\ ManHost /\ StepsTyped /\ IsSeq(task.names) /\ Entries' = Entries
  BY <1>0 DEF ManInv, ManEntry, ManHost, StepsTyped, Entries
<1>2. \A h \in Entries \ {g} : iid'[h] = iid[h]
  BY <1>0, <1>1 DEF ManHost
<1>3. ManHost'
  <2>1. \A n : Linked(n)' = Linked(n)
    BY <1>0 DEF Linked
  <2>2. \A n : ImagesRight(Linked(n)')
    BY <1>1, <2>1 DEF ManHost
  <2> QED
    BY <1>0, <1>1, <2>2, ManHostStays
<1>4. CASE NotGenerated(g)
  <2>1. stage'[g] = "failed"
    BY <1>4 DEF NotGenerated, Goto, EngineInv, TypeOK, ExecTypeOK
  <2> QED
    BY <1>0, <1>2, <1>3, <2>1 DEF ManEntry
<1>5. ASSUME NEW l, NEW R, NEW M, NEW at, ManList(g, l, R, M, at), Generated(g, l) PROVE ManEntry(g)'
  BY <1>0, <1>1, <1>5, ManStarts
<1>6. CASE KindsKnown /\ Generated(g, XBuildSpecs(g))
  <2>1. PICK l : l = XBuildSpecs(g)
    OBVIOUS
  <2>2. \E R, M, at : ManList(g, l, R, M, at)
    BY <1>1, <1>6, <2>1, XBuildManifests
  <2> QED
    BY <1>0, <1>2, <1>3, <1>5, <1>6, <2>1, <2>2
<1>7. CASE Generated(g, BuildSpecs(g))
  <2>1. PICK l : l = BuildSpecs(g)
    OBVIOUS
  <2>2. \E R, M, at : ManList(g, l, R, M, at)
    BY <1>1, <2>1, BuildManifests
  <2> QED
    BY <1>0, <1>2, <1>3, <1>5, <1>7, <2>1, <2>2
<1>8. NotGenerated(g) \/ (KindsKnown /\ Generated(g, XBuildSpecs(g))) \/ Generated(g, BuildSpecs(g))
  BY DEF GenBuildah, KindsKnown, Building
<1> QED
  BY <1>4, <1>6, <1>7, <1>8

(* What the manifests of a list are about.                                 *)
LEMMA ManListFacts ==
  ASSUME NEW g, NEW l, NEW R, NEW M, NEW at, ManList(g, l, R, M, at)
  PROVE  /\ IsSeq(l) /\ Len(l) \in Nat /\ R \in Nat \ {0} /\ M \in Nat /\ R < M
         /\ \A i \in Named("manifest") : at[i] \in Nat /\ M <= at[i] + 1 /\ R < at[i] + 1
         /\ \A i, j \in Named("manifest") : i < j => at[i] + 3 <= at[j]
         /\ Named("manifest") \subseteq DOMAIN Targets
<1>1. /\ IsSeq(l) /\ Len(l) \in Nat /\ R \in Nat \ {0} /\ M \in Nat /\ R < M
      /\ \A i \in Named("manifest") : at[i] \in Nat /\ M <= at[i] + 1
      /\ \A i, j \in Named("manifest") : i < j => at[i] + 3 <= at[j]
  BY DEF ManList, ManifestsAt
<1>2. Named("manifest") \subseteq DOMAIN Targets
  BY DEF Named
<1>3. ASSUME NEW i \in Named("manifest") PROVE R < at[i] + 1
  BY <1>1
<1> QED
  BY <1>1, <1>2, <1>3

(* The spec an entry has come to.                                          *)
LEMMA ManHere ==
  ASSUME EngineInv, NEW g \in Entries, stage[g] = "running",
         NEW l, NEW R, NEW M, NEW at, NEW p, NEW s, ManPlace(g, l, R, M, at, p, s)
  PROVE  /\ ComesTo(g, l, p, s) /\ p \in 1..(Len(l) + 1) /\ IsSeq(s)
         /\ s # <<>> => /\ Current(g) = s[1] /\ Len(s) \in Nat \ {0}
                        /\ \/ p <= M /\ RmList(s)
                           \/ \E i \in Named("manifest") : p = at[i] + 4 /\ UpdateList(g, i, s)
         /\ s = <<>> => /\ p \in 1..Len(l) /\ Current(g) = l[p]
                        /\ p < M => /\ HeadSpec(l[p]) /\ (p # R => l[p].out # IMAGE_ID)
                                    /\ l[p].op \in {"commit-final", "bud"} => p < R
                        /\ p >= M => /\ TailSpec(l[p])
                                     /\ \E i \in Named("manifest") : \/ p \in {at[i] + 1, at[i] + 2, at[i] + 3}
                                                                     \/ at[i] + 4 <= p /\ ShowSpec(g, i, l[p])
<1>1. /\ ManList(g, l, R, M, at) /\ ComesTo(g, l, p, s) /\ SubsFit(g, M, at, p, s) /\ p \in 1..(Len(l) + 1)
  BY DEF ManPlace, Placed, ComesTo
<1>2. IsSeq(l) /\ Len(l) \in Nat /\ M \in Nat
  BY <1>1, ManListFacts
<1>3. IsSeq(s)
  BY <1>1, NoSpecs DEF SubsFit, RmList, UpdateList
<1>4. Here(g, l, p, s)
  BY <1>1, <1>2, PlaceCurrent
<1>5. ASSUME s # <<>>
      PROVE  Current(g) = s[1] /\ Len(s) \in Nat \ {0}
  BY <1>3, <1>4, <1>5, TailElements DEF Here, IsSeq
<1>6. ASSUME s = <<>> PROVE p \in 1..Len(l) /\ Current(g) = l[p]
  BY <1>4, <1>6 DEF Here
<1>7. ASSUME s = <<>>, p < M
      PROVE  /\ HeadSpec(l[p]) /\ (p # R => l[p].out # IMAGE_ID)
             /\ l[p].op \in {"commit-final", "bud"} => p < R
  <2>1. p \in 1..(M - 1)
    BY <1>2, <1>6, <1>7
  <2> QED
    BY <1>1, <2>1 DEF ManList
<1>8. ASSUME s = <<>>, p >= M
      PROVE  /\ TailSpec(l[p])
             /\ \E i \in Named("manifest") : \/ p \in {at[i] + 1, at[i] + 2, at[i] + 3}
                                             \/ at[i] + 4 <= p /\ ShowSpec(g, i, l[p])
  <2>1. p \in M..Len(l)
    BY <1>2, <1>6, <1>8
  <2>2. ManifestsAt(g, l, at) /\ ManifestsOnly(g, l, at, M)
    BY <1>1 DEF ManList
  <2>3. TailSpec(l[p])
    BY <2>1, <2>2, ManifestTail
  <2> QED
    BY <2>1, <2>2, <2>3 DEF ManifestsOnly
<1> QED
  BY <1>1, <1>3, <1>5, <1>6, <1>7, <1>8 DEF SubsFit

(* Before the manifests nothing is to be known of them.                    *)
LEMMA BeforeTarget ==
  ASSUME NEW g, NEW l, NEW R, NEW M, NEW at, ManList(g, l, R, M, at), NEW i \in Named("manifest"),
         NEW p \in Nat, p <= at[i] + 2, NEW s
  PROVE  TargetRight(g, i, at, p, s)'
<1>1. at[i] \in Nat
  BY ManListFacts
<1>2. ~(p > at[i] + 2) /\ p # at[i] + 3 /\ p # at[i] + 4 /\ ~(p > at[i] + 4)
  BY <1>1
<1> QED
  BY <1>2 DEF TargetRight, Updated

(* An entry has moved when what it is to know is known at the next place.  *)
LEMMA ManPlaced ==
  ASSUME UNCHANGED <<task, matrix>>, Entries' = Entries, NEW g, LookRight(g)',
         NEW l, NEW R, NEW M, NEW at, ManList(g, l, R, M, at),
         NEW p, NEW s, Placed(g, l, p, s)', SubsFit(g, M, at, p, s),
         p > R => IMAGE_ID \in DOMAIN replace'[g] /\ replace'[g][IMAGE_ID].data = iid'[g],
         \A i \in Named("manifest") : TargetRight(g, i, at, p, s)'
  PROVE  ManEntry(g)'
<1>1. ManList(g, l, R, M, at)' /\ SubsFit(g, M, at, p, s)' /\ Named("manifest")' = Named("manifest")
  BY ManListStays, SubsFitStay, NamesStay
<1>2. ManPlace(g, l, R, M, at, p, s)'
  BY <1>1 DEF ManPlace
<1>3. stage'[g] \notin {"waiting", "started"}
  BY DEF Placed
<1> QED
  BY <1>2, <1>3 DEF ManEntry

(* A spec that keeps nothing about manifests.                              *)
LEMMA LookStays ==
  ASSUME EngineInv, NEW g \in Entries, stage[g] = "running", NEW data, NEW new, Moves(g, data, new),
         UNCHANGED <<task, matrix>>, Entries' = Entries,
         LookRight(g), Current(g).out = NoToken \/ (IsToken(Current(g).out) /\ Current(g).out # MANIFEST_SPEC)
  PROVE  LookRight(g)'
<1>1. CASE Current(g).out = NoToken
  <2>1. replace'[g] = replace[g]
    BY <1>1, MoveKeeps
  <2> QED
    BY <2>1, PlatformsStay DEF LookRight
<1>2. CASE Current(g).out # NoToken
  <2>1. /\ DOMAIN replace'[g] = DOMAIN replace[g] \cup {Current(g).out}
        /\ \A t \in DOMAIN replace[g] : t # Current(g).out => replace'[g][t] = replace[g][t]
    BY <1>2, MoveKeeps
  <2> QED
    BY <1>2, <2>1, PlatformsStay DEF LookRight
<1> QED
  BY <1>1, <1>2

(* An entry that has not come to the manifests of its list.                *)
LEMMA HeadMoves ==
  ASSUME EngineInv, NEW g \in Entries, stage[g] = "running", UNCHANGED <<task, matrix>>, Entries' = Entries,
         ManHost, LookRight(g),
         NEW l, NEW R, NEW M, NEW at, NEW p, NEW s, ManPlace(g, l, R, M, at, p, s),
         p < M \/ (p <= M /\ s # <<>>),
         NEW data, NEW new, ManMove(g, data, new)
  PROVE  ManEntry(g)'
<1>1. /\ ManList(g, l, R, M, at) /\ \A i \in Named("manifest") : TargetRight(g, i, at, p, s)
      /\ p > R => IMAGE_ID \in DOMAIN replace[g] /\ replace[g][IMAGE_ID].data = iid[g]
  BY DEF ManPlace
<1>2. /\ IsSeq(l) /\ Len(l) \in Nat /\ R \in Nat \ {0} /\ M \in Nat /\ R < M
      /\ \A i \in Named("manifest") : at[i] \in Nat /\ M <= at[i] + 1
  BY <1>1, ManListFacts
<1>3. /\ ComesTo(g, l, p, s) /\ p \in 1..(Len(l) + 1) /\ IsSeq(s) /\ p \in Nat
  BY <1>2, ManHere
<1>4. Moves(g, data, new)
  BY DEF ManMove
<1>5. IMAGE_ID # NoToken /\ MANIFEST_SPEC \notin {IMAGE_ID, NoToken} /\ ~IsToken(NoToken)
  BY TokensDiffer DEF Tokens
<1>6. ASSUME NEW q \in Nat, q <= M, NEW t, NEW i \in Named("manifest") PROVE TargetRight(g, i, at, q, t)'
  <2>1. q <= at[i] + 2
    BY <1>2, <1>6
  <2> QED
    BY <1>1, <1>6, <2>1, BeforeTarget
<1>7. CASE s = <<>>
  <2>1. /\ p \in 1..Len(l) /\ Current(g) = l[p] /\ p < M /\ HeadSpec(l[p]) /\ (p # R => l[p].out # IMAGE_ID)
        /\ l[p].op \in {"commit-final", "bud"} => p < R
    BY <1>7, ManHere
  <2>2. /\ Current(g).ignore \in BOOLEAN
        /\ Current(g).op = "delete-containers" => ~Current(g).ignore
        /\ Current(g).op # "manifest-update"
        /\ Current(g).out = NoToken \/ (IsToken(Current(g).out) /\ Current(g).out # MANIFEST_SPEC)
    BY <2>1 DEF HeadSpec, HeadOps, StepOps, GenOps
  <2>3. new = <<>> \/ (RmList(new) /\ ~Current(g).ignore)
    BY <2>2 DEF ManMove
  <2>4. IsSeq(new) /\ (Current(g).ignore => new = <<>>)
    BY <2>3, NoSpecs DEF RmList
  <2>5. Placed(g, l, p + 1, new)'
    BY <1>2, <1>3, <1>4, <1>7, <2>2, <2>4, PlaceMoves
  <2>6. LookRight(g)'
    BY <1>4, <2>2, LookStays
  <2>7. p + 1 \in Nat /\ p + 1 <= M
    BY <1>2, <1>3, <2>1
  <2>8. SubsFit(g, M, at, p + 1, new)
    BY <2>3, <2>7 DEF SubsFit
  <2>9. ASSUME p + 1 > R PROVE IMAGE_ID \in DOMAIN replace'[g] /\ replace'[g][IMAGE_ID].data = iid'[g]
    <3>1. Current(g).op \notin {"commit-final", "bud"} /\ iid' = iid
      BY <1>2, <1>3, <2>1, <2>9 DEF ManMove
    <3>2. CASE p = R
      <4>1. l[R].op = "read-iidfile" /\ l[R].out = IMAGE_ID /\ ~l[R].ignore
        BY <1>1 DEF ManList
      <4>2. data = iid[g] /\ Current(g).out = IMAGE_ID
        BY <2>1, <3>2, <4>1 DEF ManMove
      <4>3. /\ DOMAIN replace'[g] = DOMAIN replace[g] \cup {IMAGE_ID}
            /\ replace'[g][IMAGE_ID].data = data
        BY <1>4, <1>5, <4>2, MoveKeeps
      <4> QED
        BY <3>1, <4>2, <4>3
    <3>3. CASE p > R
      <4>1. Current(g).out # IMAGE_ID /\ IMAGE_ID \in DOMAIN replace[g] /\ replace[g][IMAGE_ID].data = iid[g]
        BY <1>1, <1>2, <1>3, <2>1, <3>3
      <4>2. CASE Current(g).out = NoToken
        BY <1>4, <3>1, <4>1, <4>2, MoveKeeps
      <4>3. CASE Current(g).out # NoToken
        BY <1>4, <3>1, <4>1, <4>3, MoveKeeps
      <4> QED
        BY <4>2, <4>3
    <3> QED
      BY <1>2, <1>3, <2>9, <3>2, <3>3
  <2>10. \A i \in Named("manifest") : TargetRight(g, i, at, p + 1, new)'
    BY <1>6, <2>7
  <2> QED
    BY <1>1, <2>5, <2>6, <2>8, <2>9, <2>10, ManPlaced
<1>8. CASE s # <<>>
  <2>1. Current(g) = s[1] /\ Len(s) \in Nat \ {0} /\ p <= M
    BY <1>2, <1>3, <1>8, ManHere
  <2>2. RmList(s)
    <3>1. ASSUME NEW i \in Named("manifest"), p = at[i] + 4 PROVE FALSE
      BY <1>2, <1>3, <2>1, <3>1
    <3> QED
      BY <1>8, <3>1, ManHere
  <2>3. 1 \in 1..Len(s)
    BY <2>1
  <2>4. /\ Current(g).op = "rm" /\ Current(g).out = NoToken /\ Current(g).ignore = FALSE
    BY <2>1, <2>2, <2>3 DEF RmList, CallSpec
  <2>5. new = <<>> /\ iid' = iid
    BY <2>4 DEF ManMove
  <2>6. replace'[g] = replace[g]
    BY <1>4, <2>4, MoveKeeps
  <2>7. Placed(g, l, p, Tail(s))'
    BY <1>2, <1>3, <1>4, <1>8, <2>4, <2>5, NoSpecs, PlaceMoves
  <2>8. RmList(Tail(s))
    <3>1. PICK S : s \in Seq(S)
      BY <1>3 DEF IsSeq
    <3>2. /\ Tail(s) \in Seq(S) /\ \A k \in 1..Len(Tail(s)) : k + 1 \in 1..Len(s) /\ Tail(s)[k] = s[k + 1]
      BY <1>8, <3>1, TailElements
    <3>3. IsSeq(Tail(s))
      BY <3>2, SeqIsSeq
    <3> QED
      BY <2>2, <3>2, <3>3 DEF RmList
  <2>9. LookRight(g)'
    BY <1>4, <2>4, LookStays
  <2>10. SubsFit(g, M, at, p, Tail(s))
    BY <2>1, <2>8 DEF SubsFit
  <2>11. \A i \in Named("manifest") : TargetRight(g, i, at, p, Tail(s))'
    BY <1>3, <1>6, <2>1
  <2> QED
    BY <1>1, <2>5, <2>6, <2>7, <2>9, <2>10, <2>11, ManPlaced
<1> QED
  BY <1>7, <1>8

(* What it removes are images for the platform of the entry.               *)
LEMMA OldImagesFit ==
  ASSUME NEW g, LookRight(g), MANIFEST_SPEC \in DOMAIN replace[g]
  PROVE  IsFiniteSet(OldImages(g)) /\ \A img \in OldImages(g) : ~IsToken(img) /\ Fits(img, PlatformOf(g))
<1>1. CASE replace[g][MANIFEST_SPEC].data = Empty
  BY <1>1, FS_EmptySet DEF OldImages
<1>2. CASE replace[g][MANIFEST_SPEC].data # Empty
  <2>1. PICK D : D = replace[g][MANIFEST_SPEC].data[2]
    OBVIOUS
  <2>2. ImagesRight(D)
    BY <1>2, <2>1 DEF LookRight
  <2>3. PICK S : S = SamePlatform(g, D)
    OBVIOUS
  <2>4. S \subseteq D /\ \A m \in S : m.platform = PlatformOf(g)
    BY <2>3 DEF SamePlatform
  <2>5. IsFiniteSet(S)
    BY <2>2, <2>4, FS_Subset DEF ImagesRight
  <2>6. OldImages(g) = {m.image : m \in S}
    BY <1>2, <2>1, <2>3 DEF OldImages
  <2>7. IsFiniteSet(OldImages(g))
    BY <2>5, <2>6, ImagesFinite
  <2>8. \A img \in OldImages(g) : ~IsToken(img) /\ Fits(img, PlatformOf(g))
    BY <2>2, <2>4, <2>6 DEF ImagesRight
  <2> QED
    BY <2>7, <2>8
<1> QED
  BY <1>1, <1>2

(* The specs that update the manifest of a target.                         *)
LEMMA UpdateListed ==
  ASSUME NEW g, NEW i, LookRight(g), MANIFEST_SPEC \in DOMAIN replace[g],
         NEW new, new = UpdateSpecsOf(ManifestName(i, g), Cardinality(OldImages(g)), SetToSeq(OldImages(g)))
  PROVE  /\ UpdateList(g, i, new)
         /\ \A img \in OldImages(g) : \E k \in 1..Len(new) : /\ new[k].op = "manifest-remove"
                                                             /\ new[k].args = <<ManifestName(i, g), img>>
<1>0. PICK S, n, q, name : S = OldImages(g) /\ n = Cardinality(S) /\ q = SetToSeq(S) /\ name = ManifestName(i, g)
  OBVIOUS
<1>1. IsFiniteSet(S) /\ \A img \in S : ~IsToken(img) /\ Fits(img, PlatformOf(g))
  BY <1>0, OldImagesFit
<1>2. n \in Nat /\ (\A k \in 1..n : q[k] \in S) /\ \A x \in S : \E k \in 1..n : q[k] = x
  BY <1>0, <1>1, SeqOfSet, SeqHasAll
<1>3. PICK rm, add : rm = [k \in 1..n |-> Cmd("manifest-remove", <<name, q[k]>>)]
                     /\ add = Cmd("manifest-add", <<name, IMAGE_ID>>)
  OBVIOUS
<1>4. new = rm \o <<add>>
  BY <1>0, <1>3 DEF UpdateSpecsOf
<1>5. PICK T : T = {Cmd("manifest-remove", <<name, q[k]>>) : k \in 1..n} \cup {add}
  OBVIOUS
<1>6. rm \in [1..n -> T]
  BY <1>3, <1>5
<1>7. rm \in Seq(T) /\ Len(rm) = n
  BY <1>2, <1>6, FunctionIsSeq
<1>8. <<add>> \in Seq(T) /\ Len(<<add>>) = 1 /\ <<add>>[1] = add
  BY <1>5
<1>9. /\ new \in Seq(T) /\ Len(new) = n + 1 /\ new[n + 1] = add
      /\ \A k \in 1..n : new[k] = Cmd("manifest-remove", <<name, q[k]>>)
  <2>1. new \in Seq(T) /\ Len(new) = n + 1
    BY <1>2, <1>4, <1>7, <1>8
  <2>2. new[n + 1] = add
    BY <1>2, <1>4, <1>7, <1>8
  <2>3. \A k \in 1..n : new[k] = rm[k]
    BY <1>2, <1>4, <1>7, <1>8
  <2> QED
    BY <1>3, <2>1, <2>2, <2>3
<1>10. IsSeq(new)
  BY <1>9, SeqIsSeq
<1>11. ASSUME NEW k \in 1..n
       PROVE  Removes(g, i, new[k]) /\ new[k].op = "manifest-remove" /\ new[k].args = <<name, q[k]>>
  <2>1. /\ new[k].op = "manifest-remove" /\ new[k].args = <<name, q[k]>> /\ new[k].out = NoToken
        /\ ~new[k].ignore /\ new[k].ignore \in BOOLEAN
    <3>1. PICK a : a = <<name, q[k]>>
      OBVIOUS
    <3>2. new[k] = Cmd("manifest-remove", a)
      BY <1>9, <3>1
    <3> QED
      BY <3>1, <3>2, PlainFields
  <2>2. ~IsToken(q[k]) /\ Fits(q[k], PlatformOf(g))
    BY <1>1, <1>2
  <2> QED
    BY <1>0, <2>1, <2>2 DEF Removes, CallSpec
<1>12. Adds(g, i, new[n + 1])
  <2>1. /\ add.op = "manifest-add" /\ add.args = <<name, IMAGE_ID>> /\ add.out = NoToken
        /\ ~add.ignore /\ add.ignore \in BOOLEAN
    BY <1>3, PlainFields
  <2> QED
    BY <1>0, <1>9, <2>1 DEF Adds, CallSpec
<1>13. UpdateList(g, i, new)
  BY <1>2, <1>9, <1>10, <1>11, <1>12 DEF UpdateList
<1>14. ASSUME NEW img \in S
       PROVE  \E k \in 1..Len(new) : new[k].op = "manifest-remove" /\ new[k].args = <<name, img>>
  <2>1. PICK k \in 1..n : q[k] = img
    BY <1>2
  <2>2. k \in 1..Len(new)
    BY <1>2, <1>9
  <2> QED
    BY <1>11, <2>1, <2>2
<1> QED
  BY <1>0, <1>13, <1>14

(* A spec of the manifests of a list: what it is, and what of.             *)
LEMMA ManTail ==
  ASSUME EngineInv, NEW g \in Entries, stage[g] = "running", LookRight(g),
         NEW l, NEW R, NEW M, NEW at, NEW p, ManPlace(g, l, R, M, at, p, <<>>), p >= M
  PROVE  /\ p \in 1..Len(l) /\ Current(g) = l[p] /\ p > R /\ Current(g).ignore \in BOOLEAN
         /\ Current(g).op \in {"manifest-create", "manifest-inspect", "manifest-update"}
         /\ Current(g).op = "manifest-update" => ~Current(g).ignore
         /\ Current(g).out = NoToken \/ (Current(g).out = MANIFEST_SPEC /\ Current(g).op = "manifest-inspect")
         /\ \A j \in Named("manifest") : /\ p = at[j] + 1 => CreateSpec(g, j, l[p])
                                         /\ p = at[j] + 2 => LookSpec(g, j, l[p])
                                         /\ p = at[j] + 3 => UpdateSpec(g, j, l[p])
         /\ \E j \in Named("manifest") : \/ p \in {at[j] + 1, at[j] + 2, at[j] + 3}
                                         \/ at[j] + 4 <= p /\ ShowSpec(g, j, l[p])
         /\ \A i : Arg(g, 1) = ManifestName(i, g) \/ Current(g).args # <<ManifestName(i, g)>>
<1>1. ManList(g, l, R, M, at)
  BY DEF ManPlace
<1>2. R \in Nat /\ M \in Nat /\ R < M /\ Len(l) \in Nat
  BY <1>1, ManListFacts
<1>3. /\ p \in 1..Len(l) /\ Current(g) = l[p] /\ TailSpec(l[p])
      /\ \E j \in Named("manifest") : \/ p \in {at[j] + 1, at[j] + 2, at[j] + 3}
                                      \/ at[j] + 4 <= p /\ ShowSpec(g, j, l[p])
  BY ManHere
<1>4. \A j \in Named("manifest") : /\ p = at[j] + 1 => CreateSpec(g, j, l[p])
                                   /\ p = at[j] + 2 => LookSpec(g, j, l[p])
                                   /\ p = at[j] + 3 => UpdateSpec(g, j, l[p])
  BY <1>1 DEF ManList, ManifestsAt
<1>5. PICK j : ManifestSpec(g, j, l[p])
  BY <1>3, <1>4 DEF ManifestSpec
<1>6. /\ l[p].op \in {"manifest-create", "manifest-inspect", "manifest-update"} /\ l[p].ignore \in BOOLEAN
      /\ l[p].op = "manifest-update" => ~l[p].ignore
      /\ l[p].out = NoToken \/ (l[p].out = MANIFEST_SPEC /\ l[p].op = "manifest-inspect")
  BY <1>5 DEF ManifestSpec, CreateSpec, LookSpec, UpdateSpec, ShowSpec
<1>7. p > R
  BY <1>2, <1>3
<1>8. ASSUME NEW i, Current(g).args = <<ManifestName(i, g)>> PROVE Arg(g, 1) = ManifestName(i, g)
  <2>1. ManifestName(i, g) \notin DOMAIN replace[g]
    BY NotTokens DEF ManifestName, LookRight
  <2> QED
    BY <1>8, <2>1 DEF Arg, Value
<1> QED
  BY <1>3, <1>4, <1>6, <1>7, <1>8

(* The manifest of a target when an entry goes on to the next spec.        *)
LEMMA TargetMoves ==
  ASSUME EngineInv, NEW g \in Entries, stage[g] = "running", UNCHANGED <<task, matrix>>, Entries' = Entries,
         ManHost, LookRight(g), NEW l, NEW R, NEW M, NEW at, NEW p, ManPlace(g, l, R, M, at, p, <<>>), p >= M,
         NEW data, NEW new, ManMove(g, data, new), iid' = iid, \A n : Linked(n)' = Linked(n),
         NEW j \in Named("manifest")
  PROVE  TargetRight(g, j, at, p + 1, new)'
<1>1. ManList(g, l, R, M, at) /\ TargetRight(g, j, at, p, <<>>)
  BY DEF ManPlace
<1>2. at[j] \in Nat /\ M \in Nat /\ (\A i \in Named("manifest") : at[i] \in Nat) /\ Len(l) \in Nat
      /\ (\A i, k \in Named("manifest") : i < k => at[i] + 3 <= at[k])
  BY <1>1, ManListFacts
<1>3. p \in 1..Len(l) /\ Current(g) = l[p] /\ p \in Nat
  BY <1>2, ManTail
<1>4. Moves(g, data, new)
  BY DEF ManMove
<1>5. /\ ManifestName(j, g)' = ManifestName(j, g) /\ PlatformOf(g)' = PlatformOf(g) /\ Alone(j, g)' = Alone(j, g)
      /\ LastNamed(j)' = LastNamed(j)
  BY NamesStay, PlatformsStay, AloneStay
<1>6. Own(g)' = Own(g) /\ OfPlatform(g, j)' = OfPlatform(g, j)
  BY <1>5 DEF Own, OfPlatform, SamePlatform
<1>7. MANIFEST_SPEC # NoToken
  BY TokensDiffer DEF Tokens
<1>8. CASE p <= at[j] + 1
  BY <1>1, <1>2, <1>3, <1>8, BeforeTarget
<1>9. CASE p = at[j] + 2
  <2>1. LookSpec(g, j, Current(g)) /\ Arg(g, 1) = ManifestName(j, g)
    BY <1>3, <1>9, ManTail DEF LookSpec
  <2>2. Current(g).out = MANIFEST_SPEC /\ Current(g).op = "manifest-inspect"
    BY <2>1 DEF LookSpec
  <2>3. MANIFEST_SPEC \in DOMAIN replace'[g] /\ replace'[g][MANIFEST_SPEC].data = data
    BY <1>4, <1>7, <2>2, MoveKeeps
  <2>4. ASSUME LookedAt(g)'
        PROVE  data # Empty /\ OfPlatform(g, j) \subseteq data[2]
    <3>1. replace'[g][MANIFEST_SPEC].ok
      BY <2>4 DEF LookedAt
    <3>2. ~Fail(g, data)
      <4>1. ASSUME Fail(g, data) PROVE FALSE
        <5>1. Keep(g, data, FALSE)
          BY <4>1 DEF Fail
        <5>2. replace'[g] = Update(replace[g], MANIFEST_SPEC, [data |-> data, ok |-> FALSE])
          BY <1>7, <2>2, <5>1, KeptOutput
        <5> QED
          BY <3>1, <5>2 DEF Update
      <4> QED
        BY <4>1
    <3>3. data = <<"spec", Linked(ManifestName(j, g))>>
      BY <2>1, <2>2, <3>2 DEF ManMove
    <3>4. OfPlatform(g, j) \subseteq Linked(ManifestName(j, g))
      BY DEF OfPlatform, SamePlatform
    <3> QED
      BY <3>3, <3>4 DEF Empty
  <2>5. p + 1 = at[j] + 3 /\ p + 1 # at[j] + 4 /\ ~(p + 1 > at[j] + 4)
    BY <1>2, <1>9
  <2> QED
    BY <1>6, <2>3, <2>4, <2>5 DEF TargetRight, Updated
<1>10. CASE p = at[j] + 3
  <2>1. UpdateSpec(g, j, Current(g)) /\ Arg(g, 1) = ManifestName(j, g)
    BY <1>3, <1>10, ManTail DEF UpdateSpec
  <2>2. Current(g).out = NoToken /\ Current(g).op = "manifest-update"
    BY <2>1 DEF UpdateSpec
  <2>3. MANIFEST_SPEC \in DOMAIN replace[g] /\ replace'[g] = replace[g]
    <3>1. p > at[j] + 2
      BY <1>2, <1>10
    <3> QED
      BY <1>1, <1>4, <2>2, <3>1, MoveKeeps DEF TargetRight
  <2>4. new = UpdateSpecsOf(ManifestName(j, g), Cardinality(OldImages(g)), SetToSeq(OldImages(g)))
    BY <2>1, <2>2, <2>3 DEF ManMove
  <2>6. /\ UpdateList(g, j, new)
        /\ \A img \in OldImages(g) : \E k \in 1..Len(new) : /\ new[k].op = "manifest-remove"
                                                            /\ new[k].args = <<ManifestName(j, g), img>>
    BY <2>3, <2>4, UpdateListed
  <2>7. new # <<>>
    BY <2>6, NoSpecs DEF UpdateList
  <2>8. ASSUME Alone(j, g), LastNamed(j), LookedAt(g), NEW m \in OfPlatform(g, j)
        PROVE  m.image \in OldImages(g)
    <3>1. replace[g][MANIFEST_SPEC].data # Empty /\ OfPlatform(g, j) \subseteq replace[g][MANIFEST_SPEC].data[2]
      BY <1>1, <1>10, <2>8 DEF TargetRight
    <3>2. m \in SamePlatform(g, replace[g][MANIFEST_SPEC].data[2])
      BY <2>8, <3>1 DEF OfPlatform, SamePlatform
    <3> QED
      BY <3>1, <3>2 DEF OldImages
  <2>9. ASSUME Alone(j, g), LastNamed(j), LookedAt(g), NEW m \in OfPlatform(g, j)
        PROVE  \E k \in 1..Len(new) : new[k].op = "manifest-remove" /\ new[k].args = <<ManifestName(j, g), m.image>>
    BY <2>6, <2>8, <2>9
  <2>10. p + 1 # at[j] + 3 /\ p + 1 = at[j] + 4 /\ ~(p + 1 > at[j] + 4)
    BY <1>2, <1>10
  <2>11. LookedAt(g)' = LookedAt(g)
    BY <2>3 DEF LookedAt
  <2> QED
    BY <1>5, <1>6, <2>3, <2>7, <2>9, <2>10, <2>11 DEF TargetRight, Updated
<1>11. CASE p >= at[j] + 4
  <2>1. /\ MANIFEST_SPEC \in DOMAIN replace[g] /\ Updated(at, j, p, <<>>) /\ p + 1 > at[j] + 4
        /\ p + 1 # at[j] + 3 /\ p + 1 # at[j] + 4
    BY <1>1, <1>2, <1>3, <1>11 DEF TargetRight, Updated
  <2>2. /\ Alone(j, g) => iid[g] # Empty /\ Own(g) \in Linked(ManifestName(j, g))
        /\ Alone(j, g) /\ LastNamed(j) /\ LookedAt(g) => OfPlatform(g, j) \subseteq {Own(g)}
    BY <1>1, <2>1 DEF TargetRight
  <2>3. CASE Current(g).out = NoToken
    <3>1. replace'[g] = replace[g]
      BY <1>4, <2>3, MoveKeeps
    <3>2. LookedAt(g)' = LookedAt(g)
      BY <3>1 DEF LookedAt
    <3> QED
      BY <1>5, <1>6, <2>1, <2>2, <3>1, <3>2 DEF TargetRight, Updated
  <2>4. CASE Current(g).out # NoToken
    <3>1. PICK i \in Named("manifest") : \/ p \in {at[i] + 1, at[i] + 2, at[i] + 3}
                                         \/ at[i] + 4 <= p /\ ShowSpec(g, i, l[p])
      BY ManTail
    <3>2. l[p].out # NoToken
      BY <1>3, <2>4
    <3>3. p \in {at[i] + 1, at[i] + 2, at[i] + 3}
      BY <3>1, <3>2 DEF ShowSpec
    <3>4. ~LastNamed(j)
      <4>1. ASSUME i <= j PROVE FALSE
        <5>1. i \in Nat /\ j \in Nat
          BY TargetsListed DEF ManHost, StepsTyped, Named
        <5> QED
          BY <1>2, <1>3, <1>11, <3>3, <4>1, <5>1
      <4> QED
        BY <4>1 DEF LastNamed
    <3>5. MANIFEST_SPEC \in DOMAIN replace'[g]
      BY <1>4, <2>1, <2>4, MoveKeeps
    <3> QED
      BY <1>5, <1>6, <2>1, <2>2, <3>4, <3>5 DEF TargetRight, Updated
  <2> QED
    BY <2>3, <2>4
<1> QED
  BY <1>2, <1>3, <1>8, <1>9, <1>10, <1>11

(* An entry that has come to the manifests of its list.                    *)
LEMMA TailMoves ==
  ASSUME EngineInv, NEW g \in Entries, stage[g] = "running", UNCHANGED <<task, matrix>>, Entries' = Entries,
         ManHost, LookRight(g),
         NEW l, NEW R, NEW M, NEW at, NEW p, ManPlace(g, l, R, M, at, p, <<>>), p >= M,
         NEW data, NEW new, ManMove(g, data, new)
  PROVE  ManEntry(g)' /\ iid' = iid /\ \A n : Linked(n)' = Linked(n)
<1> DEFINE x == Current(g)
<1>1. /\ ManList(g, l, R, M, at) /\ \A i \in Named("manifest") : TargetRight(g, i, at, p, <<>>)
      /\ p > R => IMAGE_ID \in DOMAIN replace[g] /\ replace[g][IMAGE_ID].data = iid[g]
      /\ ComesTo(g, l, p, <<>>)
  BY DEF ManPlace, Placed
<1>2. /\ IsSeq(l) /\ Len(l) \in Nat /\ R \in Nat \ {0} /\ M \in Nat /\ R < M
      /\ \A i \in Named("manifest") : at[i] \in Nat /\ M <= at[i] + 1
  BY <1>1, ManListFacts
<1>3. /\ p \in 1..Len(l) /\ x = l[p] /\ p > R /\ x.ignore \in BOOLEAN
      /\ x.op \in {"manifest-create", "manifest-inspect", "manifest-update"}
      /\ x.op = "manifest-update" => ~x.ignore
      /\ x.out = NoToken \/ (x.out = MANIFEST_SPEC /\ x.op = "manifest-inspect")
  BY ManTail
<1>4. Moves(g, data, new) /\ iid' = iid /\ (\A n : Linked(n)' = Linked(n))
      /\ (x.op # "manifest-update" => new = <<>>)
  BY <1>3 DEF ManMove
<1>5. IMAGE_ID # NoToken /\ MANIFEST_SPEC \notin {IMAGE_ID, NoToken} /\ IsToken(MANIFEST_SPEC)
  BY TokensDiffer DEF Tokens
<1>6. ASSUME x.op = "manifest-update"
      PROVE  \E i \in Named("manifest") : p + 1 = at[i] + 4 /\ UpdateList(g, i, new)
  <2>1. PICK i \in Named("manifest") : \/ p \in {at[i] + 1, at[i] + 2, at[i] + 3}
                                       \/ at[i] + 4 <= p /\ ShowSpec(g, i, l[p])
    BY ManTail
  <2>2. /\ p = at[i] + 1 => CreateSpec(g, i, l[p])
        /\ p = at[i] + 2 => LookSpec(g, i, l[p])
        /\ p = at[i] + 3 => UpdateSpec(g, i, l[p])
    BY ManTail
  <2>3. p = at[i] + 3 /\ UpdateSpec(g, i, x)
    BY <1>3, <1>6, <2>1, <2>2 DEF CreateSpec, LookSpec, ShowSpec
  <2>4. Arg(g, 1) = ManifestName(i, g)
    BY <2>3, ManTail DEF UpdateSpec
  <2>5. MANIFEST_SPEC \in DOMAIN replace[g]
    BY <1>1, <1>2, <2>3 DEF TargetRight
  <2>6. new = UpdateSpecsOf(ManifestName(i, g), Cardinality(OldImages(g)), SetToSeq(OldImages(g)))
    BY <1>6, <2>4, <2>5 DEF ManMove
  <2>7. UpdateList(g, i, new)
    BY <2>5, <2>6, UpdateListed
  <2> QED
    BY <1>2, <2>3, <2>7
<1>7. IsSeq(new) /\ SubsFit(g, M, at, p + 1, new)
  BY <1>4, <1>6, NoSpecs DEF SubsFit, UpdateList
<1>8. Placed(g, l, p + 1, new)'
  BY <1>1, <1>2, <1>3, <1>4, <1>7, NoSpecs, PlaceMoves
<1>9. LookRight(g)'
  <2>1. CASE x.out = NoToken
    BY <1>4, <2>1, LookStays
  <2>2. CASE x.out # NoToken
    <3>1. x.op = "manifest-inspect" /\ x.out = MANIFEST_SPEC
      BY <1>3, <2>2
    <3>2. data = Empty \/ data = <<"spec", Linked(Arg(g, 1))>>
      BY <3>1 DEF ManMove
    <3>3. data = Empty \/ ImagesRight(data[2])
      BY <3>2 DEF ManHost
    <3>4. /\ DOMAIN replace'[g] = DOMAIN replace[g] \cup {MANIFEST_SPEC}
          /\ replace'[g][MANIFEST_SPEC].data = data
      BY <1>4, <1>5, <3>1, MoveKeeps
    <3>5. ImagesRight(data[2])' = ImagesRight(data[2])
      BY PlatformsStay
    <3> QED
      BY <1>5, <3>3, <3>4, <3>5 DEF LookRight
  <2> QED
    BY <2>1, <2>2
<1>10. IMAGE_ID \in DOMAIN replace'[g] /\ replace'[g][IMAGE_ID].data = iid'[g]
  <2>1. IMAGE_ID \in DOMAIN replace[g] /\ replace[g][IMAGE_ID].data = iid[g]
    BY <1>1, <1>3
  <2>2. CASE x.out = NoToken
    BY <1>4, <2>1, <2>2, MoveKeeps
  <2>3. CASE x.out # NoToken
    BY <1>3, <1>4, <1>5, <2>1, <2>3, MoveKeeps
  <2> QED
    BY <2>2, <2>3
<1>11. \A i \in Named("manifest") : TargetRight(g, i, at, p + 1, new)'
  BY <1>4, TargetMoves
<1>12. ManEntry(g)'
  BY <1>1, <1>7, <1>8, <1>9, <1>10, <1>11, ManPlaced
<1> QED
  BY <1>4, <1>12

(* What is left when a spec that updates a manifest has been executed.     *)
LEMMA UpdatesLeft ==
  ASSUME NEW g, NEW i, NEW s, UpdateList(g, i, s)
  PROVE  /\ IsSeq(s) /\ Len(s) \in Nat \ {0} /\ IsSeq(Tail(s)) /\ Len(Tail(s)) = Len(s) - 1
         /\ \A k \in 1..Len(Tail(s)) : k + 1 \in 1..Len(s) /\ Tail(s)[k] = s[k + 1]
         /\ \/ Tail(s) = <<>> /\ Len(s) = 1 /\ Adds(g, i, s[1])
            \/ Tail(s) # <<>> /\ Removes(g, i, s[1]) /\ UpdateList(g, i, Tail(s))
<1>1. /\ IsSeq(s) /\ Len(s) \in Nat \ {0} /\ Adds(g, i, s[Len(s)])
      /\ \A k \in 1..(Len(s) - 1) : Removes(g, i, s[k])
  BY DEF UpdateList
<1>2. PICK S : s \in Seq(S)
  BY <1>1 DEF IsSeq
<1>3. s # <<>>
  BY <1>1, NoSpecs
<1>4. /\ Tail(s) \in Seq(S) /\ Len(Tail(s)) = Len(s) - 1
      /\ \A k \in 1..Len(Tail(s)) : k + 1 \in 1..Len(s) /\ Tail(s)[k] = s[k + 1]
  BY <1>2, <1>3, TailElements
<1>5. IsSeq(Tail(s))
  BY <1>4, SeqIsSeq
<1>6. CASE Len(s) = 1
  <2>1. Tail(s) = <<>>
    BY <1>4, <1>6
  <2> QED
    BY <1>1, <1>4, <1>5, <1>6, <2>1
<1>7. CASE Len(s) # 1
  <2>1. Len(Tail(s)) \in Nat \ {0} /\ Tail(s) # <<>>
    <3>1. Len(Tail(s)) \in Nat \ {0}
      BY <1>1, <1>4, <1>7
    <3>2. Len(Tail(s)) # Len(<<>>)
      BY <3>1, NoSpecs
    <3> QED
      BY <3>1, <3>2
  <2>2. Tail(s)[Len(Tail(s))] = s[Len(s)]
    BY <1>1, <1>4, <2>1
  <2>3. \A k \in 1..(Len(Tail(s)) - 1) : Removes(g, i, Tail(s)[k])
    BY <1>1, <1>4, <2>1
  <2>4. Removes(g, i, s[1])
    <3>0. \A n \in Nat \ {0} : n # 1 => 1 \in 1..(n - 1)
      OBVIOUS
    <3>1. 1 \in 1..(Len(s) - 1)
      BY <1>1, <1>7, <3>0
    <3> QED
      BY <1>1, <3>1
  <2>5. UpdateList(g, i, Tail(s))
    BY <1>1, <1>5, <2>1, <2>2, <2>3 DEF UpdateList
  <2> QED
    BY <1>1, <1>4, <1>5, <2>1, <2>4, <2>5
<1> QED
  BY <1>6, <1>7

(* Manifests of different targets have different names.                    *)
LEMMA NamesDiffer ==
  ASSUME NEW i, NEW j, NEW g, NEW h, ManifestName(i, g) = ManifestName(j, h) PROVE i = j
BY DEF ManifestName

(* An entry that updates the manifest of a target.                         *)
LEMMA UpdateMoves ==
  ASSUME EngineInv, NEW g \in Entries, stage[g] = "running", UNCHANGED <<task, matrix>>, Entries' = Entries,
         ManHost, LookRight(g),
         NEW l, NEW R, NEW M, NEW at, NEW p, NEW s, ManPlace(g, l, R, M, at, p, s),
         NEW i \in Named("manifest"), p = at[i] + 4, UpdateList(g, i, s),
         NEW data, NEW new, ManMove(g, data, new)
  PROVE  /\ ManEntry(g)' /\ iid' = iid
         /\ \A n : n # ManifestName(i, g) => Linked(n)' = Linked(n)
         /\ \/ \E img : /\ Fits(img, PlatformOf(g))
                        /\ Linked(ManifestName(i, g))' = {m \in Linked(ManifestName(i, g)) : m.image # img}
            \/ /\ iid[g] # Empty
               /\ Linked(ManifestName(i, g))' = Linked(ManifestName(i, g)) \cup {Own(g)}
<1> DEFINE x == Current(g)
<1>1. /\ ManList(g, l, R, M, at) /\ \A j \in Named("manifest") : TargetRight(g, j, at, p, s)
      /\ p > R => IMAGE_ID \in DOMAIN replace[g] /\ replace[g][IMAGE_ID].data = iid[g]
      /\ ComesTo(g, l, p, s)
  <2>1. s # <<>>
    BY UpdatesLeft, NoSpecs
  <2> QED
    BY <2>1 DEF ManPlace, Placed
<1>2. /\ IsSeq(l) /\ Len(l) \in Nat /\ R \in Nat \ {0} /\ M \in Nat /\ R < M
      /\ \A j \in Named("manifest") : at[j] \in Nat /\ M <= at[j] + 1 /\ R < at[j] + 1
      /\ \A j, k \in Named("manifest") : j < k => at[j] + 3 <= at[k]
  BY <1>1, ManListFacts
<1>3. PICK n : n = ManifestName(i, g)
  OBVIOUS
<1>4. /\ IsSeq(s) /\ Len(s) \in Nat \ {0} /\ IsSeq(Tail(s)) /\ Len(Tail(s)) = Len(s) - 1 /\ s # <<>>
      /\ \A k \in 1..Len(Tail(s)) : k + 1 \in 1..Len(s) /\ Tail(s)[k] = s[k + 1]
      /\ \/ Tail(s) = <<>> /\ Len(s) = 1 /\ Adds(g, i, s[1])
         \/ Tail(s) # <<>> /\ Removes(g, i, s[1]) /\ UpdateList(g, i, Tail(s))
  <2>1. Len(s) # Len(<<>>)
    BY UpdatesLeft, NoSpecs
  <2> QED
    BY <2>1, UpdatesLeft
<1>5. x = s[1]
  BY <1>4, ManHere
<1>6. x.out = NoToken /\ x.op \in {"manifest-remove", "manifest-add"} /\ ~x.ignore /\ x.ignore \in BOOLEAN
  BY <1>4, <1>5 DEF Adds, Removes, CallSpec
<1>7. Moves(g, data, new) /\ new = <<>> /\ iid' = iid
  BY <1>6 DEF ManMove
<1>8. replace'[g] = replace[g]
  BY <1>6, <1>7, MoveKeeps
<1>9. p > R /\ p \in Nat
  BY <1>2
<1>10. n \notin DOMAIN replace[g]
  BY <1>3, NotTokens DEF ManifestName, LookRight
<1>11. Placed(g, l, p, Tail(s))'
  BY <1>1, <1>2, <1>4, <1>6, <1>7, NoSpecs, PlaceMoves
<1>12. LookRight(g)'
  BY <1>6, <1>7, LookStays
<1>13. SubsFit(g, M, at, p, Tail(s))
  BY <1>4 DEF SubsFit
<1>14. /\ (\A j : ManifestName(j, g)' = ManifestName(j, g)) /\ PlatformOf(g)' = PlatformOf(g)
       /\ (\A j : Alone(j, g)' = Alone(j, g)) /\ (\A j : LastNamed(j)' = LastNamed(j))
  BY NamesStay, PlatformsStay, AloneStay
<1>15. Own(g)' = Own(g) /\ LookedAt(g)' = LookedAt(g)
  BY <1>7, <1>8, <1>14 DEF Own, LookedAt
<1>16. ASSUME \A y : y # n => Linked(y)' = Linked(y), NEW j \in Named("manifest"), j # i
       PROVE  TargetRight(g, j, at, p, Tail(s))'
  <2>1. ManifestName(j, g) # n
    BY <1>3, <1>16, NamesDiffer
  <2>2. OfPlatform(g, j)' = OfPlatform(g, j) /\ Linked(ManifestName(j, g))' = Linked(ManifestName(j, g))
    BY <1>14, <1>16, <2>1 DEF OfPlatform, SamePlatform
  <2>3. CASE j < i
    <3>1. p > at[j] + 4 /\ p # at[j] + 3 /\ p # at[j] + 4
      BY <1>2, <2>3
    <3> QED
      BY <1>1, <1>7, <1>8, <1>14, <1>15, <2>2, <3>1 DEF TargetRight, Updated
  <2>4. CASE i < j
    <3>1. p <= at[j] + 2
      BY <1>2, <2>4
    <3> QED
      BY <1>1, <1>9, <3>1, BeforeTarget
  <2>5. i \in Nat /\ j \in Nat
    BY TargetsListed DEF ManHost, StepsTyped, Named
  <2> QED
    BY <1>16, <2>3, <2>4, <2>5
<1>17. MANIFEST_SPEC \in DOMAIN replace[g] /\ p # at[i] + 3 /\ ~(p > at[i] + 4) /\ p > at[i] + 2
  BY <1>1, <1>2 DEF TargetRight
<1>18. ASSUME Alone(i, g), LastNamed(i), LookedAt(g), NEW m \in OfPlatform(g, i)
       PROVE  \E k \in 1..Len(s) : s[k].op = "manifest-remove" /\ s[k].args = <<n, m.image>>
  BY <1>1, <1>3, <1>4, <1>18 DEF TargetRight
<1>19. CASE Tail(s) = <<>>
  <2>1. Len(s) = 1 /\ Adds(g, i, x)
    BY <1>4, <1>5, <1>19
  <2>2. x.op = "manifest-add" /\ x.args = <<n, IMAGE_ID>>
    BY <1>3, <2>1 DEF Adds, CallSpec
  <2>3. Arg(g, 1) = n /\ Arg(g, 2) = iid[g]
    BY <1>1, <1>9, <1>10, <2>2 DEF Arg, Value
  <2>4. iid[g] \in DOMAIN images
    BY <2>2, <2>3 DEF ManMove
  <2>5. iid[g] # Empty
    BY <2>4 DEF ManHost, Empty
  <2>6. \A y : Linked(y)' = IF y = n THEN Linked(y) \cup {Own(g)} ELSE Linked(y)
    BY <2>2, <2>3 DEF ManMove, Own
  <2>7. Own(g) \in Linked(n)'
    BY <2>6
  <2>8. ASSUME Alone(i, g), LastNamed(i), LookedAt(g), NEW m \in OfPlatform(g, i)' PROVE m = Own(g)
    <3>1. m \in Linked(n)' /\ m.platform = PlatformOf(g)
      BY <1>3, <1>14, <2>8 DEF OfPlatform, SamePlatform
    <3>2. m \notin OfPlatform(g, i)
      <4>1. ASSUME m \in OfPlatform(g, i) PROVE FALSE
        <5>1. PICK k \in 1..Len(s) : s[k].op = "manifest-remove"
          BY <1>18, <2>8, <4>1
        <5>2. k = 1
          BY <2>1, <5>1
        <5> QED
          BY <1>5, <2>2, <5>1, <5>2
      <4> QED
        BY <4>1
    <3>3. m \notin Linked(n)
      BY <1>3, <3>1, <3>2 DEF OfPlatform, SamePlatform
    <3> QED
      BY <2>6, <3>1, <3>3
  <2>9. TargetRight(g, i, at, p, Tail(s))'
    BY <1>3, <1>7, <1>8, <1>14, <1>15, <1>17, <1>19, <2>5, <2>7, <2>8 DEF TargetRight, Updated
  <2>10. \A j \in Named("manifest") : TargetRight(g, j, at, p, Tail(s))'
    BY <1>16, <2>6, <2>9
  <2>11. ManEntry(g)'
    BY <1>1, <1>7, <1>8, <1>9, <1>11, <1>12, <1>13, <2>10, ManPlaced
  <2> QED
    <3>1. \A y : y # n => Linked(y)' = Linked(y)
      BY <2>6
    <3>2. Linked(n)' = Linked(n) \cup {Own(g)}
      BY <2>6
    <3> QED
      BY <1>3, <1>7, <1>14, <2>5, <2>11, <3>1, <3>2
<1>20. CASE Tail(s) # <<>>
  <2>1. Removes(g, i, x)
    BY <1>4, <1>5, <1>20
  <2>2. PICK img : x.op = "manifest-remove" /\ x.args = <<n, img>> /\ ~IsToken(img) /\ Fits(img, PlatformOf(g))
    BY <1>3, <2>1 DEF Removes, CallSpec
  <2>3. img \notin DOMAIN replace[g]
    BY <2>2 DEF LookRight
  <2>4. Arg(g, 1) = n /\ Arg(g, 2) = img
    BY <1>10, <2>2, <2>3 DEF Arg, Value
  <2>5. \A y : Linked(y)' = IF y = n THEN {m \in Linked(y) : m.image # img} ELSE Linked(y)
    BY <2>2, <2>4 DEF ManMove
  <2>6. ASSUME Alone(i, g), LastNamed(i), LookedAt(g), NEW m \in OfPlatform(g, i)'
        PROVE  \E k \in 1..Len(Tail(s)) : Tail(s)[k].op = "manifest-remove" /\ Tail(s)[k].args = <<n, m.image>>
    <3>1. m \in Linked(n)' /\ m.platform = PlatformOf(g)
      BY <1>3, <1>14, <2>6 DEF OfPlatform, SamePlatform
    <3>2. m \in Linked(n) /\ m.image # img
      BY <2>5, <3>1
    <3>3. m \in OfPlatform(g, i)
      BY <1>3, <3>1, <3>2 DEF OfPlatform, SamePlatform
    <3>4. PICK k \in 1..Len(s) : s[k].op = "manifest-remove" /\ s[k].args = <<n, m.image>>
      BY <1>18, <2>6, <3>3
    <3>5. k # 1
      <4>1. ASSUME k = 1 PROVE FALSE
        <5>1. <<n, m.image>> = <<n, img>>
          BY <1>5, <2>2, <3>4, <4>1
        <5> QED
          BY <3>2, <5>1
      <4> QED
        BY <4>1
    <3>6. k - 1 \in 1..Len(Tail(s)) /\ Tail(s)[k - 1] = s[k]
      BY <1>4, <3>5
    <3> QED
      BY <3>4, <3>6
  <2>7. TargetRight(g, i, at, p, Tail(s))'
    BY <1>3, <1>8, <1>14, <1>15, <1>17, <1>20, <2>6 DEF TargetRight, Updated
  <2>8. \A j \in Named("manifest") : TargetRight(g, j, at, p, Tail(s))'
    BY <1>16, <2>5, <2>7
  <2>9. ManEntry(g)'
    BY <1>1, <1>7, <1>8, <1>9, <1>11, <1>12, <1>13, <2>8, ManPlaced
  <2> QED
    <3>1. \A y : y # n => Linked(y)' = Linked(y)
      BY <2>5
    <3>2. Linked(n)' = {m \in Linked(n) : m.image # img}
      BY <2>5
    <3> QED
      BY <1>3, <1>7, <1>14, <2>2, <2>9, <3>1, <3>2
<1> QED
  BY <1>19, <1>20

(* Where an entry is, its spec is one that moves or fails.                 *)
LEMMA ManReady ==
  ASSUME EngineInv, NEW g \in Entries, stage[g] = "running", LookRight(g),
         NEW l, NEW R, NEW M, NEW at, NEW p, NEW s, ManPlace(g, l, R, M, at, p, s)
  PROVE  Current(g).op \in {"delete-containers", "read-iidfile", "manifest-update", "manifest-remove", "manifest-add"} =>
           ~Current(g).ignore
<1>1. ManList(g, l, R, M, at) /\ p \in 1..(Len(l) + 1)
  BY ManHere DEF ManPlace
<1>2. M \in Nat /\ Len(l) \in Nat
  BY <1>1, ManListFacts
<1>3. CASE s # <<>>
  <2>1. CASE RmList(s)
    <3>1. CallSpec(s[1], "rm") /\ Current(g) = s[1]
      BY <1>3, <2>1, ManHere DEF RmList
    <3> QED
      BY <3>1 DEF CallSpec
  <2>2. CASE \E i : UpdateList(g, i, s)
    <3>1. PICK i : UpdateList(g, i, s)
      BY <2>2
    <3>2. Removes(g, i, s[1]) \/ Adds(g, i, s[1])
      BY <3>1, UpdatesLeft
    <3>3. Current(g) = s[1]
      BY <1>3, ManHere
    <3> QED
      BY <3>2, <3>3 DEF Removes, Adds, CallSpec
  <2> QED
    BY <1>3, <2>1, <2>2, ManHere
<1>4. CASE s = <<>> /\ p < M
  <2>1. Current(g) = l[p] /\ HeadSpec(l[p])
    BY <1>4, ManHere
  <2> QED
    BY <2>1 DEF HeadSpec, HeadOps, StepOps, GenOps
<1>5. CASE s = <<>> /\ p >= M
  BY <1>5, ManTail
<1> QED
  BY <1>1, <1>2, <1>3, <1>4, <1>5

(* Nothing, if it leaves the manifests as they are.                        *)
LEMMA ManQuiet ==
  ASSUME ManHost, NEW g, \A n : Linked(n)' = Linked(n), iid' = iid \/ \E n : iid' = [iid EXCEPT ![g] = <<"id", g, n>>]
  PROVE  ManShared(g)
BY DEF ManShared, Touched, ManHost

(* An image of its own, or less than was there.                            *)
LEMMA ManLoud ==
  ASSUME EngineInv, ManHost, NEW g \in Entries, iid' = iid, NEW i, NEW y, y = ManifestName(i, g),
         \A n : n # y => Linked(n)' = Linked(n),
         \/ \E img : Fits(img, PlatformOf(g)) /\ Linked(y)' = {m \in Linked(y) : m.image # img}
         \/ iid[g] # Empty /\ Linked(y)' = Linked(y) \cup {Own(g)}
  PROVE  ManShared(g)
<1>1. ImagesRight(Linked(y))
  BY DEF ManHost
<1>2. ASSUME NEW img, Fits(img, PlatformOf(g)), Linked(y)' = {m \in Linked(y) : m.image # img}
      PROVE  Touched(g, y) /\ ImagesRight(Linked(y)')
  <2>1. Linked(y)' \subseteq Linked(y) /\ \A m \in Linked(y) : m \in Linked(y)' \/ m.image = img
    BY <1>2
  <2>2. IsFiniteSet(Linked(y)')
    BY <1>1, <2>1, FS_Subset DEF ImagesRight
  <2>3. ImagesRight(Linked(y)')
    BY <1>1, <2>1, <2>2 DEF ImagesRight
  <2>4. Touched(g, y)
    BY <1>2, <2>1 DEF Touched
  <2> QED
    BY <2>3, <2>4
<1>3. ASSUME iid[g] # Empty, Linked(y)' = Linked(y) \cup {Own(g)}
      PROVE  Touched(g, y) /\ ImagesRight(Linked(y)')
  <2>1. Own(g).platform = PlatformOf(g) /\ Own(g).image = iid[g]
    BY DEF Own
  <2>2. PICK k : iid[g] = <<"id", g, k>>
    BY <1>3 DEF ManHost
  <2>3. ~IsToken(iid[g])
    BY <2>2, NotTokens
  <2>4. Fits(iid[g], PlatformOf(g))
    BY <2>2 DEF Fits
  <2>5. IsFiniteSet(Linked(y)')
    BY <1>1, <1>3, FS_AddElement DEF ImagesRight
  <2>6. ImagesRight(Linked(y)')
    BY <1>1, <1>3, <2>1, <2>3, <2>4, <2>5 DEF ImagesRight
  <2>7. Touched(g, y)
    BY <1>3, <2>1 DEF Touched
  <2> QED
    BY <2>6, <2>7
<1>4. Touched(g, y) /\ ImagesRight(Linked(y)')
  BY <1>2, <1>3
<1>5. ASSUME NEW n, n # y PROVE Touched(g, n) /\ ImagesRight(Linked(n)')
  BY <1>5 DEF Touched, ManHost
<1> QED
  BY <1>4, <1>5 DEF ManShared

(* An entry that moves comes to the next place of its list.                *)
LEMMA ManProceeds ==
  ASSUME EngineInv, NEW g \in Entries, stage[g] = "running", UNCHANGED <<task, matrix>>, Entries' = Entries,
         ManHost, LookRight(g),
         NEW l, NEW R, NEW M, NEW at, NEW p, NEW s, ManPlace(g, l, R, M, at, p, s),
         NEW data, NEW new, ManMove(g, data, new)
  PROVE  ManEntry(g)' /\ ManShared(g)
<1> DEFINE x == Current(g)
<1>1. ManList(g, l, R, M, at) /\ p \in 1..(Len(l) + 1)
  BY ManHere DEF ManPlace
<1>2. M \in Nat /\ Len(l) \in Nat
  BY <1>1, ManListFacts
<1>3. iid' = iid \/ \E n : iid' = [iid EXCEPT ![g] = <<"id", g, n>>]
  BY DEF ManMove
<1>4. CASE x.op \notin {"manifest-remove", "manifest-add"} /\ (p < M \/ (p <= M /\ s # <<>>))
  <2>1. ManEntry(g)'
    BY <1>4, HeadMoves
  <2>2. \A n : Linked(n)' = Linked(n)
    BY <1>4 DEF ManMove
  <2> QED
    BY <1>3, <2>1, <2>2, ManQuiet
<1>5. CASE s = <<>> /\ p >= M
  <2>1. ManEntry(g)' /\ iid' = iid /\ \A n : Linked(n)' = Linked(n)
    BY <1>5, TailMoves
  <2> QED
    BY <2>1, ManQuiet
<1>6. ASSUME NEW i \in Named("manifest"), p = at[i] + 4, UpdateList(g, i, s) PROVE ManEntry(g)' /\ ManShared(g)
  <2>1. PICK y : y = ManifestName(i, g)
    OBVIOUS
  <2>2. /\ ManEntry(g)' /\ iid' = iid
        /\ \A n : n # y => Linked(n)' = Linked(n)
        /\ \/ \E img : /\ Fits(img, PlatformOf(g))
                       /\ Linked(ManifestName(i, g))' = {m \in Linked(ManifestName(i, g)) : m.image # img}
           \/ /\ iid[g] # Empty
              /\ Linked(ManifestName(i, g))' = Linked(ManifestName(i, g)) \cup {Own(g)}
    BY <1>6, <2>1, UpdateMoves
  <2>3. ManifestName(i, g)' = y
    BY <2>1, NamesStay
  <2>4. Linked(ManifestName(i, g))' = Linked(y)'
    BY <2>3
  <2>5. \/ \E img : Fits(img, PlatformOf(g)) /\ Linked(y)' = {m \in Linked(y) : m.image # img}
        \/ iid[g] # Empty /\ Linked(y)' = Linked(y) \cup {Own(g)}
    BY <2>1, <2>2, <2>4
  <2> QED
    BY <2>1, <2>2, <2>5, ManLoud
<1>7. CASE s = <<>> /\ p < M
  <2>1. HeadSpec(x)
    BY <1>7, ManHere
  <2>2. x.op \notin {"manifest-remove", "manifest-add"}
    BY <2>1 DEF HeadSpec, HeadOps, StepOps, GenOps
  <2> QED
    BY <1>4, <1>7, <2>2
<1>8. CASE s # <<>>
  <2>1. CASE p <= M /\ RmList(s)
    <3>1. CallSpec(s[1], "rm") /\ x = s[1]
      BY <1>8, <2>1, ManHere DEF RmList
    <3>2. x.op \notin {"manifest-remove", "manifest-add"}
      BY <3>1 DEF CallSpec
    <3> QED
      BY <1>4, <1>8, <2>1, <3>2
  <2>2. (p <= M /\ RmList(s)) \/ \E i \in Named("manifest") : p = at[i] + 4 /\ UpdateList(g, i, s)
    BY <1>8, ManHere
  <2> QED
    BY <1>6, <2>1, <2>2
<1> QED
  BY <1>1, <1>2, <1>5, <1>7, <1>8

(* A step of an entry leaves all entries where they are to be.             *)
LEMMA ManStep ==
  ASSUME EngineInv, ManInv, NEW g \in Entries, BuildahStep(g) PROVE ManInv'
<1>1. ManHost /\ \A h \in Entries : ManEntry(h)
  BY DEF ManInv
<1>2. Executed(g) /\ stage[g] = "running"
  BY BuildahExecuted DEF Executed
<1>3. Entries' = Entries /\ \A h \in Entries \ {g} : stage'[h] = stage[h] /\ frames'[h] = frames[h] /\ replace'[h] = replace[h]
  BY <1>2, ExecutedStage, ExecutedReplace DEF Entries
<1>4. UNCHANGED <<task, matrix>>
  BY DEF BuildahStep, fixed
<1>5. PICK l, R, M, at, p, s : LookRight(g) /\ ManPlace(g, l, R, M, at, p, s)
  BY <1>1, <1>2 DEF ManEntry
<1>6. StepsTyped
  BY <1>1 DEF ManHost
<1>7. \/ Fails(g) /\ UNCHANGED <<iid, images, manifests>>
      \/ /\ \E data, new : ManMove(g, data, new)
         /\ \A i \in DOMAIN images' : i \in DOMAIN images \/ \E h, k : i = <<"id", h, k>>
  BY <1>2, <1>5, <1>6, ManReady, ManMoves
<1>8. /\ ManEntry(g)' /\ ManShared(g)
      /\ \A i \in DOMAIN images' : i \in DOMAIN images \/ \E h, k : i = <<"id", h, k>>
  <2>1. CASE Fails(g) /\ UNCHANGED <<iid, images, manifests>>
    <3>1. ComesTo(g, l, p, s)
      BY <1>2, <1>5, ManHere
    <3>2. stage'[g] = "failed"
      BY <1>2, <2>1, <3>1, FailsEnds
    <3>3. \A n : Linked(n)' = Linked(n)
      BY <2>1 DEF Linked
    <3> QED
      BY <1>1, <2>1, <3>2, <3>3, ManQuiet DEF ManEntry
  <2>2. ASSUME NEW data, NEW new, ManMove(g, data, new) PROVE ManEntry(g)' /\ ManShared(g)
    BY <1>1, <1>2, <1>3, <1>4, <1>5, <2>2, ManProceeds
  <2> QED
    BY <1>7, <2>1, <2>2
<1>9. (\A n : ImagesRight(Linked(n)')) /\ (\A n : Touched(g, n))
  BY <1>8 DEF ManShared
<1>10. PICK v : (v = Empty \/ \E k : v = <<"id", g, k>>) /\ (iid' = iid \/ iid' = [iid EXCEPT ![g] = v])
  BY <1>8 DEF ManShared
<1>11. ManHost'
  BY <1>1, <1>3, <1>4, <1>8, <1>9, <1>10, ManHostStays
<1>12. \A h \in Entries \ {g} : iid'[h] = iid[h]
  BY <1>1, <1>10 DEF ManHost
<1>13. ASSUME NEW h \in Entries \ {g} PROVE ManEntry(h)'
  BY <1>1, <1>3, <1>4, <1>9, <1>12, ManStays
<1> QED
  BY <1>3, <1>8, <1>11, <1>13 DEF ManInv

(* The last of three that begin the rest of a list.                        *)
LEMMA ThirdBehind ==
  ASSUME NEW S, NEW u \in Seq(S), NEW w \in Seq(S), Len(w) >= 3
  PROVE  /\ u \o w \in Seq(S) /\ Len(u) \in Nat /\ Len(u \o w) \in Nat
         /\ Len(u) + 3 \in 1..Len(u \o w) /\ (u \o w)[Len(u) + 3] = w[3]
<1>1. Len(u) \in Nat /\ Len(w) \in Nat
  OBVIOUS
<1>2. /\ u \o w \in Seq(S) /\ Len(u \o w) = Len(u) + Len(w)
      /\ \A k \in 1..Len(u) + Len(w) : (u \o w)[k] = IF k <= Len(u) THEN u[k] ELSE w[k - Len(u)]
  BY ConcatProperties
<1>3. Len(u) + 3 \in 1..Len(u) + Len(w) /\ ~(Len(u) + 3 <= Len(u)) /\ Len(u) + 3 - Len(u) = 3
  BY <1>1
<1> QED
  BY <1>1, <1>2, <1>3

(* The specs for a target.                                                 *)
LEMMA LinkBlock ==
  ASSUME NEW g, NEW i, NEW b, b = IF i \in Named("image") THEN DockerPushSpecs(g, i) ELSE <<>>
  PROVE  /\ IsSeq(b) /\ Len(b) \in Nat /\ \A k \in 1..Len(b) : LinkSpec(g, b[k])
         /\ i \in Linking => \E k \in 1..Len(b) : Annotates(b[k], i, g)
<1> DEFINE args == LinkArgs(i, g)
           x == Ignored(Cmd("docker-manifest-create", args))
           y == Cmd("docker-manifest-amend", args)
           z == Cmd("docker-manifest-annotate", args)
           P == {Cmd("docker-push", <<a>>) : a \in {ImageName(i, g), RawManifest(i, g)}}
           S == {x, y, z} \cup P
           u == IF Targets[i].fqdn THEN <<Cmd("docker-push", <<ImageName(i, g)>>)>> ELSE <<>>
           v == IF Targets[i].fqdn THEN <<Cmd("docker-push", <<RawManifest(i, g)>>)>> ELSE <<>>
<1>1. /\ x.op = "docker-manifest-create" /\ x.args = args /\ x.out = NoToken /\ x.ignore \in BOOLEAN
      /\ y.op = "docker-manifest-amend" /\ y.args = args /\ y.out = NoToken /\ y.ignore \in BOOLEAN
      /\ z.op = "docker-manifest-annotate" /\ z.args = args /\ z.out = NoToken /\ z.ignore = FALSE
  BY PlainFields, IgnoredIntoFields DEF Cmd
<1>2. ASSUME NEW s \in P PROVE LinkSpec(g, s)
  <2>1. PICK a : s = Cmd("docker-push", <<a>>)
    BY <1>2
  <2>2. s.op = "docker-push" /\ s.out = NoToken /\ s.ignore \in BOOLEAN
    BY <2>1, PlainFields
  <2> QED
    BY <2>2 DEF LinkSpec, LinkOps
<1>3. u \in Seq(P) /\ v \in Seq(P)
  <2>1. \A s \in P : <<s>> \in Seq(P)
    OBVIOUS
  <2>2. <<>> \in Seq(P) /\ Cmd("docker-push", <<ImageName(i, g)>>) \in P /\ Cmd("docker-push", <<RawManifest(i, g)>>) \in P
    OBVIOUS
  <2> HIDE DEF P
  <2> QED
    BY <2>1, <2>2
<1>4. i \in Named("image") /\ i \in Named("manifest") => b = u \o (<<x, y, z>> \o v)
  BY DEF DockerPushSpecs, LinkSpecs, LinkArgs
<1>5. i \in Named("image") /\ i \notin Named("manifest") => b = u \o <<>>
  BY DEF DockerPushSpecs
<1> HIDE DEF P, u, v, x, y, z, args
<1>6. CASE i \in Linking
  <2>1. b = u \o (<<x, y, z>> \o v)
    BY <1>4, <1>6 DEF Linking
  <2>2. u \in Seq(S) /\ v \in Seq(S) /\ x \in S /\ y \in S /\ z \in S
    BY <1>3
  <2> HIDE DEF S
  <2>3. b \in Seq(S) /\ Len(u) \in Nat /\ Len(b) \in Nat /\ Len(u) + 3 \in 1..Len(b) /\ b[Len(u) + 3] = z
    <3>1. PICK t, w : t = <<x, y, z>> /\ w = t \o v
      OBVIOUS
    <3>2. t \in Seq(S) /\ Len(t) = 3 /\ t[3] = z
      BY <2>2, <3>1
    <3>3. /\ w \in Seq(S) /\ Len(w) = 3 + Len(v) /\ Len(v) \in Nat
          /\ \A k \in 1..3 + Len(v) : w[k] = IF k <= 3 THEN t[k] ELSE v[k - 3]
      BY <2>2, <3>1, <3>2, ConcatProperties
    <3>4. Len(w) >= 3 /\ w[3] = z
      BY <3>2, <3>3
    <3>5. b = u \o w
      BY <2>1, <3>1
    <3>6. u \in Seq(S) /\ w \in Seq(S)
      BY <2>2, <3>3
    <3> HIDE <3>3
    <3> QED
      BY <3>4, <3>5, <3>6, ThirdBehind
  <2>4. \A k \in 1..Len(b) : b[k] \in S
    BY <2>3
  <2>5. LinkSpec(g, x) /\ LinkSpec(g, y) /\ LinkSpec(g, z)
    BY <1>1, <1>6 DEF LinkSpec, LinkOps, args
  <2>6. \A s \in S : LinkSpec(g, s)
    BY <1>2, <2>5 DEF S
  <2>7. Annotates(z, i, g)
    BY <1>1 DEF Annotates, args
  <2> QED
    BY <2>3, <2>4, <2>6, <2>7, SeqIsSeq
<1>7. CASE i \notin Linking
  <2>1. b \in Seq(P)
    BY <1>3, <1>5, <1>7 DEF Linking
  <2>2. Len(b) \in Nat /\ \A k \in 1..Len(b) : b[k] \in P
    BY <2>1
  <2> QED
    BY <1>2, <1>7, <2>1, <2>2, SeqIsSeq
<1> QED
  BY <1>6, <1>7

(* And those of all targets.                                               *)
LEMMA LinkListed ==
  ASSUME IsSeq(task.names), NEW g, NEW l,
         l = FlattenSeq([i \in DOMAIN Targets |-> IF i \in Named("image") THEN DockerPushSpecs(g, i) ELSE <<>>])
  PROVE  LinkList(g, l)
<1> DEFINE n == Len(Targets)
           block(i) == IF i \in Named("image") THEN DockerPushSpecs(g, i) ELSE <<>>
           seqs == [i \in DOMAIN Targets |-> block(i)]
<1>1. n \in Nat /\ DOMAIN Targets = 1..n
  BY TargetsListed
<1>2. l = FlattenSeq(seqs)
  OBVIOUS
<1>3. seqs = [i \in 1..n |-> seqs[i]] /\ \A i \in 1..n : seqs[i] = block(i)
  BY <1>1
<1>4. ASSUME NEW i \in 1..n
      PROVE  /\ IsSeq(seqs[i]) /\ Len(seqs[i]) \in Nat /\ \A k \in 1..Len(seqs[i]) : LinkSpec(g, seqs[i][k])
             /\ i \in Linking => \E k \in 1..Len(seqs[i]) : Annotates(seqs[i][k], i, g)
  BY <1>3, LinkBlock
<1> HIDE DEF seqs, block, n
<1>5. IsSeq(l) /\ Len(seqs) = n /\ \E off : Flattened(seqs, l, off)
  BY <1>1, <1>2, <1>3, <1>4, FlattenLists
<1>6. PICK off : Flattened(seqs, l, off)
  BY <1>5
<1>7. Len(l) \in Nat
  BY <1>5, LenProperties DEF IsSeq
<1>8. ASSUME NEW q \in 1..Len(l) PROVE LinkSpec(g, l[q])
  <2>1. PICK i \in 1..n : \E k \in 1..Len(seqs[i]) : q = off[i] + k
    BY <1>5, <1>6 DEF Flattened
  <2>2. PICK k \in 1..Len(seqs[i]) : q = off[i] + k
    BY <2>1
  <2>3. l[q] = seqs[i][k]
    BY <1>5, <1>6, <2>2 DEF Flattened
  <2> QED
    BY <1>4, <2>3
<1>9. ASSUME NEW i \in Linking PROVE \E q \in 1..Len(l) : Annotates(l[q], i, g)
  <2>1. i \in 1..n
    BY <1>1 DEF Linking, Named
  <2>2. PICK k \in 1..Len(seqs[i]) : Annotates(seqs[i][k], i, g)
    BY <1>4, <2>1
  <2>3. off[i] + k \in 1..Len(l) /\ l[off[i] + k] = seqs[i][k]
    BY <1>5, <1>6, <2>1, <2>2 DEF Flattened
  <2> QED
    BY <2>2, <2>3
<1> QED
  BY <1>5, <1>7, <1>8, <1>9 DEF LinkList

(* What is in a set once an image is annotated.                            *)
LEMMA AnnotatedIn ==
  ASSUME NEW S, NEW img, NEW P, \A m \in S : m = [platform |-> m.platform, image |-> m.image],
         NEW e, e = [platform |-> P, image |-> img]
  PROVE  \A m : m \in WithPlatform(S, img, P) <=>
           (m \in S /\ m.image # img) \/ (m = e /\ \E k \in S : k.image = img)
<1>1. ASSUME NEW k \in S, k.image = img PROVE [k EXCEPT !.platform = P] = e
  <2>1. k = [platform |-> k.platform, image |-> k.image]
    OBVIOUS
  <2> QED
    BY <1>1, <2>1
<1>2. ASSUME NEW m PROVE m \in WithPlatform(S, img, P) <=>
                           \E k \in S : m = IF k.image = img THEN [k EXCEPT !.platform = P] ELSE k
  BY DEF WithPlatform
<1>3. ASSUME NEW m, NEW k \in S
      PROVE  m = (IF k.image = img THEN [k EXCEPT !.platform = P] ELSE k) <=>
               (k.image = img /\ m = e) \/ (k.image # img /\ m = k)
  BY <1>1
<1>4. ASSUME NEW m PROVE m \in WithPlatform(S, img, P) <=>
                           \E k \in S : (k.image = img /\ m = e) \/ (k.image # img /\ m = k)
  BY <1>2, <1>3
<1> QED
  BY <1>4

(* A spec of such a list fails and changes no manifest, or moves so.       *)
LEMMA LinkMoves ==
  ASSUME EngineInv, NEW g \in Entries, stage[g] = "running", DOMAIN replace[g] = {}, LinkSpec(g, Current(g)),
         DockerStep(g)
  PROVE  \/ Fails(g) /\ manifests' = manifests
         \/ LinkMove(g) /\ \E data : Moves(g, data, <<>>)
<1> DEFINE x == Current(g)
           name == x.args[1]
           img == x.args[2]
           Quiet == \A n : Linked(n)' = Linked(n)
<1>1. \A k : Arg(g, k) = x.args[k]
  BY DEF Arg, Value
<1>2. manifests' = manifests => Quiet
  BY DEF Linked
<1>3. ASSUME Succeed(g, Empty, <<>>) PROVE \E data : Moves(g, data, <<>>)
  BY <1>3 DEF Moves
<1>4. CASE DockerManifestLink(g)
  <2>1. PICK e, y, z : e = [platform |-> NoPlatform, image |-> img] /\ y = name /\ z = img
    OBVIOUS
  <2>2. /\ x.op \in LinkOps \ {"docker-manifest-annotate"} /\ Succeed(g, Empty, <<>>)
        /\ manifests' = Update(manifests, y, Linked(y) \cup (IF \E m \in Linked(y) : m.image = z THEN {} ELSE {e}))
    BY <1>1, <1>4, <2>1 DEF DockerManifestLink, At, LinkOps
  <2>3. \A n : n # y => Linked(n)' = Linked(n)
    BY <2>2 DEF Linked, Update
  <2>4. Linked(y)' = Linked(y) \cup (IF \E m \in Linked(y) : m.image = z THEN {} ELSE {e})
    <3>1. y \in DOMAIN manifests' /\ manifests'[y] = Linked(y) \cup (IF \E m \in Linked(y) : m.image = z THEN {} ELSE {e})
      BY <2>2 DEF Update
    <3> QED
      BY <3>1 DEF Linked
  <2>5. CASE \E m \in Linked(y) : m.image = z
    <3>1. Linked(y)' = Linked(y)
      BY <2>4, <2>5
    <3>2. \A n : Linked(n)' = Linked(n)
      BY <2>3, <3>1
    <3> QED
      BY <1>3, <2>2, <3>2 DEF LinkMove
  <2>6. CASE ~\E m \in Linked(y) : m.image = z
    <3>1. Linked(y)' = Linked(y) \cup {e} /\ \A m \in Linked(y) : m.image # z
      BY <2>4, <2>6
    <3> QED
      BY <1>3, <2>1, <2>2, <2>3, <3>1 DEF LinkMove
  <2> QED
    BY <2>5, <2>6
<1>5. CASE DockerManifestAnnotate(g)
  <2>1. PICK y, z : y = name /\ z = img
    OBVIOUS
  <2>2. /\ x.op = "docker-manifest-annotate" /\ Succeed(g, Empty, <<>>)
        /\ \E m \in Linked(y) : m.image = z
        /\ manifests' = [manifests EXCEPT ![y] =
                           {IF m.image = z THEN [m EXCEPT !.platform = PlatformOf(g)] ELSE m : m \in @}]
    <3>1. Arg(g, 1) = y /\ Arg(g, 2) = z
      BY <1>1, <2>1
    <3>2. /\ \E m \in Linked(Arg(g, 1)) : m.image = Arg(g, 2)
          /\ manifests' = [manifests EXCEPT ![Arg(g, 1)] =
                             {IF m.image = Arg(g, 2) THEN [m EXCEPT !.platform = PlatformOf(g)] ELSE m : m \in @}]
      BY <1>5 DEF DockerManifestAnnotate
    <3>3. x.op = "docker-manifest-annotate" /\ Succeed(g, Empty, <<>>)
      BY <1>5 DEF DockerManifestAnnotate, At
    <3> QED
      BY <3>1, <3>2, <3>3
  <2>3. y \in DOMAIN manifests
    BY <2>2 DEF Linked
  <2>4. \A n : n # y => Linked(n)' = Linked(n)
    BY <2>2 DEF Linked
  <2>5. Linked(y)' = WithPlatform(Linked(y), z, PlatformOf(g))
    BY <2>2, <2>3 DEF Linked, WithPlatform
  <2> QED
    BY <1>3, <2>1, <2>2, <2>4, <2>5 DEF LinkMove
<1>6. CASE DockerPush(g) \/ DockerLogin(g)
  <2>1. x.op # "docker-manifest-annotate" /\ manifests' = manifests /\ Succeed(g, Empty, <<>>)
    BY <1>6 DEF DockerPush, DockerLogin, At, host
  <2> QED
    BY <1>2, <1>3, <2>1 DEF LinkMove
<1>7. CASE DockerFails(g)
  <2>1. (Fail(g, Empty) \/ NoToolCmd(g)) /\ manifests' = manifests
    BY <1>7 DEF DockerFails, host
  <2>2. CASE Fail(g, Empty) /\ x.ignore
    <3>1. Moves(g, Empty, <<>>)
      BY <2>2 DEF Moves
    <3>2. CASE x.op # "docker-manifest-annotate"
      BY <1>2, <2>1, <3>1, <3>2 DEF LinkMove
    <3> QED
      BY <2>2, <3>2 DEF LinkSpec
  <2> QED
    BY <2>1, <2>2 DEF Fails
<1>8. ~DockerBuild(g)
  BY DEF DockerBuild, At, LinkSpec, LinkOps
<1> QED
  BY <1>4, <1>5, <1>6, <1>7, <1>8 DEF DockerStep

(* It leaves what is in manifests such.                                    *)
LEMMA LinksStayShaped ==
  ASSUME NEW g, LinksShaped, LinkMove(g) PROVE LinksShaped'
<1> DEFINE x == Current(g)
<1>1. PICK y, z, P : y = x.args[1] /\ z = x.args[2] /\ P = PlatformOf(g)
  OBVIOUS
<1>2. PICK e, f : e = [platform |-> P, image |-> z] /\ f = [platform |-> NoPlatform, image |-> z]
  OBVIOUS
<1>3. \/ \A n : Linked(n)' = Linked(n)
      \/ (\A n : n # y => Linked(n)' = Linked(n)) /\ Linked(y)' = Linked(y) \cup {f}
      \/ (\A n : n # y => Linked(n)' = Linked(n)) /\ Linked(y)' = WithPlatform(Linked(y), z, P)
  BY <1>1, <1>2 DEF LinkMove
<1>4. \A n : \A m \in Linked(n) : m = [platform |-> m.platform, image |-> m.image]
  BY DEF LinksShaped
<1>5. e = [platform |-> e.platform, image |-> e.image] /\ f = [platform |-> f.platform, image |-> f.image]
  BY <1>2
<1>6. ASSUME NEW n, NEW m \in Linked(n)' PROVE m \in Linked(n) \/ m \in {e, f}
  <2>1. CASE n # y \/ Linked(n)' = Linked(n)
    BY <1>3, <1>6, <2>1
  <2>2. CASE n = y /\ Linked(y)' = Linked(y) \cup {f}
    BY <1>6, <2>2
  <2>3. CASE n = y /\ Linked(y)' = WithPlatform(Linked(y), z, P)
    <3>1. \A k : k \in WithPlatform(Linked(y), z, P) => k \in Linked(y) \/ k = e
      BY <1>2, <1>4, AnnotatedIn
    <3> QED
      BY <1>6, <2>3, <3>1
  <2> QED
    BY <1>3, <2>1, <2>2, <2>3
<1>7. \A n : \A m \in Linked(n)' : m = [platform |-> m.platform, image |-> m.image]
  BY <1>4, <1>5, <1>6
<1> QED
  BY <1>7 DEF LinksShaped

(* What it annotates is for the platform of the entry.                     *)
LEMMA LinkAnnotates ==
  ASSUME NEW g \in Entries, LinksShaped, UNCHANGED <<task, matrix>>, Entries' = Entries, LinkMove(g),
         NEW i \in Linking, Annotates(Current(g), i, g)
  PROVE  Annotated(i, g)'
<1> DEFINE x == Current(g)
<1>1. PICK y, z, P : y = ManifestName(i, g) /\ z = ImageName(i, g) /\ P = PlatformOf(g)
  OBVIOUS
<1>2. x.op = "docker-manifest-annotate" /\ x.args[1] = y /\ x.args[2] = z
  BY <1>1 DEF Annotates, LinkArgs
<1>3. Linked(y)' = WithPlatform(Linked(y), z, P) /\ \E m \in Linked(y) : m.image = z
  BY <1>1, <1>2 DEF LinkMove
<1>4. PICK e : e = [platform |-> P, image |-> z]
  OBVIOUS
<1>5. \A m \in Linked(y) : m = [platform |-> m.platform, image |-> m.image]
  BY DEF LinksShaped
<1>6. \A m : m \in Linked(y)' <=> (m \in Linked(y) /\ m.image # z) \/ m = e
  BY <1>3, <1>4, <1>5, AnnotatedIn
<1>7. e.image = z
  BY <1>4
<1>8. {m \in Linked(y)' : m.image = z} = {e}
  BY <1>6, <1>7
<1>9. ManifestName(i, g)' = y /\ PlatformOf(g)' = P /\ ImageName(i, g)' = z
  BY <1>1, NamesStay, PlatformsStay DEF ImageName, Tag, GetDefaultTag, Targets
<1> QED
  BY <1>4, <1>8, <1>9 DEF Annotated

(* And stays so, if its name is the entry's own.                           *)
LEMMA AnnotatedStays ==
  ASSUME NEW g \in Entries, UNCHANGED <<task, matrix>>, Entries' = Entries, LinkMove(g), LinkSpec(g, Current(g)),
         NEW h \in Entries, NEW i \in Linking, OwnImage(i, h), Annotated(i, h), LinksShaped
  PROVE  Annotated(i, h)'
<1> DEFINE x == Current(g)
<1>1. PICK y, z, P : y = ManifestName(i, h) /\ z = ImageName(i, h) /\ P = PlatformOf(h)
  OBVIOUS
<1>2. PICK e : e = [platform |-> P, image |-> z]
  OBVIOUS
<1>3. {m \in Linked(y) : m.image = z} = {e}
  BY <1>1, <1>2 DEF Annotated
<1>4. ManifestName(i, h)' = y /\ PlatformOf(h)' = P /\ ImageName(i, h)' = z
  BY <1>1, NamesStay, PlatformsStay DEF ImageName, Tag, GetDefaultTag, Targets
<1>5. SUFFICES {m \in Linked(y)' : m.image = z} = {e}
  BY <1>2, <1>4 DEF Annotated
<1>6. CASE Linked(y)' = Linked(y)
  BY <1>3, <1>6
<1>7. \A m \in Linked(y) : m = [platform |-> m.platform, image |-> m.image]
  BY DEF LinksShaped
<1>8. CASE x.op \in LinkOps /\ y = x.args[1]
  <2>1. PICK j \in Linking : x.args = LinkArgs(j, g)
    BY <1>8 DEF LinkSpec
  <2>2. ManifestName(j, g) = y /\ x.args[2] = ImageName(j, g)
    BY <1>8, <2>1 DEF LinkArgs
  <2>3. j = i
    BY <1>1, <2>2, NamesDiffer
  <2>4. PICK w : w = x.args[2]
    OBVIOUS
  <2>5. \/ Linked(y)' = Linked(y)
        \/ Linked(y)' = Linked(y) \cup {[platform |-> NoPlatform, image |-> w]} /\ \A m \in Linked(y) : m.image # w
        \/ Linked(y)' = WithPlatform(Linked(y), w, PlatformOf(g))
    BY <1>8, <2>4 DEF LinkMove
  <2>6. w = ImageName(i, g)
    BY <2>2, <2>3, <2>4
  <2>7. CASE g = h
    <3>1. w = z
      BY <1>1, <2>6, <2>7
    <3>2. CASE \A m \in Linked(y) : m.image # w
      BY <1>3, <3>1, <3>2
    <3>3. CASE Linked(y)' = WithPlatform(Linked(y), w, PlatformOf(g))
      <4>1. P = PlatformOf(g)
        BY <1>1, <2>7
      <4>2. \A m : m \in Linked(y)' <=> (m \in Linked(y) /\ m.image # z) \/ (m = e /\ \E k \in Linked(y) : k.image = z)
        BY <1>2, <1>7, <3>1, <3>3, <4>1, AnnotatedIn
      <4>3. e.image = z
        BY <1>2
      <4> QED
        BY <1>3, <4>2, <4>3
    <3> QED
      BY <1>6, <2>5, <3>2, <3>3
  <2>8. CASE g # h
    <3>1. w # z
      BY <1>1, <2>6, <2>8 DEF OwnImage
    <3>2. CASE Linked(y)' = Linked(y) \cup {[platform |-> NoPlatform, image |-> w]}
      <4>1. PICK f : f = [platform |-> NoPlatform, image |-> w]
        OBVIOUS
      <4>2. f.image = w
        BY <4>1
      <4> QED
        BY <1>3, <3>1, <3>2, <4>1, <4>2
    <3>3. CASE Linked(y)' = WithPlatform(Linked(y), w, PlatformOf(g))
      <4>1. PICK f : f = [platform |-> PlatformOf(g), image |-> w]
        OBVIOUS
      <4>2. \A m : m \in Linked(y)' <=> (m \in Linked(y) /\ m.image # w) \/ (m = f /\ \E k \in Linked(y) : k.image = w)
        BY <1>7, <3>3, <4>1, AnnotatedIn
      <4>3. f.image = w
        BY <4>1
      <4> QED
        BY <1>3, <3>1, <4>2, <4>3
    <3> QED
      BY <1>6, <2>5, <3>2, <3>3
  <2> QED
    BY <2>7, <2>8
<1> QED
  BY <1>6, <1>8 DEF LinkMove, LinkOps

(* Which names are an entry's own does not change, nor what its specs are. *)
LEMMA LinkListStays ==
  ASSUME UNCHANGED <<task, matrix>>, Entries' = Entries
  PROVE  /\ Linking' = Linking /\ \A i, h : OwnImage(i, h)' = OwnImage(i, h)
         /\ \A g, l : LinkList(g, l) => LinkList(g, l)'
         /\ \A x, i, g : Annotates(x, i, g)' = Annotates(x, i, g)
<1>1. /\ \A i, h : ImageName(i, h)' = ImageName(i, h)
      /\ \A i, h : ManifestName(i, h)' = ManifestName(i, h)
  BY NamesStay DEF ImageName, Tag, GetDefaultTag, Targets
<1>2. Linking' = Linking
  BY NamesStay DEF Linking
<1>3. \A i, h : OwnImage(i, h)' = OwnImage(i, h)
  BY <1>1 DEF OwnImage
<1>4. \A i, g : LinkArgs(i, g)' = LinkArgs(i, g)
  BY <1>1 DEF LinkArgs
<1>5. \A x, i, g : Annotates(x, i, g)' = Annotates(x, i, g)
  BY <1>4 DEF Annotates
<1>6. \A g, l : LinkList(g, l) => LinkList(g, l)'
  BY <1>2, <1>4, <1>5 DEF LinkList, LinkSpec
<1> QED
  BY <1>2, <1>3, <1>5, <1>6

(* An entry another one's step leaves in its place.                        *)
LEMMA LinkStays ==
  ASSUME UNCHANGED <<task, matrix>>, Entries' = Entries, NEW h \in Entries, LinkEntry(h),
         stage'[h] = stage[h], frames'[h] = frames[h], replace'[h] = replace[h],
         \A i \in Linking : OwnImage(i, h) /\ Annotated(i, h) => Annotated(i, h)'
  PROVE  LinkEntry(h)'
<1>1. ASSUME NEW l, NEW p, LinkPlace(h, l, p) PROVE LinkPlace(h, l, p)'
  <2>1. LinkList(h, l)' /\ Linking' = Linking /\ \A i : OwnImage(i, h)' = OwnImage(i, h)
    BY <1>1, LinkListStays DEF LinkPlace
  <2>2. Placed(h, l, p, <<>>)'
    BY <1>1 DEF LinkPlace, Placed, ComesTo
  <2>3. \A x, i : Annotates(x, i, h)' = Annotates(x, i, h)
    BY LinkListStays
  <2> QED
    BY <1>1, <2>1, <2>2, <2>3 DEF LinkPlace
<1> QED
  BY <1>1 DEF LinkEntry

(* GetExecSpecs of a push of docker.                                       *)
LEMMA LinkGenerates ==
  ASSUME EngineInv, LinkInv, task.kind = "docker-push", NEW g \in Entries, GenDocker(g)
  PROVE  LinkInv'
<1>0. UNCHANGED <<task, matrix, manifests>> /\ stage[g] = "started"
  BY DEF GenDocker, buildahVars, NotGenerated, Generated
<1>1. PICK l : l = FlattenSeq([i \in DOMAIN Targets |-> IF i \in Named("image") THEN DockerPushSpecs(g, i) ELSE <<>>])
  OBVIOUS
<1>2. NotGenerated(g) \/ Generated(g, l)
  BY <1>1 DEF GenDocker
<1>3. /\ Entries' = Entries /\ replace' = replace
      /\ \A h \in Entries \ {g} : stage'[h] = stage[h] /\ frames'[h] = frames[h]
  BY <1>2 DEF Generated, NotGenerated, Goto, EngineInv, TypeOK, ExecTypeOK, Entries
<1>4. LinkList(g, l)
  BY <1>1, LinkListed DEF LinkInv, StepsTyped
<1>5. \A n : Linked(n)' = Linked(n)
  BY <1>0 DEF Linked
<1>6. \A i, h : Annotated(i, h) => Annotated(i, h)'
  <2>1. /\ \A i, h : ImageName(i, h)' = ImageName(i, h)
        /\ \A i, h : ManifestName(i, h)' = ManifestName(i, h)
    BY <1>0, NamesStay DEF ImageName, Tag, GetDefaultTag, Targets
  <2>2. \A h : PlatformOf(h)' = PlatformOf(h)
    BY <1>0 DEF PlatformOf
  <2>3. \A i, h : Linked(ManifestName(i, h))' = Linked(ManifestName(i, h))
    BY <1>5, <2>1
  <2> QED
    BY <2>1, <2>2, <2>3 DEF Annotated
<1>7. ASSUME NEW h \in Entries, h # g PROVE LinkEntry(h)'
  BY <1>0, <1>3, <1>6, <1>7, LinkStays DEF LinkInv
<1>8. LinkEntry(g)'
  <2>1. DOMAIN replace'[g] = {}
    BY <1>3 DEF LinkInv, LinkEntry
  <2>2. CASE NotGenerated(g)
    <3>1. stage'[g] = "failed"
      BY <2>2 DEF NotGenerated, Goto, EngineInv, TypeOK, ExecTypeOK
    <3> QED
      BY <2>1, <3>1 DEF LinkEntry
  <2>3. CASE Generated(g, l)
    <3>1. IsSeq(l)
      BY <1>4 DEF LinkList
    <3>2. Placed(g, l, 1, <<>>)'
      BY <2>3, <3>1, PlaceStarts
    <3>3. LinkList(g, l)'
      BY <1>0, <1>3, <1>4, LinkListStays
    <3>4. \A q \in 1..(1 - 1) : FALSE
      OBVIOUS
    <3>5. LinkPlace(g, l, 1)'
      BY <3>2, <3>3, <3>4 DEF LinkPlace
    <3> QED
      BY <2>1, <3>5 DEF LinkEntry
  <2> QED
    BY <1>2, <2>2, <2>3
<1>9. StepsTyped' /\ LinksShaped'
  BY <1>0, <1>5 DEF LinkInv, StepsTyped, LinksShaped
<1> QED
  BY <1>3, <1>7, <1>8, <1>9 DEF LinkInv

(* A step of such an entry.                                                *)
LEMMA LinkStep ==
  ASSUME EngineInv, LinkInv, NEW g \in Entries, DockerStep(g) PROVE LinkInv'
<1>1. StepsTyped /\ LinksShaped /\ \A h \in Entries : LinkEntry(h)
  BY DEF LinkInv
<1>2. Executed(g) /\ stage[g] = "running"
  BY DockerExecuted DEF Executed
<1>3. Entries' = Entries /\ \A h \in Entries \ {g} : stage'[h] = stage[h] /\ frames'[h] = frames[h] /\ replace'[h] = replace[h]
  BY <1>2, ExecutedStage, ExecutedReplace DEF Entries
<1>4. UNCHANGED <<task, matrix>>
  BY DEF DockerStep, fixed
<1>5. DOMAIN replace[g] = {} /\ \E l, p : LinkPlace(g, l, p)
  BY <1>1, <1>2 DEF LinkEntry
<1>6. PICK l, p : LinkPlace(g, l, p)
  BY <1>5
<1>7. /\ LinkList(g, l) /\ IsSeq(l) /\ Len(l) \in Nat /\ Placed(g, l, p, <<>>) /\ ComesTo(g, l, p, <<>>)
  BY <1>2, <1>6 DEF LinkPlace, LinkList, Placed
<1>8. Here(g, l, p, <<>>)
  BY <1>2, <1>7, PlaceCurrent
<1>9. p \in 1..Len(l) /\ Current(g) = l[p]
  BY <1>8 DEF Here
<1>10. LinkSpec(g, Current(g))
  BY <1>7, <1>9 DEF LinkList
<1>11. StepsTyped'
  BY <1>1, <1>4 DEF StepsTyped
<1>12. CASE Fails(g) /\ manifests' = manifests
  <2>1. stage'[g] = "failed"
    BY <1>2, <1>7, <1>12, FailsEnds
  <2>2. \A n : Linked(n)' = Linked(n)
    BY <1>12 DEF Linked
  <2>3. /\ \A i, h : ImageName(i, h)' = ImageName(i, h)
        /\ \A i, h : ManifestName(i, h)' = ManifestName(i, h)
        /\ \A h : PlatformOf(h)' = PlatformOf(h)
    BY <1>4, NamesStay DEF ImageName, Tag, GetDefaultTag, Targets, PlatformOf
  <2>4. \A i, h : Linked(ManifestName(i, h))' = Linked(ManifestName(i, h))
    BY <2>2, <2>3
  <2>5. \A i, h : Annotated(i, h) => Annotated(i, h)'
    BY <2>3, <2>4 DEF Annotated
  <2>6. LinksShaped'
    BY <1>1, <2>2 DEF LinksShaped
  <2>7. ASSUME NEW h \in Entries, h # g PROVE LinkEntry(h)'
    BY <1>1, <1>3, <1>4, <2>5, <2>7, LinkStays
  <2>8. replace'[g] = replace[g]
    <3>1. Current(g).out = NoToken
      BY <1>10 DEF LinkSpec
    <3> QED
      BY <1>12, <3>1 DEF Fails, NoToolCmd, Fail, Keep
  <2>9. LinkEntry(g)'
    BY <1>5, <2>1, <2>8 DEF LinkEntry
  <2> QED
    BY <1>3, <1>11, <2>6, <2>7, <2>9 DEF LinkInv
<1>13. ASSUME LinkMove(g), NEW data, Moves(g, data, <<>>) PROVE LinkInv'
  <2>1. LinksShaped'
    BY <1>1, <1>13, LinksStayShaped
  <2>2. \A h \in Entries : \A i \in Linking : OwnImage(i, h) /\ Annotated(i, h) => Annotated(i, h)'
    BY <1>1, <1>3, <1>4, <1>10, <1>13, AnnotatedStays
  <2>3. ASSUME NEW h \in Entries, h # g PROVE LinkEntry(h)'
    BY <1>1, <1>3, <1>4, <2>2, <2>3, LinkStays
  <2>4. Current(g).out = NoToken /\ Current(g).ignore \in BOOLEAN
    BY <1>10 DEF LinkSpec
  <2>5. replace'[g] = replace[g]
    BY <1>2, <1>13, <2>4, MoveKeeps
  <2>6. Placed(g, l, p + 1, <<>>)'
    <3>1. IsSeq(<<>>)
      BY NoSpecs
    <3> QED
      BY <1>2, <1>7, <1>13, <2>4, <3>1, PlaceMoves
  <2>7. LinkList(g, l)' /\ Linking' = Linking /\ (\A i : OwnImage(i, g)' = OwnImage(i, g))
        /\ \A x, i : Annotates(x, i, g)' = Annotates(x, i, g)
    BY <1>3, <1>4, <1>7, LinkListStays
  <2>8. ASSUME NEW q \in 1..((p + 1) - 1), NEW i \in Linking, Annotates(l[q], i, g), OwnImage(i, g)
        PROVE  Annotated(i, g)'
    <3>1. CASE q = p
      BY <1>1, <1>3, <1>4, <1>9, <1>13, <2>8, <3>1, LinkAnnotates
    <3>2. CASE q # p
      <4>1. q \in 1..(p - 1)
        BY <1>9, <2>8, <3>2
      <4>2. Annotated(i, g)
        BY <1>6, <2>8, <4>1 DEF LinkPlace
      <4> QED
        BY <2>2, <2>8, <4>2
    <3> QED
      BY <3>1, <3>2
  <2>9. LinkPlace(g, l, p + 1)'
    <3>1. LinkList(g, l)'
      BY <2>7
    <3>2. (\A q \in 1..((p + 1) - 1) : \A i \in Linking : Annotates(l[q], i, g) /\ OwnImage(i, g) => Annotated(i, g))'
      BY <2>7, <2>8
    <3> QED
      BY <2>6, <3>1, <3>2 DEF LinkPlace
  <2>10. LinkEntry(g)'
    BY <1>5, <2>5, <2>9 DEF LinkEntry
  <2> QED
    BY <1>3, <1>11, <2>1, <2>3, <2>10 DEF LinkInv
<1>14. \/ Fails(g) /\ manifests' = manifests
       \/ LinkMove(g) /\ \E data : Moves(g, data, <<>>)
  BY <1>2, <1>5, <1>10, LinkMoves
<1> QED
  BY <1>12, <1>13, <1>14

(* What GetExecSpecs does for an entry leaves the others.                  *)
LEMMA GeneratedOthers ==
  ASSUME EngineInv, NEW g \in Entries, NotGenerated(g) \/ \E l : Generated(g, l)
  PROVE  /\ Entries' = Entries /\ replace' = replace
         /\ \A h \in Entries \ {g} : stage'[h] = stage[h] /\ frames'[h] = frames[h]
<1>1. ASSUME NEW l, Generated(g, l)
      PROVE  /\ count' = count /\ replace' = replace
             /\ \A h \in Entries \ {g} : stage'[h] = stage[h] /\ frames'[h] = frames[h]
  BY <1>1 DEF Generated, Goto, EngineInv, TypeOK, ExecTypeOK
<1>2. ASSUME NotGenerated(g)
      PROVE  /\ count' = count /\ replace' = replace
             /\ \A h \in Entries \ {g} : stage'[h] = stage[h] /\ frames'[h] = frames[h]
  BY <1>2 DEF NotGenerated, Goto, EngineInv, TypeOK, ExecTypeOK
<1> QED
  BY <1>1, <1>2 DEF Entries

(* An entry nothing happens to stays as it is.                             *)
LEMMA ManUntouched ==
  ASSUME UNCHANGED <<task, matrix, manifests>>, Entries' = Entries, NEW h \in Entries,
         ManEntry(h), stage'[h] = stage[h], frames'[h] = frames[h], replace'[h] = replace[h], iid'[h] = iid[h]
  PROVE  ManEntry(h)'
<1>1. LookRight(h) => LookRight(h)'
  BY PlatformsStay DEF LookRight
<1>2. ASSUME NEW i, NEW at, NEW p, NEW s, TargetRight(h, i, at, p, s) PROVE TargetRight(h, i, at, p, s)'
  <2>1. PICK n : n = ManifestName(i, h)
    OBVIOUS
  <2>2. /\ ManifestName(i, h)' = n /\ PlatformOf(h)' = PlatformOf(h) /\ Alone(i, h)' = Alone(i, h)
        /\ LastNamed(i)' = LastNamed(i)
    BY <2>1, NamesStay, PlatformsStay, AloneStay
  <2>3. Linked(n)' = Linked(n)
    BY DEF Linked
  <2>4. Own(h)' = Own(h) /\ OfPlatform(h, i)' = OfPlatform(h, i) /\ Linked(ManifestName(i, h))' = Linked(n)
    BY <2>1, <2>2, <2>3 DEF Own, OfPlatform, SamePlatform
  <2>5. LookedAt(h)' = LookedAt(h) /\ Updated(at, i, p, s)' = Updated(at, i, p, s)
    BY DEF LookedAt, Updated
  <2> QED
    BY <1>2, <2>1, <2>2, <2>4, <2>5 DEF TargetRight
<1>3. ASSUME NEW l, NEW R, NEW M, NEW at, NEW p, NEW s, ManPlace(h, l, R, M, at, p, s)
      PROVE  ManPlace(h, l, R, M, at, p, s)'
  <2>1. /\ ManList(h, l, R, M, at) /\ Placed(h, l, p, s) /\ SubsFit(h, M, at, p, s)
        /\ p > R => IMAGE_ID \in DOMAIN replace[h] /\ replace[h][IMAGE_ID].data = iid[h]
        /\ \A i \in Named("manifest") : TargetRight(h, i, at, p, s)
    BY <1>3 DEF ManPlace
  <2>2. ManList(h, l, R, M, at)'
    BY <2>1, ManListStays
  <2>3. SubsFit(h, M, at, p, s)'
    BY <2>1, SubsFitStay
  <2>4. Placed(h, l, p, s)'
    BY <2>1 DEF Placed, ComesTo
  <2>5. Named("manifest")' = Named("manifest")
    BY NamesStay
  <2>6. \A i \in Named("manifest") : TargetRight(h, i, at, p, s)'
    BY <1>2, <2>1
  <2> QED
    BY <2>1, <2>2, <2>3, <2>4, <2>5, <2>6 DEF ManPlace
<1> QED
  BY <1>1, <1>3 DEF ManEntry

(* What the entries share, when nothing happens to it.                     *)
LEMMA ManHostUntouched ==
  ASSUME ManHost, UNCHANGED <<task, matrix, images, iid, manifests, count>> PROVE ManHost'
<1>1. Entries' = Entries
  BY DEF Entries
<1>2. \A n : ImagesRight(Linked(n))'
  <2>1. \A n : Linked(n)' = Linked(n)
    BY DEF Linked
  <2> QED
    BY <1>1, <2>1, PlatformsStay DEF ManHost
<1> QED
  BY <1>1, <1>2 DEF ManHost, StepsTyped

(* It holds at first.                                                      *)
LEMMA InitManifests == Init => ManifestsInv
<1> SUFFICES ASSUME Init PROVE ManifestsInv
  OBVIOUS
<1>1. /\ job \in Jobs /\ stage = [g \in Entries |-> "waiting"] /\ replace = [g \in Entries |-> <<>>]
      /\ iid = [g \in Entries |-> Empty] /\ images = <<>> /\ manifests = job.manifests
  BY DEF Init, ExecInit, Entries
<1>2. EngineInv /\ StepsTyped
  BY InitEngine, NamesListed
<1>3. DOMAIN images = {} /\ Begun = {} /\ \A g \in Entries : stage[g] = "waiting" /\ DOMAIN replace[g] = {}
  BY <1>1 DEF Begun
<1>4. DOMAIN iid = Entries /\ \A h \in Entries : iid[h] = Empty
  BY <1>1
<1>5. \A n : IsFiniteSet(Linked(n)) /\ \A m \in Linked(n) : LeftImage(m)
  BY <1>1, EarlierRunsAssumption, FS_EmptySet DEF Linked
<1>6. 0 \notin Entries
  BY DEF Entries
<1>7. \A n : ImagesRight(Linked(n))
  <2>1. ASSUME NEW m, LeftImage(m) PROVE ~IsToken(m.image) /\ Fits(m.image, m.platform)
    <3>1. ASSUME NEW h \in Entries, NEW k, m.image = <<"id", h, k>> PROVE FALSE
      BY <1>6, <2>1, <3>1 DEF LeftImage
    <3> QED
      BY <2>1, <3>1 DEF LeftImage, Fits
  <2> QED
    BY <1>5, <2>1 DEF ImagesRight
<1>8. ManHost
  BY <1>2, <1>3, <1>4, <1>7 DEF ManHost
<1>9. ManInv
  BY <1>3, <1>8 DEF ManInv, ManEntry
<1>10. LinksShaped
  BY <1>5 DEF LinksShaped, LeftImage
<1>11. LinkInv
  BY <1>2, <1>3, <1>10 DEF LinkInv, LinkEntry
<1>12. job.tool \notin {"buildah", "docker"} => task.kind = "none"
  BY DEF Init, NoTask
<1> QED
  BY <1>2, <1>3, <1>9, <1>11, <1>12 DEF ManifestsInv

(* A task of buildah that makes images.                                    *)
LEMMA NextMan ==
  ASSUME EngineInv, EngineInv', Building, ManInv, job.tool = "buildah", [Next]_vars PROVE ManInv'
<1>1. ManHost /\ \A h \in Entries : ManEntry(h)
  BY DEF ManInv
<1>2. CASE UNCHANGED vars
  <2>1. UNCHANGED <<count, stage, frames, replace, task, matrix, images, iid, manifests>>
    BY <1>2 DEF vars, execVars, buildahVars
  <2>2. ManHost' /\ Entries' = Entries
    BY <1>1, <2>1, ManHostUntouched DEF Entries
  <2>3. ASSUME NEW h \in Entries PROVE ManEntry(h)'
    BY <1>1, <2>1, <2>2, ManUntouched
  <2> QED
    BY <2>2, <2>3 DEF ManInv
<1>3. ASSUME NEW g \in Entries, Start(g), UNCHANGED buildahVars PROVE ManInv'
  <2>1. /\ UNCHANGED <<count, frames, replace, task, matrix, images, iid, manifests>>
        /\ stage[g] = "waiting" /\ stage'[g] = "started" /\ \A h \in Entries \ {g} : stage'[h] = stage[h]
    BY <1>3 DEF Start, Goto, buildahVars, EngineInv, TypeOK, ExecTypeOK
  <2>2. ManHost' /\ Entries' = Entries
    BY <1>1, <2>1, ManHostUntouched DEF Entries
  <2>3. ASSUME NEW h \in Entries, h # g PROVE ManEntry(h)'
    BY <1>1, <2>1, <2>2, <2>3, ManUntouched
  <2>4. ManEntry(g)'
    BY <1>1, <2>1 DEF ManEntry
  <2> QED
    BY <2>2, <2>3, <2>4 DEF ManInv
<1>4. ASSUME NEW g \in Entries, BuildahNext(g) PROVE ManInv'
  <2>1. CASE BuildahStep(g)
    BY <2>1, ManStep
  <2>2. CASE GenBuildah(g)
    <3>1. /\ ManHost' /\ ManEntry(g)' /\ UNCHANGED <<task, matrix, manifests>>
          /\ \A h \in Entries \ {g} : iid'[h] = iid[h]
      BY <2>2, ManGenerates
    <3>2. NotGenerated(g) \/ \E l : Generated(g, l)
      BY <2>2 DEF GenBuildah, GenPush
    <3>3. /\ Entries' = Entries /\ replace' = replace
          /\ \A h \in Entries \ {g} : stage'[h] = stage[h] /\ frames'[h] = frames[h]
      BY <3>2, GeneratedOthers
    <3>4. ASSUME NEW h \in Entries, h # g PROVE ManEntry(h)'
      BY <1>1, <3>1, <3>3, <3>4, ManUntouched
    <3> QED
      BY <3>1, <3>3, <3>4 DEF ManInv
  <2> QED
    BY <1>4, <2>1, <2>2 DEF BuildahNext
<1>5. CASE Terminated
  BY <1>2, <1>5 DEF Terminated
<1> QED
  BY <1>2, <1>3, <1>4, <1>5 DEF Next

(* A push of docker.                                                       *)
LEMMA NextLink ==
  ASSUME EngineInv, EngineInv', task.kind = "docker-push", LinkInv, job.tool = "docker", [Next]_vars PROVE LinkInv'
<1>1. StepsTyped /\ LinksShaped /\ \A h \in Entries : LinkEntry(h)
  BY DEF LinkInv
<1>2. ASSUME UNCHANGED <<count, frames, replace, task, matrix, manifests>>
      PROVE  /\ StepsTyped' /\ LinksShaped' /\ Entries' = Entries
             /\ \A h \in Entries : stage'[h] = stage[h] => LinkEntry(h)'
  <2>1. StepsTyped' /\ LinksShaped' /\ Entries' = Entries
    BY <1>1, <1>2 DEF StepsTyped, LinksShaped, Linked, Entries
  <2>2. \A i, h : Annotated(i, h) => Annotated(i, h)'
    <3>1. /\ \A i, h : ImageName(i, h)' = ImageName(i, h)
          /\ \A i, h : ManifestName(i, h)' = ManifestName(i, h)
          /\ \A h : PlatformOf(h)' = PlatformOf(h)
      BY <1>2, NamesStay DEF ImageName, Tag, GetDefaultTag, Targets, PlatformOf
    <3>2. \A i, h : Linked(ManifestName(i, h))' = Linked(ManifestName(i, h))
      BY <1>2, <3>1 DEF Linked
    <3> QED
      BY <3>1, <3>2 DEF Annotated
  <2>3. ASSUME NEW h \in Entries, stage'[h] = stage[h] PROVE LinkEntry(h)'
    BY <1>1, <1>2, <2>1, <2>2, <2>3, LinkStays
  <2> QED
    BY <2>1, <2>3
<1>3. CASE UNCHANGED vars
  <2>1. UNCHANGED <<count, stage, frames, replace, task, matrix, manifests>>
    BY <1>3 DEF vars, execVars, buildahVars
  <2> QED
    BY <1>2, <2>1 DEF LinkInv
<1>4. ASSUME NEW g \in Entries, Start(g), UNCHANGED buildahVars PROVE LinkInv'
  <2>1. /\ UNCHANGED <<count, frames, replace, task, matrix, manifests>>
        /\ stage'[g] = "started" /\ \A h \in Entries \ {g} : stage'[h] = stage[h]
    BY <1>4 DEF Start, Goto, buildahVars, EngineInv, TypeOK, ExecTypeOK
  <2>2. LinkEntry(g)'
    BY <1>1, <2>1 DEF LinkEntry
  <2> QED
    BY <1>2, <2>1, <2>2 DEF LinkInv
<1>5. ASSUME NEW g \in Entries, DockerNext(g) PROVE LinkInv'
  BY <1>5, LinkGenerates, LinkStep DEF DockerNext
<1>6. CASE Terminated
  BY <1>3, <1>6 DEF Terminated
<1> QED
  BY <1>3, <1>4, <1>5, <1>6 DEF Next

(* A task the tool does not know fails.                                    *)
LEMMA NextUnknown ==
  ASSUME EngineInv, Begun = {}, [Next]_vars,
         \/ job.tool = "docker" /\ Building
         \/ job.tool = "buildah" /\ task.kind = "docker-push"
  PROVE  Begun' = {}
<1>1. CASE UNCHANGED vars
  BY <1>1 DEF vars, execVars, Begun, Entries
<1>2. ASSUME NEW g \in Entries, Start(g) PROVE Begun' = {}
  BY <1>2 DEF Start, Goto, Begun, Entries, EngineInv, TypeOK, ExecTypeOK
<1>3. ASSUME NEW g \in Entries, NotGenerated(g) PROVE Begun' = {}
  BY <1>3 DEF NotGenerated, Goto, Begun, Entries, EngineInv, TypeOK, ExecTypeOK
<1>4. \A g \in Entries : stage[g] # "running"
  BY DEF Begun
<1>5. ASSUME NEW g \in Entries, job.tool = "docker", Building, DockerNext(g) PROVE NotGenerated(g)
  <2>1. ~DockerStep(g)
    BY <1>4, DockerExecuted DEF Executed
  <2> QED
    BY <1>5, <2>1 DEF DockerNext, GenDocker, Building
<1>6. ASSUME NEW g \in Entries, job.tool = "buildah", task.kind = "docker-push", BuildahNext(g) PROVE NotGenerated(g)
  <2>1. ~BuildahStep(g)
    BY <1>4, BuildahExecuted DEF Executed
  <2> QED
    BY <1>6, <2>1 DEF BuildahNext, GenBuildah
<1> QED
  BY <1>1, <1>2, <1>3, <1>5, <1>6 DEF Next, Terminated

(* Every step keeps it.                                                    *)
LEMMA NextManifests == ManifestsInv /\ [Next]_vars => ManifestsInv'
<1> SUFFICES ASSUME ManifestsInv, [Next]_vars PROVE ManifestsInv'
  OBVIOUS
<1>1. EngineInv /\ EngineInv'
  BY NextEngine DEF ManifestsInv
<1>2. job' = job /\ task' = task
  BY DEF Next, BuildahNext, DockerNext, GoNext, CosignNext, Terminated, vars, buildahVars, GenBuildah, GenDocker,
     BuildahStep, DockerStep, fixed
<1>3. Building' = Building
  BY <1>2 DEF Building
<1>4. Building => job.tool \in {"buildah", "docker"} /\ task.kind # "docker-push"
  BY DEF ManifestsInv, Building
<1>5. task.kind = "docker-push" => job.tool \in {"buildah", "docker"}
  BY DEF ManifestsInv
<1>6. ASSUME Building PROVE IF job.tool = "buildah" THEN ManInv' ELSE Begun' = {}
  BY <1>1, <1>4, <1>6, NextMan, NextUnknown DEF ManifestsInv
<1>7. ASSUME task.kind = "docker-push" PROVE IF job.tool = "docker" THEN LinkInv' ELSE Begun' = {}
  BY <1>1, <1>5, <1>7, NextLink, NextUnknown DEF ManifestsInv
<1> QED
  BY <1>1, <1>2, <1>3, <1>6, <1>7 DEF ManifestsInv

(* An entry of buildah that ended well has its image in its manifests.     *)
LEMMA ManRight ==
  ASSUME EngineInv, ManInv, NEW g \in Entries, stage[g] = "ok", NEW i \in Named("manifest"), Alone(i, g)
  PROVE  /\ Own(g) \in manifests[ManifestName(i, g)]
         /\ LastNamed(i) /\ replace[g][MANIFEST_SPEC].ok =>
              SamePlatform(g, manifests[ManifestName(i, g)]) = {Own(g)}
<1>1. PICK l, R, M, at, p, s : ManPlace(g, l, R, M, at, p, s)
  BY DEF ManInv, ManEntry
<1>2. /\ ManList(g, l, R, M, at) /\ p = Len(l) + 1 /\ s = <<>> /\ TargetRight(g, i, at, p, s)
  BY <1>1 DEF ManPlace, Placed
<1>3. at[i] \in Nat /\ at[i] + 3 <= Len(l) /\ Len(l) \in Nat
  BY <1>2 DEF ManList, ManifestsAt
<1>4. Updated(at, i, p, s) /\ p > at[i] + 2
  BY <1>2, <1>3 DEF Updated
<1>5. PICK n : n = ManifestName(i, g)
  OBVIOUS
<1>6. /\ MANIFEST_SPEC \in DOMAIN replace[g] /\ Own(g) \in Linked(n)
      /\ LastNamed(i) /\ LookedAt(g) => OfPlatform(g, i) \subseteq {Own(g)}
  BY <1>2, <1>4, <1>5 DEF TargetRight
<1>7. n \in DOMAIN manifests /\ Linked(n) = manifests[n]
  BY <1>6 DEF Linked
<1>8. Own(g).platform = PlatformOf(g)
  BY DEF Own
<1>9. Own(g) \in OfPlatform(g, i) /\ OfPlatform(g, i) = SamePlatform(g, manifests[n])
  BY <1>5, <1>6, <1>7, <1>8 DEF OfPlatform, SamePlatform
<1> QED
  BY <1>5, <1>6, <1>7, <1>9 DEF LookedAt

(* And one of docker has annotated its images there.                       *)
LEMMA LinkRight ==
  ASSUME EngineInv, LinkInv, NEW g \in Entries, stage[g] = "ok", NEW i \in Linking, OwnImage(i, g)
  PROVE  Annotated(i, g)
<1>1. PICK l, p : LinkPlace(g, l, p)
  BY DEF LinkInv, LinkEntry
<1>2. LinkList(g, l) /\ p = Len(l) + 1 /\ Len(l) \in Nat
  BY <1>1 DEF LinkPlace, LinkList, Placed
<1>3. PICK q \in 1..Len(l) : Annotates(l[q], i, g)
  BY <1>2 DEF LinkList
<1>4. q \in 1..(p - 1)
  BY <1>2, <1>3
<1> QED
  BY <1>1, <1>3, <1>4 DEF LinkPlace

(* For any task, matrix and manifests of earlier runs, with any number of  *)
(* workers: an entry of an xbuild or a build that ended well has its image *)
(* in each of its manifests and, in the last it inspected, no other of its *)
(* platform, if that is its own there (manifest.go, task_build.go); one of *)
(* a docker push has its images there for its platform (task_push.go).     *)
THEOREM ToolRunManifestPlatforms == Spec => []ManifestPlatforms
<1>1. ManifestsInv => ManifestPlatforms
  <2> SUFFICES ASSUME ManifestsInv PROVE ManifestPlatforms
    OBVIOUS
  <2>1. ASSUME NEW g \in Entries, NEW i \in Named("manifest") \cap Named("image"),
               stage[g] = "ok", task.kind = "docker-push",
               \A h \in Entries \ {g} : ImageName(i, h) # ImageName(i, g)
        PROVE  {m \in Linked(ManifestName(i, g)) : m.image = ImageName(i, g)} =
                 {[platform |-> PlatformOf(g), image |-> ImageName(i, g)]}
    <3>1. EngineInv /\ LinkInv
      BY <2>1 DEF ManifestsInv, Begun
    <3>2. i \in Linking /\ OwnImage(i, g)
      BY <2>1 DEF Linking, OwnImage
    <3>3. Annotated(i, g)
      BY <2>1, <3>1, <3>2, LinkRight
    <3> QED
      BY <3>3 DEF Annotated
  <2>2. ASSUME NEW g \in Entries, NEW i \in Named("manifest"),
               stage[g] = "ok", task.kind \in {"xbuild", "build"}, Alone(i, g)
        PROVE  /\ Own(g) \in manifests[ManifestName(i, g)]
               /\ (\A j \in Named("manifest") : j <= i) /\ replace[g][MANIFEST_SPEC].ok =>
                    SamePlatform(g, manifests[ManifestName(i, g)]) = {Own(g)}
    <3>1. EngineInv /\ ManInv
      BY <2>2 DEF ManifestsInv, Building, Begun
    <3> QED
      BY <2>2, <3>1, ManRight DEF LastNamed
  <2> QED
    BY <2>1, <2>2 DEF ManifestPlatforms, Own
<1> QED
  BY InitManifests, NextManifests, <1>1, PTL DEF Spec

=============================================================================
