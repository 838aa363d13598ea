-------------------------- MODULE AnsiOutputProofs ---------------------------
(***************************************************************************)
(* Proof that no line is skipped, for any commands and any writes: what    *)
(* has been flushed of a command (currentAt) has been shown, each line     *)
(* after the one above it, and a flusher that has ended with none of its   *)
(* flushes failed has shown all.                                           *)
(*                                                                         *)
(* A flusher may wait for the channel of a later command than its own, as  *)
(* all read one variable of doRun; but never of an earlier one, and that   *)
(* is what the invariant needs: when the channel is closed the command has *)
(* written its last.                                                       *)
(***************************************************************************)
EXTENDS AnsiOutput, TLAPS, SequenceTheorems

IsSeq(s) == s \in Seq({s[i] : i \in DOMAIN s})

Over == {"returned", "exited"}
FlusherStages == {"none", "select", "wait", "flush", "last flush", "done"}

(* Line i of the command has been shown, after the line above it.          *)
LineShown(s, i) ==
  \E k \in DOMAIN out : /\ out[k].by = s /\ out[k].line = i
                        /\ i > 1 => \E j \in 1..(k - 1) : out[j].by = s /\ out[j].line = i - 1

(* What was shown of line i last is x.                                     *)
ShownAs(s, i, x) ==
  \E k \in DOMAIN out : /\ out[k].by = s /\ out[k].line = i /\ out[k].text = x
                        /\ \A j \in DOMAIN out : out[j].by = s /\ out[j].line = i => j <= k

CursorShown(s) ==
  pos[s].line + 1 \in DOMAIN lines[s] => ShownAs(s, pos[s].line + 1, lines[s][pos[s].line + 1])

(* The writer of a command.                                                *)
WriterInv(s) ==
  /\ IsSeq(lines[s]) /\ pos[s] \in [line : Nat, col : Nat]
  /\ currentAt[s] \in 0..Len(lines[s])
  /\ \A i \in 1..currentAt[s] : LineShown(s, i)

(* Its flusher.                                                            *)
FlusherInv(s) ==
  /\ flusher[s] \in FlusherStages
  /\ flusher[s] = "none" <=> s > cur
  /\ flusher[s] = "wait" => channel[s] \in s..cur
  /\ flusher[s] \in {"last flush", "done"} /\ s \notin failed => s < cur \/ main \in Over
  /\ flusher[s] = "done" /\ s \notin failed => currentAt[s] = Len(lines[s]) /\ CursorShown(s)

DoRunInv ==
  /\ IsSeq(run) /\ cur \in 0..Len(run)
  /\ main \in {"loop", "command", "write"} \cup Over
  /\ main \in {"command", "write"} => cur # 0
  /\ closed \subseteq 1..cur /\ (cur \in closed => main \in Over)
  /\ IsSeq(out)
  /\ DOMAIN flusher = Commands /\ DOMAIN channel = Commands /\ DOMAIN lines = Commands
  /\ DOMAIN pos = Commands /\ DOMAIN currentAt = Commands

OutputInv == DoRunInv /\ \A s \in Commands : WriterInv(s) /\ FlusherInv(s)

-----------------------------------------------------------------------------
(***************************************************************************)
(* Sequences                                                               *)
(***************************************************************************)

(* A sequence over some set is one of its own elements.                    *)
LEMMA SeqIsSeq ==
  ASSUME NEW S, NEW s \in Seq(S) PROVE IsSeq(s)
<1>1. s \in [1..Len(s) -> S] /\ Len(s) \in Nat /\ DOMAIN s = 1..Len(s)
  BY LenProperties
<1> DEFINE T == {s[i] : i \in DOMAIN s}
<1>2. s \in [1..Len(s) -> T]
  BY <1>1
<1> HIDE DEF T
<1>3. s \in Seq(T)
  BY <1>1, <1>2
<1> QED
  BY <1>3 DEF IsSeq, T

(* The length of a sequence, and its domain.                               *)
LEMMA IsSeqLen ==
  ASSUME NEW s, IsSeq(s) PROVE Len(s) \in Nat /\ DOMAIN s = 1..Len(s)
BY LenProperties DEF IsSeq

(* Sequences of any elements are joined.                                   *)
LEMMA Joined ==
  ASSUME NEW s, NEW t, IsSeq(s), IsSeq(t)
  PROVE  /\ IsSeq(s \o t) /\ Len(s \o t) = Len(s) + Len(t)
         /\ \A i \in 1..Len(s) : (s \o t)[i] = s[i]
         /\ \A i \in 1..Len(t) : (s \o t)[Len(s) + i] = t[i]
<1> DEFINE S == {s[i] : i \in DOMAIN s}
           T == {t[i] : i \in DOMAIN t}
           U == S \cup T
<1>1. s \in Seq(S) /\ t \in Seq(T) /\ S \subseteq U /\ T \subseteq U
  BY DEF IsSeq
<1> HIDE DEF S, T, U
<1>2. s \in Seq(U) /\ t \in Seq(U)
  BY <1>1
<1>3. Len(s) \in Nat /\ Len(t) \in Nat /\ s \o t \in Seq(U) /\ Len(s \o t) = Len(s) + Len(t)
  BY <1>2
<1>4. \A i \in 1..Len(s) : (s \o t)[i] = s[i]
  BY <1>2, <1>3
<1>5. \A i \in 1..Len(t) : (s \o t)[Len(s) + i] = t[i]
  BY <1>2, <1>3
<1> QED
  BY <1>3, <1>4, <1>5, SeqIsSeq

(* A function on 1..n is a sequence.                                       *)
LEMMA FunctionIsSeq ==
  ASSUME NEW n \in Nat, NEW f, f = [i \in 1..n |-> f[i]]
  PROVE  IsSeq(f) /\ Len(f) = n
<1> DEFINE S == {f[i] : i \in 1..n}
<1>1. f \in [1..n -> S]
  OBVIOUS
<1> HIDE DEF S
<1>2. f \in Seq(S) /\ Len(f) = n
  BY <1>1
<1> QED
  BY <1>2, SeqIsSeq

(* One of its elements is replaced.                                        *)
LEMMA Replaced ==
  ASSUME NEW s, IsSeq(s), NEW i, NEW x
  PROVE  IsSeq([s EXCEPT ![i] = x]) /\ Len([s EXCEPT ![i] = x]) = Len(s)
<1> DEFINE t == [s EXCEPT ![i] = x]
<1>1. Len(s) \in Nat /\ DOMAIN s = 1..Len(s)
  BY IsSeqLen
<1>2. t = [j \in 1..Len(s) |-> t[j]]
  BY <1>1
<1> HIDE DEF t
<1>3. IsSeq(t) /\ Len(t) = Len(s)
  BY <1>1, <1>2, FunctionIsSeq
<1> QED
  BY <1>3 DEF t

(* What is padded gets no shorter, and is long enough.                     *)
LEMMA Padded ==
  ASSUME NEW s, IsSeq(s), NEW n \in Nat, NEW x
  PROVE  IsSeq(Pad(s, n, x)) /\ Len(Pad(s, n, x)) >= Len(s)
<1> DEFINE t == [i \in 1..(n - Len(s)) |-> x]
<1>1. Len(s) \in Nat
  BY IsSeqLen
<1>2. CASE Len(s) >= n
  BY <1>1, <1>2 DEF Pad
<1>3. CASE ~(Len(s) >= n)
  <2>1. n - Len(s) \in Nat
    BY <1>1, <1>3
  <2>2. t = [i \in 1..(n - Len(s)) |-> t[i]]
    OBVIOUS
  <2>3. Pad(s, n, x) = s \o t
    BY <1>3 DEF Pad
  <2> HIDE DEF t
  <2>4. IsSeq(t) /\ Len(t) = n - Len(s)
    BY <2>1, <2>2, FunctionIsSeq
  <2>5. IsSeq(s \o t) /\ Len(s \o t) = Len(s) + Len(t)
    BY <2>4, Joined
  <2> QED
    BY <1>1, <2>1, <2>3, <2>4, <2>5
<1> QED
  BY <1>2, <1>3

-----------------------------------------------------------------------------
(***************************************************************************)
(* The writer                                                              *)
(***************************************************************************)

(* A character put on the screen takes no line away.                       *)
LEMMA PutKeepsLines ==
  ASSUME NEW screen, IsSeq(screen), NEW at \in [line : Nat, col : Nat], NEW c
  PROVE  IsSeq(Put(screen, at, c)) /\ Len(Put(screen, at, c)) >= Len(screen)
<1> DEFINE ls == Pad(screen, at.line + 1, <<>>)
           l == Pad(ls[at.line + 1], at.col + 1, " ")
           x == [l EXCEPT ![at.col + 1] = c]
<1>1. IsSeq(ls) /\ Len(ls) >= Len(screen)
  <2>1. at.line + 1 \in Nat
    OBVIOUS
  <2> QED
    BY <2>1, Padded
<1>2. Put(screen, at, c) = [ls EXCEPT ![at.line + 1] = x]
  BY DEF Put
<1> HIDE DEF ls, x
<1>3. \A i, y : IsSeq([ls EXCEPT ![i] = y]) /\ Len([ls EXCEPT ![i] = y]) = Len(ls)
  BY <1>1, Replaced
<1> DEFINE t == [ls EXCEPT ![at.line + 1] = x]
<1>4. IsSeq(t) /\ Len(t) = Len(ls)
  BY <1>3
<1> HIDE DEF t
<1>5. Put(screen, at, c) = t
  BY <1>2 DEF t
<1> QED
  BY <1>1, <1>4, <1>5

(* The cursor never leaves the screen.                                     *)
LEMMA CursorTyped ==
  ASSUME NEW at \in [line : Nat, col : Nat], NEW c
  PROVE  Cursor(at, c) \in [line : Nat, col : Nat]
<1>1. CASE c = "LF"
  BY <1>1 DEF Cursor
<1>2. CASE c = "CR"
  BY <1>2 DEF Cursor
<1>3. CASE c = "UP"
  BY <1>3 DEF Cursor
<1>4. CASE c \notin {"LF", "CR", "UP"}
  BY <1>4 DEF Cursor
<1> QED
  BY <1>1, <1>2, <1>3, <1>4

-----------------------------------------------------------------------------
(***************************************************************************)
(* What is shown                                                           *)
(***************************************************************************)

(* What was shown stays shown, and what was shown last of a command does   *)
(* until more of it is.                                                    *)
LEMMA MoreShown ==
  ASSUME IsSeq(out), NEW new, IsSeq(new), out' = out \o new
  PROVE  /\ \A s, i : LineShown(s, i) => LineShown(s, i)'
         /\ \A s : (\A k \in 1..Len(new) : new[k].by # s) => \A i, x : ShownAs(s, i, x) => ShownAs(s, i, x)'
<1> DEFINE n == Len(out)
           m == Len(new)
<1>1. n \in Nat /\ m \in Nat /\ DOMAIN out = 1..n
  BY IsSeqLen
<1>2. /\ IsSeq(out') /\ Len(out') = n + m
      /\ \A k \in 1..n : out'[k] = out[k]
      /\ \A k \in 1..m : out'[n + k] = new[k]
  BY Joined
<1>3. DOMAIN out' = 1..(n + m)
  BY <1>2, IsSeqLen
<1> HIDE DEF n, m
<1>4. ASSUME NEW s, NEW i, LineShown(s, i) PROVE LineShown(s, i)'
  <2>1. PICK k \in 1..n : /\ out[k].by = s /\ out[k].line = i
                          /\ i > 1 => \E j \in 1..(k - 1) : out[j].by = s /\ out[j].line = i - 1
    BY <1>1, <1>4 DEF LineShown
  <2>2. k \in DOMAIN out' /\ out'[k] = out[k]
    BY <1>1, <1>2, <1>3
  <2>3. ASSUME i > 1 PROVE \E j \in 1..(k - 1) : out'[j].by = s /\ out'[j].line = i - 1
    <3>1. PICK j \in 1..(k - 1) : out[j].by = s /\ out[j].line = i - 1
      BY <2>1, <2>3
    <3>2. j \in 1..n
      BY <1>1, <2>1
    <3> QED
      BY <1>2, <3>1, <3>2
  <2> QED
    BY <2>1, <2>2, <2>3 DEF LineShown
<1>5. ASSUME NEW s, \A k \in 1..m : new[k].by # s, NEW i, NEW x, ShownAs(s, i, x) PROVE ShownAs(s, i, x)'
  <2>1. \A k \in 1..(n + m) : k \notin 1..n => k - n \in 1..m /\ n + (k - n) = k
    BY <1>1
  <2>2. \A k \in 1..(n + m) : k \notin 1..n => out'[k].by # s
    BY <1>2, <1>5, <2>1
  <2>3. 1..n \subseteq 1..(n + m)
    BY <1>1
  <2>4. PICK k \in 1..n : /\ out[k].by = s /\ out[k].line = i /\ out[k].text = x
                          /\ \A j \in 1..n : out[j].by = s /\ out[j].line = i => j <= k
    BY <1>1, <1>5 DEF ShownAs
  <2>5. k \in DOMAIN out' /\ out'[k] = out[k]
    BY <1>2, <1>3, <2>3
  <2>6. ASSUME NEW j \in DOMAIN out', out'[j].by = s, out'[j].line = i PROVE j <= k
    <3>1. j \in 1..n
      BY <1>3, <2>2, <2>6
    <3> QED
      BY <1>2, <2>4, <2>6, <3>1
  <2> QED
    BY <2>4, <2>5, <2>6 DEF ShownAs
<1> QED
  BY <1>4, <1>5 DEF m

(* A flush shows lines that have not been shown, in order, and one that    *)
(* does not fail all of them, and the one the cursor is on as it is.       *)
LEMMA FlushShows ==
  ASSUME IsSeq(out), NEW s \in Commands, WriterInv(s), NEW n \in 0..Rest(s), Show(s, n), UNCHANGED <<lines, pos>>
  PROVE  /\ IsSeq(out') /\ currentAt' = [currentAt EXCEPT ![s] = From(s) + n]
         /\ From(s) + n \in 0..Len(lines[s]) /\ (n = Rest(s) => From(s) + n = Len(lines[s]))
         /\ \A t, i : LineShown(t, i) => LineShown(t, i)'
         /\ \A t, i, x : t # s /\ ShownAs(t, i, x) => ShownAs(t, i, x)'
         /\ \A i \in 1..(From(s) + n) : LineShown(s, i)'
         /\ n = Rest(s) => CursorShown(s)'
<1> DEFINE l == Len(lines[s])
           f == From(s)
<1>1. PICK new : new = [i \in 1..n |-> [by |-> s, line |-> f + i, text |-> lines[s][f + i]]]
  OBVIOUS
<1>2. /\ l \in Nat /\ currentAt[s] \in 0..l /\ pos[s].line \in Nat /\ f \in Nat /\ f <= pos[s].line
      /\ f <= currentAt[s] /\ n \in Nat /\ DOMAIN lines[s] = 1..l /\ f + n \in 0..l
      /\ (n = Rest(s) => f + n = l)
  <2>1. l \in Nat /\ currentAt[s] \in 0..l /\ pos[s].line \in Nat /\ DOMAIN lines[s] = 1..l
    BY IsSeqLen DEF WriterInv
  <2>2. f \in Nat /\ f <= pos[s].line /\ f <= currentAt[s] /\ Rest(s) = l - f
    BY <2>1 DEF From, Rest
  <2> QED
    BY <2>1, <2>2
<1>3. /\ IsSeq(new) /\ Len(new) = n
      /\ \A k \in 1..n : new[k].by = s /\ new[k].line = f + k /\ new[k].text = lines[s][f + k]
  <2> DEFINE g == [i \in 1..n |-> [by |-> s, line |-> f + i, text |-> lines[s][f + i]]]
  <2>1. new = g
    BY <1>1
  <2>2. g = [i \in 1..n |-> g[i]]
    OBVIOUS
  <2>3. \A k \in 1..n : g[k].by = s /\ g[k].line = f + k /\ g[k].text = lines[s][f + k]
    OBVIOUS
  <2> HIDE DEF g
  <2>4. IsSeq(g) /\ Len(g) = n
    BY <1>2, <2>2, FunctionIsSeq
  <2> QED
    BY <1>2, <2>1, <2>3, <2>4
<1>4. out' = out \o new /\ currentAt' = [currentAt EXCEPT ![s] = f + n]
  BY <1>1 DEF Show
<1> HIDE DEF f, l
<1>6. /\ IsSeq(out') /\ Len(out') = Len(out) + n /\ Len(out) \in Nat
      /\ \A k \in 1..Len(out) : out'[k] = out[k]
      /\ \A k \in 1..n : out'[Len(out) + k] = new[k]
  <2>1. IsSeq(out) /\ IsSeq(new) /\ Len(new) = n /\ out' = out \o new
    BY <1>3, <1>4
  <2>2. /\ IsSeq(out \o new) /\ Len(out \o new) = Len(out) + Len(new)
        /\ \A i \in 1..Len(out) : (out \o new)[i] = out[i]
        /\ \A i \in 1..Len(new) : (out \o new)[Len(out) + i] = new[i]
    <3>1. IsSeq(out) /\ IsSeq(new)
      BY <2>1
    <3> QED
      BY ONLY <3>1, Joined
  <2>3. Len(out) \in Nat
    BY IsSeqLen
  <2> QED
    BY <2>1, <2>2, <2>3
<1>7. DOMAIN out' = 1..(Len(out) + n) /\ DOMAIN out = 1..Len(out)
  BY <1>6, IsSeqLen
<1>8. /\ \A t, i : LineShown(t, i) => LineShown(t, i)'
      /\ \A t, i, x : t # s /\ ShownAs(t, i, x) => ShownAs(t, i, x)'
  BY <1>3, <1>4, MoreShown
<1>9. \A k \in 1..n : /\ Len(out) + k \in DOMAIN out'
                      /\ out'[Len(out) + k].by = s /\ out'[Len(out) + k].line = f + k
                      /\ out'[Len(out) + k].text = lines[s][f + k]
  <2>1. \A k \in 1..n : Len(out) + k \in 1..(Len(out) + n)
    BY <1>2, <1>6
  <2> QED
    BY <1>3, <1>6, <1>7, <2>1
<1>10. ASSUME NEW i \in 1..(f + n) PROVE LineShown(s, i)'
  <2>1. CASE i <= f
    <3>1. i \in 1..currentAt[s]
      BY <1>2, <2>1
    <3> QED
      BY <1>8, <3>1 DEF WriterInv
  <2>2. CASE i > f
    <3> DEFINE k == Len(out) + (i - f)
    <3>1. i - f \in 1..n /\ f + (i - f) = i
      BY <1>2, <2>2
    <3>2. k \in DOMAIN out' /\ out'[k].by = s /\ out'[k].line = i
      BY <1>9, <3>1
    <3>3. ASSUME i > 1 PROVE \E j \in 1..(k - 1) : out'[j].by = s /\ out'[j].line = i - 1
      <4>1. CASE i - 1 > f
        <5> DEFINE h == (i - 1) - f
        <5>1. h \in 1..n /\ f + h = i - 1 /\ Len(out) + h \in 1..(k - 1)
          BY <1>2, <1>6, <3>1, <4>1
        <5> HIDE DEF h
        <5>2. out'[Len(out) + h].by = s /\ out'[Len(out) + h].line = i - 1
          BY <1>9, <5>1
        <5> QED
          BY <5>1, <5>2
      <4>2. CASE i - 1 = f
        <5>1. i - 1 \in 1..currentAt[s] /\ k - 1 = Len(out)
          BY <1>2, <1>6, <3>3, <4>2
        <5>2. LineShown(s, i - 1)
          BY <5>1 DEF WriterInv
        <5>3. PICK j \in 1..Len(out) : out[j].by = s /\ out[j].line = i - 1
          BY <1>7, <5>2 DEF LineShown
        <5> QED
          BY <1>6, <5>1, <5>3
      <4> QED
        BY <1>2, <2>2, <4>1, <4>2
    <3> HIDE DEF k
    <3> QED
      BY <3>2, <3>3 DEF LineShown
  <2> QED
    BY <1>2, <2>1, <2>2
<1>11. ASSUME n = Rest(s) PROVE CursorShown(s)'
  <2> SUFFICES ASSUME pos[s].line + 1 \in DOMAIN lines[s]
               PROVE ShownAs(s, pos[s].line + 1, lines[s][pos[s].line + 1])'
    BY DEF CursorShown
  <2> DEFINE i == pos[s].line + 1
             k == Len(out) + (i - f)
  <2>1. i - f \in 1..n /\ f + (i - f) = i /\ i \in Nat
    BY <1>2, <1>11
  <2> HIDE DEF i
  <2>2. k \in DOMAIN out' /\ out'[k].by = s /\ out'[k].line = i /\ out'[k].text = lines[s][i]
    BY <1>9, <2>1
  <2>3. ASSUME NEW j \in DOMAIN out', out'[j].by = s, out'[j].line = i PROVE j <= k
    <3>1. CASE j <= Len(out)
      BY <1>2, <1>6, <1>7, <2>1, <3>1
    <3>2. CASE ~(j <= Len(out))
      <4> DEFINE h == j - Len(out)
      <4>1. h \in 1..n /\ Len(out) + h = j
        BY <1>2, <1>6, <1>7, <3>2
      <4> HIDE DEF h
      <4>2. f + h = i
        BY <1>9, <2>3, <4>1
      <4> QED
        BY <1>2, <1>6, <2>1, <4>1, <4>2
    <3> QED
      BY <3>1, <3>2
  <2> HIDE DEF k
  <2>4. \E x \in DOMAIN out' : /\ out'[x].by = s /\ out'[x].line = i /\ out'[x].text = lines[s][i]
                               /\ \A j \in DOMAIN out' : out'[j].by = s /\ out'[j].line = i => j <= x
    BY <2>2, <2>3
  <2> QED
    BY <2>4 DEF ShownAs, i
<1> QED
  BY <1>2, <1>4, <1>6, <1>8, <1>10, <1>11 DEF f, l

(***************************************************************************)
(* The steps                                                               *)
(***************************************************************************)

WriterVars == <<run, lines, pos, currentAt, out>>

(* While no text moves the writers stay as they are.                       *)
LEMMA NoTextMoves ==
  ASSUME OutputInv, UNCHANGED WriterVars
  PROVE  \A s \in Commands' : WriterInv(s)' /\ (CursorShown(s) => CursorShown(s)')
<1>1. \A s, i : LineShown(s, i) => LineShown(s, i)'
  BY DEF LineShown, WriterVars
<1>2. \A s, i, x : ShownAs(s, i, x) => ShownAs(s, i, x)'
  BY DEF ShownAs, WriterVars
<1>3. Commands' = Commands
  BY DEF Commands, WriterVars
<1> TAKE s \in Commands'
<1>4. WriterInv(s)
  BY <1>3 DEF OutputInv
<1>5. WriterInv(s)'
  BY <1>1, <1>4 DEF WriterInv, WriterVars
<1>6. ASSUME CursorShown(s) PROVE CursorShown(s)'
  BY <1>2, <1>6 DEF CursorShown, WriterVars
<1> QED
  BY <1>5, <1>6

(* The invariant holds at first.                                           *)
LEMMA InitOutput == Init => OutputInv
<1> SUFFICES ASSUME Init PROVE OutputInv
  OBVIOUS
<1>1. IsSeq(run) /\ Len(run) \in Nat
  <2>1. run \in Seq(Range(run))
    BY OutputAssumption DEF Init
  <2> QED
    BY <2>1, SeqIsSeq, IsSeqLen
<1>2. IsSeq(<<>>) /\ Len(<<>>) = 0 /\ \A x : x \notin 1..0
  BY DEF IsSeq
<1>3. DoRunInv
  BY <1>1, <1>2 DEF Init, DoRunInv
<1>4. ASSUME NEW s \in Commands PROVE WriterInv(s) /\ FlusherInv(s)
  <2>1. s \in 1..Len(run)
    BY <1>1, IsSeqLen DEF Commands
  <2>2. lines[s] = <<>> /\ pos[s] = [line |-> 0, col |-> 0] /\ currentAt[s] = 0 /\ flusher[s] = "none"
    BY DEF Init
  <2>3. WriterInv(s)
    BY <1>2, <2>2 DEF WriterInv
  <2>4. FlusherInv(s)
    BY <1>1, <2>1, <2>2 DEF FlusherInv, FlusherStages, Init
  <2> QED
    BY <2>3, <2>4
<1> QED
  BY <1>3, <1>4 DEF OutputInv

(* The next command starts, with its writer and its flusher.               *)
LEMMA NextCommandKeeps ==
  ASSUME OutputInv, NextCommand PROVE OutputInv'
<1>1. /\ cur \in Nat /\ cur + 1 \in 1..Len(run) /\ cur' = cur + 1 /\ IsSeq(run) /\ Len(run) \in Nat
      /\ DOMAIN run = 1..Len(run) /\ cur' \in Commands
  <2>1. IsSeq(run) /\ cur \in 0..Len(run) /\ cur < Len(run) /\ cur' = cur + 1
    BY DEF OutputInv, DoRunInv, NextCommand
  <2>2. Len(run) \in Nat /\ DOMAIN run = 1..Len(run)
    BY <2>1, IsSeqLen
  <2> QED
    BY <2>1, <2>2 DEF Commands
<1>2. Commands' = Commands
  BY DEF Commands, NextCommand
<1>3. closed' \subseteq 1..cur /\ cur' \notin closed' /\ 1..cur \subseteq 1..cur'
  BY <1>1 DEF OutputInv, DoRunInv, NextCommand, Notify
<1>4. DoRunInv'
  BY <1>1, <1>2, <1>3 DEF OutputInv, DoRunInv, NextCommand
<1>5. \A s \in Commands' : WriterInv(s)' /\ (CursorShown(s) => CursorShown(s)')
  BY NoTextMoves DEF NextCommand, WriterVars
<1>6. ASSUME NEW s \in Commands PROVE FlusherInv(s)'
  <2>1. FlusherInv(s) /\ s \in Nat /\ DOMAIN flusher = Commands
    BY <1>1 DEF OutputInv, DoRunInv, Commands
  <2>2. CASE s = cur + 1
    <3>1. flusher'[s] = "select"
      BY <1>1, <2>1, <2>2 DEF NextCommand
    <3> QED
      BY <1>1, <2>2, <3>1 DEF FlusherInv, FlusherStages
  <2>3. CASE s # cur + 1
    <3>1. /\ flusher'[s] = flusher[s] /\ channel' = channel /\ currentAt' = currentAt /\ lines' = lines
          /\ failed' = failed
      BY <2>1, <2>3 DEF NextCommand
    <3>2. s > cur' <=> s > cur
      BY <1>1, <2>1, <2>3
    <3>3. channel[s] \in s..cur => channel[s] \in s..cur'
      BY <1>1, <2>1
    <3>4. s < cur => s < cur'
      BY <1>1, <2>1
    <3>5. main \notin Over
      BY DEF Over, NextCommand
    <3> QED
      BY <1>2, <1>5, <2>1, <3>1, <3>2, <3>3, <3>4, <3>5 DEF FlusherInv
  <2> QED
    BY <2>2, <2>3
<1> QED
  BY <1>2, <1>4, <1>5, <1>6 DEF OutputInv

(* doRun goes on with no text moved and no flusher started.                *)
LEMMA MainKeeps ==
  ASSUME OutputInv, UNCHANGED <<run, cur, flusher, channel, lines, pos, currentAt, failed, out>>,
         main \in Over => main' \in Over,
         main' \in {"loop", "command", "write"} \cup Over, main' \in {"command", "write"} => cur # 0,
         closed' \subseteq 1..cur, cur \in closed' => main' \in Over
  PROVE  OutputInv'
<1>1. Commands' = Commands
  BY DEF Commands
<1>2. DoRunInv'
  BY <1>1 DEF OutputInv, DoRunInv
<1>3. \A s \in Commands' : WriterInv(s)' /\ (CursorShown(s) => CursorShown(s)')
  BY NoTextMoves DEF WriterVars
<1>4. ASSUME NEW s \in Commands PROVE FlusherInv(s)'
  BY <1>1, <1>3 DEF OutputInv, FlusherInv
<1> QED
  BY <1>1, <1>2, <1>3, <1>4 DEF OutputInv

(* The other steps of doRun that move no text.                             *)
LEMMA DoRunSteps ==
  ASSUME OutputInv, Write \/ CommandEnds \/ Return \/ ExitProcess PROVE OutputInv'
<1>1. CASE Write
  BY <1>1, MainKeeps DEF Write, Over, OutputInv, DoRunInv
<1>2. CASE CommandEnds
  BY <1>2, MainKeeps DEF CommandEnds, Over, OutputInv, DoRunInv
<1>3. CASE Return
  <2>1. closed' \subseteq 1..cur
    BY <1>3 DEF Return, Notify, OutputInv, DoRunInv
  <2> QED
    BY <1>3, <2>1, MainKeeps DEF Return, Over
<1>4. CASE ExitProcess
  BY <1>4, MainKeeps DEF ExitProcess, Over, OutputInv, DoRunInv
<1> QED
  BY <1>1, <1>2, <1>3, <1>4

(* A character is written: by a command that is still running, whose       *)
(* flusher has not ended.                                                  *)
LEMMA WriteCharacterKeeps ==
  ASSUME OutputInv, WriteCharacter PROVE OutputInv'
<1>1. /\ cur \in Nat /\ cur # 0 /\ cur \in Commands /\ DOMAIN run = 1..Len(run) /\ main = "write" /\ main' = main
      /\ cur' = cur /\ main \notin Over
  <2>1. IsSeq(run) /\ cur \in 0..Len(run) /\ cur # 0 /\ main = "write" /\ main' = main /\ cur' = cur
    BY DEF OutputInv, DoRunInv, WriteCharacter
  <2>2. Len(run) \in Nat /\ DOMAIN run = 1..Len(run)
    BY <2>1, IsSeqLen
  <2> QED
    BY <2>1, <2>2 DEF Commands, Over
<1>2. Commands' = Commands
  BY DEF Commands, WriteCharacter
<1>3. PICK c : /\ lines' = IF c \in Controls THEN lines ELSE [lines EXCEPT ![cur] = Put(lines[cur], pos[cur], c)]
               /\ pos' = [pos EXCEPT ![cur] = Cursor(pos[cur], c)]
  BY DEF WriteCharacter
<1>4. DoRunInv'
  BY <1>2, <1>3 DEF OutputInv, DoRunInv, WriteCharacter
<1>5. ASSUME NEW s \in Commands PROVE WriterInv(s)' /\ FlusherInv(s)'
  <2>1. WriterInv(s) /\ FlusherInv(s) /\ DOMAIN lines = Commands /\ DOMAIN pos = Commands
    BY DEF OutputInv, DoRunInv
  <2>2. \A i : LineShown(s, i) => LineShown(s, i)'
    BY DEF LineShown, WriteCharacter
  <2>3. \A i, x : ShownAs(s, i, x) => ShownAs(s, i, x)'
    BY DEF ShownAs, WriteCharacter
  <2>4. CASE s = cur
    <3>1. pos'[s] \in [line : Nat, col : Nat]
      <4>1. pos'[s] = Cursor(pos[s], c) /\ pos[s] \in [line : Nat, col : Nat]
        BY <1>3, <2>1, <2>4 DEF WriterInv
      <4> QED
        BY <4>1, CursorTyped
    <3>2. IsSeq(lines'[s]) /\ Len(lines'[s]) >= Len(lines[s])
      <4>1. IsSeq(lines[s]) /\ Len(lines[s]) \in Nat /\ pos[s] \in [line : Nat, col : Nat]
        BY <2>1, IsSeqLen DEF WriterInv
      <4>2. CASE c \in Controls
        BY <1>3, <4>1, <4>2
      <4>3. CASE c \notin Controls
        <5>1. lines'[s] = Put(lines[s], pos[s], c)
          BY <1>3, <2>1, <2>4, <4>3
        <5> QED
          BY <4>1, <5>1, PutKeepsLines
      <4> QED
        BY <4>2, <4>3
    <3>3. currentAt'[s] = currentAt[s] /\ currentAt[s] \in 0..Len(lines'[s])
      <4>1. Len(lines[s]) \in Nat /\ Len(lines'[s]) \in Nat /\ currentAt[s] \in 0..Len(lines[s])
        BY <2>1, <3>2, IsSeqLen DEF WriterInv
      <4> QED
        BY <3>2, <4>1 DEF WriteCharacter
    <3>4. /\ flusher' = flusher /\ channel' = channel /\ failed' = failed
          /\ flusher[s] \in {"last flush", "done"} => s \in failed
      BY <1>1, <2>1, <2>4 DEF FlusherInv, WriteCharacter
    <3>5. WriterInv(s)'
      BY <2>1, <2>2, <3>1, <3>2, <3>3 DEF WriterInv
    <3>6. FlusherInv(s)'
      BY <1>1, <2>1, <3>4 DEF FlusherInv
    <3> QED
      BY <3>5, <3>6
  <2>5. CASE s # cur
    <3>1. /\ lines'[s] = lines[s] /\ pos'[s] = pos[s] /\ currentAt' = currentAt /\ flusher' = flusher
          /\ channel' = channel /\ failed' = failed
      BY <1>3, <2>1, <2>5 DEF WriteCharacter
    <3>2. WriterInv(s)'
      BY <2>1, <2>2, <3>1 DEF WriterInv
    <3>3. CursorShown(s) => CursorShown(s)'
      BY <2>3, <3>1 DEF CursorShown
    <3>4. FlusherInv(s)'
      BY <1>1, <2>1, <3>1, <3>3 DEF FlusherInv
    <3> QED
      BY <3>2, <3>4
  <2> QED
    BY <2>4, <2>5
<1> QED
  BY <1>2, <1>4, <1>5 DEF OutputInv

(* A flush of a command by doRun, or by the command's flusher, which goes  *)
(* on to another stage.                                                    *)
LEMMA FlushKeeps ==
  ASSUME OutputInv, NEW s \in Commands, NEW n \in 0..Rest(s), Show(s, n),
         UNCHANGED <<run, cur, closed, channel, lines, pos>>,
         DOMAIN flusher' = Commands, \A t \in Commands : t # s => flusher'[t] = flusher[t],
         NEW stage, flusher'[s] = stage, flusher[s] # "none",
         stage \in {"select", "last flush", "done", flusher[s]},
         failed \subseteq failed', failed' \subseteq failed \cup {s},
         stage \in {"last flush", "done"} /\ s \notin failed' => s < cur \/ main \in Over,
         stage = "done" /\ s \notin failed' => n = Rest(s),
         main \in Over => main' \in Over, main' \in {"loop", "command", "write"} \cup Over,
         main' \in {"command", "write"} => cur # 0
  PROVE  OutputInv'
<1>1. Commands' = Commands
  BY DEF Commands
<1>2. IsSeq(out) /\ WriterInv(s)
  BY DEF OutputInv, DoRunInv
<1>3. /\ IsSeq(out') /\ currentAt' = [currentAt EXCEPT ![s] = From(s) + n]
      /\ From(s) + n \in 0..Len(lines[s]) /\ (n = Rest(s) => From(s) + n = Len(lines[s]))
      /\ \A t, i : LineShown(t, i) => LineShown(t, i)'
      /\ \A t, i, x : t # s /\ ShownAs(t, i, x) => ShownAs(t, i, x)'
      /\ \A i \in 1..(From(s) + n) : LineShown(s, i)'
      /\ n = Rest(s) => CursorShown(s)'
  BY <1>2, FlushShows
<1>4. DoRunInv'
  BY <1>1, <1>3 DEF OutputInv, DoRunInv
<1>5. ASSUME NEW t \in Commands PROVE WriterInv(t)' /\ FlusherInv(t)'
  <2>1. WriterInv(t) /\ FlusherInv(t) /\ DOMAIN currentAt = Commands /\ DOMAIN flusher = Commands
    BY DEF OutputInv, DoRunInv
  <2>2. CASE t = s
    <3>1. /\ currentAt'[t] = From(s) + n /\ flusher'[t] = stage /\ lines' = lines /\ Len(lines[t]) \in Nat
          /\ pos' = pos
      BY <1>3, <2>1, <2>2, IsSeqLen DEF WriterInv
    <3>2. WriterInv(t)'
      BY <1>3, <2>1, <2>2, <3>1 DEF WriterInv
    <3>3. FlusherInv(t)'
      BY <1>3, <2>1, <2>2, <3>1 DEF FlusherInv, FlusherStages
    <3> QED
      BY <3>2, <3>3
  <2>3. CASE t # s
    <3>1. currentAt'[t] = currentAt[t] /\ flusher'[t] = flusher[t]
      BY <1>3, <2>1, <2>3
    <3>2. WriterInv(t)'
      BY <1>3, <2>1, <3>1 DEF WriterInv
    <3>3. CursorShown(t) => CursorShown(t)'
      BY <1>3, <2>3 DEF CursorShown
    <3>4. t \in failed' <=> t \in failed
      BY <2>3
    <3>5. FlusherInv(t)'
      BY <2>1, <3>1, <3>3, <3>4 DEF FlusherInv
    <3> QED
      BY <3>2, <3>5
  <2> QED
    BY <2>2, <2>3
<1> QED
  BY <1>1, <1>4, <1>5 DEF OutputInv

(* A write ends, and flushes if there are many lines.                      *)
LEMMA WrittenKeeps ==
  ASSUME OutputInv, Written PROVE OutputInv'
<1>1. cur \in Commands /\ cur \in Nat /\ main = "write" /\ cur # 0
  <2>1. IsSeq(run) /\ cur \in 0..Len(run) /\ cur # 0 /\ main = "write"
    BY DEF OutputInv, DoRunInv, Written
  <2>2. Len(run) \in Nat /\ DOMAIN run = 1..Len(run)
    BY <2>1, IsSeqLen
  <2> QED
    BY <2>1, <2>2 DEF Commands
<1>2. FlusherInv(cur) /\ DOMAIN flusher = Commands /\ closed \subseteq 1..cur /\ cur \notin closed
      /\ main \notin Over
  BY <1>1 DEF OutputInv, DoRunInv, Over
<1>3. ASSUME NEW n \in 0..Rest(cur), Show(cur, n) PROVE OutputInv'
  <2>1. flusher[cur] # "none" /\ (flusher[cur] \in {"last flush", "done"} => cur \in failed)
    <3>1. ~(cur > cur) /\ ~(cur < cur)
      BY <1>1
    <3> QED
      BY <1>2, <3>1 DEF FlusherInv
  <2>2. flusher' = flusher
    BY DEF Written
  <2>3. UNCHANGED <<run, cur, closed, channel, lines, pos>> /\ main' = "command" /\ failed' = failed
    BY DEF Written
  <2>4. PICK stage : stage = flusher[cur]
    OBVIOUS
  <2>5. /\ DOMAIN flusher' = Commands /\ flusher'[cur] = stage /\ flusher[cur] = stage
        /\ \A t \in Commands : t # cur => flusher'[t] = flusher[t]
    BY <1>2, <2>2, <2>4
  <2>6. main' \in {"loop", "command", "write"} \cup Over /\ (main' \in {"command", "write"} => cur # 0)
    BY <1>1, <2>3
  <2>7. /\ stage \in {"select", "last flush", "done", flusher[cur]}
        /\ stage \in {"last flush", "done"} => cur \in failed'
    BY <2>1, <2>3, <2>4
  <2> QED
    BY <1>1, <1>2, <1>3, <2>1, <2>3, <2>5, <2>6, <2>7, FlushKeeps
<1>4. CASE UNCHANGED <<currentAt, out>>
  BY <1>1, <1>2, <1>4, MainKeeps DEF Written, Over
<1>5. Rest(cur) \in Nat
  <2>1. WriterInv(cur)
    BY <1>1 DEF OutputInv
  <2>2. Len(lines[cur]) \in Nat /\ pos[cur].line \in Nat /\ currentAt[cur] \in 0..Len(lines[cur])
    BY <2>1, IsSeqLen DEF WriterInv
  <2> QED
    BY <2>2 DEF Rest, From
<1>6. CASE Flush(cur)
  BY <1>3, <1>5, <1>6 DEF Flush
<1>7. CASE FailingFlush(cur)
  BY <1>3, <1>5, <1>7 DEF FailingFlush
<1> QED
  BY <1>4, <1>6, <1>7 DEF Written

(* The flusher goes on and flushes nothing.                                *)
LEMMA FlusherSteps ==
  ASSUME OutputInv, NEW s \in Commands, Select(s) \/ Tick(s) \/ Signaled(s)
  PROVE  OutputInv'
<1>1. UNCHANGED <<run, main, cur, closed, lines, pos, currentAt, failed, out>>
  BY DEF Select, Tick, Signaled
<1>2. Commands' = Commands
  BY <1>1 DEF Commands
<1>3. \A t \in Commands' : WriterInv(t)' /\ (CursorShown(t) => CursorShown(t)')
  BY <1>1, NoTextMoves DEF WriterVars
<1>4. DoRunInv'
  BY <1>1, <1>2 DEF OutputInv, DoRunInv, Select, Tick, Signaled, Goto
<1>5. cur \in Nat /\ s \in Nat /\ s # 0 /\ DOMAIN flusher = Commands /\ DOMAIN channel = Commands /\ FlusherInv(s)
  <2>1. IsSeq(run) /\ cur \in 0..Len(run)
    BY DEF OutputInv, DoRunInv
  <2>2. Len(run) \in Nat /\ DOMAIN run = 1..Len(run)
    BY <2>1, IsSeqLen
  <2> QED
    BY <2>1, <2>2 DEF Commands, OutputInv, DoRunInv
<1>6. ASSUME NEW t \in Commands PROVE FlusherInv(t)'
  <2>1. FlusherInv(t)
    BY DEF OutputInv
  <2>2. CASE t # s
    <3>1. flusher'[t] = flusher[t] /\ channel'[t] = channel[t]
      BY <1>5, <2>2 DEF Select, Tick, Signaled, Goto
    <3> QED
      BY <1>1, <1>2, <1>3, <2>1, <3>1 DEF FlusherInv
  <2>3. CASE t = s /\ Select(s)
    <3>1. flusher'[t] = "wait" /\ channel'[t] = cur /\ flusher[t] = "select"
      BY <1>5, <2>3 DEF Select, Goto, At
    <3> QED
      BY <1>1, <1>5, <2>1, <2>3, <3>1 DEF FlusherInv, FlusherStages
  <2>4. CASE t = s /\ Tick(s)
    <3>1. flusher'[t] = "flush" /\ flusher[t] = "wait"
      BY <1>5, <2>4 DEF Tick, Goto, At
    <3> QED
      BY <1>1, <1>5, <2>1, <2>4, <3>1 DEF FlusherInv, FlusherStages
  <2>5. CASE t = s /\ Signaled(s)
    <3>1. flusher'[t] = "last flush" /\ flusher[t] = "wait" /\ channel[t] \in closed
      BY <1>5, <2>5 DEF Signaled, Goto, At
    <3>2. channel[t] \in s..cur /\ closed \subseteq 1..cur /\ (cur \in closed => main \in Over)
      BY <2>1, <2>5, <3>1 DEF FlusherInv, OutputInv, DoRunInv
    <3>3. s < cur \/ main \in Over
      <4>1. PICK c : c = channel[t]
        OBVIOUS
      <4>2. c \in s..cur /\ c \in closed
        BY <2>5, <3>1, <3>2, <4>1
      <4>3. c = cur \/ s < cur
        BY <1>5, <4>2
      <4> QED
        BY <3>2, <4>2, <4>3
    <3> QED
      BY <1>1, <1>5, <2>1, <2>5, <3>1, <3>3 DEF FlusherInv, FlusherStages
  <2> QED
    BY <2>2, <2>3, <2>4, <2>5
<1> QED
  BY <1>2, <1>3, <1>4, <1>6 DEF OutputInv

(* The flusher flushes, on a tick or for the last time, or fails to.       *)
LEMMA FlusherFlushes ==
  ASSUME OutputInv, NEW s \in Commands, FlushOnTick(s) \/ FlushFails(s) \/ LastFlush(s)
  PROVE  OutputInv'
<1>1. /\ UNCHANGED <<run, main, cur, closed, channel, lines, pos>> /\ FlusherInv(s)
      /\ main \in {"loop", "command", "write"} \cup Over /\ (main \in {"command", "write"} => cur # 0)
      /\ DOMAIN flusher = Commands
  BY DEF FlushOnTick, FlushFails, LastFlush, OutputInv, DoRunInv
<1>2. Rest(s) \in Nat
  <2>1. WriterInv(s)
    BY DEF OutputInv
  <2>2. Len(lines[s]) \in Nat /\ pos[s].line \in Nat /\ currentAt[s] \in 0..Len(lines[s])
    BY <2>1, IsSeqLen DEF WriterInv
  <2> QED
    BY <2>2 DEF Rest, From
<1>3. PICK n \in 0..Rest(s) : Show(s, n) /\ (n = Rest(s) \/ s \in failed')
  <2>1. CASE Flush(s)
    BY <1>2, <2>1 DEF Flush
  <2>2. CASE FailingFlush(s) /\ s \in failed'
    <3>1. PICK n \in 0..(Rest(s) - 1) : Show(s, n)
      BY <2>2 DEF FailingFlush
    <3> QED
      BY <1>2, <2>2, <3>1
  <2> QED
    BY <2>1, <2>2 DEF FlushOnTick, FlushFails, LastFlush
<1>4. failed \subseteq failed' /\ failed' \subseteq failed \cup {s}
  BY DEF FlushOnTick, FlushFails, LastFlush
<1>5. CASE FlushOnTick(s)
  <2>1. /\ DOMAIN flusher' = Commands /\ flusher'[s] = "select" /\ flusher[s] = "flush"
        /\ \A t \in Commands : t # s => flusher'[t] = flusher[t]
    BY <1>1, <1>5 DEF FlushOnTick, Goto, At
  <2> QED
    BY <1>1, <1>3, <1>4, <2>1, FlushKeeps
<1>6. CASE FlushFails(s)
  <2>1. /\ DOMAIN flusher' = Commands /\ flusher'[s] = "last flush" /\ flusher[s] = "flush" /\ s \in failed'
        /\ \A t \in Commands : t # s => flusher'[t] = flusher[t]
    BY <1>1, <1>6 DEF FlushFails, Goto, At
  <2> QED
    BY <1>1, <1>3, <1>4, <2>1, FlushKeeps
<1>7. CASE LastFlush(s)
  <2>1. /\ DOMAIN flusher' = Commands /\ flusher'[s] = "done" /\ flusher[s] = "last flush"
        /\ \A t \in Commands : t # s => flusher'[t] = flusher[t]
    BY <1>1, <1>7 DEF LastFlush, Goto, At
  <2>2. s \notin failed' => s < cur \/ main \in Over
    BY <1>1, <1>4, <2>1 DEF FlusherInv
  <2>3. s \notin failed' => n = Rest(s)
    BY <1>3
  <2> QED
    BY <1>1, <1>3, <1>4, <2>1, <2>2, <2>3, FlushKeeps
<1> QED
  BY <1>5, <1>6, <1>7

(* Every step keeps the invariant.                                         *)
LEMMA OutputInductive == OutputInv /\ [Next]_vars => OutputInv'
<1> SUFFICES ASSUME OutputInv, [Next]_vars PROVE OutputInv'
  OBVIOUS
<1>1. CASE NextCommand
  BY <1>1, NextCommandKeeps
<1>2. CASE Write \/ CommandEnds \/ Return \/ ExitProcess
  BY <1>2, DoRunSteps
<1>3. CASE WriteCharacter
  BY <1>3, WriteCharacterKeeps
<1>4. CASE Written
  BY <1>4, WrittenKeeps
<1>5. ASSUME NEW s \in Commands, Flusher(s) PROVE OutputInv'
  BY <1>5, FlusherSteps, FlusherFlushes DEF Flusher
<1>6. CASE UNCHANGED vars
  BY <1>6, MainKeeps DEF vars, OutputInv, DoRunInv
<1> QED
  BY <1>1, <1>2, <1>3, <1>4, <1>5, <1>6 DEF Next, DoRun, Terminated

(* What was shown last is what LastShown finds.                            *)
LEMMA LastShownIs ==
  ASSUME IsSeq(out), NEW s, NEW i, NEW x, ShownAs(s, i, x)
  PROVE  LastShown(s, i) = x
<1> DEFINE at == {k \in DOMAIN out : out[k].by = s /\ out[k].line = i}
<1>1. DOMAIN out \subseteq Nat
  BY IsSeqLen
<1>2. PICK k \in at : out[k].text = x /\ \A j \in at : j <= k
  BY DEF ShownAs
<1>3. LastShown(s, i) = out[CHOOSE y \in at : \A j \in at : j <= y].text
  BY <1>2 DEF LastShown
<1>4. at \subseteq Nat
  BY <1>1
<1> HIDE DEF at
<1>5. \A y \in at : (\A j \in at : j <= y) <=> y = k
  BY <1>2, <1>4
<1>6. (CHOOSE y \in at : \A j \in at : j <= y) = k
  BY <1>2, <1>5
<1> QED
  BY <1>2, <1>3, <1>6

(* The invariant has what the property says.                               *)
LEMMA OutputSkipsNoLine == OutputInv => NoLineSkipped
<1> SUFFICES ASSUME OutputInv PROVE NoLineSkipped
  OBVIOUS
<1>1. IsSeq(out)
  BY DEF OutputInv, DoRunInv
<1> SUFFICES ASSUME NEW s \in Commands
             PROVE  /\ currentAt[s] <= Len(lines[s])
                    /\ \A i \in 1..currentAt[s] : LineShown(s, i)
                    /\ flusher[s] = "done" /\ s \notin failed =>
                         /\ s < cur \/ main \in Over
                         /\ currentAt[s] = Len(lines[s])
                         /\ \A i \in DOMAIN lines[s] : i = pos[s].line + 1 => LastShown(s, i) = lines[s][i]
  BY DEF NoLineSkipped, LineShown, Over
<1>2. WriterInv(s) /\ FlusherInv(s)
  BY DEF OutputInv
<1>3. Len(lines[s]) \in Nat /\ currentAt[s] <= Len(lines[s])
  BY <1>2, IsSeqLen DEF WriterInv
<1>4. \A i \in 1..currentAt[s] : LineShown(s, i)
  BY <1>2 DEF WriterInv
<1>5. ASSUME flusher[s] = "done", s \notin failed
      PROVE  (s < cur \/ main \in Over) /\ currentAt[s] = Len(lines[s]) /\ CursorShown(s)
  BY <1>2, <1>5 DEF FlusherInv
<1>6. ASSUME flusher[s] = "done", s \notin failed, NEW i \in DOMAIN lines[s], i = pos[s].line + 1
      PROVE  LastShown(s, i) = lines[s][i]
  <2>1. ShownAs(s, i, lines[s][i])
    BY <1>5, <1>6 DEF CursorShown
  <2> QED
    BY <1>1, <2>1, LastShownIs
<1> QED
  BY <1>3, <1>4, <1>5, <1>6

(* What has been flushed has been shown line after line, whatever flush    *)
(* fails and wherever, and a command's output whole and to its end by the  *)
(* time its flusher ends, whatever channel the flusher waited for, unless  *)
(* one of the flusher's flushes failed (run.go:72-113 and ansi_writer.go). *)
THEOREM OutputNoLineSkipped == Spec => []NoLineSkipped
<1>1. Init => OutputInv
  BY InitOutput
<1>2. OutputInv /\ [Next]_vars => OutputInv'
  BY OutputInductive
<1>3. OutputInv => NoLineSkipped
  BY OutputSkipsNoLine
<1> QED
  BY <1>1, <1>2, <1>3, PTL DEF Spec

=============================================================================
