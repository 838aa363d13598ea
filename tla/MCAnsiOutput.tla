---------------------------- MODULE MCAnsiOutput -----------------------------
(***************************************************************************)
(* AnsiOutput for up to two commands: with lines that are written at once, *)
(* in pieces, over each other and with the cursor moved back up.           *)
(***************************************************************************)
EXTENDS AnsiOutput

Outputs ==
  {<<>>, <<<<"a">>, <<"b", "LF">>, <<"c">>>>, <<<<"a", "LF", "LF", "b">>, <<"CR", "c", "LF">>>>,
   <<<<"a", "LF", "b">>, <<"UP", "c">>, <<"LF", "d", "LF", "e">>>>}

(* A second command adds what its channel does, whatever it writes.        *)
MCRuns == {<<>>} \cup {<<a>> : a \in Outputs} \cup {<<a, <<<<"a">>, <<"b", "LF">>, <<"c">>>>>> : a \in Outputs}

(***************************************************************************)
(* What the documentation says and the code does not do                    *)
(***************************************************************************)

OneRun == {<<<<<<"a">>, <<"b", "LF">>, <<"c">>>>>>}

(* "will translate ansi stream to plain text before write to stdout"       *)
(* (pkg/cmd/run/cmd.go:78): what has been shown of a line in the end is    *)
(* the line, when no flush has failed.                                     *)
LinesWhole ==
  \A s \in Commands : flusher[s] = "done" /\ s \notin failed => \A i \in DOMAIN lines[s] : LastShown(s, i) = lines[s][i]

(* "flushing translated plain text data to stdout when closing"            *)
(* (run.go:87): a command's last lines are flushed when its output closes, *)
(* so no line is missing when the program has ended and no flush failed.   *)
OutputComplete ==
  main = "exited" /\ failed = {} => \A s \in Commands : \A i \in DOMAIN lines[s] : LastShown(s, i) # "nothing"

=============================================================================
