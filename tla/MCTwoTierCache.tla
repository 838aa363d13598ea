--------------------------- MODULE MCTwoTierCache ---------------------------
(***************************************************************************)
(* TwoTierCache on a small instance, and two statements the code does not  *)
(* keep.                                                                   *)
(***************************************************************************)
EXTENDS TwoTierCache, TLC

MCMaxAges == {-1, 0, 1}

Symmetry == Permutations(Callers) \cup Permutations(Processes)

(* What is cached is what was fetched ("Return local file path to cached   *)
(* file instead of fetched content", docs/renderers/http.md:71; the tests  *)
(* of Get expect it of every later call): content returned without an      *)
(* error is a whole content of the remote.                                 *)
CachedWhole ==
  \A c \in Callers : answer[c].ok /\ answer[c].at # 0 =>
    \E v \in Versions : answer[c].content = Whole(v)

(* allow-expired: "Allow to use previously extracted file when it's not    *)
(* possible to extract from original archive" (docs/renderers/af.md:54): a *)
(* call that read an expired file for want of another returns it.          *)
AllowExpiredUsed ==
  \A c \in Callers :
    answer[c].from = "expired" /\ answer[c].content # Empty => answer[c].ok

=============================================================================
