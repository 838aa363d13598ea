----------------------------- MODULE TaskMatrix -----------------------------
(***************************************************************************)
(* The entries of a task's matrix, in the order RunTask runs them:         *)
(* Spec.GenerateEntries (pkg/matrix/matrix.go) with CartesianProduct       *)
(* (utils.go), Entry.Match and Entry.Equals (entry.go) and the filter of   *)
(* the command line (filter.go, cmd/run).                                  *)
(*                                                                         *)
(* A key is a number: the keys of a matrix are sorted by name before they  *)
(* are multiplied, and 1, 2, ... is that order.  An entry is a function    *)
(* from keys to values; a key it does not have reads as the empty value    *)
(* NoValue, as in a Go map.                                                *)
(***************************************************************************)
EXTENDS Integers, Sequences, FiniteSets, SequencesExt

NoValue == ""
Arch == 1
Kernel == 3

(* A sequence, whatever its elements.                                      *)
IsSeq(s) == s \in Seq({s[i] : i \in DOMAIN s})

(* A matrix as a task or a filter has it: finitely many keys, each with a  *)
(* list of values; a list of matrices; a task's matrix and its filter.     *)
MatrixTyped(m) ==
  /\ IsFiniteSet(DOMAIN m) /\ DOMAIN m \subseteq Nat
  /\ \A k \in DOMAIN m : IsSeq(m[k])

MatricesTyped(items) == IsSeq(items) /\ \A i \in DOMAIN items : MatrixTyped(items[i])

SpecTyped(spec, f) ==
  /\ MatrixTyped(spec.vectors) /\ MatrixTyped(f.match)
  /\ MatricesTyped(spec.include) /\ MatricesTyped(spec.exclude)

Get(e, k) == IF k \in DOMAIN e THEN e[k] ELSE NoValue

(* CartesianProduct: keys with an empty list are left out, and no key at   *)
(* all is no entry.  The last key varies fastest.                          *)
Used(m) == {k \in DOMAIN m : m[k] # <<>>}

Extended(e, k, v) == [x \in DOMAIN e \cup {k} |-> IF x = k THEN v ELSE e[x]]

Times(es, k, vs) == FlattenSeq([i \in DOMAIN es |-> [j \in DOMAIN vs |-> Extended(es[i], k, vs[j])]])

LastKey(ks) == CHOOSE k \in ks : \A l \in ks : l <= k

CartesianProduct(m) ==
  LET Rows[ks \in SUBSET Used(m)] ==
        IF ks = {} THEN << <<>> >> ELSE Times(Rows[ks \ {LastKey(ks)}], LastKey(ks), m[LastKey(ks)])
  IN IF Used(m) = {} THEN <<>> ELSE Rows[Used(m)]

(* Entry.Match: an empty pattern matches the empty entry only.             *)
Match(e, p) ==
  IF DOMAIN p = {} THEN DOMAIN e = {} ELSE \A k \in DOMAIN p : Get(e, k) = p[k]

MatchesAny(e, ps) == \E i \in DOMAIN ps : Match(e, ps[i])

Products(items) == FlattenSeq([i \in DOMAIN items |-> CartesianProduct(items[i])])

(* A filter: `match`, a matrix, and `ignore`, a sequence of <<key, value>>. *)
(* The command line gives it by arguments <<key, "=" or "!=", value>>; one  *)
(* that has neither is left out, in silence.                               *)
AddMatch(f, k, v) == [f EXCEPT !.match = Extended(@, k, IF k \in DOMAIN @ THEN Append(@[k], v) ELSE <<v>>)]
AddIgnore(f, k, v) == [f EXCEPT !.ignore = Append(@, <<k, v>>)]

ParseMatrixFilter(args) ==
  LET Add(f, a) == CASE a[2] = "=" -> AddMatch(f, a[1], a[3])
                     [] a[2] = "!=" -> AddIgnore(f, a[1], a[3])
                     [] OTHER -> f
  IN FoldLeft(Add, [match |-> <<>>, ignore |-> <<>>], args)

Wanted(e, f) ==
  /\ \A i \in DOMAIN f.ignore : Get(e, f.ignore[i][1]) # f.ignore[i][2]
  /\ LET ps == CartesianProduct(f.match) IN ps = <<>> \/ MatchesAny(e, ps)

(* Included entries come after those of the product; one that is there     *)
(* already is not added again.  `exclude` does not touch them.             *)
AddProduct(result, e, f, removed) ==
  IF ~MatchesAny(e, removed) /\ Wanted(e, f) THEN Append(result, e) ELSE result

MutAddIncluded(result, e, f) == IF Wanted(e, f) THEN Append(result, e) ELSE result
AddIncluded(result, e, f) ==
  IF Wanted(e, f) /\ \A i \in DOMAIN result : result[i] # e THEN Append(result, e) ELSE result

(* A matrix in which nothing is set is one entry, the host.  An empty list *)
(* sets something when its key is the user's own.                          *)
HasUserValue(spec) ==
  \/ spec.include # <<>> \/ spec.exclude # <<>>
  \/ \E k \in DOMAIN spec.vectors : k \notin {Arch, Kernel} \/ spec.vectors[k] # <<>>

GenerateEntries(spec, f, host) ==
  LET product == CartesianProduct(spec.vectors)
      all == product \o Products(spec.include)
      removed == Products(spec.exclude)
      Result[n \in 0..Len(all)] ==
        CASE n = 0 -> <<>>
          [] n \in 1..Len(product) -> AddProduct(Result[n - 1], all[n], f, removed)
          [] OTHER -> AddIncluded(Result[n - 1], all[n], f)
  IN IF ~HasUserValue(spec) THEN <<host>> ELSE Result[Len(all)]

(***************************************************************************)
(* What the entries are, without the lists                                 *)
(***************************************************************************)

ValuesOf(s) == {s[i] : i \in DOMAIN s}

PointsOf(m) ==
  {p \in [Used(m) -> UNION {ValuesOf(m[k]) : k \in Used(m)}] :
     Used(m) # {} /\ \A k \in Used(m) : p[k] \in ValuesOf(m[k])}

Agrees(e, p) == \A k \in DOMAIN p : Get(e, k) = p[k]

Selected(e, f) ==
  /\ PointsOf(f.match) # {} => \E p \in PointsOf(f.match) : Agrees(e, p)
  /\ ~\E i \in DOMAIN f.ignore : Agrees(e, [k \in {f.ignore[i][1]} |-> f.ignore[i][2]])

(* A comes before b: at the first key where they differ its value does.    *)
Before(m, a, b) ==
  LET Rank(k, v) == CHOOSE j \in DOMAIN m[k] : m[k][j] = v
  IN \E k \in Used(m) :
       /\ Rank(k, a[k]) < Rank(k, b[k])
       /\ \A l \in Used(m) : l < k => a[l] = b[l]

(* The entries are the points of the product that no excluded point is     *)
(* part of, and the included points, those the filter selects of both.  If *)
(* no vector repeats a value each is there once; those of the product come *)
(* first, in the order of their values.  IsLast, by which a task knows it  *)
(* has the last word, depends on the number and the order.                 *)
EntriesExact(spec, f, host) ==
  LET es == GenerateEntries(spec, f, host)
      product == {e \in PointsOf(spec.vectors) :
                    /\ Selected(e, f)
                    /\ \A i \in DOMAIN spec.exclude :
                         ~\E p \in PointsOf(spec.exclude[i]) : Agrees(e, p)}
      included == {e \in UNION {PointsOf(spec.include[i]) : i \in DOMAIN spec.include} :
                     Selected(e, f)}
  IN IF ~HasUserValue(spec) THEN es = <<host>>
     ELSE /\ ValuesOf(es) = product \cup included
          /\ (\A k \in Used(spec.vectors) : IsInjective(spec.vectors[k])) =>
               /\ Len(es) = Cardinality(product \cup included)
               /\ \A i, j \in DOMAIN es : es[i] \in product /\ i > j =>
                    es[j] \in product /\ Before(spec.vectors, es[j], es[i])

=============================================================================
