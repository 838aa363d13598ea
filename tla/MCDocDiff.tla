------------------------------ MODULE MCDocDiff ------------------------------
(***************************************************************************)
(* DocDiff for every pair of some small documents, for documents in which  *)
(* what differs is up to seven levels deep, with renderers in the source,  *)
(* and for files with different numbers of documents.                      *)
(***************************************************************************)
EXTENDS DocDiff

(* A document from the nodes below its root: <<path, value, renderers>>.   *)
D(root, nodes) ==
  [order |-> <<<<>>>> \o [i \in DOMAIN nodes |-> nodes[i][1]],
   value |-> (<<>> :> root) @@ [p \in {nodes[i][1] : i \in DOMAIN nodes} |->
                                  nodes[CHOOSE i \in DOMAIN nodes : nodes[i][1] = p][2]],
   by |-> (<<>> :> <<>>) @@ [p \in {nodes[i][1] : i \in DOMAIN nodes} |->
                                  nodes[CHOOSE i \in DOMAIN nodes : nodes[i][1] = p][3]]]

N(p, v) == <<p, v, <<>>>>
By(n, renderers) == <<n[1], n[2], renderers>>
M(nodes) == D(Container, nodes)

Small ==
  {D("1", <<>>), D("2", <<>>), NoDocument, M(<<N(<<".a">>, "")>>), M(<<N(<<".a">>, Container)>>),
   M(<<N(<<"[0]">>, "1"), N(<<"[1]">>, "2")>>),
   M(<<N(<<".a">>, "1"), N(<<".b">>, "2")>>), M(<<N(<<".b">>, "1"), N(<<".a">>, "1")>>),
   M(<<N(<<".a">>, Container), N(<<".a", ".b">>, "2"), N(<<".a", ".c">>, "2"), N(<<".c">>, "")>>),
   M(<<By(N(<<".c">>, Container), <<"file">>), N(<<".c", "[0]">>, ""), N(<<".a">>, Container), N(<<".a", ".c">>, Container)>>)}

(* A chain of mappings k deep, with what is below it.                      *)
Chain == <<".a", ".b", ".c", ".d", ".e">>
Deep(k, nodes) ==
  M([i \in 1..k |-> N(SubSeq(Chain, 1, i), Container)]
    \o [i \in DOMAIN nodes |-> <<SubSeq(Chain, 1, k) \o nodes[i][1], nodes[i][2], nodes[i][3]>>])

(* In the second, of two siblings one has changed below and the other is   *)
(* gone; in the source the other is read from a file.                      *)
Siblings(v) == <<N(<<".x">>, Container), N(<<".x", ".y">>, v)>>
Before2 == Siblings("1") \o <<N(<<".z">>, "1")>>
From(renderers) == Siblings("1") \o <<By(N(<<".z">>, "name"), renderers)>>

Job(original, updated, source, renders) ==
  [original |-> original, updated |-> updated, source |-> source, renders |-> renders]

(* What is rendered for .a in the source is compared, not generated alone. *)
Rendered(renderers) == M(<<By(N(<<".a">>, "name"), renderers)>>)

Shallow ==
  {Job(<<a>>, <<b>>, <<>>, TRUE) : a, b \in Small}
  \cup {Job(<<Deep(1, Before2)>>, <<Deep(1, Siblings("2"))>>, <<s>>, r) :
          s \in {Rendered(<<"file">>), Rendered(<<"http", "echo", "">>), Rendered(<<"env">>), Rendered(<<"echo">>),
                 Deep(1, From(<<"file">>)), NoDocument}, r \in BOOLEAN}
  \cup {Job(<<Deep(k, Before2)>>, <<Deep(k, Siblings("2"))>>, <<>>, TRUE) : k \in 0..5}

Lists == {<<>>, <<D("1", <<>>)>>, <<D("1", <<>>), NoDocument, D("2", <<>>)>>}
Many == {Job(a, b, c, TRUE) : a, b \in Lists, c \in {<<>>, <<NoDocument>>, <<NoDocument, NoDocument>>}}

(* Where append finds room: the key of what has changed below one sibling  *)
(* is written to for the other.                                            *)
Shared == {Job(<<Deep(5, Before2)>>, <<Deep(5, Siblings("2"))>>, <<Deep(5, From(<<"file">>))>>, r) : r \in BOOLEAN}

MCJobs == Shallow \cup Many \cup Shared

(***************************************************************************)
(* What an assertion of the code says and the code does not do             *)
(***************************************************************************)

(* panic("invalid diff set") (pkg/cmd/diff/reasoning.go:154): the key of   *)
(* an entry, up to the node that was rendered, leads to a node of the      *)
(* updated document.  A key whose array was written to after the entry was *)
(* made does not.                                                          *)
DiffSetValid == phase # "panicked"

=============================================================================
