--------------------------- MODULE MCArchiveFile ----------------------------
(***************************************************************************)
(* ArchiveFile for tar and zip archives, plain or compressed, whole or cut *)
(* off, with links that lead back and on and with entries of one name.     *)
(***************************************************************************)
EXTENDS ArchiveFile, TLC

E(name, kind, size, to) == [name |-> name, kind |-> kind, size |-> size, to |-> to]
File(name, size) == E(name, "file", size, None)
Dir(name) == E(name, "dir", 0, None)
Link(name, to) == E(name, "symlink", 0, to)
Hard(name, to) == E(name, "hardlink", 0, to)

TarOf(entries, compressed, cut) ==
  [inner |-> "tar", entries |-> entries, compressed |-> compressed, cut |-> cut]
ZipOf(entries, compressed) == [inner |-> "zip", entries |-> entries, compressed |-> compressed, cut |-> 0]

a == <<"a">>
b == <<"b">>
dl == <<"d", "l">>
da == <<"d", "a">>

Links == <<Dir(<<"d">>), File(a, 3), Link(dl, a), File(da, 2), Link(b, dl), Link(<<"c">>, <<"n">>), Hard(<<"e">>, da)>>
Up == <<Link(dl, <<"..", "a">>), File(b, 1), File(da, 4), File(a, 2), File(a, 1)>>
Small == <<File(a, 1), Link(b, a), Dir(<<"d">>)>>

MCArchives ==
  ("tar" :> TarOf(Links, FALSE, 0)) @@ ("tar.gz" :> TarOf(Links, TRUE, 0)) @@ ("up.tar.gz" :> TarOf(Up, TRUE, 0))
  @@ ("cut.tar.gz" :> TarOf(Up, TRUE, 2)) @@ ("zip" :> ZipOf(Small, FALSE)) @@ ("zip.gz" :> ZipOf(Small, TRUE))
  @@ ("large.zip.gz" :> ZipOf(<<File(a, 4)>>, TRUE))

Paths == {None, a, b, dl, da, <<"c">>, <<"d">>, <<"e">>}
R(archive, path) == [archive |-> archive, path |-> path]

(***************************************************************************)
(* What the documentation says and the code does not do                    *)
(***************************************************************************)

(* Two paths in one archive, of which the second is answered from the      *)
(* cache.                                                                  *)
TwoPaths == {<<R("tar", a), R("tar", da)>>}

(* path/to/archive.tar.gz (docs/renderers/af.md:33), without a path.       *)
NoPath == {<<R("tar.gz", None)>>}

(* "Extract file content from archive." and "to use first regular file in  *)
(* archive" (docs/renderers/af.md:7,29): what is answered is the content   *)
(* of the file at the path, or of the first.                               *)
FileExtracted ==
  [][requests' # requests /\ answer'.ok =>
       LET files == FilesOf(Archive, Request.path)
       IN files # {} /\ answer'.cells = Data(Archive, First(files))]_vars

(* "path/to/archive.zip.gz:foo.yaml" (docs/renderers/af.md:36), of more    *)
(* than MatchReader reads: a zip that has been recognised is one.          *)
ZipGz == {<<R("large.zip.gz", a)>>}
ZipOpened ==
  [][requests' # requests /\ pc = "zip" /\ ~answer'.ok => FilesOf(Archive, Request.path) = {}]_vars

(* "including compressed archive files" (docs/renderers/af.md:66): a tar   *)
(* that is compressed is recognised, however its reader gives its bytes.   *)
TarGz == {<<R("tar.gz", a)>>}
ArchiveRecognised == [][requests' # requests /\ pc = "match" => answer'.ok]_vars

-----------------------------------------------------------------------------
(* Each request twice, and a path after another, or after none, of the     *)
(* same archive and of another.                                            *)
Singles ==
  {R("tar", None), R("tar.gz", None)} \cup
  {R(x, p) : x \in {"tar", "zip", "zip.gz", "tar.gz", "up.tar.gz", "cut.tar.gz"}, p \in Paths \ {None}}
MCRequests ==
  {<<r, r>> : r \in Singles} \cup TwoPaths \cup ZipGz
  \cup {<<R("tar", p), R("up.tar.gz", q)>> : p, q \in {a, b}}
  \cup {<<R("up.tar.gz", p), R("up.tar.gz", q)>> : p \in {None, a}, q \in {a, b}}

=============================================================================
