--------------------------- MODULE MCOpenArchive ---------------------------
(***************************************************************************)
(* Every form once, and ZIPs of every health; two openers and an append.   *)
(***************************************************************************)
EXTENDS OpenArchive

MCNames ==
  [stem : Stems, ext : Codecs]
  \cup [stem : {"plain"}, ext : Extensions \ (Codecs \cup (ZipAliases \ {"zip", "jar"}))]

MCContents ==
  [form : Forms \ {ZipFile}, health : {"sound"}, names : {<<>>}]
  \cup [form : {ZipFile}, health : {"sound", "encrypted", "malformed", "commented"},
        names : {<<"a", "b">>}]
MCPuts ==
  {[form |-> ZipFile, health |-> h, names |-> <<"c">>] : h \in {"sound", "malformed"}}
  \cup {[form |-> Plain("7z"), health |-> "sound", names |-> <<>>]}

MCPlans == {<<"b", "c">>, <<"c", "c">>, <<"c", "d">>}

Symmetry == Permutations(Openers)
=============================================================================
