--------------------------- MODULE MCSerialExtract ---------------------------
EXTENDS SerialExtract

Plain == [kind |-> "file", path |-> "a", target |-> "", size |-> 2, comp |-> 1, len |-> 2,
          fault |-> "none", hidden |-> FALSE, enc |-> FALSE, placeholder |-> FALSE]

Common == {
  Plain,
  [Plain EXCEPT !.path = "b", !.fault = "broken"],
  [Plain EXCEPT !.path = "b", !.fault = "password", !.enc = TRUE],
  [Plain EXCEPT !.path = "out"],
  [Plain EXCEPT !.path = "d", !.kind = "dir", !.size = 0, !.len = 0] }

Link == [Plain EXCEPT !.kind = "link", !.path = "c", !.target = "a", !.size = 1, !.len = 1]

Of(b) ==
  CASE b = "serial" -> {[Plain EXCEPT !.size = 9],
         [Plain EXCEPT !.path = "b", !.size = 0, !.comp = 0, !.len = 4],
         [Plain EXCEPT !.path = "b", !.fault = "silent"],
         [Plain EXCEPT !.path = "b", !.enc = TRUE, !.placeholder = TRUE], Link,
         [Link EXCEPT !.target = "out"]}
    [] b = "tar" -> {Link, [Link EXCEPT !.target = "out"],
         [Plain EXCEPT !.kind = "hard", !.path = "b", !.target = "a", !.size = 0, !.len = 0],
         [Plain EXCEPT !.kind = "hard", !.path = "b", !.target = "out", !.size = 0, !.len = 0]}
    [] b = "7z" -> {[Plain EXCEPT !.path = "b", !.comp = 0, !.len = 4], [Plain EXCEPT !.size = 9]}
    [] b = "rar" -> {[Plain EXCEPT !.comp = 0, !.hidden = TRUE], [Link EXCEPT !.comp = 0],
         [Plain EXCEPT !.comp = 0, !.path = "b", !.len = 3, !.size = 2],
         [Plain EXCEPT !.comp = 0, !.path = "b", !.size = 7],
         [Plain EXCEPT !.comp = 0, !.placeholder = TRUE]}

Entries(b) ==
  Of(b) \cup CASE b = "rar" -> {[x EXCEPT !.comp = 0] : x \in Common}
              [] b = "tar" -> {x \in Common : x.fault # "password"}
              [] OTHER -> Common

ArchivesDef ==
  UNION {{[backend |-> b, entries |-> s] : s \in
       {<<x, y>> : x, y \in Entries(b)} \cup {<<Plain, x, y>> : x, y \in Entries(b)}}
     : b \in {"serial", "tar", "7z", "rar"}}

HostsDef ==
  { [follow |-> TRUE, block |-> TRUE, unix |-> TRUE, one_volume |-> TRUE],
    [follow |-> FALSE, block |-> FALSE, unix |-> FALSE, one_volume |-> TRUE],
    [follow |-> TRUE, block |-> FALSE, unix |-> TRUE, one_volume |-> FALSE] }

\* Nothing there, a and b, or a and b as two names of one file.
OldsDef == {<<>>, <<{<<"a", 1>>}, {<<"b", 1>>, <<"b", 2>>}>>, <<{<<"a", 1>>, <<"b", 1>>}>>}

\* What an earlier extraction of the same tar archive has left.
HardLinked == {<<{<<"a", 1>>, <<"b", 1>>}>>}
HardArchive == {[backend |-> "tar", entries |-> <<Plain,
  [Plain EXCEPT !.kind = "hard", !.path = "b", !.target = "a", !.size = 0, !.len = 0]>>]}

\* Every archive of the run is one whose damage shows.
ASSUME ArchivesAreCheckable == Checkable
=============================================================================
