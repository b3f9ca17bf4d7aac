---------------------------- MODULE MCTreeWriter ----------------------------
(* Small instances of TreeWriter for TLC.                                  *)
EXTENDS TreeWriter

\* A tree with a directory in the middle of its files, a link and a metadata
\* directory, and a tree that is one file.
MCTrees ==
  { [parent |-> <<1, 1, 1, 3, 3, 1, 6, 1>>,
     kind |-> <<"dir", "file", "dir", "file", "link", "dir", "file", "file">>, meta |-> {6},
     stat |-> <<0, 1, 0, 2, 1, 0, 1, 3>>],
    [parent |-> <<1, 1, 1, 1>>, kind |-> <<"dir", "file", "file", "file">>,
     meta |-> {2}, stat |-> <<0, 2, 2, 0>>],
    [parent |-> <<1>>, kind |-> <<"file">>, meta |-> {1}, stat |-> <<2>>] }
=============================================================================
