------------------------- MODULE MCParallelExtract -------------------------
(* Small instances of ParallelExtract for TLC.                             *)
EXTENDS ParallelExtract, TLC

CONSTANTS w1, w2, a, a2, a3, b, b2, c1

MCWorkers == {w1, w2}
MCSymmetry == Permutations(MCWorkers)
MCNames == {a, a2, a3, b, b2, c1}

\* Keep-both candidates; of c1 every one is taken.
MCKeepBoth == [p \in MCNames |-> CASE p = a -> <<a2, a3>>
                                   [] p = b -> <<b2>>
                                   [] p = c1 -> <<>>
                                   [] OTHER -> <<a3, b2>>]

\* Two files at one path where there is one already, a third at a path of
\* its own, a followed link, a directory and an entry that is skipped.
MCKind == <<"file", "file", "file", "link", "directory", "skip">>
MCSize == <<3, 2, 1, 0, 0, 0>>
MCTarget == <<a, a, b, c1, a, a>>

\* Two entries flattened to one path, and a followed link.
MCKindTwins == <<"file", "file", "link">>
MCSizeTwins == <<2, 1, 0>>
MCTargetTwins == <<a, a, b>>

\* The instance with a file in the way leaves keep-both the room it needs.
ASSUME RoomAssumption == a \in OnDisk => KeepBothRoom
=============================================================================
