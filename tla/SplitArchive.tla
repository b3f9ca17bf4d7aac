---------------------------- MODULE SplitArchive ----------------------------
(***************************************************************************)
(* The archive cut into volumes and the reader of volumes together: the    *)
(* segments that a commit has left are opened as one stream, as the        *)
(* application does with the .001 to .NNN it finds, and read again.        *)
(***************************************************************************)
EXTENDS ArchiveHandle

CONSTANTS Wants, Patched

ASSUME ReaderAssumption == Wants \subseteq Nat /\ Patched \in Nat

VARIABLES vols, patch, pos, vpos, cursor, kernel, got

Reader == INSTANCE VolumeReader
rvars == <<vols, patch, pos, vpos, cursor, kernel, got>>

InitBoth == Init /\ Reader!Closed

Bytes(f) == [i \in 1..(f.to - f.from) |-> 10 * f.by + f.from + i]

\* SplitArchiveDetector lists .001 up to the first gap, and at least two.
Found == [k \in 1..Cardinality(Run) |-> Bytes(file[Volume(k)])]

OpenVolumes ==
  /\ vols = <<>> /\ answer = "committed" /\ Len(Found) >= 2
  /\ \E from \in 0..Reader!Origins(Found)[Len(Found)] : Reader!OpenWith(Found, from)
  /\ UNCHANGED vars

CloseVolumes ==
  /\ vols # <<>>
  /\ Reader!OpenWith(<<>>, 0)
  /\ UNCHANGED vars

NextBoth ==
  \/ vols = <<>> /\ Next /\ UNCHANGED rvars
  \/ OpenVolumes
  \/ vols # <<>> /\ Reader!ReadOrSeek /\ UNCHANGED vars
  \/ CloseVolumes

SpecBoth == InitBoth /\ [][NextBoth]_<<vars, rvars>>

\* Refinement: the reader of the volumes is a reader of one file.
ReadsAsOneFile == Reader!File!Spec
=============================================================================
