--------------------------- MODULE OrderedArchive ---------------------------
(***************************************************************************)
(* What ArchiveWriter::add_directory_bulk promises its caller, whatever    *)
(* the number of threads that prepare entries: the archive lists a prefix  *)
(* of the walk order, one entry at a time, nothing is listed once the call *)
(* has returned, and it answers Ok only when every entry is listed.        *)
(***************************************************************************)
EXTENDS Naturals, Sequences

CONSTANT Total      \* the number of entries collected by the walk

VARIABLES listed,   \* the sequence of entry ordinals in the central directory
          answer    \* "none" until the call returns

absVars == <<listed, answer>>

AbsInit == listed = <<>> /\ answer = "none"

\* The next entry of the walk order joins the archive.
AppendNext == /\ answer = "none"
              /\ Len(listed) < Total
              /\ listed' = Append(listed, Len(listed) + 1)
              /\ UNCHANGED answer

\* Ok(()): the whole walk is in the archive.
ReturnOk == /\ answer = "none"
            /\ Len(listed) = Total
            /\ answer' = "ok"
            /\ UNCHANGED listed

\* Err(_): a source failed, the output failed, or the host cancelled.
ReturnErr == /\ answer = "none"
             /\ answer' = "failed"
             /\ UNCHANGED listed

\* None: the bulk path declines; the caller walks again from nothing.
ReturnDeclined == /\ answer = "none"
                  /\ listed = <<>>
                  /\ answer' = "declined"
                  /\ UNCHANGED listed

AbsNext == AppendNext \/ ReturnOk \/ ReturnErr \/ ReturnDeclined

AbsSpec == AbsInit /\ [][AbsNext]_absVars
=============================================================================
