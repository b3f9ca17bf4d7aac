---------------------------- MODULE VolumeReader ----------------------------
(***************************************************************************)
(* MultiVolumeReader and the SpannedZipReader on top of it: a set of files *)
(* shown as one stream that can be read and sought, with the tail of the   *)
(* stream replaced by a patched copy when the set is a real spanned ZIP    *)
(* (multi_volume_reader.rs, spanned_zip.rs).  Bytes are numbers; the       *)
(* patched copy of byte b is b + Patched.                                  *)
(***************************************************************************)
EXTENDS Integers, Sequences

CONSTANTS
  Wants,     \* buffer sizes of the callers
  Patched    \* above every byte of a file

VARIABLES
  vols,      \* what the files hold
  patch,     \* patch_start, or the end of the stream when nothing is patched
  pos,       \* SpannedZipReader.pos
  vpos,      \* MultiVolumeReader.virtual_pos
  cursor,    \* file_cursors: where the reader believes each file stands
  kernel,    \* where each file stands
  got        \* what the last call asked for and was given

rvars == <<vols, patch, pos, vpos, cursor, kernel, got>>

Given(want, bytes) == [asked |-> want, bytes |-> bytes]
Nothing == Given(0, <<>>)

Fewer(m, n) == IF m < n THEN m ELSE n

\* cumulative: the first position of each volume, and the total.
Origins(files) ==
  LET sum[i \in 0..Len(files)] == IF i = 0 THEN 0 ELSE sum[i - 1] + Len(files[i])
  IN  sum
Origin == Origins(vols)
Total == Origin[Len(vols)]

\* Where a position before the end lies: binary_search on the origins gives
\* some volume that starts there, or the one it falls into.
Locate(p) ==
  LET hit == {i \in 1..Len(vols) : Origin[i - 1] = p} IN
  IF hit # {} THEN {<<i, 0>> : i \in hit}
  ELSE {<<i, p - Origin[i - 1]>> : i \in {j \in 1..Len(vols) : Origin[j - 1] < p /\ p < Origin[j]}}

Closed ==
  /\ vols = <<>> /\ patch = 0 /\ pos = 0 /\ vpos = 0
  /\ cursor = <<>> /\ kernel = <<>> /\ got = Nothing

\* open: every file is opened once; a spanned set gets a patched tail.
OpenWith(files, from) ==
  /\ vols' = files
  /\ patch' = from
  /\ pos' = 0 /\ vpos' = 0
  /\ cursor' = [i \in DOMAIN files |-> 0]
  /\ kernel' = [i \in DOMAIN files |-> 0]
  /\ got' = Nothing

\* Mutant of RawRead: the cached position is not moved with the file.
RawReadForgetful(p, most, want) ==
  \E place \in Locate(p) :
    LET i == place[1]
        off == place[2]
        start == IF cursor[i] = off THEN kernel[i] ELSE off
        n == Fewer(Len(vols[i]) - off, most)
    IN  /\ got' = Given(want, SubSeq(vols[i], start + 1, Fewer(start + n, Len(vols[i]))))
        /\ kernel' = [kernel EXCEPT ![i] = start + n]
        /\ vpos' = p + n
        /\ pos' = pos + n
        /\ UNCHANGED cursor

\* MultiVolumeReader::read of at most `most` bytes at vpos p: a file is only
\* sought when it is not believed to stand there, and may give fewer bytes.
RawRead(p, most, want) ==
  \E place \in Locate(p) :
    LET i == place[1]
        off == place[2]
        start == IF cursor[i] = off THEN kernel[i] ELSE off
        cap == Fewer(Len(vols[i]) - off, most)
    IN  \E n \in (IF cap = 0 THEN 0 ELSE 1)..cap :
          /\ got' = Given(want, SubSeq(vols[i], start + 1, start + n))
          /\ kernel' = [kernel EXCEPT ![i] = start + n]
          /\ cursor' = [cursor EXCEPT ![i] = off + n]
          /\ vpos' = p + n
          /\ pos' = pos + n

\* SpannedZipReader::read: nothing at the end; up to patch_start the raw
\* stream, sought to `pos` first; behind it the patched bytes.
ReadNothing(want) ==
  /\ want = 0 \/ pos >= Total
  /\ got' = Given(want, <<>>)
  /\ UNCHANGED <<vols, patch, pos, vpos, cursor, kernel>>

ReadRaw(want) ==
  /\ want > 0 /\ pos < Total /\ pos < patch
  /\ RawRead(pos, Fewer(patch - pos, want), want)
  /\ UNCHANGED <<vols, patch>>

Stream == [p \in 1..Total |->
             LET i == CHOOSE j \in 1..Len(vols) : Origin[j - 1] < p /\ p <= Origin[j]
             IN  vols[i][p - Origin[i - 1]] + (IF p > patch THEN Patched ELSE 0)]

ReadPatched(want) ==
  /\ want > 0 /\ pos < Total /\ pos >= patch
  /\ LET n == Fewer(Total - pos, want) IN
     /\ got' = Given(want, SubSeq(Stream, pos + 1, pos + n))
     /\ pos' = pos + n
  /\ UNCHANGED <<vols, patch, vpos, cursor, kernel>>

\* seek: a target before the start is an error, one behind the end is the end.
SeekTo(target) ==
  /\ pos' = IF target < 0 THEN pos ELSE Fewer(target, Total)
  /\ got' = Nothing
  /\ UNCHANGED <<vols, patch, vpos, cursor, kernel>>

ReadOrSeek ==
  \/ \E want \in Wants : ReadNothing(want) \/ ReadRaw(want) \/ ReadPatched(want)
  \/ \E target \in -1..(Total + 1) : SeekTo(target)

-----------------------------------------------------------------------------

\* The stream is the volumes one after the other with the patched tail laid
\* over it, whatever is read and sought in whatever order, although a file is
\* only moved when its cached position differs (multi_volume_reader.rs:150-177).
File == INSTANCE PlainFile WITH content <- Stream, at <- pos
=============================================================================
