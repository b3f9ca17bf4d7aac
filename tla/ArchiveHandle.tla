--------------------------- MODULE ArchiveHandle ---------------------------
(***************************************************************************)
(* A life of archive handles at one path: what Archive::create, commit and *)
(* rollback do to the files there, how the finished archive is cut into    *)
(* volumes, and the pointer the .NET builder keeps to a handle that the    *)
(* native side frees (archive.rs, ffi/create.rs, ArchiveBuilder.cs).       *)
(*                                                                         *)
(* The bytes of build g are numbered 1, 2, ...; a file holds a stretch of  *)
(* them.  Build 0 is what was on disk before.                              *)
(***************************************************************************)
EXTENDS Integers, Sequences, FiniteSets

CONSTANTS
  Formats,       \* formats asked for
  Methods,       \* encryption methods asked for
  Lengths,       \* lengths a finished archive may have
  VolumeSizes,   \* volume sizes asked for, 0 for one file
  Buffer,        \* bytes the slicer reads at a time (256 KiB)
  MaxVolumes,    \* 999
  OldVolumes,    \* how many segments an older set may have
  Builds         \* bound on the archives made in one behaviour

ASSUME HandleAssumption ==
  /\ Formats \subseteq {"zip", "7z", "zipx", "tar", "tar.gz", "xz", "rar"}
  /\ Methods \subseteq {"none", "zipcrypto", "aes256"}
  /\ Lengths \subseteq Nat /\ VolumeSizes \subseteq Nat /\ OldVolumes \subseteq Nat
  /\ Buffer \in Nat \ {0} /\ MaxVolumes \in Nat \ {0} /\ Builds \in Nat

VARIABLES
  file,       \* what is at the path, at its .otzpart and at each .NNN
  native,     \* the boxed Archive
  slicer,     \* locals of split_into_volumes
  build,      \* number of the current build
  ptr,        \* ArchiveBuilder._handle / Archive._handle is not zero
  answer      \* what the last call told its caller

vars == <<file, native, slicer, build, ptr, answer>>

Least(m, n) == IF m < n THEN m ELSE n

Absent == [by |-> -1, from |-> 0, to |-> 0]
Stretch(g, from, to) == [by |-> g, from |-> from, to |-> to]
Segments == 1..(MaxVolumes + 1)
Whole == -1    \* the path itself
Part == 0      \* split_write_path: the path with .otzpart
Places == {Whole, Part} \cup Segments
Volume(k) == k        \* volume_segment_path: name.ext.001 and so on

Unheld == [st |-> "none", split |-> 0, sealed |-> FALSE, asked |-> FALSE, length |-> 0]
Idle == [left |-> 0, data |-> 0, index |-> 1, room |-> 0, open |-> FALSE, made |-> {}]

Init ==
  /\ \E old \in OldVolumes, whole \in BOOLEAN :
       file = [p \in Places |->
                 IF p \in 1..old THEN Stretch(0, p - 1, p)
                 ELSE IF p = Whole /\ whole THEN Stretch(0, 0, 1) ELSE Absent]
  /\ native = Unheld
  /\ slicer = Idle
  /\ build = 0
  /\ ptr = FALSE
  /\ answer = "none"

-----------------------------------------------------------------------------
(* Archive::create                                                         *)

WritePath(v) == IF v > 0 THEN Part ELSE Whole

\* A password without a method asks for the strong one.
Effective(password, method) ==
  IF password /\ method = "none" THEN "aes256" ELSE method

\* open_writer: which writers refuse, and whether they have created the
\* file by then.  The ZIPX writer opens its file first.
Refuses(fmt, password, method) ==
  \/ fmt = "rar"
  \/ fmt = "zip" /\ password /\ method = "zipcrypto"
  \/ fmt = "zipx" /\ method = "zipcrypto"
RefusesLate(fmt) == fmt = "zipx"

\* Which writers look at the password at all.
Seals(fmt, password, method) ==
  /\ password
  /\ \/ fmt \in {"zip", "7z"} /\ method # "none"
     \/ fmt = "zipx"

Create(fmt, password, method, v) ==
  LET m == Effective(password, method) IN
  /\ ~ptr /\ native.st \in {"none", "freed"}
  /\ build < Builds
  /\ build' = build + 1
  /\ UNCHANGED slicer
  /\ IF Refuses(fmt, password, m)
     THEN /\ file' = IF RefusesLate(fmt)
                     THEN [file EXCEPT ![WritePath(v)] = Stretch(build', 0, 0)]
                     ELSE file
          /\ answer' = "refused"
          /\ UNCHANGED <<native, ptr>>
     ELSE /\ file' = [file EXCEPT ![WritePath(v)] = Stretch(build', 0, 0)]
          /\ native' = [st |-> "writer", split |-> v, sealed |-> Seals(fmt, password, m),
                        asked |-> password, length |-> 0]
          /\ ptr' = TRUE
          /\ answer' = "ok"

\* The file cannot be created (no permission, no directory).
CreateFails ==
  /\ ~ptr /\ native.st \in {"none", "freed"}
  /\ build < Builds
  /\ build' = build + 1
  /\ answer' = "refused"
  /\ UNCHANGED <<file, native, slicer, ptr>>

\* add_file, add_dir_recursive: one call that is refused, fails, is cancelled
\* or adds its entries.  The length is settled when the archive is finished.
Add(ok) ==
  /\ ptr /\ answer = "ok" /\ native.st \in {"writer", "reader"}
  /\ answer' = IF native.st = "writer" /\ ok THEN "ok" ELSE "error"
  /\ UNCHANGED <<file, native, slicer, build, ptr>>

-----------------------------------------------------------------------------
(* Archive::commit and split_into_volumes                                  *)

Freed == [native EXCEPT !.st = "freed"]

\* otterzip_archive_commit takes the box back whatever commit answers, and
\* ArchiveBuilder.Commit zeroes its pointer before it looks at the answer.
Return(rc) ==
  /\ native' = Freed
  /\ ptr' = FALSE
  /\ answer' = rc
  /\ slicer' = Idle

CommitWriter(ok, length) ==
  /\ ptr /\ native.st = "writer" /\ answer = "ok"
  /\ UNCHANGED build
  /\ LET at == WritePath(native.split) IN
     IF ~ok
     THEN /\ file' = IF native.split > 0 THEN [file EXCEPT ![Part] = Absent]
                     ELSE file
          /\ Return("failed")
     ELSE IF native.split = 0
     THEN /\ file' = [file EXCEPT ![at] = Stretch(build, 0, length)]
          /\ native' = [Freed EXCEPT !.length = length]
          /\ ptr' = FALSE
          /\ answer' = "committed"
          /\ UNCHANGED slicer
     ELSE /\ file' = [file EXCEPT ![at] = Stretch(build, 0, length)]
          /\ native' = [native EXCEPT !.st = "slicing", !.length = length]
          /\ slicer' = [Idle EXCEPT !.left = length]
          /\ UNCHANGED <<ptr, answer>>

\* Mutant of SliceFails: the segment being written is not in the guard yet.
SliceFailsUnguarded(f) ==
  /\ file' = [p \in Places |-> IF p = Part \/ p \in slicer.made \ {slicer.index - 1}
                              THEN Absent ELSE f[p]]
  /\ Return("failed")
  /\ UNCHANGED build

\* SegmentGuard::drop and the removal of the temporary file.
SliceFails(f) ==
  /\ file' = [p \in Places |-> IF p = Part \/ p \in slicer.made THEN Absent ELSE f[p]]
  /\ Return("failed")
  /\ UNCHANGED build

ReadChunk ==
  /\ native.st = "slicing" /\ slicer.data = 0 /\ slicer.left > 0
  /\ LET n == Least(Buffer, slicer.left) IN
     slicer' = [slicer EXCEPT !.data = n, !.left = @ - n]
  /\ UNCHANGED <<file, native, build, ptr, answer>>

\* A segment is opened when there is none or it is full.
NeedsSegment == ~slicer.open \/ slicer.room = 0

OpenSegment ==
  /\ native.st = "slicing" /\ slicer.data > 0 /\ NeedsSegment
  /\ IF slicer.index > MaxVolumes
     THEN SliceFails(file)
     ELSE /\ file' = [file EXCEPT ![Volume(slicer.index)] =
                        LET done == native.length - slicer.left - slicer.data
                        IN  Stretch(build, done, done)]
          /\ slicer' = [slicer EXCEPT !.open = TRUE, !.made = @ \cup {slicer.index},
                                      !.index = @ + 1, !.room = native.split]
          /\ UNCHANGED <<native, build, ptr, answer>>

\* Mutant of WriteSegment: a chunk is never divided between two segments.
WriteSegmentWhole ==
  /\ native.st = "slicing" /\ slicer.data > 0 /\ ~NeedsSegment
  /\ file' = [file EXCEPT ![Volume(slicer.index - 1)].to = @ + slicer.data]
  /\ slicer' = [slicer EXCEPT !.data = 0, !.room = @ - Least(@, slicer.data)]
  /\ UNCHANGED <<native, build, ptr, answer>>

WriteSegment ==
  /\ native.st = "slicing" /\ slicer.data > 0 /\ ~NeedsSegment
  /\ LET n == Least(slicer.room, slicer.data) IN
     /\ file' = [file EXCEPT ![Volume(slicer.index - 1)].to = @ + n]
     /\ slicer' = [slicer EXCEPT !.data = @ - n, !.room = @ - n]
  /\ UNCHANGED <<native, build, ptr, answer>>

\* Reading, creating or writing fails.
SliceError ==
  /\ native.st = "slicing"
  /\ SliceFails(file)

SliceDone ==
  /\ native.st = "slicing" /\ slicer.data = 0 /\ slicer.left = 0
  /\ file' = [file EXCEPT ![Part] = Absent,
                          ![Volume(1)] = IF slicer.made = {} THEN Stretch(build, 0, 0) ELSE @]
  /\ Return("committed")
  /\ UNCHANGED build

\* Mutant of CommitReader: the refused caller believes its handle still lives.
CommitReaderKeepsPointer ==
  /\ ptr /\ native.st = "reader"
  /\ native' = Freed
  /\ answer' = "error"
  /\ UNCHANGED <<file, slicer, build, ptr>>

\* A read handle is refused before anything is deleted, and is freed.
CommitReader ==
  /\ ptr /\ native.st = "reader"
  /\ Return("error")
  /\ UNCHANGED <<file, build>>

-----------------------------------------------------------------------------
(* Archive::rollback                                                       *)

\* The segments from .001 to the first gap.
Run == {k \in 1..MaxVolumes : \A i \in 1..k : file[Volume(i)] # Absent}

\* Mutant of RollbackFiles: the file is removed before the mode is looked at.
RollbackFilesUnasked ==
  IF native.split > 0
  THEN [p \in Places |-> IF p = Part \/ p \in Run THEN Absent ELSE file[p]]
  ELSE [file EXCEPT ![Whole] = Absent]

RollbackFiles ==
  IF native.st # "writer" THEN file
  ELSE IF native.split > 0
  THEN [p \in Places |-> IF p = Part \/ p \in Run THEN Absent ELSE file[p]]
  ELSE [file EXCEPT ![Whole] = Absent]

\* ArchiveBuilder.Dispose of a builder that was not committed, and the same
\* call on a read handle.
Rollback ==
  /\ ptr /\ native.st \in {"writer", "reader"}
  /\ file' = RollbackFiles
  /\ Return(IF native.st = "writer" THEN "rolled back" ELSE "error")
  /\ UNCHANGED build

-----------------------------------------------------------------------------
(* Archive::open, Archive.Dispose                                          *)

Open ==
  /\ ~ptr /\ native.st \in {"none", "freed"}
  /\ LET good == file[Whole].by >= 0 /\ file[Whole].to > 0 IN
     /\ native' = IF good THEN [Unheld EXCEPT !.st = "reader"] ELSE native
     /\ ptr' = good
     /\ answer' = IF good THEN "ok" ELSE "refused"
  /\ UNCHANGED <<file, slicer, build>>

Close ==
  /\ ptr /\ native.st = "reader"
  /\ Return("ok")
  /\ UNCHANGED <<file, build>>

Finished ==
  /\ ~ptr /\ build = Builds
  /\ UNCHANGED vars

Next ==
  \/ \E fmt \in Formats, password \in BOOLEAN, method \in Methods, v \in VolumeSizes :
        Create(fmt, password, method, v)
  \/ CreateFails
  \/ \E ok \in BOOLEAN : Add(ok)
  \/ \E ok \in BOOLEAN, length \in Lengths : CommitWriter(ok, length)
  \/ ReadChunk \/ OpenSegment \/ WriteSegment \/ SliceError \/ SliceDone
  \/ CommitReader \/ Rollback
  \/ Open \/ Close
  \/ Finished

Spec == Init /\ [][Next]_vars
-----------------------------------------------------------------------------
(* Properties                                                              *)

File == [by : -1..Builds, from : Nat, to : Nat]
Native == [st : {"none", "writer", "reader", "slicing", "freed"}, split : VolumeSizes \cup {0},
           sealed : BOOLEAN, asked : BOOLEAN, length : Lengths \cup {0}]
Slicer == [left : Nat, data : Nat, index : 1..(MaxVolumes + 1), room : Nat,
           open : BOOLEAN, made : SUBSET (1..MaxVolumes)]
Answers == {"none", "ok", "refused", "error", "failed", "committed", "rolled back"}

\* Every variable has its type: a file is absent or a stretch of a build.
TypeOK ==
  /\ file \in [Places -> File] /\ native \in Native /\ slicer \in Slicer
  /\ build \in 0..Builds /\ ptr \in BOOLEAN /\ answer \in Answers

\* The managed pointer is set exactly while the native archive lives: commit,
\* rollback and close free it once each, on every way out, and nobody keeps
\* a pointer to a freed one (ffi/create.rs:250,264, ArchiveBuilder.cs:198-200).
PointerIsLive == ptr <=> native.st \in {"writer", "reader", "slicing"}

\* When slicing fails, at whatever step and also past 999 volumes, neither a
\* segment of this build nor the temporary file stays (archive.rs:1055-1078,
\* 408-410).
FailedSliceLeavesNothing ==
  answer = "failed" => \A p \in Places \ {Whole} : file[p].by # build

\* After a commit in split mode the segments .001 to the last one, read one
\* after the other, are the archive: all are full but the last, none is
\* empty unless the archive is, none lies beyond the limit, and the temporary
\* file is gone.  In one-file mode the file is the whole archive.
CommittedIsComplete ==
  (answer = "committed") =>
    IF native.split = 0
    THEN file[Whole] = Stretch(build, 0, native.length)
    ELSE /\ file[Part].by # build
         /\ \E n \in 1..MaxVolumes :
              /\ \A k \in 1..n : /\ file[Volume(k)].by = build
                                 /\ file[Volume(k)].from = (k - 1) * native.split
                                 /\ k < n => file[Volume(k)].to = k * native.split
              /\ file[Volume(n)].to = native.length
              /\ native.length <= n * native.split
              /\ file[Volume(n)].from < native.length \/ (n = 1 /\ native.length = 0)
              /\ \A k \in (n + 1)..(MaxVolumes + 1) : file[Volume(k)].by # build

\* No call on a read handle, commit and rollback included, changes a file:
\* the archive that was opened is the user's (archive.rs:418-430).
ReaderSparesFiles == [][native.st = "reader" => UNCHANGED file]_vars

\* A build that is given up takes away only what it wrote itself.  The
\* comment at archive.rs:434-437 says that segments exist only after a
\* successful commit, or a partial one.
RollbackTakesOwn ==
  [][answer' = "rolled back" =>
       \A p \in Places : file'[p] # file[p] => file[p].by = build]_vars

\* An archive that a password was given for is never written without
\* encryption (archive.rs:295-298).
PasswordNeverPlaintext == native.st = "writer" /\ native.asked => native.sealed
=============================================================================
