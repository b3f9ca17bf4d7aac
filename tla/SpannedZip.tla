----------------------------- MODULE SpannedZip -----------------------------
(***************************************************************************)
(* A ZIP cut into disks, shown to a reader that knows none                 *)
(* (backends/spanned_zip.rs): the places in its directory count from the   *)
(* start of a disk and are rewritten to count from the start of the first. *)
(* A file is a sequence of cells as in LenientZip, with no comment at its  *)
(* end; origins has the offset of each disk.                               *)
(***************************************************************************)
EXTENDS Integers, Sequences, SequencesExt

Signed(f, o, t) == o >= 0 /\ o < Len(f) /\ f[o + 1].t = t

\* disk_origin of a disk there is; a directory that names another is damage.
DiskOrigin(origins, disk) == origins[disk + 1]

\* Mutant of PatchCentralDirectory: every header is taken to be on disk 0.
PatchCentralDirectoryInPlace(cd, origins) ==
  [k \in DOMAIN cd |-> IF cd[k].t = "cdfh" THEN [cd[k] EXCEPT !.disk = 0] ELSE cd[k]]

\* patch_central_directory: from header to header, up to what is none.
PatchCentralDirectory(cd, origins) ==
  LET patched[c \in 0..Len(cd)] ==
        IF c = Len(cd) \/ ~Signed(cd, c, "cdfh") THEN SubSeq(cd, c + 1, Len(cd))
        ELSE LET next == c + 1 + cd[c + 1].tail IN
             <<[cd[c + 1] EXCEPT !.disk = 0, !.lfh = DiskOrigin(origins, cd[c + 1].disk) + @]>>
             \o SubSeq(cd, c + 2, next) \o patched[next] IN
  patched[0]

IsRealSpanned(e) == e.disk # 0 \/ e.cddisk # 0 \/ e.here # e.count

\* SpannedZipReader::open and what it then reads as.
Joined(f, origins) ==
  LET eocd == Len(f) - 1
      e == f[eocd + 1]
      start == DiskOrigin(origins, e.cddisk) + e.offset
      end == start + e.size IN
  IF ~Signed(f, eocd, "eocd") THEN [error |-> "corrupted"]
  ELSE IF Signed(f, eocd - 1, "locator") THEN [error |-> "unsupported"]
  ELSE IF ~IsRealSpanned(e) THEN [error |-> "none", file |-> f]
  ELSE IF end > eocd THEN [error |-> "corrupted"]
  ELSE [error |-> "none",
        file |-> SubSeq(f, 1, start)
                 \o PatchCentralDirectory(SubSeq(f, start + 1, end), origins)
                 \o SubSeq(f, end + 1, eocd)
                 \o <<[e EXCEPT !.disk = 0, !.cddisk = 0, !.here = e.count, !.offset = start]>>]
=============================================================================
