---------------------------- MODULE ZipRoundTrip ----------------------------
(***************************************************************************)
(* A ZIP that ZipFileWriter wrote is damaged, or cut into disks, and read  *)
(* again by the lenient parser: ZipHeaders, SpannedZip and LenientZip over *)
(* one file.  (Disks that are joined again go to the zip crate; what it    *)
(* reads of them is what the directory says, as here.)                     *)
(***************************************************************************)
EXTENDS Integers, Sequences, FiniteSets

CONSTANTS
  Max16, Max32, Block, TailScan, ScanCells, OneShot, HardCap,
  Files,        \* what may be written: records as ZipHeaders describes them
  MaxEntries    \* bound on the entries of an archive

\* What a file holds: bytes, each a cell.
DataCells == [t : {"byte"}, bytes : Seq(Nat), last : {FALSE}]

ASSUME LimitsAssumption ==
  {Max16, Max32, Block, TailScan, ScanCells, OneShot, HardCap, MaxEntries} \subseteq Nat \ {0}

ASSUME FilesAssumption ==
  \A e \in Files : /\ e.data \in Seq(DataCells) /\ e.stat \in Nat /\ e.rate \in Nat \ {0}
                   /\ e.day \in Nat /\ e.sec \in Nat /\ e.sec < 86400
                   /\ e.directory => e.data = <<>>

ASSUME FlagsAssumption == \A e \in Files : {e.directory, e.known, e.probed} \subseteq BOOLEAN

VARIABLES
  deflate,      \* Compression::Deflate, or Stored
  w,            \* the writer
  written,      \* the entries it was given
  file,         \* the finished archive, empty before
  origins,      \* where its disks begin
  damage,       \* what happened to it: its kind and the entry it hit, if any
  read          \* what the lenient parser made of it

vars == <<deflate, w, written, file, origins, damage, read>>

H == INSTANCE ZipHeaders
L == INSTANCE LenientZip
S == INSTANCE SpannedZip

Nothing == [error |-> "unread"]
Whole == [kind |-> "none", entry |-> 0]

Init ==
  /\ deflate \in BOOLEAN
  /\ w = H!Create /\ written = <<>> /\ file = <<>> /\ origins = <<0>>
  /\ damage = Whole /\ read = Nothing

\* One of the writer's operations takes the next entry.
Write ==
  /\ file = <<>> /\ Len(written) < MaxEntries
  /\ \E e \in Files :
       /\ written' = Append(written, e)
       /\ \/ e.directory /\ w' = H!AddDirectory(w, e)
          \/ ~e.directory /\ e.stat = Len(e.data) /\ w' = H!AddEntryPrepared(w, e, deflate)
          \/ ~e.directory /\ e.stat = Len(e.data) /\ w' = H!AddEntry(w, e, deflate)
          \/ ~e.directory /\ w' = H!AddEntryStreaming(w, e, deflate)
          \/ ~e.directory /\ e.data # <<>> /\ w' = H!AddEntryPigzParallel(w, e, deflate)
  /\ UNCHANGED <<deflate, file, origins, damage, read>>

Finish ==
  /\ file = <<>> /\ file' = H!Finish(w)
  /\ UNCHANGED <<deflate, w, written, origins, damage, read>>

\* The cell of the directory's record of an entry, and of the end record.
CdfhAt(k) == w.cursor + Len(H!Directory(w, k - 1)) + 1
Eocd == Len(file)

\* The malformations lenient_zip.rs names: a directory offset past the end
\* or inside an entry, a size that is zero or too large, the ZIP64 sentinel
\* without its structures, lengths that overshoot the directory, a local
\* header past the end or without its signature, a trailing comment.
Damage ==
  /\ file # <<>> /\ read = Nothing /\ damage = Whole
  /\ \/ /\ file' \in {[file EXCEPT ![Eocd].offset = o] : o \in {0, Len(file)}}
        /\ damage' = [kind |-> "directory", entry |-> 0]
     \/ /\ file' \in {[file EXCEPT ![Eocd].size = n] : n \in {0, Len(file), Max32}}
        /\ damage' = [kind |-> "directory", entry |-> 0]
     \/ /\ file' = [file EXCEPT ![Eocd].count = Max16]
        /\ damage' = [kind |-> "directory", entry |-> 0]
     \/ /\ file' = file \o H!Filler(TailScan - 1)
        /\ damage' = [kind |-> "directory", entry |-> 0]
     \/ \E k \in DOMAIN written :
          \/ /\ file' = [file EXCEPT ![CdfhAt(k)].tail = Len(file)]
             /\ damage' = [kind |-> "lost", entry |-> k]
          \/ /\ ~H!Overflows(w.cd[k].lfh)
             /\ file' = [file EXCEPT ![CdfhAt(k)].lfh = Len(file)]
             /\ Len(file) < Max32
             /\ damage' = [kind |-> "unreadable", entry |-> k]
          \/ /\ file' = [file EXCEPT ![w.cd[k].lfh + 1].t = "other"]
             /\ damage' = [kind |-> "unreadable", entry |-> k]
  /\ UNCHANGED <<deflate, w, written, origins, read>>

\* A tool cuts the archive anywhere; places then count from their disk.
DiskOf(starts, o) == Cardinality({k \in DOMAIN starts : starts[k] <= o}) - 1
OnDisk(starts, o) == IF o = Max32 THEN o ELSE o - starts[DiskOf(starts, o) + 1]
Cut(f, starts) ==
  LET disk(o) == DiskOf(starts, o)
      last == Len(f) - 1 IN
  [o \in DOMAIN f |->
     IF o <= w.cursor THEN f[o]
     ELSE IF f[o].t = "cdfh"
     THEN [f[o] EXCEPT !.disk = disk(f[o].lfh), !.lfh = OnDisk(starts, f[o].lfh)]
     ELSE IF f[o].t = "eocd"
     THEN [f[o] EXCEPT
             !.disk = disk(last), !.cddisk = disk(w.cursor), !.offset = OnDisk(starts, @),
             !.here = Cardinality({p \in DOMAIN f : /\ p > w.cursor /\ f[p].t = "cdfh"
                                                    /\ disk(p - 1) = disk(last)})]
     ELSE f[o]]

Span ==
  /\ file # <<>> /\ read = Nothing /\ damage = Whole
  /\ \E c \in 1..(Eocd - 1) : \E d \in c..(Eocd - 1) :
       origins' = IF c = d THEN <<0, c>> ELSE <<0, c, d>>
  /\ file' = Cut(file, origins')
  /\ damage' = [kind |-> "disks", entry |-> 0]
  /\ UNCHANGED <<deflate, w, written, read>>

\* What the parser makes of a file, joined from its disks if there are some.
ReadOf(f, starts) ==
  LET joined == IF Len(starts) = 1 THEN [error |-> "none", file |-> f]
                ELSE S!Joined(f, starts) IN
  IF joined.error = "none" THEN L!Open(joined.file) ELSE joined

Read ==
  /\ file # <<>> /\ read = Nothing
  /\ read' = ReadOf(file, origins)
  /\ UNCHANGED <<deflate, w, written, file, origins, damage>>

Done == read # Nothing /\ UNCHANGED vars

Next == Write \/ Finish \/ Damage \/ Span \/ Read \/ Done

Spec == Init /\ [][Next]_vars

-----------------------------------------------------------------------------
(* Properties.                                                             *)

TypeOK ==
  /\ deflate \in BOOLEAN
  /\ written \in Seq(Files) /\ Len(written) <= MaxEntries
  /\ w.cursor = Len(w.inner) /\ Len(w.cd) = Len(written)
  /\ damage.kind \in {"none", "directory", "lost", "unreadable", "disks"}
  /\ damage.entry \in 0..Len(written)
  /\ read.error \in {"unread", "none", "corrupted", "unsupported"}

\* A field that is exactly the sentinel is written as itself and read as a
\* reference to the ZIP64 extra field, which holds the record's other values.
Ambiguous(r) == /\ Max32 \in {r.size, r.comp, r.lfh}
                /\ \E n \in {r.size, r.comp, r.lfh} : H!Overflows(n)

DosDays == 3652..50402  \* 1 January 1980 to 31 December 2107

\* The entries that are not lost, in order.
Kept ==
  IF damage.kind = "lost"
  THEN [k \in 1..(Len(written) - 1) |-> IF k < damage.entry THEN k ELSE k + 1]
  ELSE [k \in 1..Len(written) |-> k]

\* Whatever the file sizes, offsets and counts are, and whichever of the
\* named malformations the archive has, the parser lists the entries that
\* are not hit, each once and in order, extracts what the file held when it
\* was read with its time to two seconds, and reports the one that is hit
\* (lenient_zip.rs: the actual central directory is still intact in the file).
EveryEntryRecovered ==
  read # Nothing /\ written # <<>> /\ ~(damage.kind = "disks" /\ file[Eocd].offset = Max32) =>
    /\ read.error = "none"
    /\ [k \in DOMAIN read.records |-> read.records[k].name]
         = [k \in DOMAIN Kept |-> written[Kept[k]].name]
    /\ \A k \in DOMAIN Kept :
         LET got == L!ExtractEntry(file, read.records[k])
             e == written[Kept[k]] IN
         /\ e.day \in DosDays =>
              read.records[k].modified = [day |-> e.day, sec |-> (e.sec \div 2) * 2]
         /\ ~Ambiguous(w.cd[Kept[k]]) =>
              IF damage.kind = "unreadable" /\ damage.entry = Kept[k] THEN got.error = "corrupted"
              ELSE got.error = "none" /\ got.data = e.data

\* A file whose deflated data still has a 32-bit size if its data has one,
\* which add_entry_streaming relies on where it deflates.
Fits(e) ==
  ~e.directory /\ ~e.known /\ ~e.probed /\ e.stat = Len(e.data) /\ e.stat <= Max32
  => Len(H!Deflate(e)) <= Max32

\* A healthy archive says the same thing everywhere, for readers that trust
\* what they find first: each local header has its directory record's sizes,
\* unless the file grew while it was streamed, and the end record (the ZIP64
\* one when it is there) has the directory's place and its number of entries.
HeadersAgree ==
  file # <<>> /\ damage = Whole =>
    /\ \A k \in DOMAIN w.cd :
         LET h == file[w.cd[k].lfh + 1] IN
         /\ h.t = "lfh"
         /\ written[k].stat = Len(written[k].data) =>
              IF h.extra = <<>> THEN h.size = w.cd[k].size /\ h.comp = w.cd[k].comp
              ELSE h.extra = <<w.cd[k].size, w.cd[k].comp>>
    /\ LET zip64 == Eocd > 1 /\ file[Eocd - 1].t = "locator"
           end == IF zip64 THEN file[file[Eocd - 1].target + 1] ELSE file[Eocd] IN
       /\ end.offset = w.cursor /\ end.count = Len(w.cd)
       /\ end.offset + end.size + (IF zip64 THEN 3 ELSE 1) = Len(file)

\* The comment in zip_writer.rs:387-388: any single dimension that overflows
\* its 32-bit slot escalates.  (Of a file that grew this is not said.)
AnyOverflowEscalates ==
  \A k \in DOMAIN w.cd :
    /\ ~written[k].directory /\ written[k].stat = Len(written[k].data)
    /\ H!NeedsZip64ForEntry(w.cd[k].size, w.cd[k].comp, w.cd[k].lfh)
    => w.cd[k].zip64

\* Without damage, an archive is read back as it was written (zip_writer.rs:
\* the ZIP64 extra field has the values whose 32-bit slot is u32::MAX).
WrittenIsRead ==
  read # Nothing /\ damage = Whole =>
    \A k \in DOMAIN written :
      LET got == L!ExtractEntry(file, read.records[k]) IN
      got.error = "none" /\ got.data = written[k].data
=============================================================================
