----------------------------- MODULE ZipHeaders -----------------------------
(***************************************************************************)
(* What ZipFileWriter puts on disk (backends/zip_writer.rs): local headers, *)
(* payloads, the central directory and its end records, as the cells       *)
(* LenientZip reads.  A writer is a record: the cells written, the cursor   *)
(* that is tracked beside them, and the directory records kept for the end. *)
(*                                                                         *)
(* An entry to write is a record: its name, the bytes its file holds (data) *)
(* and what was stat'ed (stat), how many of them a cell of deflated data    *)
(* stands for (rate), its mtime (day and sec), whether its extension or    *)
(* the probe says it does not compress (known, probed).                    *)
(***************************************************************************)
EXTENDS Integers, Sequences, SequencesExt, FiniteSetsExt

CONSTANTS
  Max16, Max32,  \* u16::MAX, u32::MAX
  Block          \* PIGZ_BLOCK_SIZE

Filler(n) == [k \in 1..n |-> [t |-> "other"]]
AsU32(n) == n % (Max32 + 1)
Overflows(n) == n > Max32

-----------------------------------------------------------------------------
(* Deflate, as far as it matters here                                      *)

\* deflate_block_raw: a block ends the stream only when it is told to, and
\* otherwise with an empty block that aligns it.
DeflateBlock(data, rate, final) ==
  [k \in 1..((Len(data) + rate - 1) \div rate) |->
     [t |-> "byte", bytes |-> SubSeq(data, (k - 1) * rate + 1, Min({k * rate, Len(data)})),
      last |-> FALSE]]
  \o <<[t |-> "byte", bytes |-> <<>>, last |-> final]>>

\* libdeflate_oneshot and flate2_streaming: one stream with its end.
Deflate(e) == DeflateBlock(e.data, e.rate, TRUE)

\* The blocks of add_entry_pigz_parallel, deflated apart and concatenated.
Pigz(e) ==
  LET blocks == (Len(e.data) + Block - 1) \div Block IN
  FlattenSeq([b \in 1..blocks |->
    DeflateBlock(SubSeq(e.data, (b - 1) * Block + 1,
                        Min({b * Block, Len(e.data)})),
                 e.rate, b = blocks)])

-----------------------------------------------------------------------------
(* Dates                                                                   *)

\* epoch_to_civil: the year, month and day of a day since 1970.
EpochToCivil(days) ==
  LET z == days + 719468
      doe == z % 146097
      yoe == (doe - doe \div 1460 + doe \div 36524 - doe \div 146096) \div 365
      doy == doe - (365 * yoe + yoe \div 4 - yoe \div 100)
      mp == (5 * doy + 2) \div 153
      m == IF mp < 10 THEN mp + 3 ELSE mp - 9
      y == yoe + (z \div 146097) * 400 IN
  [year |-> IF m <= 2 THEN y + 1 ELSE y, month |-> m,
   day |-> doy - (153 * mp + 2) \div 5 + 1]

\* system_time_to_dos: only the year is clamped.
DosDate(days) ==
  LET c == EpochToCivil(days)
      y == Min({Max({c.year, 1980}), 2107}) IN
  (y - 1980) * 512 + c.month * 32 + c.day

DosTime(sec) ==
  (sec \div 3600) * 2048 + ((sec \div 60) % 60) * 32 + (sec % 60) \div 2

-----------------------------------------------------------------------------
(* Headers                                                                 *)

NeedsZip64ForEntry(size, comp, offset) ==
  Overflows(size) \/ Overflows(comp) \/ Overflows(offset)

\* write_lfh: one cell of name, and two of ZIP64 extra field.
WriteLfh(size, comp, zip64) ==
  <<[t |-> "lfh", size |-> IF zip64 THEN Max32 ELSE AsU32(size),
     comp |-> IF zip64 THEN Max32 ELSE AsU32(comp),
     extra |-> IF zip64 THEN <<size, comp>> ELSE <<>>,
     tail |-> IF zip64 THEN 3 ELSE 1]>> \o Filler(IF zip64 THEN 3 ELSE 1)

\* Mutant of WriteCdfh: the extra field follows the local header's.
WriteCdfhLikeLocal(r) ==
  LET big == r.zip64
      extra == IF big THEN <<r.size, r.comp, r.lfh>> ELSE <<>>
      tail == IF extra = <<>> THEN 1 ELSE 2 + Len(extra) IN
  <<[t |-> "cdfh", name |-> r.name, method |-> r.method, encrypted |-> FALSE, disk |-> 0,
     crc |-> r.crc, date |-> r.date, time |-> r.time,
     size |-> IF Overflows(r.size) THEN Max32 ELSE r.size,
     comp |-> IF Overflows(r.comp) THEN Max32 ELSE r.comp,
     lfh |-> IF Overflows(r.lfh) THEN Max32 ELSE r.lfh,
     extra |-> extra, tail |-> tail]>> \o Filler(tail)

\* write_cdfh: the extra field has the values that overflow, in order.
WriteCdfh(r) ==
  LET held(n) == IF Overflows(n) THEN <<n>> ELSE <<>>
      extra == held(r.size) \o held(r.comp) \o held(r.lfh)
      slot(n) == IF Overflows(n) THEN Max32 ELSE n
      tail == IF extra = <<>> THEN 1 ELSE 2 + Len(extra) IN
  <<[t |-> "cdfh", name |-> r.name, method |-> r.method, encrypted |-> FALSE, disk |-> 0,
     crc |-> r.crc, date |-> r.date, time |-> r.time,
     size |-> slot(r.size), comp |-> slot(r.comp), lfh |-> slot(r.lfh),
     extra |-> extra, tail |-> tail]>> \o Filler(tail)

WriteZip64EocdRecord(count, size, offset) ==
  <<[t |-> "zip64", count |-> count, size |-> size, offset |-> offset]>>

WriteZip64EocdLocator(offset) == <<[t |-> "locator", target |-> offset]>>

WriteEocd(count, size, offset, zip64) ==
  <<[t |-> "eocd", count |-> IF zip64 THEN Max16 ELSE count,
     disk |-> 0, cddisk |-> 0, here |-> IF zip64 THEN Max16 ELSE count,
     size |-> IF zip64 THEN Max32 ELSE size,
     offset |-> IF zip64 THEN Max32 ELSE offset]>>

-----------------------------------------------------------------------------
(* Operations                                                              *)

Create == [inner |-> <<>>, cursor |-> 0, cd |-> <<>>]

\* A header, its payload and its record; the cursor moves by their lengths.
Splice(w, e, method, crc, size, payload, zip64) ==
  LET lfh == WriteLfh(size, Len(payload), zip64) IN
  [inner |-> w.inner \o lfh \o payload,
   cursor |-> w.cursor + 1 + (IF zip64 THEN 3 ELSE 1) + Len(payload),
   cd |-> Append(w.cd, [name |-> e.name, method |-> method, crc |-> crc,
                        date |-> DosDate(e.day), time |-> DosTime(e.sec),
                        size |-> size, comp |-> Len(payload),
                        lfh |-> w.cursor, zip64 |-> zip64])]

\* add_directory: never ZIP64 in its local header.
AddDirectory(w, e) == Splice(w, e, "store", <<>>, 0, <<>>, FALSE)

Spliced(w, e, method, payload) ==
  Splice(w, e, method, e.data, Len(e.data), payload,
         NeedsZip64ForEntry(Len(e.data), Len(payload), w.cursor))

\* add_entry_prepared after prepare_entry, which stores what would grow.
AddEntryPrepared(w, e, deflate) ==
  IF deflate /\ ~e.known /\ Len(Deflate(e)) < Len(e.data)
  THEN Spliced(w, e, "deflate", Deflate(e)) ELSE Spliced(w, e, "store", e.data)

\* add_entry: what would grow grows.
AddEntry(w, e, deflate) ==
  IF deflate /\ ~e.known THEN Spliced(w, e, "deflate", Deflate(e))
  ELSE Spliced(w, e, "store", e.data)

\* add_entry_streaming: ZIP64 and the size come from the stat, the CRC and
\* the compressed size from what was read; they are patched into the header.
AddEntryStreaming(w, e, deflate) ==
  LET stored == ~deflate \/ e.known \/ e.probed IN
  Splice(w, e, IF stored THEN "store" ELSE "deflate", e.data, e.stat,
         IF stored THEN e.data ELSE Deflate(e), Overflows(e.stat) \/ Overflows(w.cursor))

\* add_entry_pigz_parallel
AddEntryPigzParallel(w, e, deflate) ==
  IF ~deflate \/ e.known \/ e.probed THEN AddEntryStreaming(w, e, deflate)
  ELSE Spliced(w, e, "deflate", Pigz(e))

\* The directory records of the first n entries.
Directory(w, n) == FlattenSeq([k \in 1..n |-> WriteCdfh(w.cd[k])])

\* Mutant of Finish: the count is left out of the escalation.
FinishBySize(w) ==
  LET cd == Directory(w, Len(w.cd))
      zip64 == Overflows(Len(cd)) IN
  w.inner \o cd
  \o (IF zip64 THEN WriteZip64EocdRecord(Len(w.cd), Len(cd), w.cursor)
                    \o WriteZip64EocdLocator(w.cursor + Len(cd)) ELSE <<>>)
  \o WriteEocd(Len(w.cd) % (Max16 + 1), Len(cd), AsU32(w.cursor), zip64)

Finish(w) ==
  LET cd == Directory(w, Len(w.cd))
      zip64 == Len(w.cd) > Max16 \/ Overflows(Len(cd)) \/ Overflows(w.cursor) IN
  w.inner \o cd
  \o (IF zip64 THEN WriteZip64EocdRecord(Len(w.cd), Len(cd), w.cursor)
                    \o WriteZip64EocdLocator(w.cursor + Len(cd)) ELSE <<>>)
  \o WriteEocd(Len(w.cd), Len(cd), w.cursor, zip64)

=============================================================================
