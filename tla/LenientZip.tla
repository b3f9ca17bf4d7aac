----------------------------- MODULE LenientZip -----------------------------
(***************************************************************************)
(* The ZIP parser that recovers what the strict one refuses                *)
(* (backends/lenient_zip.rs), as operators over an archive file.           *)
(*                                                                         *)
(* A file is a sequence of cells.  The fixed part of a header is one cell  *)
(* that carries its signature, its fields and the number of cells of name, *)
(* extra field and comment after it; a byte of a payload is one cell.      *)
(* Offsets count cells from 0, and sums of them do not overflow.           *)
(***************************************************************************)
EXTENDS Integers, Sequences, SequencesExt

CONSTANTS
  Max16, Max32, \* 0xFFFF, 0xFFFFFFFF: also "look in the ZIP64 structures"
  TailScan,     \* MAX_EOCD_TAIL_SCAN, 65557
  ScanCells,    \* MAX_CD_SCAN_BYTES, 64 MiB
  OneShot,      \* LIBDEFLATER_ONESHOT_THRESHOLD, 16 MiB
  HardCap       \* STREAMING_INFLATE_HARD_CAP, 4 GiB

Corrupted == [error |-> "corrupted"]
Disabled == [error |-> "disabled"]
Unreadable == -1

Least(a, b) == IF a < b THEN a ELSE b
FirstOf(S) == CHOOSE x \in S : \A y \in S : x <= y
LastOf(S) == CHOOSE x \in S : \A y \in S : x >= y

\* A signature at an offset: peek_is_cdfh and its like.
Signed(f, o, t) == o >= 0 /\ o < Len(f) /\ f[o + 1].t = t

\* scan_for_cd_start: the first header in the stretch before the EOCD.
ScanForCdStart(f, eocd) ==
  LET hits == {o \in (eocd - Least(eocd, ScanCells))..(eocd - 1) : Signed(f, o, "cdfh")} IN
  IF hits = {} THEN Corrupted
  ELSE [error |-> "none", offset |-> FirstOf(hits), size |-> eocd - FirstOf(hits)]

Clamped(declared, most) == IF declared = 0 \/ declared > most THEN most ELSE declared

\* resolve_zip64: the locator right before the EOCD, and the record it names.
ResolveZip64(f, eocd) ==
  LET offset == f[eocd + 1].offset
      loc == f[eocd]
      z == f[loc.target + 1] IN
  IF eocd = 0 THEN Corrupted
  ELSE IF ~Signed(f, eocd - 1, "locator")
  THEN IF offset # Max32 /\ offset < eocd /\ Signed(f, offset, "cdfh")
       THEN [error |-> "none", offset |-> offset, size |-> eocd - offset]
       ELSE ScanForCdStart(f, eocd)
  ELSE IF ~Signed(f, loc.target, "zip64") \/ z.offset > Len(f) THEN Corrupted
  ELSE [error |-> "none", offset |-> z.offset,
        size |-> Clamped(z.size, IF loc.target > z.offset THEN loc.target - z.offset ELSE 0)]

\* find_central_directory: the last EOCD, and a start that is a header.
FindCentralDirectory(f) ==
  LET eocds == {o \in (Len(f) - Least(Len(f), TailScan))..(Len(f) - 1) : Signed(f, o, "eocd")}
      eocd == LastOf(eocds)
      e == f[eocd + 1] IN
  IF eocds = {} THEN Corrupted
  ELSE IF Max32 \in {e.offset, e.size} \/ e.count = Max16 THEN ResolveZip64(f, eocd)
  ELSE IF e.offset >= eocd \/ ~Signed(f, e.offset, "cdfh") THEN ScanForCdStart(f, eocd)
  ELSE [error |-> "none", offset |-> e.offset, size |-> Clamped(e.size, eocd - e.offset)]

\* dos_to_systime and days_from_civil: the fields of an MS-DOS date, and the
\* day since 1970 they stand for; -1 when they are no date.
DaysFromCivil(y, m, d) ==
  LET cy == IF m <= 2 THEN y - 1 ELSE y
      yoe == cy % 400
      doy == (153 * (IF m > 2 THEN m - 3 ELSE m + 9) + 2) \div 5 + d - 1 IN
  IF m \notin 1..12 \/ d \notin 1..31 THEN -1
  ELSE (cy \div 400) * 146097 + yoe * 365 + yoe \div 4 - yoe \div 100 + doy - 719468

DosToDays(date) ==
  DaysFromCivil((date \div 512) + 1980, (date \div 32) % 16, date % 32)

DosToSeconds(time) ==
  (time \div 2048) * 3600 + ((time \div 32) % 64) * 60 + (time % 32) * 2

\* read_zip64_extra: the values come in a fixed order, one for each field
\* that holds the sentinel; a field without its value keeps the sentinel.
Escalated(h, field) ==
  LET one(k) == IF h[k] = Max32 THEN 1 ELSE 0
      place == CASE field = "size" -> one("size")
                 [] field = "comp" -> one("size") + one("comp")
                 [] field = "lfh" -> one("size") + one("comp") + one("lfh") IN
  IF h[field] = Max32 /\ place \in DOMAIN h.extra THEN h.extra[place] ELSE h[field]

\* parse_cdfh of a header that fits.
ParseCdfh(h, file_size) ==
  LET lfh == Escalated(h, "lfh") IN
  [name |-> h.name, size |-> Escalated(h, "size"), comp |-> Escalated(h, "comp"),
   lfh |-> IF lfh >= file_size THEN Unreadable ELSE lfh,
   method |-> h.method, encrypted |-> h.encrypted, crc |-> h.crc,
   modified |-> [day |-> DosToDays(h.date), sec |-> DosToSeconds(h.time)]]

\* walk_central_directory: what is no header, or one whose lengths overshoot,
\* is passed over up to the next signature (find_next_cdfh).
WalkCentralDirectory(f, cd) ==
  LET buf == SubSeq(f, cd.offset + 1, Least(cd.offset + cd.size, Len(f)))
      walk[c \in 0..Len(buf)] ==
        IF c = Len(buf) THEN <<>>
        ELSE IF buf[c + 1].t # "cdfh" \/ c + 1 + buf[c + 1].tail > Len(buf) THEN walk[c + 1]
        ELSE <<ParseCdfh(buf[c + 1], Len(f))>> \o walk[c + 1 + buf[c + 1].tail] IN
  walk[0]

\* LenientZipBackend::open.
Open(f) ==
  LET cd == FindCentralDirectory(f) IN
  IF cd.error # "none" THEN cd
  ELSE [error |-> "none", records |-> WalkCentralDirectory(f, cd)]

-----------------------------------------------------------------------------
(* Reading an entry                                                        *)

\* Mutant of LocatePayload: the header's lengths in the directory are used.
LocatePayloadByDirectory(f, r) ==
  IF ~Signed(f, r.lfh, "lfh") THEN Corrupted ELSE [error |-> "none", at |-> r.lfh + 2]

\* locate_payload: the lengths in the local header count.
LocatePayload(f, r) ==
  IF ~Signed(f, r.lfh, "lfh") \/ r.lfh + 1 + f[r.lfh + 1].tail > Len(f) THEN Corrupted
  ELSE [error |-> "none", at |-> r.lfh + 1 + f[r.lfh + 1].tail]

\* What a deflate stream decodes to: up to its final block, or as far as it
\* goes.  A cell of it decodes to several bytes.
Inflate(input) ==
  LET finals == {k \in DOMAIN input : input[k].last} IN
  FlattenSeq([k \in 1..(IF finals = {} THEN Len(input) ELSE FirstOf(finals)) |->
              input[k].bytes])

\* decompress: the one-shot decoder wants all of the input, a final block and
\* a size that is large enough; what it refuses goes to the streaming one,
\* which stops at the end of the input or at its cap.  Neither looks at the
\* CRC.
Decompress(r, input) ==
  LET out == Inflate(input)
      oneshot == /\ r.size \in 1..OneShot /\ r.comp \in 1..OneShot
                 /\ Len(input) = r.comp /\ Len(out) <= r.size
                 /\ \E k \in DOMAIN input : input[k].last IN
  CASE r.method = "store" -> [error |-> "none", data |-> input]
    [] r.method = "deflate" ->
         [error |-> "none",
          data |-> IF oneshot THEN out ELSE SubSeq(out, 1, Least(Len(out), HardCap))]
    [] OTHER -> Disabled

\* extract_entry of the first record with the name.
ExtractEntry(f, r) ==
  LET p == LocatePayload(f, r) IN
  IF r.lfh = Unreadable THEN Corrupted
  ELSE IF r.encrypted THEN Disabled
  ELSE IF p.error # "none" THEN p
  ELSE Decompress(r, SubSeq(f, p.at + 1, Least(p.at + r.comp, Len(f))))
=============================================================================
