------------------------- MODULE SerialExtractProofs -------------------------
(***************************************************************************)
(* Proofs about SerialExtract, for any archives, names, options, limits    *)
(* and files at the destination.                                           *)
(*                                                                         *)
(* The four backends have a loop each, of a dozen ways an entry can go.    *)
(* ExtractStep brings them down to six shapes: the entry stops the call, *)
(* is passed, is a folder, is stored, breaks off halfway, or joins another *)
(* file as a hard link.  PutWrites and JoinsWrites say of those that write *)
(* what they do to the disk (Wrote), and each part of the invariant is     *)
(* then kept by shape and not by backend.  The sums of OkIsComplete are    *)
(* handled by their smallest counterexample.                               *)
(***************************************************************************)
EXTENDS SerialExtract, WellFoundedInduction, TLAPS

-----------------------------------------------------------------------------
(* The invariant.                                                          *)

Fates == [what : {"skipped", "extracted", "passed"}, at : Paths \cup {Nowhere}]
Reports == [extracted : Nat, skipped : Nat, bytes : Nat, tested : Nat, corrupted : Seq(Nat)]
Datas == [by : Nat, len : Nat]

\* What the call was given stays what it is.
Setting ==
  /\ setup.archive \in Archives /\ setup.mode \in {"extract", "test"}
  /\ setup.overwrite \in Policies /\ setup.cap \in Caps /\ setup.old \in Olds

Shape ==
  /\ pc \in {"begin", "tick", "entry", "returned"} /\ result \in Outcomes
  /\ i \in 1..(Len(entries) + 1) /\ fate \in Seq(Fates) /\ Len(fate) = i - 1
  /\ pc = "entry" => i <= Len(entries)
  /\ result = "ok" => i = Len(entries) + 1
  /\ data \in Seq(Datas) /\ file \in [Paths -> 0..Len(data)]
  /\ \A k \in DOMAIN data : data[k].by <= Len(entries)
  /\ report \in Reports /\ produced \in Nat

Extra == IF backend \in {"tar", "7z"} THEN 1 ELSE 0

\* What came out of entries is what the report says, until the call fails.
Bounded ==
  /\ pc # "returned" => produced = report.bytes
  /\ report.bytes <= produced
  /\ setup.cap > 0 => report.bytes <= setup.cap /\ produced <= setup.cap + Extra

\* The report adds up the entries it has dealt with.
Accounted ==
  setup.mode = "extract" =>
    /\ report.extracted + report.skipped = Len(fate)
    /\ report.bytes = Written[Len(fate)]

\* Where an extracted file is, and what may have become of it.
Lasting ==
  setup.mode = "extract" =>
    \A k \in DOMAIN fate : Landed(k) =>
      /\ fate[k].at \in Paths /\ file[fate[k].at] # 0
      /\ \/ Held(k) = [by |-> k, len |-> Body(k).len]
         \/ Held(k).by > k
         \/ \E l \in (k + 1)..Len(fate) : entries[l].kind = "hard" /\ fate[l].what = "extracted"

\* Old files are kept, and their names are the old ones or made by links.
OldOnes ==
  /\ DOMAIN setup.old \subseteq DOMAIN data /\ OldFilesKept
  /\ \A q \in Paths : file[q] \in DOMAIN setup.old => q \in setup.old[file[q]] \/ Linked(q)

\* Whatever data is of a RAR entry is all of it, unless its copy has failed.
WholeData ==
  backend = "rar" =>
    \A k \in DOMAIN data : data[k].by # 0 =>
      \/ Torn(data[k].by)
      \/ data[k].len = entries[data[k].by].len /\ ~entries[data[k].by].hidden

\* The inductive invariant.
SerialInv == Setting /\ Shape /\ Bounded /\ Accounted /\ Lasting /\ OldOnes /\ WholeData

\* The damaged entries that were tested are named, in order, and no other one
\* that is the first of its name.
Found ==
  setup.mode = "test" =>
    /\ ToSet(report.corrupted) \cap Heads = {k \in Damaged \cap Heads : k < i}
    /\ \A k \in DOMAIN report.corrupted : report.corrupted[k] < i
    /\ \A j, k \in DOMAIN report.corrupted : j < k => report.corrupted[j] < report.corrupted[k]

-----------------------------------------------------------------------------
(* Numbers, names and entries.                                             *)

\* A set of numbers has a smallest member.
LEMMA Smallest ==
  ASSUME NEW T, T \subseteq Nat, T # {}
  PROVE  \E n \in T : \A m \in T : n <= m
<1>1. PICK n \in T : \A m \in T : ~(<<m, n>> \in OpToRel(<, Nat))
  BY NatLessThanWellFounded, WFMin
<1>2. \A m \in T : ~(m < n)
  BY <1>1 DEF OpToRel
<1>3. n \in Int /\ \A m \in T : m \in Int
  OBVIOUS
<1> QED
  BY <1>2, <1>3

\* What is given: the archive's entries, the backend and the options.
LEMMA Given ==
  ASSUME Setting
  PROVE  /\ entries \in Seq(EntryTypes) /\ Len(entries) \in Nat
         /\ backend \in {"serial", "tar", "7z", "rar"}
         /\ backend = "rar" => \A k \in DOMAIN entries : entries[k].fault # "silent"
         /\ setup.mode \in {"extract", "test"}
         /\ setup.overwrite \in {"never", "always", "rename", "skip"} /\ setup.cap \in Nat
         /\ setup.old \in Seq(SUBSET Paths)
         /\ \A k, l \in DOMAIN setup.old : setup.old[k] \cap setup.old[l] # {} => k = l
<1>1. /\ setup.archive \in Archives /\ setup.overwrite \in Policies /\ setup.cap \in Caps
      /\ setup.old \in Olds /\ setup.mode \in {"extract", "test"}
  BY DEF Setting
<1>2. /\ entries \in Seq(EntryTypes) /\ backend \in {"serial", "tar", "7z", "rar"}
      /\ backend = "rar" => \A k \in DOMAIN entries : entries[k].fault # "silent"
  BY <1>1, SerialAssumption DEF entries, backend
<1>3. Len(entries) \in Nat
  BY <1>2
<1>4. /\ setup.overwrite \in {"never", "always", "rename", "skip"} /\ setup.cap \in Nat
  BY <1>1, SerialAssumption
<1>5. /\ setup.old \in Seq(SUBSET Paths)
      /\ \A k, l \in DOMAIN setup.old : setup.old[k] \cap setup.old[l] # {} => k = l
  BY <1>1, SerialAssumption
<1> QED
  BY <1>1, <1>2, <1>3, <1>4, <1>5

\* The entry at hand is one of the archive.
LEMMA EntryIs ==
  ASSUME Setting, i \in 1..Len(entries)
  PROVE  /\ e \in EntryTypes /\ e = entries[i] /\ i \in Nat /\ i > 0
         /\ e.size \in Nat /\ e.len \in Nat
         /\ e.kind \in {"file", "dir", "link", "hard"}
         /\ e.fault \in {"none", "silent", "broken", "password"}
         /\ backend = "rar" => e.fault # "silent"
<1>1. entries \in Seq(EntryTypes)
      /\ (backend = "rar" => \A k \in DOMAIN entries : entries[k].fault # "silent")
  BY Given
<1>2. e \in EntryTypes /\ e = entries[i] /\ i \in DOMAIN entries
  BY <1>1 DEF e
<1> QED
  BY <1>1, <1>2 DEF EntryTypes

\* The entry that is read for another one is one of the archive; it is that one
\* where the loops go by number, and for the first entry of a name.
LEMMA BodyIs ==
  ASSUME Setting, NEW k \in DOMAIN entries
  PROVE  /\ Body(k) \in EntryTypes
         /\ setup.mode = "extract" /\ backend # "serial" => Body(k) = entries[k]
         /\ k \in Heads => Body(k) = entries[k]
<1> DEFINE T == {j \in 1..k : entries[j].path = entries[k].path}
<1>1. entries \in Seq(EntryTypes) /\ DOMAIN entries = 1..Len(entries) /\ Len(entries) \in Nat
  BY Given
<1>2. k \in Nat /\ k \in T /\ T \subseteq Nat /\ T \subseteq DOMAIN entries
  BY <1>1
<1>3. First(k) \in T
  <2>1. First(k) = CHOOSE x \in T : \A y \in T : x <= y
    BY DEF First, Min
  <2> HIDE DEF T
  <2>2. \E x \in T : \A y \in T : x <= y
    BY <1>2, Smallest
  <2> QED
    BY <2>1, <2>2
<1> QED
  BY <1>1, <1>2, <1>3 DEF Body, ByName, Heads

\* The entry that is read for the one at hand.
LEMMA BodyAt ==
  ASSUME Setting, i \in 1..Len(entries)
  PROVE  /\ body.len \in Nat /\ body.fault \in {"none", "silent", "broken", "password"}
         /\ setup.mode = "extract" /\ backend # "serial" => body = e
         /\ i \in Heads => body = e
<1>1. i \in DOMAIN entries
  BY Given
<1> QED
  BY <1>1, BodyIs DEF body, e, EntryTypes

\* A place that an entry may be written to: it is free, the host chose always,
\* or there is no other number left.
AllTaken(q) == \A j \in 1..MaxKeep : file[<<q[1], j>>] # 0
Target(q) ==
  /\ q \in Paths
  /\ file[q] = 0 \/ setup.overwrite = "always" \/ AllTaken(q)

\* The place that unique_extract_path gives is free, or none is.
LEMMA UniqueIs ==
  ASSUME NEW q \in Paths, q[2] = 1, file[q] # 0, file \in [Paths -> Nat]
  PROVE  /\ UniqueExtractPath(q) \in Paths
         /\ file[UniqueExtractPath(q)] = 0 \/ AllTaken(UniqueExtractPath(q))
<1> DEFINE free == {k \in 2..MaxKeep : file[<<q[1], k>>] = 0}
           least == CHOOSE k \in free : \A j \in free : k <= j
<1>1. MaxKeep \in Nat /\ q[1] \in Names /\ \A k \in 1..MaxKeep : <<q[1], k>> \in Paths
  BY SerialAssumption DEF Paths
<1>2. q = <<q[1], 1>>
  BY DEF Paths
<1>3. CASE free = {}
  <2>1. UniqueExtractPath(q) = q
    BY <1>3 DEF UniqueExtractPath
  <2>2. ASSUME NEW j \in 1..MaxKeep PROVE file[<<q[1], j>>] # 0
    <3>1. CASE j = 1
      BY <1>2, <3>1
    <3>2. CASE j # 1
      <4>1. j \in 2..MaxKeep
        BY <1>1, <3>2
      <4> QED
        BY <1>3, <4>1
    <3> QED
      BY <3>1, <3>2
  <2> QED
    BY <2>1, <2>2 DEF AllTaken
<1>4. CASE free # {}
  <2>1. free \subseteq Nat
    BY <1>1
  <2>2. \E k \in free : \A j \in free : k <= j
    BY <1>4, <2>1, Smallest
  <2>3. least \in free
    BY <2>2
  <2>4. UniqueExtractPath(q) = <<q[1], least>>
    BY <1>4 DEF UniqueExtractPath
  <2> HIDE DEF least
  <2>5. least \in 1..MaxKeep /\ file[<<q[1], least>>] = 0
    BY <1>1, <2>3
  <2> QED
    BY <1>1, <2>4, <2>5
<1> QED
  BY <1>3, <1>4

\* Where an entry goes is a place it may be written to.
LEMMA DestinationIs ==
  ASSUME Setting, Shape, e.path \in Names, file[p] = 0 \/ setup.overwrite \in {"always", "rename"}
  PROVE  Target(Destination)
<1>1. p \in Paths /\ p[2] = 1 /\ file \in [Paths -> Nat]
  BY SerialAssumption DEF Paths, p, Shape
<1>2. CASE file[p] # 0 /\ setup.overwrite = "rename"
  BY <1>1, <1>2, UniqueIs DEF Target, Destination
<1>3. CASE ~(file[p] # 0 /\ setup.overwrite = "rename")
  BY <1>1, <1>3 DEF Target, Destination
<1> QED
  BY <1>2, <1>3

-----------------------------------------------------------------------------
(* What an entry's step may be.                                            *)

Same == UNCHANGED <<i, report, fate>>
Untouched == UNCHANGED <<file, data, produced>>

\* The call ends, with or without having written something.
Ended == pc' = "returned" /\ Same /\ result' \in Outcomes \ {"ok"}

\* The entry is done and the next one is at hand.
Dealt(what, q) ==
  /\ pc' = "tick" /\ i' = i + 1 /\ UNCHANGED result
  /\ fate' = Append(fate, [what |-> what, at |-> q])
Counted(n, q) ==
  /\ Dealt("extracted", q)
  /\ report' = [report EXCEPT !.extracted = @ + 1, !.bytes = @ + n]
  /\ produced' = produced + n

Stops == Ended /\ Untouched
Passes ==
  /\ Dealt("skipped", Nowhere)
  /\ report' = [report EXCEPT !.skipped = @ + 1]
  /\ Untouched
Folder == e.kind = "dir" /\ Counted(0, Nowhere) /\ UNCHANGED <<file, data>>

\* n bytes more stay under the cap.
Fits(n) == n \in Nat /\ (setup.cap > 0 => n <= Budget)

Stores(q, n) ==
  /\ Target(q) /\ Fits(n) /\ Counted(n, q)
  /\ Put(q, i, n) \/ Replace(q, i, n)
  /\ \/ e.kind = "file" /\ n = body.len /\ (backend = "rar" => ~e.hidden)
     \/ e.kind = "link" /\ n = 0 /\ backend # "rar"

Joins(q, t) ==
  /\ Target(q) /\ t \in Paths /\ file[t] # 0
  /\ e.kind = "hard" /\ backend = "tar" /\ Counted(0, q)
  /\ \/ file[q] = 0 /\ file' = [file EXCEPT ![q] = file[t]] /\ UNCHANGED data
     \/ file[q] = file[t] /\ data' = [data EXCEPT ![file[t]].len = 0] /\ UNCHANGED file
     \/ Put(q, data[file[t]].by, data[file[t]].len)

Breaks(q, n) ==
  /\ Target(q) /\ Put(q, i, n) /\ e.kind = "file"
  /\ Ended /\ (backend = "rar" => result' = "io" /\ ~setup.host.one_volume)
  /\ n \in Nat /\ produced' = produced + n
  /\ setup.cap > 0 => n <= Budget + Extra

Extracts ==
  \/ Stops \/ Passes \/ Folder
  \/ \E q \in Paths, n \in Nat : Stores(q, n) \/ Breaks(q, n)
  \/ \E q, t \in Paths : Joins(q, t)

\* A failure ends the call, and a stashed one is looked at.
LEMMA FailIs ==
  ASSUME NEW r \in Outcomes \ {"ok"}, Fail(r)
  PROVE  Ended
BY DEF Fail, SevenZReturns, Ended, Same

\* So does a failure that leaves everything else alone.
LEMMA AbortIs ==
  ASSUME NEW r \in Outcomes \ {"ok"}, Abort(r)
  PROVE  Stops
BY FailIs DEF Abort, Stops, Untouched, disk

\* A skipped entry is counted as skipped and leaves the disk alone.
LEMMA SkipIs ==
  ASSUME Skip
  PROVE  Passes
BY DEF Skip, Advance, Passes, Dealt, Untouched, disk

\* The gates let pass, stop, skip or count a directory.
LEMMA GatesAre ==
  ASSUME NEW r \in Outcomes \ {"ok"}, Gates(r), produced \in Nat
  PROVE  Extracts
<1>1. "bomb" \in Outcomes \ {"ok"} /\ "traversal" \in Outcomes \ {"ok"}
  BY DEF Outcomes
<1>2. CASE Abort(r) \/ Abort("traversal")
  BY <1>1, <1>2, AbortIs DEF Extracts
<1>3. CASE Skip
  BY <1>3, SkipIs DEF Extracts
<1>4. CASE e.kind = "dir" /\ Count(0, Nowhere) /\ UNCHANGED <<disk, bomb, produced>>
  <2>1. Folder
    BY <1>4 DEF Folder, Counted, Count, Advance, Dealt, disk
  <2> QED
    BY <2>1 DEF Extracts
<1> QED
  BY <1>2, <1>3, <1>4 DEF Gates

\* An existing file stops its entry or has it skipped.
LEMMA ExistingIs ==
  ASSUME NEW r \in Outcomes \ {"ok"}, Existing(r)
  PROVE  Extracts
BY AbortIs, SkipIs DEF Existing, Extracts

Entering == Setting /\ Shape /\ i \in 1..Len(entries)

\* What is left of the cap is a number, and an entry that is not over it fits.
LEMMA BudgetIs ==
  ASSUME Entering
  PROVE  /\ Budget \in Nat /\ Fits(Budget) /\ Fits(0)
         /\ \A n \in Nat : ~Over(n) => Fits(n)
<1>1. setup.cap \in Nat /\ report.bytes \in Nat
  BY Given DEF Entering, Shape, Reports
<1>2. Budget \in Nat
  BY <1>1 DEF Budget
<1>3. \A n \in Nat : ~Over(n) => Fits(n)
  BY <1>1, <1>2 DEF Over, Fits
<1> QED
  BY <1>2, <1>3 DEF Fits

\* What CappedWriter lets through.
LEMMA CappedIs ==
  ASSUME Entering, NEW o \in CappedWriter
  PROVE  /\ Fits(o.got) /\ o.end \in {"ok", "bomb", "error"}
         /\ o.end = "ok" => o.got = body.len
         /\ o.end = "error" => body.fault \in {"broken", "password"}
<1>1. body.len \in Nat /\ Budget \in Nat
  BY BodyAt, BudgetIs DEF Entering
<1>2. CASE o \in Reading(body) /\ ~Over(o.got)
  BY <1>1, <1>2, BudgetIs DEF Reading
<1>3. CASE Over(body.len) /\ o = [got |-> Budget, end |-> "bomb"]
  BY <1>1, <1>3, BudgetIs
<1>4. CASE ~Over(body.len) /\ o = [got |-> body.len, end |-> "ok"]
  BY <1>1, <1>4, BudgetIs
<1> QED
  BY <1>2, <1>3, <1>4 DEF CappedWriter

\* What the bounded copy lets through: a byte more when it fails.
LEMMA CopiedIs ==
  ASSUME Entering, NEW o \in CopyCapped, backend \in {"tar", "7z"}
  PROVE  /\ o.got \in Nat /\ o.end \in {"ok", "bomb", "error"}
         /\ setup.cap > 0 => o.got <= Budget + Extra
         /\ o.end = "ok" => o.got = e.len /\ Fits(o.got)
         /\ o.end = "error" => e.fault \in {"broken", "password"}
<1>1. e.len \in Nat /\ Budget \in Nat /\ Extra = 1
  BY EntryIs, BudgetIs DEF Entering, Extra
<1>2. CASE o \in Reading(e) /\ ~Over(o.got)
  BY <1>1, <1>2, BudgetIs DEF Reading, Fits
<1>3. CASE Over(e.len) /\ o = [got |-> Budget + 1, end |-> "bomb"]
  BY <1>1, <1>3
<1>4. CASE ~Over(e.len) /\ o = [got |-> e.len, end |-> "ok"]
  BY <1>1, <1>4, BudgetIs DEF Fits
<1> QED
  BY <1>2, <1>3, <1>4 DEF CopyCapped

\* Place and outcomes of an entry that is written.
LEMMA WritesTo ==
  ASSUME Entering, NEW kind, Writes(kind)
  PROVE  e.kind = kind /\ Target(Destination) /\ Destination \in Paths
<1>1. e.path \in Names /\ e.kind = kind /\ (file[p] = 0 \/ setup.overwrite \in {"always", "rename"})
  BY DEF Writes, Placed, Escapes
<1> QED
  BY <1>1, DestinationIs DEF Entering, Target

\* The reasons for which a call fails are outcomes.
LEMMA BombOutcome == {"bomb", "backend", "exists", "traversal", "canceled", "no space",
                      "corrupted", "broken", "password", "io"} \subseteq Outcomes \ {"ok"}
BY DEF Outcomes

\* A file of which all is written is stored, and what is torn ends the call.
LEMMA FileIs ==
  ASSUME Entering, Writes("file"), backend # "rar",
         NEW o, o.got \in Nat, o.end \in {"ok", "bomb", "error"},
         setup.cap > 0 => o.got <= Budget + Extra,
         o.end = "ok" => o.got = body.len /\ Fits(o.got),
         Put(Destination, i, o.got), produced' = produced + o.got,
         \/ o.end = "ok" /\ Count(o.got, Destination)
         \/ \E r \in Outcomes \ {"ok"} : Fail(r)
  PROVE  Extracts
<1>1. e.kind = "file" /\ Target(Destination) /\ Destination \in Paths
  BY WritesTo
<1>2. CASE o.end = "ok" /\ Count(o.got, Destination)
  <2>1. Counted(o.got, Destination)
    BY <1>2 DEF Counted, Count, Advance, Dealt
  <2>2. Stores(Destination, o.got)
    BY <1>1, <1>2, <2>1 DEF Stores
  <2> QED
    BY <1>1, <2>2 DEF Extracts
<1>3. CASE \E r \in Outcomes \ {"ok"} : Fail(r)
  <2>1. Ended
    BY <1>3, FailIs
  <2>2. Breaks(Destination, o.got)
    BY <1>1, <2>1 DEF Breaks
  <2> QED
    BY <1>1, <2>2 DEF Extracts
<1> QED
  BY <1>2, <1>3

\* tar and 7z.
LEMMA WriteFileIs ==
  ASSUME Entering, WriteFile(CopyCapped), setup.mode = "extract",
         backend \in {"tar", "7z"}
  PROVE  Extracts
<1>1. PICK o \in CopyCapped :
        /\ Put(Destination, i, o.got) /\ produced' = produced + o.got
        /\ IF o.end = "ok" THEN Count(o.got, Destination)
           ELSE Fail(IF o.end = "bomb" THEN "bomb" ELSE e.fault)
  BY DEF WriteFile
<1>2. /\ o.got \in Nat /\ o.end \in {"ok", "bomb", "error"}
      /\ setup.cap > 0 => o.got <= Budget + Extra
      /\ o.end = "ok" => o.got = e.len /\ Fits(o.got)
      /\ o.end = "error" => e.fault \in {"broken", "password"}
  BY CopiedIs
<1>4. body = e
  BY BodyAt DEF Entering
<1>3. \/ o.end = "ok" /\ Count(o.got, Destination)
      \/ \E r \in Outcomes \ {"ok"} : Fail(r)
  <2>1. CASE o.end = "ok"
    BY <1>1, <2>1
  <2>2. CASE o.end # "ok"
    <3>1. (IF o.end = "bomb" THEN "bomb" ELSE e.fault) \in Outcomes \ {"ok"}
      BY <1>2, <2>2, BombOutcome
    <3> QED
      BY <1>1, <2>2, <3>1
  <2> QED
    BY <2>1, <2>2
<1> QED
  BY <1>1, <1>2, <1>3, <1>4, FileIs DEF WriteFile

\* The generic loop, whose monitor may speak after the write.
LEMMA SerialFileIs ==
  ASSUME Entering, SerialFile, backend = "serial"
  PROVE  Extracts
<1>1. PICK o \in CappedWriter :
        /\ Put(Destination, i, o.got) /\ produced' = produced + o.got
        /\ \/ o.end = "ok" /\ (Fail("bomb") \/ Count(o.got, Destination))
           \/ o.end # "ok" /\ Fail(IF o.end = "bomb" THEN "bomb" ELSE body.fault)
  BY DEF SerialFile
<1>2. /\ Fits(o.got) /\ o.end \in {"ok", "bomb", "error"}
      /\ o.end = "ok" => o.got = body.len
      /\ o.end = "error" => body.fault \in {"broken", "password"}
  BY CappedIs
<1>3. o.got \in Nat /\ (setup.cap > 0 => o.got <= Budget + Extra)
  BY <1>2, BudgetIs DEF Fits, Extra
<1>4. \/ o.end = "ok" /\ Count(o.got, Destination)
      \/ \E r \in Outcomes \ {"ok"} : Fail(r)
  <2>1. CASE o.end = "ok"
    BY <1>1, <2>1, BombOutcome
  <2>2. CASE o.end # "ok"
    <3>1. (IF o.end = "bomb" THEN "bomb" ELSE body.fault) \in Outcomes \ {"ok"}
      BY <1>2, <2>2, BombOutcome
    <3> QED
      BY <1>1, <2>2, <3>1
  <2> QED
    BY <2>1, <2>2
<1> QED
  BY <1>1, <1>2, <1>3, <1>4, FileIs DEF SerialFile

\* A symbolic link takes the place of what is there.
LEMMA LinkIs ==
  ASSUME Entering, Writes("link"), NEW target, NEW readable, MakeLink(target, readable), backend # "rar",
         produced \in Nat
  PROVE  Extracts
<1>1. e.kind = "link" /\ Target(Destination) /\ Destination \in Paths
  BY WritesTo
<1>2. CASE Skip
  BY <1>2, SkipIs DEF Extracts
<1>3. CASE Replace(Destination, i, 0) /\ Count(0, Destination) /\ UNCHANGED <<bomb, produced>>
  <2>1. Counted(0, Destination)
    BY <1>3 DEF Counted, Count, Advance, Dealt
  <2>2. Stores(Destination, 0)
    BY <1>1, <1>3, <2>1, BudgetIs DEF Stores
  <2> QED
    BY <1>1, <2>2 DEF Extracts
<1> QED
  BY <1>2, <1>3 DEF MakeLink

\* A hard-link entry joins the file it names, or is told off.
LEMMA HardLinkIs ==
  ASSUME Entering, TarHardLink, backend = "tar"
  PROVE  Extracts
<1>1. e.kind = "hard" /\ Target(Destination) /\ Destination \in Paths
  BY WritesTo DEF TarHardLink
<1> DEFINE t == <<e.target, 1>>
           q == Destination
<1>2. CASE Abort("traversal") \/ Skip
  BY <1>2, BombOutcome, AbortIs, SkipIs DEF Extracts
<1>3. CASE /\ e.target \in Names /\ file[t] # 0
           /\ IF file[q] = 0 /\ setup.host.one_volume
              THEN file' = [file EXCEPT ![q] = file[t]] /\ UNCHANGED data
              ELSE IF file[q] = file[t]
              THEN data' = [data EXCEPT ![file[t]].len = 0] /\ UNCHANGED file
              ELSE Put(q, data[file[t]].by, data[file[t]].len)
           /\ Count(0, q) /\ UNCHANGED <<bomb, produced>>
  <2>1. t \in Paths /\ produced \in Nat
    BY <1>3, SerialAssumption DEF Paths, Entering, Shape
  <2>2. Counted(0, q)
    BY <1>3, <2>1 DEF Counted, Count, Advance, Dealt
  <2> HIDE DEF t, q
  <2>3. Joins(q, t)
    BY <1>1, <1>3, <2>1, <2>2 DEF Joins, q
  <2> QED
    BY <1>1, <2>1, <2>3 DEF Extracts, q
<1> QED
  BY <1>2, <1>3 DEF TarHardLink

\* RAR: the gates.
LEMMA RarUnplacedIs ==
  ASSUME Entering, RarUnplaced
  PROVE  Extracts
<1>1. CASE Abort("bomb") \/ Abort("no space") \/ Abort("traversal") \/ Skip
  BY <1>1, BombOutcome, AbortIs, SkipIs DEF Extracts
<1>2. CASE e.kind = "dir" /\ Count(0, Nowhere) /\ UNCHANGED <<disk, bomb, produced>>
  <2>1. Folder
    BY <1>2 DEF Folder, Counted, Count, Advance, Dealt, disk, Entering, Shape
  <2> QED
    BY <2>1 DEF Extracts
<1> QED
  BY <1>1, <1>2 DEF RarUnplaced

\* RAR: an entry is published whole, or the copy of it fails.
LEMMA RarPublishIs ==
  ASSUME Entering, backend = "rar", setup.mode = "extract", RarPublish, ~Capped, ~Escapes,
         e.kind # "dir"
  PROVE  Extracts
<1>1. /\ e.fault \in {"none", "broken", "password"} /\ e.len \in Nat /\ e.size \in Nat
      /\ report.bytes \in Nat /\ setup.cap \in Nat /\ body = e
  BY EntryIs, BodyAt, Given DEF Entering, Shape, Reports
<1>2. CASE e.fault # "none" /\ Abort(e.fault)
  BY <1>1, <1>2, BombOutcome, AbortIs DEF Extracts
<1>3. CASE Abort("corrupted") \/ Abort("exists") \/ Skip
  BY <1>3, BombOutcome, AbortIs, SkipIs DEF Extracts
<1>4. CASE /\ e.kind = "file" /\ ~e.hidden /\ e.len <= e.size
           /\ file[p] = 0 \/ setup.overwrite \in {"always", "rename"}
           /\ RenameOrCopy
  <2>1. Target(Destination) /\ Destination \in Paths
    BY <1>4, DestinationIs DEF Escapes, Entering, Target
  <2>2. Fits(e.len)
    BY <1>1, <1>4 DEF Fits, Budget, Capped
  <2>3. CASE /\ Replace(Destination, i, e.len) \/ Put(Destination, i, e.len)
             /\ produced' = produced + e.len /\ Count(e.len, Destination)
    <3>1. Counted(e.len, Destination)
      BY <2>3 DEF Counted, Count, Advance, Dealt
    <3>2. Stores(Destination, e.len)
      BY <1>1, <1>4, <2>1, <2>2, <2>3, <3>1 DEF Stores
    <3> QED
      BY <1>1, <2>1, <3>2 DEF Extracts
  <2>4. ASSUME ~setup.host.one_volume, NEW n \in 0..e.len, Put(Destination, i, n),
               produced' = produced + n, Fail("io")
        PROVE  Extracts
    <3>1. Ended /\ result' = "io"
      BY <2>4, BombOutcome, FailIs DEF Fail
    <3>2. n \in Nat /\ (setup.cap > 0 => n <= Budget + Extra)
      BY <1>1, <2>2, BudgetIs DEF Fits, Extra
    <3>3. Breaks(Destination, n)
      BY <1>4, <2>1, <2>4, <3>1, <3>2 DEF Breaks
    <3> QED
      BY <2>1, <3>2, <3>3 DEF Extracts
  <2> QED
    BY <1>4, <2>3, <2>4 DEF RenameOrCopy
<1> QED
  BY <1>2, <1>3, <1>4 DEF RarPublish

\* Whatever the backend, a step is one of these.
LEMMA ExtractStep ==
  ASSUME Setting, Shape, Entry, setup.mode = "extract"
  PROVE  Extracts
<1>1. Entering /\ produced \in Nat /\ backend \in {"serial", "tar", "7z", "rar"}
  BY Given DEF Entering, Shape, Entry
<1>2. CASE backend = "serial"
  <2>1. SerialEntry
    BY <1>2 DEF Entry
  <2> QED
    BY <1>1, <1>2, <2>1, BombOutcome, GatesAre, ExistingIs, LinkIs, SerialFileIs DEF SerialEntry
<1>3. CASE backend = "tar"
  <2>1. TarEntry
    BY <1>3 DEF Entry
  <2> QED
    BY <1>1, <1>3, <2>1, BombOutcome, GatesAre, ExistingIs, LinkIs, HardLinkIs, WriteFileIs
       DEF TarEntry
<1>4. CASE backend = "7z"
  <2>1. SevenZEntry
    BY <1>4 DEF Entry
  <2> QED
    BY <1>1, <1>4, <2>1, BombOutcome, GatesAre, ExistingIs, WriteFileIs DEF SevenZEntry
<1>5. CASE backend = "rar"
  <2>1. RarEntry
    BY <1>5 DEF Entry
  <2> QED
    BY <1>1, <1>5, <2>1, RarUnplacedIs, RarPublishIs DEF RarEntry
<1> QED
  BY <1>1, <1>2, <1>3, <1>4, <1>5

\* A test leaves the disk alone and goes on to the next entry, or fails.
Tests ==
  /\ Untouched /\ report' \in Reports
  /\ report'.bytes = report.bytes
  /\ \/ Ended
     \/ Dealt("passed", Nowhere)

\* TestEntry does that.
LEMMA TestStep ==
  ASSUME Setting, Shape, Entry, setup.mode = "test"
  PROVE  Tests
<1>1. TestEntry /\ Entering /\ report \in Reports
  BY DEF Entry, Entering, Shape
<1>2. i \in Nat
  BY <1>1 DEF Entering
<1>3. report' = report \/ report' = [report EXCEPT !.corrupted = Append(@, i)]
      \/ report' = [report EXCEPT !.tested = @ + 1]
      \/ report' = [report EXCEPT !.corrupted = Append(@, i), !.tested = @ + 1]
  BY <1>1 DEF TestEntry, Corrupted, Fail, Reports
<1>4. report' \in Reports /\ report'.bytes = report.bytes
  <2>1. Append(report.corrupted, i) \in Seq(Nat) /\ report.tested + 1 \in Nat
    BY <1>1, <1>2 DEF Reports
  <2> QED
    BY <1>1, <1>3, <2>1 DEF Reports
<1>5. Ended \/ Dealt("passed", Nowhere)
  BY <1>1, BombOutcome, FailIs DEF TestEntry, Advance, Dealt
<1> QED
  BY <1>1, <1>4, <1>5 DEF Tests, TestEntry, Untouched, disk

-----------------------------------------------------------------------------
(* The shape of the state, and what a step does to the disk.               *)

\* The name q is written to with this data; another file may keep the old data.
Wrote(q, d) ==
  /\ data' \in Seq(Datas) /\ file' \in [Paths -> 0..Len(data')]
  /\ DOMAIN data \subseteq DOMAIN data'
  /\ file'[q] # 0 /\ data'[file'[q]] = d
  /\ \A r \in Paths \ {q} : file'[r] = file[r]
  /\ file'[q] = file[q] \/ file'[q] \notin DOMAIN data
  /\ \A k \in DOMAIN data : data'[k] = data[k] \/ k = file[q]
  /\ \A k \in DOMAIN data' : data'[k] = d \/ (k \in DOMAIN data /\ data'[k] = data[k])

\* Put and Replace do that.
LEMMA PutWrites ==
  ASSUME data \in Seq(Datas), file \in [Paths -> 0..Len(data)],
         NEW q \in Paths, NEW by \in Nat, NEW n \in Nat,
         Put(q, by, n) \/ Replace(q, by, n)
  PROVE  Wrote(q, [by |-> by, len |-> n])
<1> DEFINE d == [by |-> by, len |-> n]
           m == Len(data)
<1> SUFFICES Wrote(q, d)
  OBVIOUS
<1>1. d \in Datas /\ m \in Nat /\ DOMAIN data = 1..m
  BY DEF Datas
<1>2. Put(q, by, n) \/ Replace(q, by, n)
      => \/ file' = [file EXCEPT ![q] = m + 1] /\ data' = Append(data, d)
         \/ file[q] # 0 /\ data' = [data EXCEPT ![file[q]] = d] /\ UNCHANGED file
  BY DEF Put, Replace
<1> HIDE DEF d
<1>3. CASE file' = [file EXCEPT ![q] = m + 1] /\ data' = Append(data, d)
  <2>1. /\ data' \in Seq(Datas) /\ Len(data') = m + 1 /\ DOMAIN data' = 1..(m + 1)
        /\ data'[m + 1] = d /\ \A k \in 1..m : data'[k] = data[k]
    BY <1>1, <1>3
  <2>2. /\ file' \in [Paths -> 0..(m + 1)] /\ file'[q] = m + 1
        /\ \A r \in Paths \ {q} : file'[r] = file[r]
    BY <1>1, <1>3
  <2>3. 1..m \subseteq 1..(m + 1) /\ m + 1 \notin 1..m /\ m + 1 # 0
        /\ \A k \in 1..(m + 1) : k \in 1..m \/ k = m + 1
    BY <1>1
  <2>4. data' \in Seq(Datas) /\ file' \in [Paths -> 0..Len(data')]
    BY <2>1, <2>2
  <2>5. DOMAIN data \subseteq DOMAIN data' /\ file'[q] # 0 /\ file'[q] \notin DOMAIN data
    BY <1>1, <2>1, <2>2, <2>3
  <2>6. data'[file'[q]] = d
    BY <2>1, <2>2
  <2>7. \A k \in DOMAIN data : data'[k] = data[k]
    BY <1>1, <2>1
  <2>8. \A k \in DOMAIN data' : data'[k] = d \/ k \in DOMAIN data
    BY <1>1, <2>1, <2>3
  <2>9. \A k \in DOMAIN data' : data'[k] = d \/ (k \in DOMAIN data /\ data'[k] = data[k])
    BY <2>7, <2>8
  <2>10. \A r \in Paths \ {q} : file'[r] = file[r]
    BY <2>2
  <2> QED
    BY <2>4, <2>5, <2>6, <2>7, <2>9, <2>10 DEF Wrote
<1>4. CASE file[q] # 0 /\ data' = [data EXCEPT ![file[q]] = d] /\ UNCHANGED file
  <2>1. file[q] \in 1..m
    BY <1>1, <1>4
  <2>2. /\ data' \in Seq(Datas) /\ Len(data') = m /\ DOMAIN data' = 1..m
        /\ data'[file[q]] = d /\ \A k \in 1..m : k # file[q] => data'[k] = data[k]
    BY <1>1, <1>4, <2>1
  <2>3. file' = file /\ file \in [Paths -> 0..m]
    BY <1>4
  <2>4. data' \in Seq(Datas) /\ file' \in [Paths -> 0..Len(data')]
    BY <2>2, <2>3
  <2>5. DOMAIN data = DOMAIN data' /\ file'[q] # 0 /\ file'[q] = file[q]
    BY <1>1, <1>4, <2>2, <2>3
  <2>6. data'[file'[q]] = d
    BY <2>2, <2>3
  <2>7. \A k \in DOMAIN data : k # file[q] => data'[k] = data[k]
    BY <1>1, <2>2
  <2>8. \A k \in DOMAIN data' : data'[k] = d \/ (k \in DOMAIN data /\ data'[k] = data[k])
    BY <2>5, <2>6, <2>7
  <2>9. (\A r \in Paths \ {q} : file'[r] = file[r])
        /\ (\A k \in DOMAIN data : data'[k] = data[k] \/ k = file[q])
    BY <2>3, <2>7
  <2> QED
    BY <2>4, <2>5, <2>6, <2>8, <2>9 DEF Wrote
<1> QED
  BY <1>2, <1>3, <1>4

\* A hard-link entry that joins a file either makes a name of it or writes.
LEMMA JoinsWrites ==
  ASSUME Setting, Shape, NEW q \in Paths, NEW t \in Paths, Joins(q, t)
  PROVE  \/ /\ file[q] = 0 /\ file' = [file EXCEPT ![q] = file[t]] /\ UNCHANGED data
            /\ file[t] \in DOMAIN data
         \/ \E d \in Datas : d.by <= Len(entries) /\ Wrote(q, d)
<1>1. /\ data \in Seq(Datas) /\ file \in [Paths -> 0..Len(data)] /\ file[t] \in DOMAIN data
      /\ \A k \in DOMAIN data : data[k].by <= Len(entries)
  <2>1. file[t] # 0 /\ data \in Seq(Datas) /\ file \in [Paths -> 0..Len(data)]
    BY DEF Joins, Shape
  <2> QED
    BY <2>1 DEF Shape
<1> DEFINE k == file[t]
           m == Len(data)
<1>2. /\ data[k] \in Datas /\ data[k].by \in Nat /\ data[k].len \in Nat
      /\ m \in Nat /\ DOMAIN data = 1..m
  <2>1. data[k] \in Datas
    BY <1>1
  <2>2. m \in Nat /\ DOMAIN data = 1..m
    BY <1>1
  <2> QED
    BY <2>1, <2>2 DEF Datas
<1>3. CASE file[q] = k /\ data' = [data EXCEPT ![k].len = 0] /\ UNCHANGED file
  <2> DEFINE d == [by |-> data[k].by, len |-> 0]
  <2>1. d \in Datas /\ d.by <= Len(entries) /\ [data[k] EXCEPT !.len = 0] = d
    BY <1>1, <1>2 DEF Datas
  <2>2. data' = [data EXCEPT ![k] = d]
    BY <1>3, <2>1
  <2> HIDE DEF d
  <2>3. /\ data' \in Seq(Datas) /\ Len(data') = m /\ DOMAIN data' = 1..m
        /\ data'[k] = d /\ \A l \in 1..m : l # k => data'[l] = data[l]
    BY <1>1, <1>2, <2>1, <2>2
  <2>4. Wrote(q, d)
    BY <1>1, <1>2, <1>3, <2>3 DEF Wrote
  <2> QED
    BY <2>1, <2>4
<1>4. CASE Put(q, data[k].by, data[k].len)
  <2> DEFINE d == [by |-> data[k].by, len |-> data[k].len]
  <2>1. d \in Datas /\ d.by <= Len(entries)
    BY <1>1, <1>2 DEF Datas
  <2>2. Wrote(q, d)
    BY <1>1, <1>2, <1>4, PutWrites
  <2> QED
    BY <2>1, <2>2
<1> QED
  BY <1>1, <1>3, <1>4 DEF Joins

\* What Stores and Breaks write.
LEMMA EntryWrites ==
  ASSUME Entering, NEW q \in Paths, NEW n \in Nat, Stores(q, n) \/ Breaks(q, n)
  PROVE  Wrote(q, [by |-> i, len |-> n])
<1>1. data \in Seq(Datas) /\ file \in [Paths -> 0..Len(data)] /\ i \in Nat
  BY DEF Entering, Shape
<1>2. Put(q, i, n) \/ Replace(q, i, n)
  BY DEF Stores, Breaks
<1> QED
  BY <1>1, <1>2, PutWrites

-----------------------------------------------------------------------------
(* Every step.                                                             *)

\* A step that does not touch the disk nor deal with an entry.
Moves ==
  /\ UNCHANGED <<i, report, fate, file, data, produced>>
  /\ pc' \in {"begin", "tick", "entry", "returned"} /\ result' \in Outcomes
  /\ pc' = "entry" => i <= Len(entries)
  /\ result' = "ok" => i = Len(entries) + 1
  /\ pc = "returned" => pc' = "returned" /\ result' = result

\* A step moves, extracts an entry or tests one, and what was given stays.
LEMMA EveryStep ==
  ASSUME Setting, Shape, [Next]_vars
  PROVE  /\ setup' = setup
         /\ \/ Moves
            \/ setup.mode = "extract" /\ pc = "entry" /\ Entering /\ Extracts
            \/ setup.mode = "test" /\ pc = "entry" /\ Entering /\ Tests /\ TestEntry
<1>0. Len(entries) \in Nat /\ i \in 1..(Len(entries) + 1)
  BY Given DEF Shape
<1>1. CASE UNCHANGED vars
  BY <1>1 DEF vars, Moves, Shape
<1>2. CASE Begin
  <2>1. CASE Abort("bomb") \/ Abort("broken")
    BY <1>2, <2>1, BombOutcome, AbortIs DEF Begin, Stops, Ended, Same, Untouched, Moves
  <2>2. CASE pc' = "tick" /\ UNCHANGED <<i, disk, report, bomb, fate, produced, result>>
    BY <1>2, <2>2 DEF Begin, disk, Moves, Shape
  <2> QED
    BY <1>2, <2>1, <2>2 DEF Begin
<1>3. CASE Tick
  <2>1. CASE i > Len(entries) /\ Fail("ok")
    <3>1. i = Len(entries) + 1
      BY <1>0, <2>1
    <3> QED
      BY <1>3, <2>1, <3>1 DEF Tick, Fail, SevenZReturns, disk, Moves, Outcomes
  <2>2. CASE i <= Len(entries) /\ pc' = "entry" /\ UNCHANGED <<i, report, fate, result>>
    BY <1>3, <2>2 DEF Tick, disk, Moves, Shape
  <2>3. CASE Fail("canceled")
    BY <1>3, <2>3 DEF Tick, Fail, SevenZReturns, disk, Moves, Outcomes
  <2> QED
    BY <1>3, <2>1, <2>2, <2>3 DEF Tick
<1>4. CASE Entry
  <2>1. setup' = setup /\ pc = "entry" /\ Entering
    BY <1>0, <1>4 DEF Entry, Entering, Shape
  <2>2. setup.mode \in {"extract", "test"}
    BY Given
  <2>3. setup.mode = "test" => TestEntry
    BY <1>4 DEF Entry
  <2> QED
    BY <1>4, <2>1, <2>2, <2>3, ExtractStep, TestStep
<1> QED
  BY <1>1, <1>2, <1>3, <1>4 DEF Next

\* What is given stays.
LEMMA SettingStep ==
  ASSUME Setting, setup' = setup
  PROVE  Setting' /\ entries' = entries /\ backend' = backend
BY DEF Setting, entries, backend

\* An entry that was dealt with is the last one of those.
LEMMA DealtIs ==
  ASSUME Shape, i \in Nat, NEW what \in {"skipped", "extracted", "passed"},
         NEW q \in Paths \cup {Nowhere}, Dealt(what, q)
  PROVE  /\ fate' \in Seq(Fates) /\ Len(fate') = i /\ i' = i + 1
         /\ fate' = Append(fate, [what |-> what, at |-> q])
         /\ [what |-> what, at |-> q] \in Fates
         /\ DOMAIN fate = 1..(i - 1) /\ DOMAIN fate' = 1..i
         /\ fate'[i] = [what |-> what, at |-> q]
         /\ \A k \in 1..(i - 1) : fate'[k] = fate[k]
<1> DEFINE x == [what |-> what, at |-> q]
<1>1. x \in Fates
  BY DEF Fates
<1>2. fate' = Append(fate, x) /\ fate \in Seq(Fates) /\ Len(fate) = i - 1 /\ i' = i + 1
  BY DEF Dealt, Shape
<1> HIDE DEF x
<1>3. /\ fate' \in Seq(Fates) /\ Len(fate') = i
      /\ DOMAIN fate = 1..(i - 1) /\ DOMAIN fate' = 1..i
      /\ fate'[i] = x /\ \A k \in 1..(i - 1) : fate'[k] = fate[k]
  BY <1>1, <1>2
<1> QED
  BY <1>1, <1>2, <1>3 DEF x

\* An entry that was extracted is reported.
LEMMA CountedIs ==
  ASSUME Shape, NEW n \in Nat, NEW q, Counted(n, q)
  PROVE  /\ report' \in Reports /\ report'.bytes = report.bytes + n
         /\ report'.extracted = report.extracted + 1 /\ report'.skipped = report.skipped
         /\ produced' = produced + n /\ Dealt("extracted", q)
<1>1. report \in Reports
  BY DEF Shape
<1>2. report' = [report EXCEPT !.extracted = @ + 1, !.bytes = @ + n]
  BY DEF Counted
<1>3. report.extracted + 1 \in Nat /\ report.bytes + n \in Nat
  BY <1>1 DEF Reports
<1>4. /\ report' \in Reports /\ report'.bytes = report.bytes + n
      /\ report'.extracted = report.extracted + 1 /\ report'.skipped = report.skipped
  BY <1>1, <1>2, <1>3 DEF Reports
<1> QED
  BY <1>4 DEF Counted

\* An entry that was skipped is reported so.
LEMMA PassesIs ==
  ASSUME Shape, Passes
  PROVE  /\ report' \in Reports /\ report'.bytes = report.bytes
         /\ report'.extracted = report.extracted /\ report'.skipped = report.skipped + 1
<1>1. report \in Reports /\ report' = [report EXCEPT !.skipped = @ + 1]
  BY DEF Shape, Passes
<1>2. report.skipped + 1 \in Nat
  BY <1>1 DEF Reports
<1> QED
  BY <1>1, <1>2 DEF Reports

\* The parts of Shape that speak of the entries, and those that speak of the disk.
Progress ==
  /\ pc \in {"begin", "tick", "entry", "returned"} /\ result \in Outcomes
  /\ i \in 1..(Len(entries) + 1) /\ fate \in Seq(Fates) /\ Len(fate) = i - 1
  /\ pc = "entry" => i <= Len(entries)
  /\ result = "ok" => i = Len(entries) + 1
OnDisk ==
  /\ data \in Seq(Datas) /\ file \in [Paths -> 0..Len(data)]
  /\ \A k \in DOMAIN data : data[k].by <= Len(entries)

\* With report and count they make up Shape.
LEMMA ShapeIs ==
  Progress' /\ OnDisk' /\ report' \in Reports /\ produced' \in Nat => Shape'
BY DEF Shape, Progress, OnDisk

\* An entry that is dealt with, or fails, leaves the progress in order.
LEMMA ProgressStep ==
  ASSUME Entering, setup' = setup, result # "ok",
         \/ Ended
         \/ \E what \in {"skipped", "extracted", "passed"}, q \in Paths \cup {Nowhere} :
              Dealt(what, q)
  PROVE  Progress'
<1>1. entries' = entries /\ Len(entries) \in Nat /\ i \in 1..Len(entries) /\ i \in Nat
  BY SettingStep, Given DEF Entering
<1>2. CASE Ended
  BY <1>1, <1>2 DEF Ended, Same, Progress, Entering, Shape
<1>3. CASE \E what \in {"skipped", "extracted", "passed"}, q \in Paths \cup {Nowhere} :
             Dealt(what, q)
  <2>1. PICK what \in {"skipped", "extracted", "passed"}, q \in Paths \cup {Nowhere} :
          Dealt(what, q)
    BY <1>3
  <2>2. fate' \in Seq(Fates) /\ Len(fate') = i /\ i' = i + 1
    BY <1>1, <2>1, DealtIs DEF Entering
  <2>3. pc' = "tick" /\ result' = result /\ result \in Outcomes
    BY <2>1 DEF Dealt, Entering, Shape
  <2> QED
    BY <1>1, <2>2, <2>3 DEF Progress
<1> QED
  BY <1>2, <1>3

\* Writing under a name leaves the disk in order.
LEMMA OnDiskStep ==
  ASSUME Entering, setup' = setup, NEW q \in Paths, NEW d \in Datas, d.by <= Len(entries),
         Wrote(q, d)
  PROVE  OnDisk'
<1>1. entries' = entries
  BY SettingStep DEF Entering
<1>2. data' \in Seq(Datas) /\ file' \in [Paths -> 0..Len(data')]
  BY DEF Wrote
<1>3. ASSUME NEW k \in DOMAIN data'
      PROVE  data'[k].by <= Len(entries)
  <2>1. CASE data'[k] = d
    BY <2>1
  <2>2. CASE k \in DOMAIN data /\ data'[k] = data[k]
    BY <2>2 DEF Entering, Shape
  <2> QED
    BY <2>1, <2>2 DEF Wrote
<1> QED
  BY <1>1, <1>2, <1>3 DEF OnDisk

\* A disk that is left alone stays in order.
LEMMA DiskKept ==
  ASSUME Shape, entries' = entries, UNCHANGED <<file, data>>
  PROVE  OnDisk'
BY DEF Shape, OnDisk

\* The shape of the state is kept.
LEMMA ShapeStep ==
  ASSUME Setting, Shape, result = "ok" => pc = "returned", [Next]_vars
  PROVE  Shape'
<1>0. setup' = setup /\ entries' = entries
  BY EveryStep, SettingStep
<1>1. CASE Moves
  BY <1>0, <1>1 DEF Moves, Shape
<1>2. ASSUME pc = "entry", Entering, setup.mode = "extract", Extracts
      PROVE  Shape'
  <2>0. /\ result # "ok" /\ i \in Nat /\ i <= Len(entries) /\ report \in Reports
        /\ produced \in Nat /\ Len(entries) \in Nat
    BY <1>2, Given DEF Entering, Shape
  <2>1. CASE Stops
    <3>1. Progress'
      BY <1>0, <1>2, <2>0, <2>1, ProgressStep DEF Stops
    <3> QED
      BY <1>0, <2>0, <2>1, <3>1, ShapeIs, DiskKept DEF Stops, Ended, Same, Untouched
  <2>2. CASE Passes
    <3>1. Progress'
      BY <1>0, <1>2, <2>0, <2>2, ProgressStep DEF Passes
    <3>2. report' \in Reports
      BY <2>2, PassesIs
    <3> QED
      BY <1>0, <2>0, <2>2, <3>1, <3>2, ShapeIs, DiskKept DEF Passes, Untouched
  <2>3. CASE Folder
    <3>1. report' \in Reports /\ produced' \in Nat /\ Dealt("extracted", Nowhere)
      BY <2>0, <2>3, CountedIs DEF Folder
    <3>2. Progress'
      BY <1>0, <1>2, <2>0, <3>1, ProgressStep
    <3> QED
      BY <1>0, <2>3, <3>1, <3>2, ShapeIs, DiskKept DEF Folder
  <2>4. ASSUME NEW q \in Paths, NEW n \in Nat, Stores(q, n) \/ Breaks(q, n)
        PROVE  Shape'
    <3>1. OnDisk'
      <4>1. [by |-> i, len |-> n] \in Datas /\ [by |-> i, len |-> n].by <= Len(entries)
        BY <2>0 DEF Datas
      <4> QED
        BY <1>0, <1>2, <2>4, <4>1, EntryWrites, OnDiskStep
    <3>2. CASE Stores(q, n)
      <4>1. report' \in Reports /\ produced' \in Nat /\ Dealt("extracted", q)
        BY <2>0, <3>2, CountedIs DEF Stores
      <4>2. Progress'
        BY <1>0, <1>2, <2>0, <4>1, ProgressStep
      <4> QED
        BY <3>1, <4>1, <4>2, ShapeIs
    <3>3. CASE Breaks(q, n)
      <4>1. report' \in Reports /\ produced' \in Nat /\ Ended
        BY <2>0, <3>3 DEF Breaks, Ended, Same
      <4>2. Progress'
        BY <1>0, <1>2, <2>0, <4>1, ProgressStep
      <4> QED
        BY <3>1, <4>1, <4>2, ShapeIs
    <3> QED
      BY <2>4, <3>2, <3>3
  <2>5. ASSUME NEW q \in Paths, NEW t \in Paths, Joins(q, t)
        PROVE  Shape'
    <3>0. Counted(0, q) /\ produced \in Nat
      BY <2>0, <2>5 DEF Joins
    <3>1. report' \in Reports /\ produced' \in Nat /\ Dealt("extracted", q)
      BY <3>0, CountedIs
    <3>2. Progress'
      BY <1>0, <1>2, <2>0, <3>1, ProgressStep
    <3>3. OnDisk'
      <4>1. CASE file' = [file EXCEPT ![q] = file[t]] /\ UNCHANGED data
        BY <1>0, <2>5, <4>1 DEF OnDisk, Shape
      <4>2. CASE \E d \in Datas : d.by <= Len(entries) /\ Wrote(q, d)
        BY <1>0, <1>2, <4>2, OnDiskStep
      <4> QED
        BY <2>5, <4>1, <4>2, JoinsWrites
    <3> QED
      BY <3>1, <3>2, <3>3, ShapeIs
  <2> QED
    BY <1>2, <2>1, <2>2, <2>3, <2>4, <2>5 DEF Extracts
<1>3. ASSUME pc = "entry", Entering, Tests
      PROVE  Shape'
  <2>1. Progress'
    BY <1>0, <1>3, ProgressStep DEF Tests
  <2> QED
    BY <1>0, <1>3, <2>1, ShapeIs, DiskKept DEF Tests, Untouched, Shape
<1> QED
  BY <1>1, <1>2, <1>3, EveryStep

\* A result is an answer.
Answered == result # "none" => pc = "returned"

\* A call that has answered does nothing more.
LEMMA AnsweredStep ==
  ASSUME Setting, Shape, Answered, [Next]_vars
  PROVE  Answered'
<1>1. CASE UNCHANGED vars
  BY <1>1 DEF vars, Answered
<1>2. CASE Begin
  BY <1>2 DEF Begin, Abort, Fail, SevenZReturns, Answered
<1>3. CASE Tick
  BY <1>3 DEF Tick, Fail, SevenZReturns, Answered
<1>4. CASE Entry
  <2>1. result = "none" /\ (Extracts \/ Tests)
    BY <1>4, Given, ExtractStep, TestStep DEF Entry, Answered
  <2>2. Ended \/ result' = result
    BY <2>1 DEF Extracts, Stops, Passes, Folder, Stores, Breaks, Joins, Counted, Dealt, Tests
  <2> QED
    BY <2>1, <2>2 DEF Ended, Answered
<1> QED
  BY <1>1, <1>2, <1>3, <1>4 DEF Next

\* What comes out of the entries stays under the cap.
LEMMA BoundedStep ==
  ASSUME Setting, Shape, Bounded, [Next]_vars
  PROVE  Bounded'
<1>0. /\ setup' = setup /\ backend' = backend /\ setup.cap \in Nat /\ Extra \in {0, 1}
      /\ Extra' = Extra /\ report.bytes \in Nat /\ produced \in Nat
  BY EveryStep, SettingStep, Given DEF Extra, Shape, Reports
<1>1. CASE Moves
  BY <1>0, <1>1 DEF Moves, Bounded
<1>2. ASSUME report'.bytes = report.bytes, produced' = produced, pc = "entry" \/ pc' = "returned"
      PROVE  Bounded'
  BY <1>0, <1>2 DEF Bounded
<1>3. ASSUME NEW n \in Nat, setup.cap > 0 => n <= Budget, Counted(n, Nowhere) \/ \E q \in Paths : Counted(n, q),
             pc = "entry"
      PROVE  Bounded'
  <2>1. report'.bytes = report.bytes + n /\ produced' = produced + n
    BY <1>3, CountedIs
  <2>2. produced = report.bytes
    BY <1>3 DEF Bounded
  <2>3. setup.cap > 0 => report.bytes + n <= setup.cap
    BY <1>0, <1>3 DEF Bounded, Budget
  <2> QED
    BY <1>0, <2>1, <2>2, <2>3 DEF Bounded
<1>4. ASSUME Entering, Extracts, pc = "entry"
      PROVE  Bounded'
  <2>1. CASE Stops
    BY <1>2, <1>4, <2>1 DEF Stops, Ended, Same, Untouched
  <2>2. CASE Passes
    BY <1>2, <1>4, <2>2, PassesIs DEF Passes, Untouched
  <2>3. CASE Folder
    BY <1>0, <1>3, <1>4, <2>3, BudgetIs DEF Folder, Fits
  <2>4. ASSUME NEW q \in Paths, NEW n \in Nat, Stores(q, n)
        PROVE  Bounded'
    BY <1>3, <1>4, <2>4 DEF Stores, Fits
  <2>5. ASSUME NEW q \in Paths, NEW n \in Nat, Breaks(q, n)
        PROVE  Bounded'
    <3>1. /\ report' = report /\ produced' = produced + n /\ pc' = "returned"
          /\ setup.cap > 0 => n <= Budget + Extra
      BY <2>5 DEF Breaks, Ended, Same
    <3>2. produced = report.bytes
      BY <1>4 DEF Bounded
    <3> QED
      BY <1>0, <3>1, <3>2 DEF Bounded, Budget
  <2>6. ASSUME NEW q \in Paths, NEW t \in Paths, Joins(q, t)
        PROVE  Bounded'
    BY <1>3, <1>4, <2>6, BudgetIs DEF Joins, Fits
  <2> QED
    BY <1>4, <2>1, <2>2, <2>3, <2>4, <2>5, <2>6 DEF Extracts
<1>5. ASSUME Tests, pc = "entry"
      PROVE  Bounded'
  BY <1>2, <1>5 DEF Tests, Untouched
<1> QED
  BY <1>1, <1>4, <1>5, EveryStep

-----------------------------------------------------------------------------
(* The report adds up.                                                     *)

\* What the entry of number k adds to the bytes of the report.
Share(fs, given, k) ==
  LET es == given.archive.entries
      named == given.mode = "test" \/ given.archive.backend = "serial"
  IN  IF fs[k].what = "extracted" /\ es[k].kind = "file"
      THEN es[IF named THEN Min({j \in 1..k : es[j].path = es[k].path}) ELSE k].len ELSE 0

Sums(fs, given) ==
  LET sum[k \in 0..Len(fs)] == IF k = 0 THEN 0 ELSE sum[k - 1] + Share(fs, given, k)
  IN  sum

\* Written is that of the fates, before a step and after it.
LEMMA WrittenIs == Written = Sums(fate, setup) /\ Written' = Sums(fate', setup')
BY DEF Written, Sums, Share, Landed, Body, First, ByName, entries, backend

\* The sums exist.
LEMMA SumsExist ==
  ASSUME NEW fs, NEW given, NEW n \in Nat
  PROVE  \E f : f = [k \in 0..n |-> IF k = 0 THEN 0 ELSE f[k - 1] + Share(fs, given, k)]
<1> DEFINE Adds(f, m) == f = [k \in 0..m |-> IF k = 0 THEN 0 ELSE f[k - 1] + Share(fs, given, k)]
           T == {m \in Nat : ~\E f : Adds(f, m)}
<1> SUFFICES T = {}
  OBVIOUS
<1> SUFFICES ASSUME T # {} PROVE FALSE
  OBVIOUS
<1>1. PICK m \in T : \A k \in T : m <= k
  BY Smallest
<1>2. m # 0
  <2> DEFINE f == [k \in 0..0 |-> 0]
  <2>1. Adds(f, 0)
    OBVIOUS
  <2> QED
    BY <1>1, <2>1
<1>3. m - 1 \in Nat /\ m - 1 \notin T
  <2> HIDE DEF T
  <2>1. T \subseteq Nat
    BY DEF T
  <2>2. m \in Nat /\ m - 1 \in Nat
    BY <1>1, <1>2, <2>1
  <2>3. ~(m <= m - 1)
    BY <2>2
  <2> QED
    BY <1>1, <2>2, <2>3
<1>4. PICK g : Adds(g, m - 1)
  BY <1>3
<1> DEFINE f == [k \in 0..m |-> IF k = m THEN g[m - 1] + Share(fs, given, m) ELSE g[k]]
<1>5. \A k \in 0..m : f[k] = IF k = 0 THEN 0 ELSE f[k - 1] + Share(fs, given, k)
  <2> TAKE k \in 0..m
  <2>1. CASE k = m
    BY <1>2, <1>3, <2>1
  <2>2. CASE k # m
    <3>1. k \in 0..(m - 1)
      BY <1>3, <2>2
    <3>2. g[k] = IF k = 0 THEN 0 ELSE g[k - 1] + Share(fs, given, k)
      BY <1>4, <3>1
    <3>3. k # 0 => k - 1 \in 0..m /\ k - 1 # m
      BY <3>1, <1>3
    <3> QED
      BY <2>2, <3>2, <3>3
  <2> QED
    BY <2>1, <2>2
<1>6. Adds(f, m)
  BY <1>5
<1> QED
  BY <1>1, <1>6

\* What they are.
LEMMA SumsAre ==
  ASSUME NEW fs \in Seq(Fates), NEW given
  PROVE  /\ Sums(fs, given)[0] = 0
         /\ \A k \in 1..Len(fs) : Sums(fs, given)[k] = Sums(fs, given)[k - 1] + Share(fs, given, k)
<1> DEFINE n == Len(fs)
           Adds(f) == f = [k \in 0..n |-> IF k = 0 THEN 0 ELSE f[k - 1] + Share(fs, given, k)]
           f == Sums(fs, given)
<1>0. n \in Nat
  OBVIOUS
<1>1. \E g : Adds(g)
  BY <1>0, SumsExist
<1>2. f = CHOOSE g : Adds(g)
  BY DEF Sums
<1>3. Adds(f)
  BY <1>1, <1>2
<1> HIDE DEF f
<1>4. \A k \in 0..n : f[k] = IF k = 0 THEN 0 ELSE f[k - 1] + Share(fs, given, k)
  BY <1>3
<1>5. f[0] = 0 /\ \A k \in 1..n : f[k] = f[k - 1] + Share(fs, given, k)
  BY <1>0, <1>4
<1> QED
  BY <1>5 DEF f

\* One more entry leaves the sums of those before it.
LEMMA SumsGrow ==
  ASSUME NEW fs \in Seq(Fates), NEW x \in Fates, NEW given
  PROVE  Sums(Append(fs, x), given)[Len(fs) + 1] =
           Sums(fs, given)[Len(fs)] + Share(Append(fs, x), given, Len(fs) + 1)
<1> DEFINE n == Len(fs)
           gs == Append(fs, x)
           f == Sums(fs, given)
           g == Sums(gs, given)
           T == {k \in 0..n : f[k] # g[k]}
<1>1. n \in Nat /\ gs \in Seq(Fates) /\ Len(gs) = n + 1 /\ \A k \in 1..n : gs[k] = fs[k]
  OBVIOUS
<1>2. f[0] = 0 /\ \A k \in 1..n : f[k] = f[k - 1] + Share(fs, given, k)
  BY SumsAre
<1>3. g[0] = 0 /\ \A k \in 1..(n + 1) : g[k] = g[k - 1] + Share(gs, given, k)
  BY <1>1, SumsAre
<1>4. \A k \in 1..n : Share(fs, given, k) = Share(gs, given, k)
  BY <1>1 DEF Share
<1> HIDE DEF f, g, n, gs
<1>5. T = {}
  <2> SUFFICES ASSUME T # {} PROVE FALSE
    OBVIOUS
  <2>0. T \subseteq Nat
    BY <1>1
  <2>1. PICK m \in T : \A k \in T : m <= k
    BY <2>0, Smallest
  <2>2. m # 0 /\ m \in 1..n
    BY <1>1, <1>2, <1>3, <2>1
  <2>3. m - 1 \in 0..n /\ ~(m <= m - 1)
    BY <1>1, <2>2
  <2>4. f[m - 1] = g[m - 1]
    BY <2>1, <2>3
  <2>5. f[m] = g[m]
    <3>1. m \in 1..(n + 1)
      BY <1>1, <2>2
    <3> QED
      BY <1>2, <1>3, <1>4, <2>2, <2>4, <3>1
  <2> QED
    BY <2>1, <2>5
<1>6. f[n] = g[n]
  <2>1. n \in 0..n
    BY <1>1
  <2> QED
    BY <1>5, <2>1
<1>7. g[n + 1] = g[n] + Share(gs, given, n + 1)
  <2>1. n + 1 \in 1..(n + 1) /\ (n + 1) - 1 = n
    BY <1>1
  <2> QED
    BY <1>3, <2>1
<1> QED
  BY <1>6, <1>7 DEF f, g, gs, n

\* The next entry adds its share.
LEMMA WrittenGrows ==
  ASSUME Entering, setup' = setup, NEW what \in {"skipped", "extracted", "passed"},
         NEW q \in Paths \cup {Nowhere}, Dealt(what, q)
  PROVE  Written'[Len(fate')] = Written[Len(fate)]
           + (IF what = "extracted" /\ e.kind = "file" THEN body.len ELSE 0)
<1> DEFINE x == [what |-> what, at |-> q]
<1>1. /\ fate \in Seq(Fates) /\ x \in Fates /\ fate' = Append(fate, x)
      /\ Len(fate') = i /\ Len(fate) = i - 1 /\ i \in Nat /\ fate'[i] = x
      /\ e = entries[i] /\ entries' = entries
  BY EntryIs, DealtIs, SettingStep DEF Entering, Shape
<1>2. Written' = Sums(fate', setup) /\ Written = Sums(fate, setup)
  BY <1>1, WrittenIs
<1>3. Len(fate) + 1 = i
  BY <1>1
<1> HIDE DEF x
<1>4. Sums(fate', setup)[i] = Sums(fate, setup)[Len(fate)] + Share(fate', setup, i)
  BY <1>1, <1>3, SumsGrow
<1>5. Share(fate', setup, i) = IF what = "extracted" /\ e.kind = "file" THEN body.len ELSE 0
  BY <1>1 DEF Share, x, body, Body, First, ByName, entries, backend
<1> QED
  BY <1>1, <1>2, <1>4, <1>5

\* The report adds up.
LEMMA AccountedStep ==
  ASSUME Setting, Shape, Accounted, [Next]_vars
  PROVE  Accounted'
<1>0. setup' = setup /\ entries' = entries
  BY EveryStep, SettingStep
<1>1. ASSUME UNCHANGED <<report, fate>>
      PROVE  Accounted'
  BY <1>0, <1>1, WrittenIs DEF Accounted
<1>2. ASSUME Entering, Extracts, setup.mode = "extract"
      PROVE  Accounted'
  <2>0. /\ i \in Nat /\ Len(fate) = i - 1 /\ report \in Reports /\ body.len \in Nat
        /\ report.extracted + report.skipped = Len(fate)
        /\ report.bytes = Written[Len(fate)]
    BY <1>2, BodyAt DEF Entering, Shape, Accounted
  <2>1. ASSUME NEW n \in Nat, NEW q \in Paths \cup {Nowhere}, Counted(n, q),
               n = IF e.kind = "file" THEN body.len ELSE 0
        PROVE  Accounted'
    <3>1. /\ Dealt("extracted", q) /\ report'.bytes = report.bytes + n
          /\ report'.extracted = report.extracted + 1 /\ report'.skipped = report.skipped
      BY <1>2, <2>1, CountedIs DEF Entering
    <3>2. Written'[Len(fate')] = Written[Len(fate)] + n
      BY <1>0, <1>2, <2>1, <3>1, WrittenGrows
    <3>3. Len(fate') = i
      BY <1>2, <2>0, <3>1, DealtIs DEF Entering
    <3>4. report.extracted \in Nat /\ report.skipped \in Nat
      BY <2>0 DEF Reports
    <3>5. report'.extracted + report'.skipped = Len(fate')
      BY <2>0, <3>1, <3>3, <3>4
    <3> QED
      BY <2>0, <3>1, <3>2, <3>5 DEF Accounted
  <2>2. CASE Stops
    BY <1>1, <2>2 DEF Stops, Ended, Same
  <2>3. CASE Passes
    <3>1. /\ Dealt("skipped", Nowhere) /\ report'.bytes = report.bytes
          /\ report'.extracted = report.extracted /\ report'.skipped = report.skipped + 1
      BY <1>2, <2>3, PassesIs DEF Entering, Passes
    <3>2. Written'[Len(fate')] = Written[Len(fate)] + 0
      BY <1>0, <1>2, <3>1, WrittenGrows
    <3>3. Len(fate') = i
      BY <1>2, <2>0, <3>1, DealtIs DEF Entering
    <3>4. report.extracted \in Nat /\ report.skipped \in Nat /\ report.bytes \in Nat
      BY <2>0 DEF Reports
    <3>5. report'.extracted + report'.skipped = Len(fate')
      BY <2>0, <3>1, <3>3, <3>4
    <3>6. report'.bytes = Written'[Len(fate')]
      BY <2>0, <3>1, <3>2, <3>4
    <3> QED
      BY <3>5, <3>6 DEF Accounted
  <2>4. CASE Folder
    BY <2>1, <2>4 DEF Folder
  <2>5. ASSUME NEW q \in Paths, NEW n \in Nat, Stores(q, n)
        PROVE  Accounted'
    BY <2>1, <2>5 DEF Stores
  <2>6. ASSUME NEW q \in Paths, NEW n \in Nat, Breaks(q, n)
        PROVE  Accounted'
    BY <1>1, <2>6 DEF Breaks, Ended, Same
  <2>7. ASSUME NEW q \in Paths, NEW t \in Paths, Joins(q, t)
        PROVE  Accounted'
    BY <2>1, <2>7 DEF Joins
  <2> QED
    BY <1>2, <2>2, <2>3, <2>4, <2>5, <2>6, <2>7 DEF Extracts
<1>3. CASE setup.mode # "extract"
  BY <1>0, <1>3 DEF Accounted
<1> QED
  BY <1>1, <1>2, <1>3, EveryStep DEF Moves

-----------------------------------------------------------------------------
(* Extracted files last.                                                   *)

\* What Lasting says of the entry of number k.
Lasts(k, fs, fl, dt) ==
  fs[k].what = "extracted" /\ entries[k].kind = "file" =>
    /\ fs[k].at \in Paths /\ fl[fs[k].at] # 0
    /\ \/ dt[fl[fs[k].at]] = [by |-> k, len |-> Body(k).len]
       \/ dt[fl[fs[k].at]].by > k
       \/ \E l \in (k + 1)..Len(fs) : entries[l].kind = "hard" /\ fs[l].what = "extracted"

\* Lasting says it of every entry that was dealt with.
LEMMA LastingIs ==
  ASSUME setup' = setup, setup.mode = "extract"
  PROVE  /\ Lasting => \A k \in DOMAIN fate : Lasts(k, fate, file, data)
         /\ (\A k \in DOMAIN fate' : Lasts(k, fate', file', data')) => Lasting'
<1>1. Lasting => \A k \in DOMAIN fate : Lasts(k, fate, file, data)
  BY DEF Lasting, Lasts, Landed, Held
<1>2. (\A k \in DOMAIN fate' : Lasts(k, fate', file', data')) => Lasting'
  BY DEF Lasting, Lasts, Landed, Held, Body, First, ByName, entries, backend
<1> QED
  BY <1>1, <1>2

\* Names stay names, and data changes to what is written.
LEMMA WroteLasts ==
  ASSUME Shape, NEW q \in Paths, NEW d, Wrote(q, d), NEW r \in Paths, file[r] # 0
  PROVE  file'[r] # 0 /\ (data'[file'[r]] = d \/ data'[file'[r]] = data[file[r]])
<1>1. file[r] \in DOMAIN data /\ DOMAIN data \subseteq DOMAIN data'
  BY DEF Shape, Wrote
<1>2. CASE r = q
  BY <1>2 DEF Wrote
<1>3. CASE r # q
  <2>1. file'[r] = file[r]
    BY <1>3 DEF Wrote
  <2>2. data'[file[r]] = d \/ data'[file[r]] = data[file[r]]
    BY <1>1 DEF Wrote
  <2> QED
    BY <2>1, <2>2
<1> QED
  BY <1>2, <1>3

\* An entry dealt with before lasts on when its file does.
LEMMA LastsOn ==
  ASSUME Shape, NEW k \in DOMAIN fate, Lasts(k, fate, file, data),
         \/ fate' = fate
         \/ \E what \in {"skipped", "extracted", "passed"}, q \in Paths \cup {Nowhere} :
              Dealt(what, q),
         \A r \in Paths : file[r] # 0 =>
           file'[r] # 0 /\ (data'[file'[r]].by > k \/ data'[file'[r]] = data[file[r]])
  PROVE  Lasts(k, fate', file', data')
<1>1. i \in Nat /\ fate \in Seq(Fates) /\ Len(fate) = i - 1 /\ DOMAIN fate = 1..(i - 1)
  BY DEF Shape
<1>2. Len(fate) <= Len(fate') /\ Len(fate') \in Nat /\ \A l \in DOMAIN fate : fate'[l] = fate[l]
  <2>1. CASE fate' = fate
    BY <1>1, <2>1
  <2>2. CASE \E what \in {"skipped", "extracted", "passed"}, q \in Paths \cup {Nowhere} :
               Dealt(what, q)
    <3>1. PICK what \in {"skipped", "extracted", "passed"}, q \in Paths \cup {Nowhere} :
            Dealt(what, q)
      BY <2>2
    <3>2. Len(fate') = i /\ \A l \in 1..(i - 1) : fate'[l] = fate[l]
      BY <1>1, <3>1, DealtIs
    <3> QED
      BY <1>1, <3>2
  <2> QED
    BY <2>1, <2>2
<1>3. fate'[k] = fate[k] /\ k \in Nat
  BY <1>1, <1>2
<1>4. ASSUME \E l \in (k + 1)..Len(fate) : entries[l].kind = "hard" /\ fate[l].what = "extracted"
      PROVE  \E l \in (k + 1)..Len(fate') : entries[l].kind = "hard" /\ fate'[l].what = "extracted"
  <2>1. PICK l \in (k + 1)..Len(fate) : entries[l].kind = "hard" /\ fate[l].what = "extracted"
    BY <1>4
  <2>2. l \in (k + 1)..Len(fate') /\ fate'[l] = fate[l]
    BY <1>1, <1>2, <1>3, <2>1
  <2> QED
    BY <2>1, <2>2
<1> QED
  BY <1>3, <1>4 DEF Lasts

\* Extracted files last.
LEMMA LastingStep ==
  ASSUME Setting, Shape, Lasting, [Next]_vars
  PROVE  Lasting'
<1>0. setup' = setup /\ entries' = entries /\ i \in Nat /\ Len(fate) = i - 1
      /\ DOMAIN fate = 1..(i - 1)
  BY EveryStep, SettingStep DEF Shape
<1>1. CASE setup.mode # "extract"
  BY <1>0, <1>1 DEF Lasting
<1>2. ASSUME UNCHANGED <<fate, file, data>>
      PROVE  Lasting'
  <2>1. \A k : Body(k)' = Body(k)
    BY <1>0, SettingStep DEF Body, First, ByName
  <2> QED
    BY <1>0, <1>2, <2>1 DEF Lasting, Landed, Held
<1>3. ASSUME Entering, Extracts, setup.mode = "extract"
      PROVE  Lasting'
  <2>0. /\ \A k \in DOMAIN fate : Lasts(k, fate, file, data)
        /\ (\A k \in DOMAIN fate' : Lasts(k, fate', file', data')) => Lasting'
        /\ e = entries[i]
    BY <1>0, <1>3, LastingIs, EntryIs DEF Entering
  <2>1. ASSUME NEW what \in {"skipped", "extracted", "passed"},
               NEW q \in Paths \cup {Nowhere}, Dealt(what, q),
               Lasts(i, fate', file', data'),
               \A k \in DOMAIN fate : Lasts(k, fate', file', data')
        PROVE  Lasting'
    <3>1. DOMAIN fate' = 1..i
      BY <1>0, <2>1, DealtIs
    <3>2. \A k \in 1..i : k \in 1..(i - 1) \/ k = i
      BY <1>0
    <3> QED
      BY <1>0, <2>0, <2>1, <3>1, <3>2
  <2>2. CASE Stops
    BY <1>2, <2>2 DEF Stops, Ended, Same, Untouched
  <2>3. ASSUME NEW what \in {"skipped", "extracted"}, Dealt(what, Nowhere),
               what = "skipped" \/ e.kind = "dir", UNCHANGED <<file, data>>
        PROVE  Lasting'
    <3>1. fate'[i] = [what |-> what, at |-> Nowhere]
      BY <1>0, <2>3, DealtIs
    <3>2. Lasts(i, fate', file', data')
      BY <2>0, <2>3, <3>1 DEF Lasts
    <3>3. \A k \in DOMAIN fate : Lasts(k, fate', file', data')
      BY <2>0, <2>3, LastsOn
    <3> QED
      BY <2>1, <2>3, <3>2, <3>3
  <2>4. CASE Passes \/ Folder
    BY <2>3, <2>4 DEF Passes, Folder, Counted, Untouched
  <2>5. ASSUME NEW q \in Paths, NEW n \in Nat, Stores(q, n) \/ Breaks(q, n)
        PROVE  Lasting'
    <3> DEFINE d == [by |-> i, len |-> n]
    <3>1. Wrote(q, d) /\ d.by = i
      BY <1>3, <2>5, EntryWrites
    <3> HIDE DEF d
    <3>2. ASSUME NEW k \in DOMAIN fate,
                 fate' = fate \/ Dealt("extracted", q)
          PROVE  Lasts(k, fate', file', data')
      <4>1. i > k
        BY <1>0
      <4>2. \A r \in Paths : file[r] # 0 =>
              file'[r] # 0 /\ (data'[file'[r]].by > k \/ data'[file'[r]] = data[file[r]])
        BY <3>1, <4>1, WroteLasts
      <4> QED
        BY <2>0, <3>2, <4>2, LastsOn
    <3>3. CASE Stores(q, n)
      <4>1. Dealt("extracted", q) /\ fate'[i] = [what |-> "extracted", at |-> q]
        BY <1>0, <3>3, DealtIs DEF Stores, Counted
      <4>2. file'[q] # 0 /\ data'[file'[q]] = d /\ (e.kind = "file" => n = body.len)
        BY <3>1, <3>3 DEF Wrote, Stores
      <4>3. Lasts(i, fate', file', data')
        BY <2>0, <4>1, <4>2 DEF Lasts, d, body
      <4> QED
        BY <2>1, <3>2, <4>1, <4>3
    <3>4. CASE Breaks(q, n)
      <4>1. fate' = fate
        BY <3>4 DEF Breaks, Ended, Same
      <4> QED
        BY <2>0, <3>2, <4>1
    <3> QED
      BY <2>5, <3>3, <3>4
  <2>6. ASSUME NEW q \in Paths, NEW t \in Paths, Joins(q, t)
        PROVE  Lasting'
    <3>1. Dealt("extracted", q) /\ e.kind = "hard" /\ fate'[i] = [what |-> "extracted", at |-> q]
          /\ Len(fate') = i /\ \A k \in 1..(i - 1) : fate'[k] = fate[k]
      BY <1>0, <2>6, DealtIs DEF Joins, Counted
    <3>2. \A r \in Paths : file[r] # 0 => file'[r] # 0
      <4>1. CASE file[q] = 0 /\ file' = [file EXCEPT ![q] = file[t]]
        BY <2>6, <4>1 DEF Joins, Shape
      <4>2. CASE \E d \in Datas : d.by <= Len(entries) /\ Wrote(q, d)
        BY <4>2, WroteLasts
      <4> QED
        BY <2>6, <4>1, <4>2, JoinsWrites
    <3>3. Lasts(i, fate', file', data')
      BY <2>0, <3>1 DEF Lasts
    <3>4. ASSUME NEW k \in DOMAIN fate
          PROVE  Lasts(k, fate', file', data')
      <4>1. k \in 1..(i - 1) /\ i \in (k + 1)..Len(fate')
        BY <1>0, <3>1
      <4>2. entries[i].kind = "hard" /\ fate'[i].what = "extracted"
        BY <2>0, <3>1
      <4>3. \E l \in (k + 1)..Len(fate') : entries[l].kind = "hard" /\ fate'[l].what = "extracted"
        BY <4>1, <4>2
      <4>4. fate'[k] = fate[k] /\ Lasts(k, fate, file, data)
        BY <2>0, <3>1, <4>1
      <4> QED
        BY <3>2, <4>3, <4>4 DEF Lasts
    <3> QED
      BY <2>1, <3>1, <3>3, <3>4
  <2> QED
    BY <1>3, <2>2, <2>4, <2>5, <2>6 DEF Extracts
<1>4. CASE setup.mode = "extract"
  BY <1>2, <1>3, <1>4, EveryStep DEF Moves
<1> QED
  BY <1>1, <1>4

-----------------------------------------------------------------------------
(* Old files.                                                              *)

\* Names that are taken stay taken.
LEMMA TakenOn ==
  ASSUME \A r \in Paths : file[r] # 0 => file'[r] # 0, NEW q \in Paths, AllTaken(q)
  PROVE  AllTaken(q)'
<1>1. \A j \in 1..MaxKeep : <<q[1], j>> \in Paths
  BY DEF Paths
<1> QED
  BY <1>1 DEF AllTaken

\* Names that were given to hard links were given to them.
LEMMA LinkedOn ==
  ASSUME Shape, entries' = entries, NEW q,
         \/ fate' = fate
         \/ \E what \in {"skipped", "extracted", "passed"}, r \in Paths \cup {Nowhere} :
              Dealt(what, r),
         Linked(q)
  PROVE  Linked(q)'
<1>1. i \in Nat /\ DOMAIN fate = 1..(i - 1)
  BY DEF Shape
<1>2. DOMAIN fate \subseteq DOMAIN fate' /\ \A l \in DOMAIN fate : fate'[l] = fate[l]
  <2>1. CASE \E what \in {"skipped", "extracted", "passed"}, r \in Paths \cup {Nowhere} :
               Dealt(what, r)
    <3>1. PICK what \in {"skipped", "extracted", "passed"}, r \in Paths \cup {Nowhere} :
            Dealt(what, r)
      BY <2>1
    <3>2. DOMAIN fate' = 1..i /\ \A l \in 1..(i - 1) : fate'[l] = fate[l]
      BY <1>1, <3>1, DealtIs
    <3> QED
      BY <1>1, <3>2
  <2> QED
    BY <2>1
<1> QED
  BY <1>2 DEF Linked

\* What an old file keeps, or why it may have lost it.
Keeps(k) ==
  \/ data[k] = [by |-> 0, len |-> 1] /\ \A q \in setup.old[k] : file[q] = k
  \/ \E q \in Paths : (q \in setup.old[k] \/ Linked(q)) /\ AllTaken(q)

\* OldFilesKept says it of every old file, before a step and after it.
LEMMA KeepsIs ==
  /\ OldFilesKept <=> (setup.overwrite # "always" => \A k \in DOMAIN setup.old : Keeps(k))
  /\ OldFilesKept' <=> (setup'.overwrite # "always" => \A k \in DOMAIN setup'.old : Keeps(k)')
BY DEF OldFilesKept, Keeps, AllTaken

\* A name that an old file has is one of its old ones, or made by a link.
Named == \A q \in Paths : file[q] \in DOMAIN setup.old => q \in setup.old[file[q]] \/ Linked(q)

\* A step that writes under a name that may be written to.
LEMMA OldWrote ==
  ASSUME Setting, Shape, setup' = setup, OldOnes, NEW q \in Paths, NEW d, Wrote(q, d), Target(q),
         \A r \in Paths : Linked(r) => Linked(r)'
  PROVE  OldOnes'
<1>1. /\ DOMAIN setup.old \subseteq DOMAIN data /\ Named
      /\ DOMAIN data \subseteq DOMAIN data'
      /\ setup.overwrite # "always" => \A k \in DOMAIN setup.old : Keeps(k)
  BY KeepsIs DEF OldOnes, Named, Wrote
<1>2. \A r \in Paths : file[r] # 0 => file'[r] # 0
  BY WroteLasts
<1>3. \A k \in DOMAIN setup.old : k # 0 /\ setup.old[k] \subseteq Paths
  BY Given
<1>4. Named'
  <2> SUFFICES ASSUME NEW r \in Paths, file'[r] \in DOMAIN setup.old
               PROVE  r \in setup.old[file'[r]] \/ Linked(r)'
    BY DEF Named
  <2>1. file'[r] = file[r]
    BY <1>1 DEF Wrote
  <2> QED
    BY <1>1, <2>1 DEF Named
<1>5. ASSUME setup.overwrite # "always", NEW k \in DOMAIN setup.old
      PROVE  Keeps(k)'
  <2>1. Keeps(k) /\ k \in DOMAIN data
    BY <1>1, <1>5
  <2>2. ASSUME NEW r \in Paths, r \in setup.old[k] \/ Linked(r), AllTaken(r)
        PROVE  Keeps(k)'
    <3>1. AllTaken(r)' /\ (r \in setup'.old[k] \/ Linked(r)')
      BY <1>2, <2>2, TakenOn
    <3> QED
      BY <3>1 DEF Keeps
  <2>3. CASE data[k] = [by |-> 0, len |-> 1] /\ \A r \in setup.old[k] : file[r] = k
    <3>1. CASE file[q] = k
      <4>1. AllTaken(q) /\ (q \in setup.old[k] \/ Linked(q))
        BY <1>1, <1>3, <1>5, <3>1 DEF Target, Named
      <4> QED
        BY <2>2, <4>1
    <3>2. CASE file[q] # k
      <4>1. data'[k] = data[k]
        BY <2>1, <3>2 DEF Wrote
      <4>2. ASSUME NEW r \in setup.old[k] PROVE file'[r] = k
        <5>1. r \in Paths /\ r # q
          BY <1>3, <2>3, <3>2
        <5> QED
          BY <2>3, <5>1 DEF Wrote
      <4> QED
        BY <2>3, <4>1, <4>2 DEF Keeps
    <3> QED
      BY <3>1, <3>2
  <2> QED
    BY <2>1, <2>2, <2>3 DEF Keeps
<1> QED
  BY <1>1, <1>4, <1>5, KeepsIs DEF OldOnes, Named

\* Old files are kept.
LEMMA OldOnesStep ==
  ASSUME Setting, Shape, OldOnes, [Next]_vars
  PROVE  OldOnes'
<1>0. setup' = setup /\ entries' = entries
  BY EveryStep, SettingStep
<1>1. ASSUME UNCHANGED <<file, data>>, \A r \in Paths : Linked(r) => Linked(r)'
      PROVE  OldOnes'
  <2>1. \A k \in DOMAIN setup.old : Keeps(k) => Keeps(k)'
    BY <1>0, <1>1 DEF Keeps, AllTaken
  <2>2. OldFilesKept'
    BY <1>0, <2>1, KeepsIs DEF OldOnes
  <2> QED
    BY <1>0, <1>1, <2>2 DEF OldOnes
<1>2. ASSUME \/ fate' = fate
             \/ \E what \in {"skipped", "extracted", "passed"}, r \in Paths \cup {Nowhere} :
                  Dealt(what, r)
      PROVE  \A r \in Paths : Linked(r) => Linked(r)'
  BY <1>0, <1>2, LinkedOn
<1>3. CASE Moves
  BY <1>1, <1>2, <1>3 DEF Moves
<1>4. ASSUME Entering, Extracts
      PROVE  OldOnes'
  <2>1. CASE Stops \/ Passes \/ Folder
    BY <1>1, <1>2, <2>1 DEF Stops, Passes, Folder, Counted, Untouched, Ended, Same
  <2>2. ASSUME NEW q \in Paths, NEW n \in Nat, Stores(q, n) \/ Breaks(q, n)
        PROVE  OldOnes'
    <3>1. fate' = fate \/ Dealt("extracted", q)
      BY <2>2 DEF Stores, Breaks, Counted, Ended, Same
    <3>2. Target(q) /\ Wrote(q, [by |-> i, len |-> n])
      BY <1>4, <2>2, EntryWrites DEF Stores, Breaks
    <3> QED
      BY <1>0, <1>2, <3>1, <3>2, OldWrote
  <2>3. ASSUME NEW q \in Paths, NEW t \in Paths, Joins(q, t)
        PROVE  OldOnes'
    <3>1. Dealt("extracted", q) /\ Target(q) /\ e.kind = "hard"
      BY <2>3 DEF Joins, Counted
    <3>2. \A r \in Paths : Linked(r) => Linked(r)'
      BY <1>2, <3>1
    <3>3. CASE \E d \in Datas : d.by <= Len(entries) /\ Wrote(q, d)
      BY <1>0, <3>1, <3>2, <3>3, OldWrote
    <3>4. CASE file[q] = 0 /\ file' = [file EXCEPT ![q] = file[t]] /\ UNCHANGED data
      <4>1. /\ file'[q] = file[t] /\ \A r \in Paths \ {q} : file'[r] = file[r]
            /\ file[t] # 0
        BY <2>3, <3>4 DEF Joins, Shape
      <4>2. Linked(q)'
        <5>1. fate'[i] = [what |-> "extracted", at |-> q] /\ i \in DOMAIN fate' /\ e = entries[i]
          BY <1>4, <3>1, EntryIs, DealtIs DEF Entering
        <5> QED
          BY <1>0, <3>1, <5>1 DEF Linked
      <4>3. \A r \in Paths : file[r] # 0 => file'[r] = file[r]
        BY <3>4, <4>1
      <4>4. \A k \in DOMAIN setup.old : k # 0 /\ setup.old[k] \subseteq Paths
        BY Given
      <4>5. ASSUME NEW k \in DOMAIN setup.old, Keeps(k) PROVE Keeps(k)'
        <5>1. CASE data[k] = [by |-> 0, len |-> 1] /\ \A r \in setup.old[k] : file[r] = k
          BY <1>0, <3>4, <4>3, <4>4, <5>1 DEF Keeps
        <5>2. CASE \E r \in Paths : (r \in setup.old[k] \/ Linked(r)) /\ AllTaken(r)
          <6>1. PICK r \in Paths : (r \in setup.old[k] \/ Linked(r)) /\ AllTaken(r)
            BY <5>2
          <6>2. \A s \in Paths : file[s] # 0 => file'[s] # 0
            BY <4>3
          <6>3. AllTaken(r)'
            BY <6>1, <6>2, TakenOn
          <6> QED
            BY <1>0, <3>2, <6>1, <6>3 DEF Keeps
        <5> QED
          BY <4>5, <5>1, <5>2 DEF Keeps
      <4>6. OldFilesKept'
        BY <1>0, <4>5, KeepsIs DEF OldOnes
      <4>7. Named'
        <5> SUFFICES ASSUME NEW r \in Paths, file'[r] \in DOMAIN setup.old
                     PROVE  r \in setup.old[file'[r]] \/ Linked(r)'
          BY <1>0 DEF Named
        <5>1. CASE r = q
          BY <4>2, <5>1
        <5>2. CASE r # q
          BY <3>2, <4>1, <5>2 DEF OldOnes
        <5> QED
          BY <5>1, <5>2
      <4> QED
        BY <1>0, <3>4, <4>6, <4>7 DEF OldOnes, Named
    <3> QED
      BY <2>3, <3>3, <3>4, JoinsWrites
  <2> QED
    BY <1>4, <2>1, <2>2, <2>3 DEF Extracts
<1>5. ASSUME Entering, Tests
      PROVE  OldOnes'
  BY <1>1, <1>2, <1>5 DEF Tests, Untouched, Ended, Same
<1> QED
  BY <1>3, <1>4, <1>5, EveryStep

-----------------------------------------------------------------------------
(* RAR files, and the test.                                                *)

\* Whatever a RAR entry gives its data to has all of it.
LEMMA WholeDataStep ==
  ASSUME Setting, Shape, Answered, WholeData, [Next]_vars
  PROVE  WholeData'
<1>0. setup' = setup /\ entries' = entries /\ backend' = backend
  BY EveryStep, SettingStep
<1>1. CASE backend # "rar"
  BY <1>0, <1>1 DEF WholeData
<1>2. ASSUME UNCHANGED data, result = "none" \/ (result' = result /\ i' = i)
      PROVE  WholeData'
  BY <1>0, <1>2 DEF WholeData, Torn
<1>3. ASSUME Entering, Extracts, backend = "rar", setup.mode = "extract", pc = "entry"
      PROVE  WholeData'
  <2>0. result = "none"
    BY <1>3 DEF Answered
  <2>1. CASE Stops \/ Passes \/ Folder
    BY <1>2, <2>0, <2>1 DEF Stops, Passes, Folder, Untouched
  <2>2. ASSUME NEW q \in Paths, NEW n \in Nat, Stores(q, n)
        PROVE  WholeData'
    <3> DEFINE d == [by |-> i, len |-> n]
    <3>1. Wrote(q, d) /\ e = entries[i] /\ body = e
      BY <1>3, <2>2, EntryWrites, EntryIs, BodyAt DEF Entering
    <3>2. n = e.len /\ ~e.hidden
      BY <1>3, <2>2, <3>1 DEF Stores
    <3>3. d.len = entries[d.by].len /\ ~entries[d.by].hidden
      BY <3>1, <3>2
    <3> HIDE DEF d
    <3>4. \A k \in DOMAIN data' : data'[k] = d \/ (k \in DOMAIN data /\ data'[k] = data[k])
      BY <3>1 DEF Wrote
    <3> QED
      BY <1>0, <1>3, <2>0, <3>3, <3>4 DEF WholeData, Torn
  <2>3. ASSUME NEW q \in Paths, NEW n \in Nat, Breaks(q, n)
        PROVE  WholeData'
    <3> DEFINE d == [by |-> i, len |-> n]
    <3>1. Wrote(q, d)
      BY <1>3, <2>3, EntryWrites
    <3>2. ~setup.host.one_volume /\ result' = "io" /\ i' = i
      BY <1>3, <2>3 DEF Breaks, Ended, Same
    <3>3. d.by = i
      OBVIOUS
    <3> HIDE DEF d
    <3>4. \A k \in DOMAIN data' : data'[k] = d \/ (k \in DOMAIN data /\ data'[k] = data[k])
      BY <3>1 DEF Wrote
    <3>5. \A k \in DOMAIN data' : data'[k] = d =>
            ~setup'.host.one_volume /\ result' = "io" /\ data'[k].by = i'
      BY <1>0, <3>2, <3>3
    <3> QED
      BY <1>0, <1>3, <2>0, <3>4, <3>5 DEF WholeData, Torn
  <2> QED
    BY <1>3, <2>1, <2>2, <2>3 DEF Extracts, Joins
<1>4. CASE Moves
  <2>1. result = "none" \/ (result' = result /\ i' = i)
    BY <1>4 DEF Moves, Answered
  <2> QED
    BY <1>2, <1>4, <2>1 DEF Moves
<1>5. ASSUME Tests, pc = "entry"
      PROVE  WholeData'
  BY <1>2, <1>5 DEF Tests, Untouched, Answered
<1> QED
  BY <1>1, <1>3, <1>4, <1>5, EveryStep

\* One entry of a test: it is named if it is damaged, when it is the first of
\* its name.
LEMMA TestedIs ==
  ASSUME Setting, Checkable, Entering, TestEntry
  PROVE  \/ pc' = "returned" /\ i' = i /\ report' = report
         \/ /\ i' = i + 1
            /\ \/ report'.corrupted = Append(report.corrupted, i) /\ (i \in Heads => i \in Damaged)
               \/ report'.corrupted = report.corrupted /\ (i \in Heads => i \notin Damaged)
<1>1. /\ report \in Reports /\ e = entries[i] /\ i \in DOMAIN entries
      /\ e.kind \in {"file", "dir", "link", "hard"}
      /\ body.fault \in {"none", "silent", "broken", "password"}
      /\ i \in Heads => body = e
  BY EntryIs, BodyAt, Given DEF Entering, Shape
<1>2. /\ e.fault = "silent" => Compares
      /\ e.placeholder => ~Compares
      /\ e.kind = "hard" => e.fault \notin {"broken", "silent"}
  BY <1>1 DEF Checkable, Compares, Setting, entries, backend
<1>3. i \in Damaged <=> e.kind = "file" /\ e.fault \in {"broken", "silent"}
  BY <1>1 DEF Damaged
<1>4. Corrupted.corrupted = Append(report.corrupted, i) /\ "tested" # "corrupted"
      /\ [Corrupted EXCEPT !.tested = @ + 1].corrupted = Append(report.corrupted, i)
      /\ [report EXCEPT !.tested = @ + 1].corrupted = report.corrupted
  BY <1>1 DEF Corrupted, Reports
<1>5. CASE Fail("password")
  BY <1>5 DEF Fail
<1>6. CASE e.kind \in {"dir", "link"} /\ UNCHANGED report /\ Advance("passed", Nowhere)
  BY <1>3, <1>6 DEF Advance
<1>7. CASE /\ e.kind \in {"file", "hard"} /\ body.fault = "broken"
           /\ report' = Corrupted /\ Advance("passed", Nowhere)
  BY <1>1, <1>2, <1>3, <1>4, <1>7 DEF Advance
<1>8. ASSUME e.kind \in {"file", "hard"}, Readable(body), Advance("passed", Nowhere),
             NEW differs \in BOOLEAN,
             First(i) = i => (differs <=> e.fault = "silent" \/ e.placeholder),
             report' = [(IF Compares /\ differs THEN Corrupted ELSE report)
                          EXCEPT !.tested = @ + 1]
      PROVE  /\ i' = i + 1
             /\ \/ report'.corrupted = Append(report.corrupted, i) /\ (i \in Heads => i \in Damaged)
                \/ report'.corrupted = report.corrupted /\ (i \in Heads => i \notin Damaged)
  <2>1. i' = i + 1
    BY <1>8 DEF Advance
  <2>2. i \in Heads => (i \in Damaged <=> Compares /\ differs)
    <3> SUFFICES ASSUME i \in Heads PROVE i \in Damaged <=> Compares /\ differs
      OBVIOUS
    <3>1. First(i) = i /\ e.fault \in {"none", "silent"}
      BY <1>1, <1>8 DEF Heads, Readable
    <3> QED
      BY <1>2, <1>3, <1>8, <3>1
  <2>3. CASE Compares /\ differs
    BY <1>4, <1>8, <2>1, <2>2, <2>3
  <2>4. CASE ~(Compares /\ differs)
    BY <1>4, <1>8, <2>1, <2>2, <2>4
  <2> QED
    BY <2>3, <2>4
<1>9. CASE /\ e.kind \in {"file", "hard"} /\ Readable(body)
           /\ \E differs \in IF First(i) = i THEN {e.fault = "silent" \/ e.placeholder} ELSE BOOLEAN :
                report' = [(IF Compares /\ differs THEN Corrupted ELSE report) EXCEPT !.tested = @ + 1]
           /\ Advance("passed", Nowhere)
  <2>1. e.placeholder \in BOOLEAN
    BY EntryIs DEF Entering, EntryTypes
  <2> QED
    BY <1>8, <1>9, <2>1
<1> QED
  BY <1>5, <1>6, <1>7, <1>9 DEF TestEntry

\* The damaged entries so far are the ones that are named.
LEMMA FoundStep ==
  ASSUME Setting, Shape, Checkable, Found, [Next]_vars
  PROVE  Found'
<1>0. setup' = setup /\ entries' = entries /\ Damaged' = Damaged /\ Heads' = Heads /\ i \in Nat
      /\ Damaged \subseteq Nat /\ report \in Reports
  <2>1. setup' = setup /\ entries' = entries
    BY EveryStep, SettingStep
  <2>2. Heads' = Heads
    BY <2>1 DEF Heads, First
  <2> QED
    BY <2>1, <2>2, Given DEF Damaged, Shape
<1>1. ASSUME i' = i, report' = report
      PROVE  Found'
  BY <1>0, <1>1 DEF Found
<1>2. ASSUME Entering, TestEntry, setup.mode = "test"
      PROVE  Found'
  <2> DEFINE s == report.corrupted
             n == Len(s)
             H == Damaged \cap Heads
  <2>0. H \subseteq Nat
    BY <1>0
  <2>1. s \in Seq(Nat) /\ n \in Nat /\ DOMAIN s = 1..n /\ H \subseteq Nat
    BY <1>0, <2>0 DEF Reports
  <2>2. /\ ToSet(s) \cap Heads = {k \in H : k < i}
        /\ \A k \in DOMAIN s : s[k] < i
        /\ \A j, k \in DOMAIN s : j < k => s[j] < s[k]
    BY <1>2 DEF Found
  <2>3. H' = H
    BY <1>0
  <2> HIDE DEF s
  <2>4. CASE i' = i + 1 /\ report'.corrupted = Append(s, i) /\ (i \in Heads => i \in Damaged)
    <3>1. LET t == Append(s, i) IN
            DOMAIN t = 1..(n + 1) /\ t[n + 1] = i /\ \A k \in 1..n : t[k] = s[k]
      BY <1>0, <2>1
    <3> DEFINE t == report'.corrupted
    <3>2. DOMAIN t = 1..(n + 1) /\ t[n + 1] = i /\ \A k \in 1..n : t[k] = s[k]
      BY <2>4, <3>1
    <3> HIDE DEF t
    <3>3. \A k \in 1..(n + 1) : k \in 1..n \/ k = n + 1
      BY <2>1
    <3>4. ToSet(t) = ToSet(s) \cup {i}
      <4>1. 1..n \subseteq 1..(n + 1) /\ n + 1 \in 1..(n + 1)
        BY <2>1
      <4> QED
        BY <2>1, <3>2, <3>3, <4>1 DEF ToSet
    <3>5. {k \in H : k < i + 1} = {k \in H : k < i} \cup ({i} \cap Heads)
      <4>1. \A k \in H : k < i + 1 <=> (k < i \/ k = i)
        BY <1>0, <2>1
      <4>2. \A k \in {i} \cap Heads : k \in H
        BY <2>4
      <4> QED
        BY <4>1, <4>2
    <3>6. \A j, k \in DOMAIN t : j < k => t[j] < t[k]
      <4> SUFFICES ASSUME NEW j \in 1..(n + 1), NEW k \in 1..(n + 1), j < k PROVE t[j] < t[k]
        BY <3>2
      <4>1. j \in 1..n /\ t[j] = s[j]
        BY <2>1, <3>2
      <4>2. CASE k = n + 1
        BY <2>1, <2>2, <3>2, <4>1, <4>2
      <4>3. CASE k \in 1..n
        BY <2>1, <2>2, <3>2, <4>1, <4>3
      <4> QED
        BY <2>1, <4>2, <4>3
    <3>7. \A k \in DOMAIN t : t[k] < i + 1
      <4> SUFFICES ASSUME NEW k \in 1..(n + 1) PROVE t[k] < i + 1
        BY <3>2
      <4>1. CASE k = n + 1
        BY <1>0, <3>2, <4>1
      <4>2. CASE k \in 1..n
        <5>1. t[k] = s[k] /\ s[k] \in Nat /\ s[k] < i
          BY <2>1, <2>2, <3>2, <4>2
        <5> QED
          BY <1>0, <5>1
      <4> QED
        BY <3>3, <4>1, <4>2
    <3>8. ToSet(t) \cap Heads = {k \in H : k < i + 1}
      BY <2>2, <3>4, <3>5
    <3> QED
      <4>1. /\ ToSet(report'.corrupted) \cap Heads' = {k \in Damaged' \cap Heads' : k < i'}
            /\ \A k \in DOMAIN report'.corrupted : report'.corrupted[k] < i'
        BY <1>0, <2>4, <3>7, <3>8 DEF t
      <4> QED
        BY <3>6, <4>1 DEF Found, t
  <2>5. CASE i' = i + 1 /\ report'.corrupted = s /\ (i \in Heads => i \notin Damaged)
    <3>1. {k \in H : k < i + 1} = {k \in H : k < i}
      <4>1. \A k \in H : k # i
        BY <2>5
      <4>2. \A k \in H : k < i + 1 <=> k < i
        BY <1>0, <2>1, <4>1
      <4> QED
        BY <4>2
    <3>2. \A k \in DOMAIN s : s[k] < i + 1
      <4> TAKE k \in DOMAIN s
      <4>1. s[k] \in Nat /\ s[k] < i
        BY <2>1, <2>2
      <4> QED
        BY <1>0, <4>1
    <3> QED
      BY <1>0, <2>2, <2>5, <3>1, <3>2 DEF Found
  <2> QED
    BY <1>1, <1>2, <2>4, <2>5, TestedIs DEF s
<1>3. CASE setup.mode # "test"
  BY <1>0, <1>3 DEF Found
<1> QED
  BY <1>1, <1>2, <1>3, EveryStep DEF Moves

-----------------------------------------------------------------------------
(* The beginning.                                                          *)

\* A call begins with the old files in their places and nothing done.
LEMMA Beginning ==
  ASSUME Init
  PROVE  SerialInv /\ Answered /\ Found
<1>1. PICK a \in Archives, m \in {"extract", "test"}, o \in Policies, c \in Caps, h \in Hosts,
           old \in Olds :
        /\ setup = [archive |-> a, mode |-> m, overwrite |-> o, cap |-> c, host |-> h, old |-> old]
        /\ file = [q \in Paths |-> IF \E k \in DOMAIN old : q \in old[k]
                                   THEN CHOOSE k \in DOMAIN old : q \in old[k] ELSE 0]
        /\ data = [k \in DOMAIN old |-> [by |-> 0, len |-> 1]]
  BY DEF Init
<1>2. /\ setup.archive = a /\ setup.mode = m /\ setup.overwrite = o /\ setup.cap = c
      /\ setup.old = old
  BY <1>1
<1>3. Setting
  BY <1>2 DEF Setting
<1>4. /\ Len(entries) \in Nat /\ old \in Seq(SUBSET Paths) /\ setup.cap \in Nat
      /\ \A k, l \in DOMAIN old : old[k] \cap old[l] # {} => k = l
  BY <1>2, <1>3, Given
<1>5. /\ pc = "begin" /\ i = 1 /\ fate = <<>> /\ produced = 0 /\ result = "none"
      /\ report = [extracted |-> 0, skipped |-> 0, bytes |-> 0, tested |-> 0, corrupted |-> <<>>]
  BY DEF Init
<1>6. fate \in Seq(Fates) /\ Len(fate) = 0 /\ DOMAIN fate = {} /\ report \in Reports
  BY <1>5 DEF Reports
<1>7. \A k \in DOMAIN old : data[k] = [by |-> 0, len |-> 1] /\ k \in Nat /\ k # 0
  BY <1>1, <1>4
<1>8. DOMAIN data = DOMAIN old /\ DOMAIN old = 1..Len(old) /\ data \in Seq(Datas) /\ Len(data) = Len(old)
  <2>1. DOMAIN data = 1..Len(old) /\ Len(old) \in Nat /\ DOMAIN old = 1..Len(old)
    BY <1>1, <1>4
  <2>2. [by |-> 0, len |-> 1] \in Datas
    BY DEF Datas
  <2>3. data \in [1..Len(old) -> Datas]
    BY <1>1, <2>1, <2>2
  <2>4. data \in Seq(Datas) /\ Len(data) = Len(old)
    BY <2>1, <2>3
  <2> QED
    BY <2>1, <2>4
<1>9. \A q \in Paths : \/ file[q] \in DOMAIN old /\ q \in old[file[q]]
                       \/ file[q] = 0 /\ ~\E k \in DOMAIN old : q \in old[k]
  BY <1>1
<1>10. \A k \in DOMAIN old : \A q \in old[k] : q \in Paths /\ file[q] = k
  <2> TAKE k \in DOMAIN old
  <2> TAKE q \in old[k]
  <2>1. q \in Paths
    BY <1>4
  <2>2. file[q] \in DOMAIN old /\ q \in old[file[q]]
    BY <1>9, <2>1
  <2>3. old[file[q]] \cap old[k] # {}
    BY <2>2
  <2> QED
    BY <1>4, <2>1, <2>2, <2>3
<1>11. file \in [Paths -> 0..Len(data)]
  <2>1. \A q \in Paths : file[q] \in 0..Len(data)
    BY <1>4, <1>8, <1>9
  <2> QED
    BY <1>1, <2>1
<1>12. Shape
  BY <1>4, <1>5, <1>6, <1>7, <1>8, <1>11 DEF Shape, Outcomes
<1>13. Bounded
  BY <1>4, <1>5 DEF Bounded, Extra
<1>14. Accounted
  <2>1. Written[Len(fate)] = 0
    BY <1>6, WrittenIs, SumsAre
  <2> QED
    BY <1>5, <1>6, <2>1 DEF Accounted
<1>15. Lasting
  BY <1>6 DEF Lasting
<1>16. OldOnes
  <2>1. OldFilesKept
    BY <1>2, <1>7, <1>10 DEF OldFilesKept
  <2> QED
    BY <1>2, <1>8, <1>9, <2>1 DEF OldOnes
<1>17. WholeData
  BY <1>7, <1>8 DEF WholeData
<1>18. Answered
  BY <1>5 DEF Answered
<1>19. Found
  <2>1. ToSet(report.corrupted) = {} /\ DOMAIN report.corrupted = {}
    BY <1>5 DEF ToSet
  <2>2. \A k \in Damaged : ~(k < i)
    BY <1>3, <1>5, Given DEF Damaged
  <2> QED
    BY <2>1, <2>2 DEF Found
<1> QED
  BY <1>3, <1>12, <1>13, <1>14, <1>15, <1>16, <1>17, <1>18, <1>19 DEF SerialInv

\* One step.
LEMMA InvStep ==
  ASSUME SerialInv, Answered, [Next]_vars
  PROVE  SerialInv' /\ Answered'
<1>1. setup' = setup
  BY EveryStep DEF SerialInv
<1>2. Setting'
  BY <1>1, SettingStep DEF SerialInv
<1>3. Shape'
  BY ShapeStep DEF SerialInv, Answered
<1> QED
  BY <1>2, <1>3, BoundedStep, AccountedStep, LastingStep, OldOnesStep, WholeDataStep,
     AnsweredStep DEF SerialInv

-----------------------------------------------------------------------------
(* The theorems.                                                           *)

\* The inductive invariant: whatever the backend does with an entry, in
\* either mode (extract_all and test of the four backends).
THEOREM SerialInvariant == Spec => [](SerialInv /\ Answered)
<1>1. Init => SerialInv /\ Answered
  BY Beginning
<1>2. SerialInv /\ Answered /\ [Next]_vars => (SerialInv /\ Answered)'
  BY InvStep
<1> QED
  BY <1>1, <1>2, PTL DEF Spec

\* Every variable has its type, and no more bytes are reported than came out.
THEOREM TypeCorrect == Spec => []TypeOK
<1>1. SerialInv => TypeOK
  <2> SUFFICES ASSUME SerialInv PROVE TypeOK
    OBVIOUS
  <2>1. Shape /\ Bounded /\ Len(entries) \in Nat /\ report \in Reports
    BY Given DEF SerialInv, Shape
  <2>2. \A k \in DOMAIN data : data[k].by \in 0..Len(entries)
    <3> TAKE k \in DOMAIN data
    <3>1. data[k] \in Datas /\ data[k].by <= Len(entries)
      BY <2>1 DEF Shape
    <3> QED
      BY <2>1, <3>1 DEF Datas
  <2>3. report.bytes >= 0 /\ produced >= report.bytes
    BY <2>1 DEF Bounded, Shape, Reports
  <2> QED
    BY <2>1, <2>2, <2>3 DEF Shape, TypeOK
<1> QED
  BY <1>1, SerialInvariant, PTL

\* A call that answers ok has dealt with every entry, counted it, and left
\* its data in its file.
THEOREM OkComplete == Spec => []OkIsComplete
<1>1. SerialInv => OkIsComplete
  <2> SUFFICES ASSUME SerialInv, result = "ok", setup.mode = "extract" PROVE OkIsComplete
    BY DEF OkIsComplete
  <2>1. /\ i = Len(entries) + 1 /\ Len(fate) = i - 1 /\ Len(entries) \in Nat
    BY Given DEF SerialInv, Shape
  <2>2. Len(fate) = Len(entries)
    BY <2>1
  <2>3. /\ report.extracted + report.skipped = Len(entries)
        /\ report.bytes = Written[Len(fate)]
    BY <2>2 DEF SerialInv, Accounted
  <2>4. \A k \in DOMAIN fate : Landed(k) =>
         \/ Held(k) = [by |-> k, len |-> Body(k).len]
         \/ Held(k).by > k
         \/ \E l \in (k + 1)..Len(entries) : entries[l].kind = "hard" /\ fate[l].what = "extracted"
    BY <2>2 DEF SerialInv, Lasting
  <2> QED
    BY <2>1, <2>3, <2>4 DEF OkIsComplete
<1> QED
  BY <1>1, SerialInvariant, PTL

\* What was at the destination keeps its data and its names unless the host
\* chose always or the numbers for a second name ran out.
THEOREM OldFilesAreKept == Spec => []OldFilesKept
<1>1. SerialInv => OldFilesKept
  BY DEF SerialInv, OldOnes
<1> QED
  BY <1>1, SerialInvariant, PTL

\* What comes out of the entries stays under max_total_output_bytes, but for
\* the one byte by which __copy_capped finds out.
THEOREM OutputIsBounded == Spec => []OutputBounded
<1>1. SerialInv => OutputBounded
  BY DEF SerialInv, Bounded, Extra, OutputBounded
<1> QED
  BY <1>1, SerialInvariant, PTL

\* RAR publishes a file whole or not at all, but for the part that a failed
\* copy to another volume leaves.
THEOREM RarIsWhole == Spec => []RarPublishesWhole
<1>1. SerialInv => RarPublishesWhole
  <2> SUFFICES ASSUME SerialInv, backend = "rar", NEW q \in Paths, file[q] # 0,
                      data[file[q]].by # 0
               PROVE  LET d == data[file[q]] IN
                        Torn(d.by) \/ (d.len = entries[d.by].len /\ ~entries[d.by].hidden)
    BY DEF RarPublishesWhole
  <2>1. file[q] \in DOMAIN data
    BY DEF SerialInv, Shape
  <2> QED
    BY <2>1 DEF SerialInv, WholeData
<1> QED
  BY <1>1, SerialInvariant, PTL

\* A test that answers ok has named exactly the damaged entries, in order,
\* among those that are the first of their name, of an archive whose damage
\* shows (Checkable).
THEOREM DamageIsFound ==
  ASSUME Checkable
  PROVE  Spec => []TestFindsDamage
<1> DEFINE Inv == SerialInv /\ Answered /\ Found
<1>1. Init => Inv
  BY Beginning
<1>2. Inv /\ [Next]_vars => Inv'
  <2> SUFFICES ASSUME Inv, [Next]_vars PROVE Inv'
    OBVIOUS
  <2>1. Found'
    BY FoundStep DEF SerialInv
  <2> QED
    BY <2>1, InvStep
<1>3. Inv => TestFindsDamage
  <2> SUFFICES ASSUME Inv, setup.mode = "test", result = "ok" PROVE TestFindsDamage
    BY DEF TestFindsDamage
  <2>1. i = Len(entries) + 1 /\ Len(entries) \in Nat /\ entries \in Seq(EntryTypes)
    BY Given DEF SerialInv, Shape
  <2>2. \A k \in Damaged : k < i
    BY <2>1 DEF Damaged
  <2>3. {k \in Damaged \cap Heads : k < i} = Damaged \cap Heads
    BY <2>2
  <2> QED
    BY <2>3 DEF Found, TestFindsDamage
<1> HIDE DEF Inv
<1> QED
  BY <1>1, <1>2, <1>3, PTL DEF Spec
=============================================================================
