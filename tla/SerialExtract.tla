---------------------------- MODULE SerialExtract ----------------------------
(***************************************************************************)
(* Extraction and testing one entry at a time: the generic loop of         *)
(* Archive::extract_all with Archive::test (archive.rs) and the loops that *)
(* replace it for tar (tar_family.rs), 7z (sevenz.rs) and RAR (rar.rs).    *)
(*                                                                         *)
(* One thread, and the host speaks only at the tick before an entry, so an *)
(* entry is one step.  A directory entry is counted and not stored.        *)
(* Archive::test and the generic loop read an entry by its name, and every *)
(* backend that lists a name twice answers with its first entry.           *)
(* for_each_entries stops at Ok(false) (sevenz.rs:93).                     *)
(***************************************************************************)
EXTENDS Integers, Sequences, FiniteSets, SequencesExt

CONSTANTS
  Archives,   \* records: backend and entries
  Names,      \* the paths entries have inside the destination
  Policies,   \* "never", "always", "rename", "skip"
  Hosts,      \* follow and block options, Unix or not, destination on one volume
  Caps,       \* max_total_output_bytes, 0 for none
  Ratio,      \* max_compression_ratio and max_total_compression_ratio
  Floor,      \* RATIO_GATE_MIN_UNCOMPRESSED, 1 GiB
  Width,      \* 2^64
  MaxKeep,    \* unique_extract_path tries 2..MaxKeep, 9999
  Olds        \* what is at the destination: sequences of old files' sets of names

EntryTypes ==
  [kind : {"file", "dir", "link", "hard"}, path : STRING, target : STRING,
   size : Nat, comp : Nat, len : Nat, fault : {"none", "silent", "broken", "password"},
   hidden : BOOLEAN, enc : BOOLEAN, placeholder : BOOLEAN]

Paths == Names \X (1..MaxKeep)

\* What the types do not say: a damaged RAR entry is an error of unrar, which
\* compares the CRC (BadData at Process), a tar entry has no password, only
\* files and hard links share names, and no two old files do.
ASSUME SerialAssumption ==
  /\ \A a \in Archives :
       /\ a.backend \in {"serial", "tar", "7z", "rar"} /\ a.entries \in Seq(EntryTypes)
       /\ \A k \in DOMAIN a.entries :
            /\ a.backend = "rar" => a.entries[k].fault # "silent"
            /\ a.backend = "tar" => a.entries[k].fault # "password"
            /\ \A l \in DOMAIN a.entries : a.entries[k].path = a.entries[l].path =>
                 \/ a.entries[k].kind = a.entries[l].kind
                 \/ {a.entries[k].kind, a.entries[l].kind} = {"file", "hard"}
  /\ \A old \in Olds : /\ old \in Seq(SUBSET Paths)
                       /\ \A k, l \in DOMAIN old : old[k] \cap old[l] # {} => k = l
  /\ Caps \subseteq Nat /\ MaxKeep \in Nat \ {0}
  /\ Policies \subseteq {"never", "always", "rename", "skip"}

VARIABLES
  setup,      \* archive, mode and options
  pc,
  i,          \* the entry at hand
  file,       \* path -> 0 or the number of its data
  data,       \* data of the files: entry it comes from (0: old), length
  report,     \* ExtractReport and TestReport
  bomb,       \* __BombMonitor
  fate,       \* what became of each entry, and where it went
  produced,   \* bytes that came out of entries, those of failed ones too
  result

vars == <<setup, pc, i, file, data, report, bomb, fate, produced, result>>
disk == <<file, data>>

Nowhere == <<"", 0>>
entries == setup.archive.entries
backend == setup.archive.backend
e == entries[i]
p == <<e.path, 1>>

\* extract_entry takes a path.
ByName == setup.mode = "test" \/ backend = "serial"
First(k) == Min({j \in 1..k : entries[j].path = entries[k].path})

\* The entry whose data is read for entry k.
Body(k) == entries[IF ByName THEN First(k) ELSE k]
body == Body(i)

Total == FoldLeft(LAMBDA s, x : s + x.size, 0, entries) % Width

Init ==
  /\ \E a \in Archives, m \in {"extract", "test"}, o \in Policies, c \in Caps, h \in Hosts,
        old \in Olds :
       /\ setup = [archive |-> a, mode |-> m, overwrite |-> o, cap |-> c, host |-> h, old |-> old]
       /\ file = [q \in Paths |-> IF \E k \in DOMAIN old : q \in old[k]
                                  THEN CHOOSE k \in DOMAIN old : q \in old[k] ELSE 0]
       /\ data = [k \in DOMAIN old |-> [by |-> 0, len |-> 1]]
  /\ pc = "begin" /\ i = 1
  /\ report = [extracted |-> 0, skipped |-> 0, bytes |-> 0, tested |-> 0, corrupted |-> <<>>]
  /\ bomb = [un |-> 0, comp |-> 0] /\ fate = <<>> /\ produced = 0 /\ result = "none"

-----------------------------------------------------------------------------
(* What the loops share                                                    *)

\* Mutant of SevenZReturns: what the callback has stashed is not looked at.
SevenZReturnsOk(r) == IF r \in {"bomb", "traversal", "canceled"} THEN "ok" ELSE r

\* A stashed reason of the 7z callback stops its loop and is returned after it.
SevenZReturns(r) == r

Fail(r) ==
  /\ pc' = "returned" /\ UNCHANGED <<i, report, fate>>
  /\ result' = IF backend = "7z" THEN SevenZReturns(r) ELSE r

Advance(what, q) ==
  /\ i' = i + 1 /\ pc' = "tick" /\ UNCHANGED result
  /\ fate' = Append(fate, [what |-> what, at |-> q])

Skip ==
  /\ report' = [report EXCEPT !.skipped = @ + 1]
  /\ Advance("skipped", Nowhere)
  /\ UNCHANGED <<disk, bomb, produced>>

Count(n, q) ==
  /\ report' = [report EXCEPT !.extracted = @ + 1, !.bytes = @ + n]
  /\ Advance("extracted", q)

Abort(r) == Fail(r) /\ UNCHANGED <<disk, bomb, produced>>

\* check_zip_bomb: the declared sizes of one entry.
Bomb ==
  /\ e.kind \notin {"dir", "link"} /\ e.comp # 0
  /\ e.size >= Floor /\ e.size \div e.comp > Ratio

\* __BombMonitor::record, with the totals after this entry.
Cumulative(un, comp) ==
  \/ setup.cap > 0 /\ un > setup.cap
  \/ comp > 0 /\ un >= Floor /\ un \div comp > Ratio

Escapes == e.path \notin Names
FilteredLink == e.kind = "link" /\ ~setup.host.follow
Placed == ~Bomb /\ ~FilteredLink /\ ~Escapes

\* From the bomb gate to the directory branch.
Gates(error) ==
  \/ Bomb /\ Abort(error)
  \/ ~Bomb /\ FilteredLink /\ Skip
  \/ ~Bomb /\ ~FilteredLink /\ Escapes /\ IF setup.host.block THEN Abort("traversal") ELSE Skip
  \/ Placed /\ e.kind = "dir" /\ Count(0, Nowhere) /\ UNCHANGED <<disk, bomb, produced>>

\* unique_extract_path: when every number is taken the path itself.
UniqueExtractPath(q) ==
  LET free == {k \in 2..MaxKeep : file[<<q[1], k>>] = 0} IN
  IF free = {} THEN q ELSE <<q[1], CHOOSE k \in free : \A j \in free : k <= j>>

\* Mutant of Destination: keep both is taken for always.
DestinationOverwritten == p

Destination ==
  IF file[p] # 0 /\ setup.overwrite = "rename" THEN UniqueExtractPath(p) ELSE p

\* An existing file that stops or skips its entry.
Existing(error) ==
  /\ Placed /\ e.kind # "dir" /\ file[p] # 0
  /\ \/ setup.overwrite = "never" /\ Abort(error)
     \/ setup.overwrite = "skip" /\ Skip

Writes(kind) ==
  /\ Placed /\ e.kind = kind
  /\ file[p] = 0 \/ setup.overwrite \in {"always", "rename"}

\* File::create truncates the file that is there, whatever other names it has.
Put(q, by, n) ==
  IF file[q] = 0
  THEN /\ file' = [file EXCEPT ![q] = Len(data) + 1]
       /\ data' = Append(data, [by |-> by, len |-> n])
  ELSE data' = [data EXCEPT ![file[q]] = [by |-> by, len |-> n]] /\ UNCHANGED file

\* A new file under the name; one that was there loses it.
Replace(q, by, n) ==
  /\ file' = [file EXCEPT ![q] = Len(data) + 1]
  /\ data' = Append(data, [by |-> by, len |-> n])

\* create_symlink; the target was read from the payload or from the header.
MakeLink(target, readable) ==
  IF readable /\ target \in Names /\ setup.host.unix
  THEN Replace(Destination, i, 0) /\ Count(0, Destination) /\ UNCHANGED <<bomb, produced>>
  ELSE Skip

-----------------------------------------------------------------------------
(* Writing an entry under the cap                                          *)

Budget == IF setup.cap > report.bytes THEN setup.cap - report.bytes ELSE 0
Over(n) == setup.cap > 0 /\ n > Budget
Reading(x) == {o \in [got : 0..x.len, end : {"error"}] : x.fault \in {"broken", "password"}}
Readable(x) == x.fault \in {"none", "silent"}

\* CappedWriter: what fits is written, then the write fails.
CappedWriter ==
  {o \in Reading(body) : ~Over(o.got)}
  \cup IF Over(body.len) THEN {[got |-> Budget, end |-> "bomb"]}
       ELSE IF Readable(body) THEN {[got |-> body.len, end |-> "ok"]} ELSE {}

\* Mutant of CopyCapped: every entry gets the whole cap.
CopyCappedAfresh ==
  Reading(e)
  \cup {[got |-> e.len, end |-> IF setup.cap > 0 /\ e.len > setup.cap THEN "bomb" ELSE "ok"]}

\* __copy_capped: one byte past the budget tells that there is more.
CopyCapped ==
  {o \in Reading(e) : ~Over(o.got)}
  \cup IF Over(e.len) THEN {[got |-> Budget + 1, end |-> "bomb"]}
       ELSE IF Readable(e) THEN {[got |-> e.len, end |-> "ok"]} ELSE {}

\* File::create, the bounded copy, the flush and the stamp of the metadata.
WriteFile(outcomes) ==
  /\ Writes("file")
  /\ \E o \in outcomes :
       /\ Put(Destination, i, o.got)
       /\ produced' = produced + o.got
       /\ IF o.end = "ok" THEN Count(o.got, Destination)
          ELSE Fail(IF o.end = "bomb" THEN "bomb" ELSE e.fault)
  /\ UNCHANGED bomb

\* The file branch of the generic loop: the monitor speaks after the write.
SerialFile ==
  /\ Writes("file")
  /\ \E o \in CappedWriter :
       /\ Put(Destination, i, o.got)
       /\ produced' = produced + o.got
       /\ bomb' = IF o.end = "ok" THEN [un |-> bomb.un + o.got, comp |-> bomb.comp + e.comp]
                  ELSE bomb
       /\ IF o.end = "ok"
          THEN IF Cumulative(bomb'.un, bomb'.comp) THEN Fail("bomb") ELSE Count(o.got, Destination)
          ELSE Fail(IF o.end = "bomb" THEN "bomb" ELSE body.fault)

SerialEntry ==
  \/ Gates("bomb")
  \/ Existing("exists")
  \/ Writes("link") /\ MakeLink(body.target, body.fault = "none" /\ e.size <= body.len)
  \/ SerialFile

-----------------------------------------------------------------------------
(* tar                                                                     *)

\* A hard-link entry has no data: its target must be on the disk already.
\* fs::copy of a file to another name of itself empties it.
TarHardLink ==
  /\ Writes("hard")
  /\ LET t == <<e.target, 1>>
         q == Destination IN
     \/ e.target \notin Names /\ IF setup.host.block THEN Abort("traversal") ELSE Skip
     \/ e.target \in Names /\ file[t] = 0 /\ Skip
     \/ /\ e.target \in Names /\ file[t] # 0
        /\ IF file[q] = 0 /\ setup.host.one_volume
           THEN file' = [file EXCEPT ![q] = file[t]] /\ UNCHANGED data
           ELSE IF file[q] = file[t]
           THEN data' = [data EXCEPT ![file[t]].len = 0] /\ UNCHANGED file
           ELSE Put(q, data[file[t]].by, data[file[t]].len)
        /\ Count(0, q) /\ UNCHANGED <<bomb, produced>>

TarEntry ==
  \/ Gates("bomb")
  \/ Existing("exists")
  \/ Writes("link") /\ MakeLink(e.target, TRUE)
  \/ TarHardLink
  \/ WriteFile(CopyCapped)

-----------------------------------------------------------------------------
(* 7z                                                                      *)

SevenZEntry ==
  \/ Gates("backend")
  \/ Existing("backend")
  \/ WriteFile(CopyCapped)

-----------------------------------------------------------------------------
(* RAR                                                                     *)

Capped == e.kind # "dir" /\ setup.cap > 0 /\ report.bytes + e.size > setup.cap

RarUnplaced ==
  \/ (Capped \/ Bomb) /\ Abort("bomb")
  \/ ~Capped /\ ~Bomb /\ e.kind # "dir" /\ e.size > 0 /\ ~setup.host.unix /\ Abort("no space")
  \/ ~Capped /\ ~Bomb /\ Escapes /\ IF setup.host.block THEN Abort("traversal") ELSE Skip
  \/ ~Bomb /\ ~Escapes /\ e.kind = "dir" /\ Count(0, Nowhere) /\ UNCHANGED <<disk, bomb, produced>>
  \/ ~Capped /\ ~Bomb /\ ~Escapes /\ FilteredLink /\ Skip

\* Mutant of RarPublish: the entry is extracted to its final path.
RarPublishInPlace ==
  \/ \E n \in 0..e.len :
       /\ e.fault # "none" /\ Put(p, i, n) /\ produced' = produced + n
       /\ Fail(e.fault) /\ UNCHANGED bomb
  \/ /\ e.fault = "none" /\ Put(p, i, e.len) /\ produced' = produced + e.len
     /\ Count(e.len, p) /\ UNCHANGED bomb

\* rename_or_copy: on another volume the file is copied to its final name, and
\* the copy may stop halfway.
RenameOrCopy ==
  \/ /\ IF setup.host.one_volume THEN Replace(Destination, i, e.len)
        ELSE Put(Destination, i, e.len)
     /\ produced' = produced + e.len /\ Count(e.len, Destination)
  \/ /\ ~setup.host.one_volume
     /\ \E n \in 0..e.len : Put(Destination, i, n) /\ produced' = produced + n
     /\ Fail("io")

\* extract_to the slot, harvest, and only then the overwrite policy and the
\* rename.  The scratch directory goes with the call.
RarPublish ==
  \/ e.fault # "none" /\ Abort(e.fault)
  \/ e.fault = "none" /\ (e.kind = "link" \/ e.hidden) /\ Skip
  \/ e.fault = "none" /\ e.kind = "file" /\ ~e.hidden /\ e.len > e.size /\ Abort("corrupted")
  \/ /\ e.fault = "none" /\ e.kind = "file" /\ ~e.hidden /\ e.len <= e.size
     /\ \/ file[p] # 0 /\ setup.overwrite = "never" /\ Abort("exists")
        \/ file[p] # 0 /\ setup.overwrite = "skip" /\ Skip
        \/ /\ file[p] = 0 \/ setup.overwrite \in {"always", "rename"}
           /\ RenameOrCopy /\ UNCHANGED bomb

RarEntry ==
  \/ RarUnplaced
  \/ /\ ~Capped /\ ~Bomb /\ ~Escapes /\ e.kind # "dir" /\ ~FilteredLink
     /\ RarPublish

-----------------------------------------------------------------------------
(* Archive::test                                                           *)

\* Mutant of Compares: every stored CRC is compared.
ComparesAll == backend # "tar"

\* A tar entry has no CRC; the one of an encrypted or a RAR entry may be none.
Compares == backend \notin {"tar", "rar"} /\ ~e.enc

Corrupted == [report EXCEPT !.corrupted = Append(@, i)]

\* The first entry of the name is read, and compared with this one's CRC; that
\* of another entry may be the same.
TestEntry ==
  /\ UNCHANGED <<disk, bomb, produced>>
  /\ \/ e.kind \in {"dir", "link"} /\ UNCHANGED report /\ Advance("passed", Nowhere)
     \/ e.kind \in {"file", "hard"} /\ body.fault = "password" /\ Fail("password")
     \/ /\ e.kind \in {"file", "hard"} /\ body.fault = "broken"
        /\ report' = Corrupted /\ Advance("passed", Nowhere)
     \/ /\ e.kind \in {"file", "hard"} /\ Readable(body)
        /\ \E differs \in IF First(i) = i THEN {e.fault = "silent" \/ e.placeholder} ELSE BOOLEAN :
             report' = [(IF Compares /\ differs THEN Corrupted ELSE report) EXCEPT !.tested = @ + 1]
        /\ Advance("passed", Nowhere)

-----------------------------------------------------------------------------
\* tar lists its entries first, and a stream that breaks ends that.
Unlisted == backend = "tar" /\ \E k \in DOMAIN entries : entries[k].fault = "broken"

\* RAR refuses a declared total over the cap.
OverTotal == setup.mode = "extract" /\ backend = "rar" /\ setup.cap > 0 /\ Total > setup.cap

\* Before the loop.
Begin ==
  /\ pc = "begin" /\ UNCHANGED setup
  /\ \/ Unlisted /\ Abort("broken")
     \/ OverTotal /\ Abort("bomb")
     \/ /\ ~Unlisted /\ ~OverTotal /\ pc' = "tick"
        /\ UNCHANGED <<i, disk, report, bomb, fate, produced, result>>

Tick ==
  /\ pc = "tick"
  /\ \/ i > Len(entries) /\ Fail("ok")
     \/ i <= Len(entries) /\ pc' = "entry" /\ UNCHANGED <<i, report, fate, result>>
     \/ i <= Len(entries) /\ Fail("canceled")
  /\ UNCHANGED <<setup, disk, bomb, produced>>

Entry ==
  /\ pc = "entry" /\ UNCHANGED setup
  /\ IF setup.mode = "test" THEN TestEntry
     ELSE CASE backend = "tar" -> TarEntry
            [] backend = "7z" -> SevenZEntry
            [] backend = "rar" -> RarEntry
            [] OTHER -> SerialEntry

Next == Begin \/ Tick \/ Entry

Spec == Init /\ [][Next]_vars

-----------------------------------------------------------------------------
(* Properties                                                              *)

Outcomes == {"none", "ok", "canceled", "bomb", "traversal", "exists", "backend", "broken",
             "password", "corrupted", "no space", "io"}

TypeOK ==
  /\ pc \in {"begin", "tick", "entry", "returned"} /\ result \in Outcomes
  /\ i \in 1..Len(entries) + 1 /\ Len(fate) = i - 1
  /\ file \in [Paths -> 0..Len(data)]
  /\ \A k \in DOMAIN data : data[k].by \in 0..Len(entries)
  /\ report.bytes >= 0 /\ produced >= report.bytes

Landed(k) == fate[k].what = "extracted" /\ entries[k].kind = "file"
Held(k) == data[file[fate[k].at]]

\* Bytes of the files among the first entries.
Written ==
  LET sum[k \in 0..Len(fate)] ==
        IF k = 0 THEN 0 ELSE sum[k - 1] + (IF Landed(k) THEN Body(k).len ELSE 0)
  IN  sum

\* A call that answers ok has dealt with every entry, its report says so, and
\* each extracted file has all of the data that is read for its entry, unless a
\* later entry of the same archive wrote to the same file or, as a hard link,
\* joined it.
OkIsComplete ==
  result = "ok" /\ setup.mode = "extract" =>
    LET landed == {k \in DOMAIN fate : Landed(k)} IN
    /\ i = Len(entries) + 1
    /\ report.extracted + report.skipped = Len(entries)
    /\ report.bytes = Written[Len(fate)]
    /\ \A k \in landed :
         \/ Held(k) = [by |-> k, len |-> Body(k).len]
         \/ Held(k).by > k
         \/ \E l \in (k + 1)..Len(entries) : entries[l].kind = "hard" /\ fate[l].what = "extracted"

\* A hard-link entry was given this name.
Linked(q) == \E l \in DOMAIN fate : entries[l].kind = "hard" /\ fate[l].at = q

\* What was at the destination keeps its data unless the host chose always,
\* or every number for a second name was taken, be it a name the file had or
\* one that a hard-link entry was given.
OldFilesKept ==
  setup.overwrite # "always" =>
    \A k \in DOMAIN setup.old :
      \/ data[k] = [by |-> 0, len |-> 1] /\ \A q \in setup.old[k] : file[q] = k
      \/ \E q \in Paths : /\ q \in setup.old[k] \/ Linked(q)
                         /\ \A j \in 1..MaxKeep : file[<<q[1], j>>] # 0

\* The bytes that entries produced stay under the cap, plus the one byte by
\* which tar and 7z find out.
OutputBounded ==
  setup.cap > 0 => produced <= setup.cap + (IF backend \in {"tar", "7z"} THEN 1 ELSE 0)

\* A copy to another volume (rename_or_copy) stopped the call at entry k.
Torn(k) == ~setup.host.one_volume /\ result = "io" /\ k = i

\* RAR publishes a file whole or not at all, however the call ends: only the
\* entry whose copy to another volume stops halfway leaves a part.
RarPublishesWhole ==
  backend = "rar" =>
    \A q \in Paths : file[q] # 0 /\ data[file[q]].by # 0 =>
      LET d == data[file[q]]
      IN  Torn(d.by) \/ (d.len = entries[d.by].len /\ ~entries[d.by].hidden)

\* Not checked, it does not hold: a copy that fails leaves its part there.
RarPublishesWholeEverywhere ==
  backend = "rar" =>
    \A q \in Paths : file[q] # 0 /\ data[file[q]].by # 0 =>
      data[file[q]].len = entries[data[file[q]].by].len

Damaged ==
  {k \in DOMAIN entries : entries[k].kind = "file" /\ entries[k].fault \in {"broken", "silent"}}

\* Damage that the test can see, and none that it only believes in: a CRC is
\* stored for what is damaged in silence, and it is a real one.
Checkable ==
  \A a \in Archives : \A k \in DOMAIN a.entries :
    LET x == a.entries[k]
        compared == a.backend \notin {"tar", "rar"} /\ ~x.enc
    IN  /\ x.fault = "silent" => compared
        /\ x.placeholder => ~compared
        /\ x.kind = "hard" => x.fault \notin {"broken", "silent"}

\* The entries that are read when their name is: the first ones of theirs.
Heads == {k \in DOMAIN entries : First(k) = k}

\* A test that answers ok names exactly the damaged entries, in order, among
\* those that are the first of their name.
TestFindsDamage ==
  setup.mode = "test" /\ result = "ok" =>
    /\ ToSet(report.corrupted) \cap Heads = Damaged \cap Heads
    /\ \A j, k \in DOMAIN report.corrupted : j < k => report.corrupted[j] < report.corrupted[k]

\* Not checked, it does not hold: damage of a second entry of a name is not
\* seen, and a healthy one is named for the first one's data.
TestFindsEveryCopy ==
  setup.mode = "test" /\ result = "ok" => ToSet(report.corrupted) = Damaged

\* A hard-link entry ends up with the data of the entry it names: "weaker
\* semantics, same data" (tar_family.rs).
HardLinkKeepsData ==
  result = "ok" /\ setup.mode = "extract" =>
    \A l \in DOMAIN fate : entries[l].kind = "hard" /\ fate[l].what = "extracted" =>
      \E k \in 1..(l - 1) : entries[k].path = entries[l].target
                            /\ Held(l) = [by |-> k, len |-> entries[k].len]
=============================================================================
