# OtterZip in TLA+

This directory is a verification development for OtterZip, the archive manager
in this repository: a Rust core (`src/crates/otterzip-core`), a C interface over
it (`src/crates/otterzip-ffi`), a .NET binding, two desktop front ends
(`src/app`) and a shell extension. It holds TLA+ modules translated from the
code, TLC configurations that check them on small instances, and proofs that
TLAPS checks. `PROJECT.json` says, definition by definition, which source lines
an operator stands for, which property each run checks, and which plausible bug
breaks each property.

Paths below are relative to `src/`; `core/` is `crates/otterzip-core/src/`.

## 1. The system

### 1.1 Parts and how they work together

```
 shell extension      main windows, dialogs (OtterZip.App, OtterZip.Linux)
   | starts              | submits jobs        | plans output names
   v                     v                     v
 headless verb  --->  job queue  ----------> output names, clean-up
                         | work delegates on the thread pool
                         v
                      .NET binding -> C interface -> archive handle
                                                       |
        +---------------+--------------+---------------+------------+
        v               v              v               v            v
  ZIP bulk writer  7z/tar/xz/ZIPX   volumes       format detection  append
  headers, records  tree writers    cut, joined,  and dispatch      to ZIP
        |                           spanned ZIP        |
        |                                 +------------+-----------+
        v                                 v            v           v
   (files on disk)                    parallel ZIP  serial ZIP,  lenient
                                      extraction    tar, 7z, RAR ZIP parser
```

The core's only state that outlives a handle is the cache of paths that needed
the lenient parser; the front end adds the registry of reserved names.
Concurrency is of three kinds: worker pools inside one call of the core (bulk
writing, parallel extraction); the job queue, where work runs on pool threads
and everything that is shown runs on the UI thread; and other programs that
replace a file while it is opened or added to.

### 1.2 Inventory

| Part | State | Operations | What is hard |
|---|---|---|---|
| ZIP bulk writer (`core/backends/writer.rs`, `zip_writer.rs`) | pool, bounded channel, reorder map, cursor, file position, directory records, progress counters | walk, prepare, send, receive, splice, stream a large file, tick, cancel | entries finish in any order; errors while others are in flight; offsets kept by arithmetic across a seek back; three sources of progress |
| ZIP headers and records (`zip_writer.rs`) | the file, the records kept for the end | local header, stored, deflated, streamed and multi-block payload, directory, end records | ZIP64 limits met between two headers; sizes that are known only afterwards |
| Parallel ZIP extraction (`core/backends/zip.rs`, `archive.rs`) | shared byte and entry counters, cancel flag, first error, sink lock, files | take an entry, look at its path, reserve a keep-both name, create, write under a cap, count, tick | check-then-create between workers; a limit shared by all; which error is reported |
| Serial extraction and test (`archive.rs`, `tar_family.rs`, `sevenz.rs`, `rar.rs`) | report, caps, the entry being published | policies, limits, links, publication, test | errors that travel through a decoder; what a partial failure leaves; links over what is there |
| Lenient ZIP parser (`lenient_zip.rs`) | none between calls | find the directory, walk it, locate and inflate a payload | offsets that lie, truncated tails, ZIP64, duplicate names |
| Tree writers (`writer.rs`): 7z, tar, xz, ZIPX | walk stack, totals, solid block under construction | pre-scan, visit, read, flush, commit | two walks that must agree; entries that wait in a block; files that grow |
| Archive handle (`archive.rs`, `core/progress.rs`) | backend, mode, files at the path | create, add, commit, slice into volumes, rollback, open, close | failure in the middle of slicing; a handle used after commit |
| Volumes and spanned ZIP (`multi_volume_reader.rs`, `spanned_zip.rs`, `SplitArchiveDetector.cs`) | cursor over several files, a patched tail | read, seek, enumerate, rewrite the directory | seams, empty volumes, places that count from a disk |
| Format detection and dispatch (`format.rs`, `backends/mod.rs`) | process-wide set of paths | detect, try strict, fall back, remember | a remembered path whose file was replaced; a slow disk |
| Append to ZIP (`append.rs`) | the archive in place | confirm, list, plan, write, finish | the directory is overwritten in place; the list is older than the write |
| Job queue (`app/OtterZip.App/Services/JobQueue.cs`, twin in OtterZip.Linux) | semaphore, limit, token sources, cards, dispatcher queue | submit, run, cancel, report, settle, remove, raise the limit | slots on every way out; late progress; callers that await a job which never ran; the headless window |
| Output names and clean-up (`OutputNamer.cs`, `CompressEngine.cs`, both main windows) | reservations, files and folders on disk, `DestExistedBefore` | plan, reserve, write, release, clean up, settle | reservation against release against deletion; volumes and folders |
| C interface and .NET binding | handles, iterators, callbacks | open, iterate, extract, close | who frees a handle |
| Name encodings; ISO, deb, MSI, CAB and single-stream readers; permissions, links, zone marks; settings, passwords, credentials; shell extension; command line, bench; desktop integration, tools | none, or a platform's store | | not modelled, see section 8 |

### 1.3 What makes each part correct

- **ZIP bulk writer**: the directory lists the walk in order, each entry once,
  at its true offset; Ok means all of it; nothing is listed after an error; the
  call returns; the forecast only goes up.
- **ZIP headers, lenient parser, spanned ZIP**: what was written is read, with
  its sizes, places and times, on both sides of every limit, whichever of the
  tolerated damages it has; both headers of an entry agree.
- **Parallel extraction**: the output of all workers stays under the limit;
  entries that keep-both reserves do not share a file; what was there is left
  alone; a success report is exact.
- **Serial extraction**: a success is complete, old files stay where the policy
  says so, the output is bounded, a RAR entry appears whole on the volume it was
  decoded on, a test finds what is damaged where it reads it.
- **Tree writers**: a committed archive lists its trees in walk order; the
  announced totals are met; a cancel is told as one.
- **Archive handle, volumes**: a commit leaves all of the archive or nothing of
  its segments; the pointer above follows the handle; a read handle touches no
  file; volumes read as one file.
- **Dispatch, append**: a healthy file goes to the reader for what it is; an
  append that succeeds keeps the old entries and adds the planned ones once.
- **Job queue**: slots are conserved, jobs start in order, each settles; a card
  is frozen when it has settled; every caller is told the truth; the window of
  a verb closes after its last job.
- **Output names**: one live writer per reserved name, what was delivered stays,
  older output is not touched by a plan or a clean-up, nothing is reserved for ever.

`PROJECT.json` lists the hazards these properties are aimed at, at the lines
where they bite; the ones no property covers have the reason.

## 2. The modules

| Module | Models | Used by |
|---|---|---|
| `OrderedArchive`, `ZipPipeline`, `ZipPipelineProofs` | what the bulk writer promises, and the pipeline that implements it | run `zip_pipeline` |
| `ZipHeaders` | what the ZIP writer puts on disk, as operators | `ZipRoundTrip` |
| `LenientZip` | the recovering parser, as operators | `ZipRoundTrip` |
| `SpannedZip` | the rewriting of a directory cut into disks | `ZipRoundTrip` |
| `ZipRoundTrip`, `ZipRoundTripProofs` | writer, damage or disks, parser, over one file | run `zip_round_trip` |
| `ParallelExtract`, `ParallelExtractProofs` | the worker pool of extraction | runs `extract`, `extract_race` |
| `SerialExtract`, `SerialExtractProofs` | the four serial loops and the test | runs `serial_extract`, `tar_relink` |
| `TreeWriter`, `TreeWriterProofs` | the walker and the writers it feeds | run `tree_writer` |
| `ArchiveHandle` | create, commit, slicing, rollback, the pointers | `SplitArchive` |
| `PlainFile`, `VolumeReader` | a reader of one file, and the reader of volumes that implements it | `SplitArchive` |
| `SplitArchive`, `SplitArchiveProofs` | the cut and the reader composed | run `split_archive` |
| `ArchiveFormats` | signatures, extension hints, choice of a backend | `OpenArchive` |
| `OpenArchive`, `OpenArchiveProofs` | dispatcher, cache, append, and programs that replace the file | run `open_archive` |
| `BoundedExecutor`, `JobQueue`, `JobQueueProofs` | what the queue promises, and the queue with its cards and callers | runs `queue_slots`, `queue_cards` |
| `OutputNames` (proofs in `JobQueueProofs`) | names, plans, writing, clean-up and settling of several jobs | run `output_names` |

## 3. How state and actions correspond to the code

### 3.1 `ZipPipeline` (with `OrderedArchive`)

`ZipWriterBackend::add_directory_bulk` in one call, from the walk to its answer.
Three kinds of actors: the workers of the private pool, the calling thread, and
the host that is shown progress and may cancel.

| Model | Code |
|---|---|
| `todo`, `job`, `stage` | the parallel iterator and where each closure is in `prepare_entry` / `tx.send` |
| `chan`, `Depth` | the `sync_channel` of `CHANNEL_DEPTH` |
| `pending`, `next_idx` | the `BTreeMap` and the next index to splice, counted from 1 |
| `pc` | the calling thread: walk, receive, drain, join, large files |
| `cursor`, `file`, `headers`, `cd` | `ZipFileWriter`: its cursor, the real position and length of the file, where headers really were written, the directory records |
| `bytes_in_flight`, `bytes_done`, `last_emitted_top`, `shown` | the shared atomic, the committed bytes, and the snapshots given to the host |
| `Take` ... `Send` | a worker; `ReadChunk` is one read of either pass, `PrepareFails` any error |
| `RecvEntry`, `RecvFailure`, `RecvDiscard`, `Disconnected`, `InFlightTick` | the arms of the receive loop |
| `Splice`, `SpliceFails`, `DrainStops` | the inner `while let` over contiguous entries |
| `StreamBegins` ... `StreamFails` | `add_entry_streaming` for large files on the calling thread |

Sizes count read chunks, a header is one unit and two with the ZIP64 field. What
deflate makes of a file is a nondeterministic shorter length. `TornWrite` is any
failed write. Relaxed atomics are one value: the counters are only added to, and
the reader of the forecast uses whatever it finds. `OrderedArchive` is what a
caller relies on, whatever the number of threads: entries join the list one by
one in walk order, nothing joins after the answer, and Ok means that all have.

### 3.2 `ZipHeaders`, `LenientZip`, `SpannedZip`, `ZipRoundTrip`

A file is a sequence of cells: the fixed part of a header is one cell carrying
its signature and fields and the length of what follows it; a byte of a payload
is one cell. `Max16` and `Max32` stand for 0xFFFF and 0xFFFFFFFF, so three
entries and nine bytes are on both sides of them. `ZipHeaders` has each way an
entry is written (directory, stored, deflated in one shot, streamed with a
patched header, deflated in blocks) and the end of the archive; `LenientZip`
follows the parser: end record, ZIP64 locator, the scan for the first directory
header when the offset is wrong, the walk, the payload's place by the local
header, inflating with caps. `ZipRoundTrip` writes up to `MaxEntries` files,
damages the archive in one of the ways the parser's documentation names (a
trailing comment, an end record whose offset, size or count lies, a record whose
lengths overshoot, a local header that is not where its record says or has lost its
signature) or cuts it into disks, and reads it. Times are real: days since 1970 and
DOS dates. `Fits` says of a file that its deflated data stays below the 32-bit limit
if the file does, which the streaming writer takes for granted (section 6); the
files of the run are such.

### 3.3 `ParallelExtract`

`ZipBackend::extract_all_parallel` with `reserve_unique_extract_path` and
`__AtomicCappedWriter` of `archive.rs`. `Look` is `exists()` and the match on the
policy, `Reserve` the loop of `create_new` over "name (2)", ..., `ReserveBytes`
to `Commit` the `fetch_add` and what is written of a reservation, `Tick` and
`TellHost` the `try_lock` on the sink. Every byte is paid for with a ticket:
`fetch_add` that returns `prev` hands out `prev+1 .. prev+n`, and `paid[e]` holds
the tickets of the bytes of `e` that were written; the limit is a statement
about sets of numbers. The relaxed `canceled` flag: a worker may find it unset
after it was set, never the other way round. `KeepBoth` is finite; when all
candidates are taken the path itself is used, as in the code.

### 3.4 `SerialExtract`

One entry is one step, since the loops are single-threaded and the host speaks
between entries. `backend` chooses the loop: the generic one over
`for_each_entries`, tar, 7z (whose callback stops the decoder by `Ok(false)` and
stashes the reason) and RAR (whose entries are decoded beside their place and
renamed). Files are sets of inodes, so that two names can be one file: hard
links of tar are made, fall back to a copy, or refused. The test and the generic loop
ask for an entry by its name (`archive.rs:566`, `:969`) and the backends give the
first one that has it (`sevenz.rs:88`, `tar_family.rs:195`, `rar.rs:569`,
`lenient_zip.rs:236`); tar, 7z and RAR extract in the order of the archive. `First` and
`Body` say whose data is read for an entry. For a test, tar lists its entries first, so
that a broken stream ends the call before it begins (`Unlisted`). When scratch folder
and destination are on different volumes, `RenameOrCopy` copies to the final name and
may stop halfway. Entries carry what a
decoder makes of them: sizes declared and real, an error half-way, a wrong
password, a silent corruption that only a checksum finds. `SerialAssumption` says
that RAR has none of the latter (unrar compares the CRC itself, `rar.rs:482`) and that
no name belongs to two old files.

### 3.5 `TreeWriter`

`add_dir_recursive_through` and the four writers: `PreScan` is the recursion that
counts, `stack` the other walk, which adds. `pending` is the solid block of the
7z writer; `AddFile`, `OpenFile`, `AddDirectory` and `Commit` are the places that
flush it. A cancel raised by the sink inside the reader comes back through a
codec as an I/O error and is recognised by its marker (`Canceled`). The last flush of
a commit may fail on a full disk. 7z and the tar sinks hand that error on; the xz
writer (`core/backends/writer.rs:1905`) and the two that wrap `zip::ZipWriter` (`:2049`,
`:2161`) drop the `BufWriter` they get back, and with it the error
(`DropsLastBuffer`). `whole` says whether the last buffer reached the file. How much
`ZipWriter` has flushed by itself when it gives the file back is the library's affair,
so either may be the case. A file may be
longer when it is read than when it was stat'ed. The nodes of a tree are numbered as
a depth-first listing of the directory meets them (`IsTree`), which every directory
on disk can be; `FirstOf` and `BytesOf` run through that numbering.

### 3.6 `ArchiveHandle`, `VolumeReader`, `SplitArchive`

`file` says of the path, its `.otzpart` and each `.NNN` which build wrote it and
which stretch of that build's bytes it holds. `Create`, `Add`, `CommitWriter`,
`Rollback`, `Open`, `Close` are calls of the handle; slicing is a sequence of
steps (`ReadChunk`, `OpenSegment`, `WriteSegment`, `SliceDone`), each of which may
fail (`SliceError`), and `SliceFails` is the guard that removes what was made.
`native` is the boxed archive and `ptr` the pointer .NET keeps. `VolumeReader` has
the cursor, the kernel's position in each volume and the patched tail, and
implements `PlainFile`: reads give the next bytes, at least one unless the end is
reached or none is asked for. `got` keeps what the last call asked for with what it
gave, so that a read that gives nothing is seen. `SplitArchive` opens what a commit has left the way
`SplitArchiveDetector` lists it.

### 3.7 `ArchiveFormats`, `OpenArchive`

A form is what a file really is, a name its stem and extension; `Detect` has the
signature table and the extension upgrades, `Backend` the dispatcher's choice.
`OpenArchive` runs two openers step by step (detect, ask the cache, strict
attempt with its one-second deadline, fallback and remembering), an append
(confirm, list, plan, write, finish or fail), and programs that put another file
at the path between any two of them. `steady` has the callers during whose call the
file did not change, `spoiled` is true from when the path held anything but a sound
ZIP or was read too slowly; both are there for the properties only.

### 3.8 `JobQueue` (with `BoundedExecutor`)

`Services/JobQueue.cs`, `JobItem`, `JobCard`, and the work delegates and settle
handlers of both main windows, as far as they touch the queue.

| Model | Code |
|---|---|
| `run`, `outcome` | how far `RunAsync` of a job is, how its delegate ended |
| `waiters`, `slots`, `limit` | the `SemaphoreSlim` and `_currentLimit` |
| `cts` | the token source: live, cancelled, or disposed by `Remove` ("gone") |
| `ui`, `Post`, `Turn` | the dispatcher's queue and one turn of it |
| `ticks`, `Report`, `Deliver` | `Progress<double>`: callbacks the pool runs in any order, then a throttle, then a posted closure |
| `listed`, `state`, `progress`, `text` | the collection of cards and what a card shows |
| `awaited` | the `TaskCompletionSource` an inline extract waits for |
| `outstanding`, `closed` | the headless counter and the window |

A release of the semaphore and the grant to the oldest waiter are two steps here
and one in the library: a new arrival may be queued in between, never overtake.
The tick throttle is a choice. `SummaryOnUi` chooses the front end: OtterZip.App
posts its summary with `Progress = 1.0`, OtterZip.Linux writes the caption from
the pool thread. `Headless` chooses a window that runs one shell verb.
`BoundedExecutor` is the queue as a submitter sees it: jobs wait in order, start
from the front while there is room, may give up while they wait, and end once;
the limit is only raised.

### 3.9 `OutputNames`

Jobs of six kinds want one name: a single archive, a volume set, a folder of the
bulk extraction (reserved), of Linux's extraction (reserved, never released), of the
Windows inline extraction (only probed), and a folder the Windows extraction takes as
it is, which is neither probed nor reserved: the archive's own folder, one that was
typed or set, the single root of a smart extraction (`MainWindow.xaml.cs:1095`, `:1283`,
`:1584`, `:1599`, `:1707`).

| Model | Code |
|---|---|
| `reserved`, `Taken`, `Plan` | `s_reserved`; the probe and the reservation under one lock |
| `existed`, `SubmitPlan` | `DestExistedBefore`, which is read when the job is submitted and not when its name is planned |
| `whole`, `segments` | who wrote what is under a name; into a folder several may |
| `Start`, `Write`, `Fail`, `FailKeeping` | the work delegate; only a cancel and a wrong password roll an extraction back |
| `CleanRelease`, `CleanDelete`, `Spares` | the two steps of `TryDeletePartialArchive` and `RollbackPartialExtract`, and what the latter leaves alone |
| `MaybeRecycleSources`, `Finish` | recycling lies inside the `try` whose `catch` cleans up, so `Fail` may follow it |
| `SettleCard` | `ReleaseReservation` of the card, once more and whoever has the name by then |

`contested` is there for the properties only: the names somebody took without a
reservation, or planned while a failed job that had them was between its first release
and the settling of its card. A name that is contested stays so. Linux's "extract here"
writes into a given folder and cleans nothing up, so it is not a kind of its own; the
retry of an inline extraction after a wrong password keeps its folder, and is a job of
the kind "here".

## 4. What the runs check

Bounds are in the `.cfg` files; the instances are in the `MC` modules.

| Run | Shows | Bounds and why they are enough |
|---|---|---|
| `zip_pipeline` | completeness, true offsets, nothing listed after an error, forecast monotone, refinement of `OrderedArchive`, and that the call returns | 2 workers, 3 small files, channel of 1, a directory, a large file of 2 chunks, offsets past 32 bits after 3 units: senders block, results arrive out of order and wait in the map; each kind of entry occurs |
| `zip_round_trip` | every entry is recovered; both headers agree | up to 3 of 6 files, `Max16` 2, `Max32` 8: sizes, offsets and the count on both sides of each limit, each way to write, each damage, every cut into disks |
| `extract` | the limit, exact success, old files, keep-both, bytes shown | 2 workers, 6 entries: three files of which two share a path, a followed link, a directory, a skip; buffer 2, limit 5 of 6 bytes, so it trips between two workers; all policies; paths there before or not |
| `serial_extract` | five properties of the loops and the test | every pair of entries of each backend's set, and every triple that starts with a plain file; limits 0 and 3; three hosts; nothing, two files, or two names of one file there before |
| `tree_writer` | order and completeness of a commit, totals, cancel | two calls, trees of up to 8 nodes with directories, a link and system files; solid block of 3 bytes, so that it is flushed by size, by a large file, by a directory and at commit; a last file that grows |
| `split_archive` | pointer, all or nothing, read handles, volumes as one file | 2 builds at one path over an old set of 0 or 2 segments, lengths 1, 5, 7, volume sizes 2 and 3, buffer 2, limit 3: segments of one, two and part of a chunk, an archive that does not fill a segment, one that needs a fourth; no empty archive (section 7) |
| `open_archive` | a healthy file is read; an append is listed | every form once under every family of names, ZIPs of every health, one replacement, two openers, one append |
| `queue_slots` | slots, refinement of `BoundedExecutor`, the window of a verb, every job settles | 3 jobs on 1 slot, limits 0 and 5 asked for with a ceiling of 2: two jobs wait while one runs, and the clamp is used on both sides |
| `queue_cards` | a card keeps its summary, is frozen, its caller is told the truth, it settles | 1 job and 1 failure card, 3 reports of any value, full bar 2: an old, a low and a final tick can pass each other |
| `output_names` | names apart, delivered stays, older output untouched, nothing left reserved | 3 jobs of every mixture of the 6 kinds, 4 numbers, with and without older file, folder and segments: a name can pass from a failed job to a second while a third waits, and two extractions can share a folder that one of them rolls back |
| `extract_race`, `tar_relink` | disagreements, see section 7 | the smallest instance that shows each |

Deadlock is checked in `zip_pipeline`, `extract`, `queue_*`, `split_archive`,
`zip_round_trip` and `output_names`: their only terminal states are the ones the
modules name. `serial_extract`, `tree_writer` and `open_archive` are bounded
sessions that simply end.

### The properties, by run

- `zip_pipeline`: `SuccessIsComplete` (a call that succeeds lists every file walked),
  `OffsetsAreReal` (each directory entry points at its own local header),
  `NothingListedAfterError`, `ForecastNeverRegresses`, `ImplementsOrderedArchive`,
  `CallReturns`.
- `zip_round_trip`: `EveryEntryRecovered`, `HeadersAgree`.
- `extract`: `CapHolds` (the output limit over all workers), `SuccessIsExact` (the
  report of a success), `ExistingKept` (skip and keep-both leave older files),
  `KeptApart` (two entries never share a file under keep-both), `BytesNeverGoBack`.
- `serial_extract`: `OkIsComplete` (every entry dealt with and counted, its data in its
  file), `OldFilesKept` (older files keep data and names, unless all numbers were taken
  for a name of theirs, be it an old one or one that a hard-link entry gave them),
  `OutputBounded`, `RarPublishesWhole` (a RAR entry takes its name only when whole, but
  for the one whose copy to another volume stops halfway), `TestFindsDamage` (a test
  that answers ok names exactly the damaged ones among the entries that are the first
  of their name).
- `tree_writer`: `CommittedListsTrees` (of xz and the two ZIP writers only if the last
  buffer was written), `TotalsAreMet`, `CancelIsTold`.
- `split_archive`: `PointerIsLive`, `FailedSliceLeavesNothing`,
  `CommittedIsComplete`, `ReaderSparesFiles`, `ReadsAsOneFile` (`VolumeReader`
  implements `PlainFile`).
- `open_archive`: `HealthyIsRead` (a file under a usual name gets the backend for what it
  is; at a path that is in the cache, a ZIP without a password does, the others are
  refused there), `AppendedIsListed` (what an append that succeeded found, kept, added and skipped).
- `queue_slots`: `SlotsConserved`, `ClosesAfterLast` (the window of a verb stays until
  all jobs have settled), `ImplementsExecutor`, `EverySubmissionSettles`.
- `queue_cards`: `DoneShowsSummary`, `CallerToldTheTruth`, `SettledCardFrozen`,
  `EverySubmissionSettles`.
- `output_names`: `NamesAreApart` (no two jobs that have yet to end have one name, unless
  it is contested), `DeliveredIsKept` (what a job delivered stays and is its own; in a
  contested folder it stays unless a job failed there that had found none),
  `NothingLeftReserved`, `OldIsKept` (what was under a name or in a folder is not touched
  by plans, writes into the folder or clean-ups).
- `extract_race` refutes `KeptApart`, `tar_relink` refutes `HardLinkKeepsData`.

### Fairness

- `ZipPipeline`: weak fairness of the calling thread and of each worker. These
  are operating-system threads and none of their steps waits for anything but
  the channel; a read that never returns is outside the model.
- `JobQueue`: weak fairness of the dispatcher, of each job's steps on the thread
  pool and of its callbacks. A work delegate is assumed to return. Nothing is
  assumed of the user: cancelling, removing and raising the limit may never
  happen. In a headless window the verb's loop over its files is fair as well,
  since it is straight-line code on the UI thread.
- `TreeWriter` states weak fairness of its one thread. The other modules state
  safety only and no fairness.

## 5. What is proved

All theorems hold for every value of the constants that meets the named
assumptions of the module: any number of files, sizes, workers, channel depths,
limits, jobs, kinds, lengths, volume sizes and buffers.

| Module | Theorem | States |
|---|---|---|
| `ZipPipelineProofs` | `InductiveInvariant`, `TypeCorrect` | `IInv`, `TypeOK` |
| | `DirectoryIsOrdered`, `ResultsAreHeldOnce` | `OrderedDirectory`, `HeldOnce` |
| | `SuccessMeansComplete`, `OffsetsAreTrue` | `SuccessIsComplete`, `OffsetsAreReal` |
| | `ErrorsEndTheListing`, `ForecastOnlyRises` | `NothingListedAfterError`, `ForecastNeverRegresses` |
| | `PipelineImplementsOrderedArchive` | `ImplementsOrderedArchive` |
| `ZipRoundTripProofs` | `ArchiveInvariant`, `TypeCorrect` (where `Fits`) | `ArchiveInv`, `TypeOK` |
| | `HealthyArchiveAgrees` (where `Fits`) | `HeadersAgree` |
| | `RecoverInvariant` (where `Fits`) | `RecoverInv` |
| | `EntriesRecovered` (where `Fits`, `6 * MaxEntries <= ScanCells`, no data past `HardCap`) | `EveryEntryRecovered` |
| `ParallelExtractProofs` | `InductiveInvariant`, `TypeCorrect` | `IInv`, `TypeOK` |
| | `OutputStaysUnderCap`, `HostSeesBytesGrow`, `FirstErrorIsKept` | `CapHolds`, `BytesNeverGoBack`, `FirstErrorKept` |
| | `SuccessReportIsExact`, `ExistingFilesAreKept` | `SuccessIsExact`, `ExistingKept` |
| | `KeepBothKeepsApart` (where `KeepBothRoom`) | `KeptApart` |
| `JobQueueProofs` | `SlotInvariant`, `SlotsAreConserved`, `QueueImplementsExecutor` | `SlotInv`, `SlotsConserved`, `ImplementsExecutor` |
| | `CardInvariant`, `SettledCardsAreFrozen` | `CardInv` (with `TypeOK`), `SettledCardFrozen` |
| | `DoneCardsShowSummary`, `CallersAreToldTheTruth` (where `SummaryOnUi`) | `DoneShowsSummary`, `CallerToldTheTruth` |
| | `WindowWaitsForAll` (where `Headless => Ghosts = {}`) | `ClosesAfterLast` |
| | `NamesInvariant`, `NamesTypeCorrect` | `NamesInv`, `NamesTypeOK` |
| | `NoTwoWriters`, `OutputStays` | `NamesAreApart`, `DeliveredIsKept` |
| | `NamesReturn`, `OldStays` | `NothingLeftReserved`, `OldIsKept` |
| `SplitArchiveProofs` | `HandleInvariant`, `HandleTypes` | `HandleInv`, `TypeOK` |
| | `PointerTheorem`, `NothingIsLeft` | `PointerIsLive`, `FailedSliceLeavesNothing` |
| | `CommitIsComplete`, `OpenedIsSpared` | `CommittedIsComplete`, `ReaderSparesFiles` |
| | `VolumesReadAsOneFile` (where `0 \notin Lengths`) | `ReadsAsOneFile` |
| | `TogetherIsHandle` | `SpecBoth => Spec` |
| `TreeWriterProofs` | `TreeInvariant`, `TypeCorrect` | `IInv`, `TypeOK` |
| | `CommittedIsTree`, `TotalsMet`, `CancelTold` | `CommittedListsTrees`, `TotalsAreMet`, `CancelIsTold` |
| `SerialExtractProofs` | `SerialInvariant`, `TypeCorrect` | `SerialInv` with `Answered`, `TypeOK` |
| | `OkComplete`, `OldFilesAreKept` | `OkIsComplete`, `OldFilesKept` |
| | `OutputIsBounded`, `RarIsWhole` | `OutputBounded`, `RarPublishesWhole` |
| | `DamageIsFound` (where `Checkable`) | `TestFindsDamage` |
| `OpenArchiveProofs` | `OpenInvariantHolds`, `TypeCorrect` | `OpenInvariant`, `TypeOK` |
| | `HealthyFilesAreRead`, `SuccessfulAppendIsListed` | `HealthyIsRead`, `AppendedIsListed` |

**`ZipPipelineProofs`.** `InductiveInvariant` proves `IInv`. Hardly any of the published
properties is inductive. Order needs to know that the length of the directory is
a function of the phase (`Lengths`). Completeness needs that, until an error, a
file not yet spliced is untouched, with a worker, in the channel or in the map
(`NothingLost`), and that when the senders are gone and the channel is empty the
drain has stopped at a gap (`StopsAtGap`). The offsets need `Tiling`: how file
position, cursor and headers relate in each phase, in the middle of a streamed
body too. From it follow type correctness, order, completeness, offsets, silence
after an error, and `PipelineImplementsOrderedArchive`. `ForecastOnlyRises` needs
`ForecastIsAhead`: until the last small entry is written the host has been shown no
more than the forecast the next snapshot starts from.

**`ParallelExtractProofs`.** `IInv` says that tickets which were handed out are
below the counter and apart from each other and from those used (`TicketsApart`),
that used ones lie under the limit and belong to one entry (`PaidOnce`), and that
whoever holds the sink shows what it loaded under the lock (`OneTeller`). The
limit, the bytes shown and the first error follow. That the report of an Ok is
exact needs two accounts more (`ExactInv`): of the bytes, per entry and by ticket
(`BytesAddUp`: what is paid and what is left of an entry make up its size, and
nothing is paid of an entry nobody opened; `AllPaid`: until somebody gives up, each
ticket below the counter is used or held), and of the entries (`EntriesAddUp`: until
then done, skipped and unfinished ones add up to the archive's). `KeptInv` says for
every stage which paths a worker may have, and that such a path was not there when
it was picked, unless the policy is to overwrite. `KeptApart` holds only where
keep-both has room, which is the hypothesis `KeepBothRoom`: a path that several
entries share is there before the call, there are as many free names beside it as
entries that want it (the code tries 2 to 9999), and no entry's own path that is yet
to be created is one of those names. The run `extract` meets it (`RoomAssumption` of
`MCParallelExtract`); the run `extract_race` shows what happens to a shared path that
is free. `ApartInv` then says that each file beside a shared path was claimed once,
and counts: files made there and entries still to come are no more than the
claimants, so a free name is always found.

**`JobQueueProofs`.** `SlotInvariant` relates the waiters to the jobs that wait
(each once) and the free slots to the jobs that hold one. `SlotsAreConserved` and
`QueueImplementsExecutor` follow. The rest is about the cards, and needs to know what
may be in the dispatcher's queue (`CardInv`): which closures of a job can be there,
by how far it has come (`ClosuresFit`); that its running closure is before its
summary and its end, and the end comes once (`ClosuresOrdered`); that a settled card
shows its job's outcome (`Outcomes`); and that only such a card loses its token
source (`GoneIsOver`), so that a job never finds it gone. It makes
`SettledCardsAreFrozen` hold in both front ends. In OtterZip.App, whose delegates
wait for the summary's closure (the hypothesis `SummaryOnUi`; OtterZip.Linux writes
the caption from the pool, and a late tick replaces it), `SummaryStands` keeps the
summary from then on, and `Answered` says when a caller has been answered and with
what. `WindowWaitsForAll` counts: `_headlessOutstanding` is the number of jobs that
are submitted and not settled (`Accounted`). Its hypothesis is that a verb reports
no failure outside a job: such a failure raises JobSettled for a card that
`TrackHeadless` never counted (see section 7).

The second half is about `OutputNames`. That names are apart is inductive only with
two facts more: whoever has a name that is not contested still has it in the registry
(`HeldInRegistry`), so that no plan picks it; and what releases it is the job itself,
since another one of that name would have contested it. `Mine` says what is on disk
under such a name, before its job starts and afterwards. `InFolder` is about all
folders: what a job put there is lost only to the clean-up of one that was submitted
when there was none. `OldAside` says that a job under whose name something old is has
taken its folder as it is and, once it is submitted, knows that it was there, so that
its clean-up spares it. `NoTwoWriters`, `OutputStays`, `NamesReturn` and `OldStays`
follow for any number of jobs of any kinds.

**`SplitArchiveProofs`.** The first half is about `ArchiveHandle`. A commit is only complete because of what holds while
it is being cut: `Cutting` says that all segments behind the last one are full,
where each begins, that the room left in the last is what the arithmetic says,
that it is not empty unless a chunk is at hand, and that behind it there is none
of this build. That no segment is of this build when the cutting begins needs
`Fresh`, which needs `Bygone` (no file is of a build to come). `CommitIsComplete`
and `NothingIsLeft` follow for every length, volume size, buffer and limit;
`PointerTheorem`, `HandleTypes` and `OpenedIsSpared` come with them.

The second half is about the reader. `VolumesReadAsOneFile` is the refinement of `PlainFile`,
nested in `VolumeReader`. It rests on three parts. `Origins` is a recursive function;
that it gives the sums of the lengths, that they climb and that each position lies in
one volume (`OriginsAre`, `OriginsClimb`, `LiesInOne`) is proved by the smallest
counterexample, which `Smallest` takes from the library's well-founded orders.
`ReaderInv` says that a file stands where `file_cursors` believes it does and that no
volume is empty; `RawReads` then shows that what one volume gives is what the joined
stream has there, on both sides of the patch. `SegmentInv` adds to `HandleInv` that no
segment but the one being written is empty (`Filled`), so that what the detector
finds after a commit satisfies `ReaderInv`. The hypothesis `0 \notin Lengths` says that
a finished archive has a byte, which the code says too ("real archives always carry
headers", archive.rs:1131); without it the theorem is false (section 7).
`TogetherIsHandle` carries the theorems about `ArchiveHandle` over to the
composition that the run checks.

**`TreeWriterProofs`.** The walk keeps an explicit stack, the pre-scan is a recursion,
and what comes out is compared with the listing of the tree; the three meet in the
order of the nodes. `StackInv` says that the stack is exactly what is still to be
visited from the top on (`Ahead`): the nodes whose parent has been opened and which
have not come up, the smallest on top. Taking a directory off and pushing its
children keeps that (`VisitStands`, `Onward`) because of the depth-first numbering:
all that is below the directory comes before all else that waits. So the walk visits
the nodes in the order of the listing, and `CountInv` and `WrittenInv` say what has
been counted and written of those it has passed: the counters are the pre-scan's sums
up to there (`CountTo`), and the members out and in the solid block together are the
listings of the earlier calls followed by the first part of this one, whichever of the
four places flushed the block (`Flushes`, `Appends`, `AddsFile`), and each file
among them is as it was read and as long as it says (`Whole`; in a tar if none has
changed). A commit leaves nothing in the block, and one that hands on the error of its last flush
has written it (`FlushInv`), which gives `CommittedIsTree`; a call that returns
has nothing on the stack, which gives `TotalsMet`; `CancelInv` follows the sink's
refusal to the value returned. `FirstOf`, `BytesOf`, `Kept` and the library's
`FlattenSeq` are recursive functions; that they exist and what they give is proved by
the smallest counterexample, as above. The assumption is `TreeAssumption`: `IsTree` of
every tree, and natural numbers for the sizes and bounds, the caps positive.

**`SerialExtractProofs`.** There are four loops, each with a dozen ways an entry can
go, and the invariant is proved once for all of them: `ExtractStep` shows that an
entry of any backend stops the call, is passed, is a folder, is stored, breaks off
halfway, or joins a file as a hard link, and `Wrote` says what those that write do
to the disk. `Bounded` keeps what came out equal to what is reported as long as the
call goes on, which is what makes the budget of the next entry right. `Accounted`
carries the sum of the bytes, a recursive function handled by its smallest
counterexample. `Lasting` follows an extracted file until a later entry takes it. `Held` and `Body` are
what is in a file and whose data it is, which for a repeated name is the first one's.
`WholeData` says that all data of a RAR entry is whole but for the entry at which a copy
stopped (`Torn`).
`OldOnes` adds to `OldFilesKept` whose names an old file may have: proving it showed
that a tar hard link gives an old file a new name, and that this name may be the one
whose numbers run out; the exception in `OldFilesKept` names it. `DamageIsFound` has the
hypothesis `Checkable` and speaks of the entries that are the first of their name
(`Heads`): damage that no decoder notices is only found where a CRC is
stored and compared (not in tar, not in an encrypted entry), and a stored CRC is a real
one. `MCSerialExtract` has TLC confirm it for the archives of the run.

**`OpenArchiveProofs`.** `HealthyFilesAreRead` has two halves. One is about the
tables alone and needs no state: `UsualIsItself` shows for every form and every name
that is usual for it (any stem, any extension, not only those of the run) that
`Detect` followed by `Backend` comes out at the form; compressed files, ZIPs, formats
with a signature of their own and formats known by name only are its four cases. The
other is `Routed`: an opener whose file has not changed knows the file's format, one
that goes to the lenient parser finds the path in the cache, and the path gets there
only for a cause (`Cause`), which also has to hold of what an append leaves. At a path that is in the cache the
theorem claims a ZIP without a password only, which is what the lenient parser reads.
`SuccessfulAppendIsListed` follows from `Appended`. That no name is listed twice needs
it of the file at all times, so of what a failed append leaves too: that a dropped
writer may list the entry it was writing, and not one that `start_file` refused as a
second of its name, came out of the proof. `OpenAssumption` says that a ZIP reader
lists no name twice (it keeps a map by name) and that contents, plans and openers are
what they are called.

**`ZipRoundTripProofs`.** The writer's cells are sequences joined of sequences, so the
proofs begin with what a joined and a flattened sequence is. `Payloads` are the three
ways the cells of a file can look; `DeflateDecodes` and `PigzDecodes` show that both
deflated ones decode to its data, for every size of a cell and a block: the blocks
that were deflated apart and put one behind the other have one end, in the last.
`ArchiveInv` says that each entry lies where its record says, with a local header
in front of it (`HasEntry`), and that what is added leaves that standing (`Grown`). `FinishIs`
says where the records of a finished archive are. `HealthyArchiveAgrees` follows, with
the hypothesis that every file `Fits`: without it the local header of a streamed entry
may say a wrong size, which this proof brought up (`AnyOverflowEscalates` in section 6).
`LimitsAssumption`, `FilesAssumption` and `FlagsAssumption` say that limits are
positive, sizes and times natural numbers, a time of day one, data made of
bytes, and that a directory has none.

`EntriesRecovered` is about the parser. Its walk over the directory and the patch of
an archive joined from its disks are recursive functions over the cells, defined from
the end; `RunsExist` shows that there is such a function, without which its definition
says nothing, and `Downward` that what holds of the end and goes from each place to
the one before holds of all. `DirectoryIs`, `PlacesRise` and `DirectoryEnds` say where
the records lie; `WalkFinds` that the walk lists them, each once and in order;
`DirectoryFound` that the parser starts at the first one, by the end record or by the
scan, and `OpensAs` that these two make its list. `ParseIs` and `ValuesReturn` show
that a record gives back name, method, sizes and place through the 32-bit fields and
the ZIP64 extra field, `DayReturns` and `TimeReturns` that a DOS date from 1980 to 2107
gives back its day and its time to two seconds, `Extracts` that the payload decodes to
the data. `RecoverInv` adds to `ArchiveInv` that an archive has one of the shapes that
`Damage` and `Span` leave (`Shape`), and that what was read is what the parser reads of
it. `ShapeRecovers` has a lemma for each shape: what is left of the archive is where it
was, and what is hit is reported. For the disks, `DisksAre` and `CutJoins` show that a
place that is cut into a disk and an offset is joined to itself, `JoinedIs` that the
joined file is the one that was finished. The theorem has two hypotheses that are
limits of the code and not of the model: the directory lies within the 64 MiB before
the end record that are scanned (`6 * MaxEntries <= ScanCells`, a directory record
having at most six cells), and no file is past the 4 GiB at which the
streaming decoder stops (`HardCap`). `MCZipRoundTrip` has TLC confirm both for the run.

Only model-checked: liveness (`CallReturns`, `EverySubmissionSettles`), which the
prover does not do.

## 6. Properties that are stated and do not hold

These say what a comment or the shape of the code suggests, and what this code
does not do. They stay in their modules, with no run that keeps them; the
corresponding hazard in `PROJECT.json` says so.

- `ZipPipeline!InFlightMemoryCapped`: the channel's depth is said to cap the memory
  of prepared entries (`core/backends/writer.rs:530`), but the reorder map has no
  bound; one slow early entry keeps all later ones in memory.
- `ZipPipeline!ProgressOnlyGoesUp`: a file read a second time is counted twice by
  the forecast, and the first tick of a large file takes the progress back.
- `ZipPipeline!SizesAreReal`: a large file that grows between the stat and the end
  of the read is recorded with its old size.
- `JobQueue!FailureStaysReadable`: the window of a verb closes over an earlier
  failure when the last job to settle did not fail.
- `JobQueue!LateTicksKeepSummary`: in OtterZip.Linux a late tick replaces the
  summary on the card.
- `ArchiveHandle!RollbackTakesOwn`: giving up a split archive removes every segment
  of the name up to a gap, also those of an older set (`core/archive.rs:434-437`).
- `ArchiveHandle!PasswordNeverPlaintext`: holds for ZIP, 7z and ZIPX; the tar and
  xz writers do not look at a password at all (`core/archive.rs:295-298`).
- `ZipRoundTrip!WrittenIsRead`: a field of exactly 0xFFFFFFFF is written as it is
  and read as the mark of a ZIP64 value.
- `ZipRoundTrip!AnyOverflowEscalates`: "any single dimension overflowing its 32-bit
  slot escalates" (`core/backends/zip_writer.rs:387`). The streaming writer decides
  about the ZIP64 field from the size before deflating (`:394`). Data that does not
  compress is a little longer afterwards, so a file just below 4 GiB may be past it
  then; it gets no ZIP64 field, and its size wraps in the local header (`:584`). The
  directory has the right one, so the parser here reads it. Any file that does not
  meet `Fits` shows it.

- `TreeWriter!LastFlushIsTold`: a disk that is full on the very last write is said to
  fail the commit loudly (`core/backends/writer.rs:1191`), which the tar sinks do. The xz
  writer, and as far as the library lets it the ZIPX and AES ones, answer Ok over an
  archive whose end is missing.
- `SerialExtract!RarPublishesWholeEverywhere`: publication by rename keeps a torn file
  from its final name; the fallback to a copy does not (`core/backends/rar.rs:1252`).
- `SerialExtract!TestFindsEveryCopy`: of a name that is listed twice the test reads the
  first entry twice, so damage of the second is missed, or a healthy second is named.
- `OpenArchive!ReplacedIsRead`: the cache has the path and nothing else, so a 7z or an
  encrypted ZIP that replaces a damaged ZIP is refused.
- `OutputNames!RecycledIsDelivered`: the sources go to the recycle bin before the
  delegate has ended; if what follows throws, the archive is deleted as well
  (`app/OtterZip.App/MainWindow.xaml.cs:2188`,
  `app/OtterZip.Linux/Views/MainWindow.axaml.cs:445`).

## 7. Disagreements found

With a run that TLC finds violated, and an entry in `PROJECT.json`:

1. `extract_race`: with keep-both, two workers that find the same path free both
   create it, and one truncates the other.
2. `tar_relink`: a tar extracted over an earlier extraction of itself: the
   hard-link entry falls back to a copy of a file onto itself, and the data is
   gone although the call succeeds.

Met while modelling, described by the models and excepted in the properties that
they touch:

- A sound archive with a comment of more than 74 bytes is taken for a broken one
  by the quick check (`core/backends/zip.rs:976`) and always read leniently.
- The cache of paths answers for whatever file is there later
  (`core/backends/mod.rs:226`).
- A name such as `guitar.gz` is taken for a tar (`core/format.rs:451`).
- A failure that is reported before there is a job (`ReportError`,
  `app/OtterZip.Linux/Views/MainWindow.axaml.cs:422`) raises JobSettled, which lowers
  the counter of the headless window (`:677`) although `TrackHeadless` (`:667`) has
  not raised it: a verb that compresses each file, and cannot plan one of them, closes
  its window one job early. `ClosesAfterLast` is stated for verbs without one.
- An empty volume begins where the next one begins. `locate`
  (`core/backends/multi_volume_reader.rs:142`) may stop at either, since a binary search
  gives any of the equal positions; stopped at the empty one, `read` gives no bytes in
  the middle of the stream, which callers take for its end. Only an empty `.001`
  (`core/archive.rs:1131`, called purely defensive) beside an older `.002` would do it
  after a commit, or a volume of no bytes that was downloaded. `Lengths` leaves 0 out.
- When every keep-both number is taken the entry's own path is used and truncated.
- A tar header carries the size that was stat'ed, whatever is read afterwards.
- After a failure the name is released before the partial file is deleted
  (`app/OtterZip.App/Services/CompressEngine.cs:206`), and once more when the card
  settles: another job may have the name by then, and lose its output.
- Two extractions into one new folder: both are submitted before it is there, and the
  rollback of one deletes what the other has delivered.
- The probe for a free name never sees a volume set, whose name is the name of no
  file: a second set overwrites the segments of the first.

## 8. What is not modelled, and why

- Checksums, compression, encryption and name encodings: pure functions over bytes,
  or third-party code; a payload is opaque except for its length and place.
- Readers of ISO, deb, MSI, CAB and single streams: adapters over third-party
  decoders without state between calls. RAR's volumes and passwords likewise.
- The lenient parser's own worker pool: it repeats the steps of `ParallelExtract`
  without links.
- Permissions, creation of links, zone marks: system calls on one file at a time;
  whether a link could be made is an input of the extraction modules.
- The iterators and marshalling of the C interface; callbacks and telemetry of the
  binding.
- Failing writes of the extraction loops (a full disk, also under the copy that replaces
  a hard link): every one of them ends the call with what is on disk, as the decoder
  errors do that are modelled.
- Solid 7z and RAR archives, in which a damaged entry spoils those behind it.
- Another worker's link at the path between `exists()` and `File::create`
  (`core/posix.rs:254`, `core/backends/zip.rs:735`).
- The refusals of a patched directory past 4 GiB (`core/backends/spanned_zip.rs:181`,
  `:241`), which no set of files of the run reaches.
- The end of the process with jobs running (`MainWindow.xaml.cs:373`): nothing in the
  code says what is on disk then, so there is nothing to hold it to.
- The bar a card shows for the current entry; layout, wording, settings, password
  stores, the shell extension's menu cache, command line, bench, installers and
  build scripts.

What is left to do: the iterators of the C interface against running
calls.

## 9. Running it

```
tlc -workers 2 -config zip_pipeline.cfg MCZipPipeline.tla
tlapm ZipPipelineProofs.tla
```

A run takes between some seconds and two minutes, a proof module at most a few
minutes.
