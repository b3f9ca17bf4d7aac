-------------------------- MODULE ParallelExtract --------------------------
(***************************************************************************)
(* Parallel extraction of a ZIP: ZipBackend::extract_all_parallel in       *)
(* backends/zip.rs (its twin in backends/lenient_zip.rs has the same       *)
(* steps, without the symbolic links), with the capped writer and the      *)
(* keep-both names of archive.rs.                                          *)
(*                                                                         *)
(* Up to four workers write different entries at the same time and share   *)
(* the running totals, the cancel flag, the first error and the progress   *)
(* sink.  Every byte is paid for with a ticket: fetch_add on bytes_done    *)
(* hands the writer the tickets prev+1..prev+n, and the bytes that reach   *)
(* the output are identified by the tickets they were written with.        *)
(***************************************************************************)
EXTENDS Naturals, Sequences, FiniteSets

CONSTANTS
  EntryCount,   \* entries of the archive, numbered from 1
  Kind,         \* Kind[e]: "file", "directory", "link" or "skip"
  Size,         \* Size[e]: bytes the entry decodes to
  Target,       \* Target[e]: the path it resolves to under the destination
  Names,        \* paths of files
  NoName,
  OnDisk,       \* files that are there before the call
  KeepBoth,     \* KeepBoth[p]: "p (2)", "p (3)", ... the candidates for p
  Policies,     \* the OverwritePolicy values a call may come with
  Buffer,       \* the copy loop's buffer
  Cap,          \* max_total_output_bytes, 0 for no limit
  Every,        \* a tick is offered every so many entries (8)
  Workers, NoWorker

Entries == 1..EntryCount

ASSUME EntriesAssumption ==
  /\ EntryCount \in Nat
  /\ Kind \in [Entries -> {"file", "directory", "link", "skip"}]
  /\ Size \in [Entries -> Nat]
  /\ Target \in [Entries -> Names]
  /\ NoName \notin Names
  /\ OnDisk \subseteq Names
  /\ KeepBoth \in [Names -> Seq(Names)]
  /\ Policies \subseteq {"never", "always", "rename", "skip"}

ASSUME LimitsAssumption ==
  /\ Buffer \in Nat \ {0} /\ Cap \in Nat /\ Every \in Nat \ {0}
  /\ NoWorker \notin Workers

VARIABLES
  \* the rayon pool
  todo,         \* entries no worker has picked up
  job,          \* job[w]: the entry worker w has, 0 for none
  stage,        \* where worker w is in its closure
  out_path,     \* the path it decided on
  left,         \* bytes of its entry still to be written
  chunk,        \* length of the write in progress
  prev,         \* what fetch_add returned to it
  entries_so_far, \* the count it saw when its entry was complete
  snapshot,     \* bytes_done as loaded under the sink's lock
  \* shared by the workers
  bytes_done, entries_done, entries_skipped,
  canceled, first_err,
  progress_lock, \* the worker that holds the sink
  shown,        \* the last snapshot the host was given
  \* the destination
  disk,         \* files that exist
  opened,       \* opened[e]: the file entry e was written to
  paid,         \* paid[e]: the tickets of the bytes of e that were written
  \* the call
  overwrite,    \* its OverwritePolicy; "skip" is IfNewer and AskCallback
  answer, report

poolVars == <<todo, job, stage>>
writeVars == <<left, chunk, prev>>
countVars == <<entries_done, entries_skipped>>
errorVars == <<canceled, first_err>>
tickVars == <<entries_so_far, snapshot, progress_lock, shown>>
diskVars == <<disk, opened>>
callVars == <<overwrite, answer, report>>
vars == <<poolVars, out_path, writeVars, bytes_done, countVars, errorVars,
          tickVars, diskVars, paid, callVars>>

Smaller(a, b) == IF a < b THEN a ELSE b

-----------------------------------------------------------------------------
(* Taking an entry and leaving it.                                         *)

\* Worker w goes on to the given stage of its closure.
GoTo(w, s) == stage' = [stage EXCEPT ![w] = s] /\ UNCHANGED <<todo, job>>

\* The closure returns.
Leave(w) ==
  /\ stage' = [stage EXCEPT ![w] = "idle"]
  /\ job' = [job EXCEPT ![w] = 0]
  /\ UNCHANGED todo

\* The flag is read with relaxed ordering: a worker that finds it unset may
\* be looking at the past, one that finds it set never is.
Take(w) ==
  /\ answer = "none" /\ stage[w] = "idle"
  /\ \E e \in todo :
       /\ todo' = todo \ {e}
       /\ \/ canceled /\ UNCHANGED <<job, stage>>
          \/ /\ job' = [job EXCEPT ![w] = e]
             /\ stage' = [stage EXCEPT ![w] = "look"]
  /\ UNCHANGED <<out_path, writeVars, bytes_done, countVars, errorVars,
                 tickVars, diskVars, paid, callVars>>

\* set_first_err: under the mutex, the first error stays.
SetFirstErr(err) ==
  /\ first_err' = IF first_err = "none" THEN err ELSE first_err
  /\ canceled' = TRUE

\* The ratio gate, a blocked path, a handle that cannot be opened, or I/O.
Fail(w) ==
  /\ stage[w] \in {"look", "reserve", "create", "write", "commit"}
  /\ SetFirstErr("io")
  /\ Leave(w)
  /\ UNCHANGED <<out_path, writeVars, bytes_done, countVars, tickVars, diskVars,
                 paid, callVars>>

-----------------------------------------------------------------------------
(* Choosing the output path.                                               *)

\* A link that is not followed, or a path that would escape the destination.
Skip(w) ==
  /\ stage[w] = "look" /\ Kind[job[w]] = "skip"
  /\ entries_skipped' = entries_skipped + 1
  /\ Leave(w)
  /\ UNCHANGED <<out_path, writeVars, bytes_done, entries_done, errorVars,
                 tickVars, diskVars, paid, callVars>>

\* A directory counts as done and offers no tick.
MakeDirectory(w) ==
  /\ stage[w] = "look" /\ Kind[job[w]] = "directory"
  /\ entries_done' = entries_done + 1
  /\ Leave(w)
  /\ UNCHANGED <<out_path, writeVars, bytes_done, entries_skipped, errorVars,
                 tickVars, diskVars, paid, callVars>>

\* Mutant: an existing file is taken for a free path.
LookAlways(w) ==
  /\ stage[w] = "look" /\ Kind[job[w]] \in {"file", "link"}
  /\ out_path' = [out_path EXCEPT ![w] = Target[job[w]]]
  /\ GoTo(w, "create")
  /\ UNCHANGED <<writeVars, bytes_done, countVars, errorVars, tickVars, diskVars,
                 paid, callVars>>

\* out_path.exists(), and what the policy makes of it.
Look(w) ==
  LET p == Target[job[w]] IN
  /\ stage[w] = "look" /\ Kind[job[w]] \in {"file", "link"}
  /\ out_path' = [out_path EXCEPT ![w] = p]
  /\ \/ /\ p \notin disk \/ overwrite = "always"
        /\ GoTo(w, "create")
        /\ UNCHANGED <<entries_skipped, errorVars>>
     \/ /\ p \in disk /\ overwrite = "rename"
        /\ GoTo(w, "reserve")
        /\ UNCHANGED <<entries_skipped, errorVars>>
     \/ /\ p \in disk /\ overwrite = "skip"
        /\ entries_skipped' = entries_skipped + 1
        /\ Leave(w)
        /\ UNCHANGED errorVars
     \/ /\ p \in disk /\ overwrite = "never"
        /\ SetFirstErr("exists")
        /\ Leave(w)
        /\ UNCHANGED entries_skipped
  /\ UNCHANGED <<writeVars, bytes_done, entries_done, tickVars, diskVars, paid,
                 callVars>>

\* The candidates of worker w's path that do not exist.
FreeNames(w) == LET c == KeepBoth[out_path[w]]
                IN  {k \in DOMAIN c : c[k] \notin disk}

\* Mutant: the name is computed and not created (unique_extract_path).
ReserveUncreated(w) ==
  LET c == KeepBoth[out_path[w]] IN
  /\ stage[w] = "reserve"
  /\ \/ \E k \in FreeNames(w) :
          /\ \A l \in FreeNames(w) : k <= l
          /\ out_path' = [out_path EXCEPT ![w] = c[k]]
     \/ FreeNames(w) = {} /\ UNCHANGED out_path
  /\ GoTo(w, "create")
  /\ UNCHANGED <<disk, writeVars, bytes_done, countVars, errorVars, tickVars,
                 opened, paid, callVars>>

\* reserve_unique_extract_path: the first candidate create_new succeeds for;
\* when there is none, the path itself.  No name ever disappears, so trying
\* them one after the other takes effect when the last of them is created.
Reserve(w) ==
  LET c == KeepBoth[out_path[w]] IN
  /\ stage[w] = "reserve"
  /\ \/ \E k \in FreeNames(w) :
          /\ \A l \in FreeNames(w) : k <= l
          /\ out_path' = [out_path EXCEPT ![w] = c[k]]
          /\ disk' = disk \cup {c[k]}
     \/ FreeNames(w) = {} /\ UNCHANGED <<out_path, disk>>
  /\ GoTo(w, "create")
  /\ UNCHANGED <<writeVars, bytes_done, countVars, errorVars, tickVars, opened,
                 paid, callVars>>

\* File::create: the file is there, and empty, whoever else is writing it.
Create(w) ==
  /\ stage[w] = "create" /\ Kind[job[w]] = "file"
  /\ disk' = disk \cup {out_path[w]}
  /\ opened' = [opened EXCEPT ![job[w]] = out_path[w]]
  /\ left' = [left EXCEPT ![w] = Size[job[w]]]
  /\ GoTo(w, "write")
  /\ UNCHANGED <<out_path, chunk, prev, bytes_done, countVars, errorVars,
                 tickVars, paid, callVars>>

\* A followed link: the name is unlinked and linked, or the target is refused
\* and the entry skipped.  Neither way offers a tick.
MakeLink(w) ==
  /\ stage[w] = "create" /\ Kind[job[w]] = "link"
  /\ \/ /\ entries_done' = entries_done + 1
        /\ disk' = disk \cup {out_path[w]}
        /\ opened' = [opened EXCEPT ![job[w]] = out_path[w]]
        /\ UNCHANGED entries_skipped
     \/ /\ entries_skipped' = entries_skipped + 1
        /\ UNCHANGED <<entries_done, disk, opened>>
  /\ Leave(w)
  /\ UNCHANGED <<out_path, writeVars, bytes_done, errorVars, tickVars, paid,
                 callVars>>

-----------------------------------------------------------------------------
(* The capped writer.                                                      *)

\* fetch_add: n bytes are reserved before any of them is written.
ReserveBytes(w) ==
  LET n == Smaller(Buffer, left[w]) IN
  /\ stage[w] = "write" /\ left[w] > 0
  /\ chunk' = [chunk EXCEPT ![w] = n]
  /\ prev' = [prev EXCEPT ![w] = bytes_done]
  /\ bytes_done' = bytes_done + n
  /\ GoTo(w, "commit")
  /\ UNCHANGED <<out_path, left, countVars, errorVars, tickVars, diskVars, paid,
                 callVars>>

\* What a reservation may still write under the cap.
Fit(w) ==
  IF Cap = 0 THEN chunk[w]
  ELSE Smaller(chunk[w], IF Cap > prev[w] THEN Cap - prev[w] ELSE 0)

Trips(w) == Cap > 0 /\ prev[w] + chunk[w] > Cap

\* Mutant: the cap is looked at when the buffer has been written.
CommitWhole(w) ==
  /\ stage[w] = "commit"
  /\ paid' = [paid EXCEPT ![job[w]] = @ \cup (prev[w] + 1 .. prev[w] + chunk[w])]
  /\ left' = [left EXCEPT ![w] = @ - chunk[w]]
  /\ \/ Trips(w) /\ SetFirstErr("bomb") /\ Leave(w)
     \/ ~Trips(w) /\ GoTo(w, "write") /\ UNCHANGED errorVars
  /\ UNCHANGED <<out_path, chunk, prev, bytes_done, countVars, tickVars,
                 diskVars, callVars>>

\* What fits is written; a write that does not fit whole trips the cap.
Commit(w) ==
  /\ stage[w] = "commit"
  /\ paid' = [paid EXCEPT ![job[w]] = @ \cup (prev[w] + 1 .. prev[w] + Fit(w))]
  /\ left' = [left EXCEPT ![w] = @ - Fit(w)]
  /\ \/ Trips(w) /\ SetFirstErr("bomb") /\ Leave(w)
     \/ ~Trips(w) /\ GoTo(w, "write") /\ UNCHANGED errorVars
  /\ UNCHANGED <<out_path, chunk, prev, bytes_done, countVars, tickVars,
                 diskVars, callVars>>

-----------------------------------------------------------------------------
(* Counting the entry and telling the host.                                *)

Offered(n) == n % Every = 0 \/ n = EntryCount

\* Mutant: the bytes of the entry are added a second time.
CountTwice(w) ==
  /\ stage[w] = "write" /\ left[w] = 0
  /\ bytes_done' = bytes_done + Size[job[w]]
  /\ entries_done' = entries_done + 1
  /\ entries_so_far' = [entries_so_far EXCEPT ![w] = entries_done']
  /\ \/ Offered(entries_done') /\ GoTo(w, "tick")
     \/ ~Offered(entries_done') /\ Leave(w)
  /\ UNCHANGED <<out_path, writeVars, entries_skipped, errorVars,
                 snapshot, progress_lock, shown, diskVars, paid, callVars>>

\* Flushed and stamped: the entry is counted; every eighth, and the last if
\* none was skipped, offers a tick.
Count(w) ==
  /\ stage[w] = "write" /\ left[w] = 0
  /\ entries_done' = entries_done + 1
  /\ entries_so_far' = [entries_so_far EXCEPT ![w] = entries_done']
  /\ \/ Offered(entries_done') /\ GoTo(w, "tick")
     \/ ~Offered(entries_done') /\ Leave(w)
  /\ UNCHANGED <<out_path, writeVars, bytes_done, entries_skipped, errorVars,
                 snapshot, progress_lock, shown, diskVars, paid, callVars>>

\* Mutant: the totals are loaded without the lock.
TickUnlocked(w) ==
  /\ stage[w] = "tick"
  /\ progress_lock' = w
  /\ snapshot' = [snapshot EXCEPT ![w] = bytes_done]
  /\ GoTo(w, "tell")
  /\ UNCHANGED <<out_path, writeVars, bytes_done, countVars, errorVars,
                 entries_so_far, shown, diskVars, paid, callVars>>

\* try_lock: when another worker has the sink the tick is dropped.
Tick(w) ==
  /\ stage[w] = "tick"
  /\ \/ /\ progress_lock = NoWorker
        /\ progress_lock' = w
        /\ snapshot' = [snapshot EXCEPT ![w] = bytes_done]
        /\ GoTo(w, "tell")
     \/ /\ progress_lock # NoWorker
        /\ Leave(w)
        /\ UNCHANGED <<progress_lock, snapshot>>
  /\ UNCHANGED <<out_path, writeVars, bytes_done, countVars, errorVars,
                 entries_so_far, shown, diskVars, paid, callVars>>

\* sink.update, which may ask to cancel; then the lock is dropped.
TellHost(w) ==
  /\ stage[w] = "tell"
  /\ shown' = [bytes |-> snapshot[w], entries |-> entries_so_far[w]]
  /\ canceled' \in {canceled, TRUE}
  /\ progress_lock' = NoWorker
  /\ Leave(w)
  /\ UNCHANGED <<out_path, writeVars, bytes_done, countVars, first_err,
                 entries_so_far, snapshot, diskVars, paid, callVars>>

Worker(w) == \/ Take(w) \/ Fail(w) \/ Skip(w) \/ MakeDirectory(w) \/ Look(w)
             \/ Reserve(w) \/ Create(w) \/ MakeLink(w)
             \/ ReserveBytes(w) \/ Commit(w)
             \/ Count(w) \/ Tick(w) \/ TellHost(w)

\* The pool returns when the iterator is exhausted and every closure is done.
Return ==
  /\ answer = "none" /\ todo = {} /\ \A w \in Workers : stage[w] = "idle"
  /\ answer' = IF first_err # "none" THEN "error"
               ELSE IF canceled THEN "canceled" ELSE "ok"
  /\ report' = IF answer' # "ok" THEN report
               ELSE [bytes_written |-> bytes_done,
                     entries_extracted |-> entries_done,
                     entries_skipped |-> entries_skipped]
  /\ UNCHANGED <<poolVars, out_path, writeVars, bytes_done, countVars, errorVars,
                 tickVars, diskVars, paid, overwrite>>

-----------------------------------------------------------------------------
Init ==
  /\ todo = Entries
  /\ job = [w \in Workers |-> 0]
  /\ stage = [w \in Workers |-> "idle"]
  /\ out_path = [w \in Workers |-> NoName]
  /\ left = [w \in Workers |-> 0]
  /\ chunk = [w \in Workers |-> 0]
  /\ prev = [w \in Workers |-> 0]
  /\ entries_so_far = [w \in Workers |-> 0]
  /\ snapshot = [w \in Workers |-> 0]
  /\ bytes_done = 0 /\ entries_done = 0 /\ entries_skipped = 0
  /\ canceled = FALSE /\ first_err = "none"
  /\ progress_lock = NoWorker
  /\ shown = [bytes |-> 0, entries |-> 0]
  /\ disk = OnDisk
  /\ opened = [e \in Entries |-> NoName]
  /\ paid = [e \in Entries |-> {}]
  /\ overwrite \in Policies
  /\ answer = "none"
  /\ report = [bytes_written |-> 0, entries_extracted |-> 0, entries_skipped |-> 0]

Returned == answer # "none" /\ UNCHANGED vars

Next == (\E w \in Workers : Worker(w)) \/ Return \/ Returned

Spec == Init /\ [][Next]_vars

-----------------------------------------------------------------------------
PoolType ==
  /\ todo \in SUBSET Entries
  /\ job \in [Workers -> 0..EntryCount]
  /\ stage \in [Workers -> {"idle", "look", "reserve", "create", "write",
                            "commit", "tick", "tell"}]
  /\ out_path \in [Workers -> Names \cup {NoName}]
  /\ left \in [Workers -> Nat] /\ chunk \in [Workers -> Nat]
  /\ prev \in [Workers -> Nat]
  /\ entries_so_far \in [Workers -> Nat] /\ snapshot \in [Workers -> Nat]

SharedType ==
  /\ bytes_done \in Nat /\ entries_done \in Nat /\ entries_skipped \in Nat
  /\ canceled \in BOOLEAN /\ first_err \in {"none", "io", "exists", "bomb"}
  /\ progress_lock \in Workers \cup {NoWorker}
  /\ shown \in [bytes : Nat, entries : Nat]

OutputType ==
  /\ disk \in SUBSET Names
  /\ opened \in [Entries -> Names \cup {NoName}]
  /\ paid \in [Entries -> SUBSET Nat]
  /\ overwrite \in Policies
  /\ answer \in {"none", "ok", "error", "canceled"}
  /\ report \in [bytes_written : Nat, entries_extracted : Nat, entries_skipped : Nat]

TypeOK == PoolType /\ SharedType /\ OutputType

-----------------------------------------------------------------------------
(* Properties.                                                             *)

Output == UNION {paid[e] : e \in Entries}

\* Whatever the workers do at the same time, no ticket is used twice and the
\* bytes written to all outputs together stay within max_total_output_bytes
\* (archive.rs: every write reserves against the counter first and commits
\* only the bytes that still fit).
CapHolds ==
  /\ \A e, f \in Entries : e # f => paid[e] \cap paid[f] = {}
  /\ Cap > 0 => Cardinality(Output) <= Cap

\* An Ok report is exact: its bytes are the bytes written, every entry is
\* counted once as extracted or skipped, and no file was left unfinished.
SuccessIsExact ==
  answer = "ok" =>
    /\ report.bytes_written = Cardinality(Output)
    /\ report.entries_extracted + report.entries_skipped = EntryCount
    /\ \A e \in Entries : Kind[e] = "file" /\ opened[e] # NoName =>
         Cardinality(paid[e]) = Size[e]

\* The error the caller gets is the first one any worker met.
FirstErrorKept == [][first_err # "none" => first_err' = first_err]_vars

\* Unless the policy is to overwrite, a file that was there is left alone;
\* under keep-both only until every name beside it is taken (archive.rs:
\* degrade to overwriting the original), never because of a race for one.
ExistingKept ==
  \A e \in Entries :
    overwrite # "always" /\ opened[e] \in OnDisk =>
      /\ overwrite = "rename"
      /\ \A k \in DOMAIN KeepBoth[opened[e]] : KeepBoth[opened[e]][k] \in disk

\* Two entries are never written to the same file under the keep-both policy
\* (zip.rs and lenient_zip.rs: so that concurrent workers cannot truncate
\* each other).
KeptApart ==
  overwrite = "rename" =>
    \A e, f \in Entries : opened[e] = opened[f] => e = f \/ opened[e] = NoName

\* The bytes the host is shown never go back, although workers that finish
\* at the same time race for the sink.
BytesNeverGoBack == [][shown'.bytes >= shown.bytes]_vars

-----------------------------------------------------------------------------
(* The inductive invariant behind CapHolds and BytesNeverGoBack.           *)

Tickets(w) == prev[w] + 1 .. prev[w] + chunk[w]
Holding == {w \in Workers : stage[w] = "commit"}

\* Tickets that were handed out are below the counter; no two workers hold
\* the same one, and none that is held has been used.
TicketsApart ==
  /\ \A w \in Holding : prev[w] + chunk[w] <= bytes_done
  /\ \A w, v \in Holding : w # v => Tickets(w) \cap Tickets(v) = {}
  /\ \A w \in Holding, e \in Entries : Tickets(w) \cap paid[e] = {}

\* Used tickets were handed out, are below the cap, and are used once.
PaidOnce ==
  /\ \A e \in Entries : /\ paid[e] \subseteq 1..bytes_done
                        /\ Cap > 0 => paid[e] \subseteq 1..Cap
  /\ \A e, f \in Entries : e # f => paid[e] \cap paid[f] = {}

\* The sink's holder shows what it loaded under the lock.
OneTeller ==
  /\ \A w \in Workers : stage[w] = "tell" <=> progress_lock = w
  /\ \A w \in Workers : stage[w] = "tell" => /\ shown.bytes <= snapshot[w]
                                             /\ snapshot[w] <= bytes_done
  /\ shown.bytes <= bytes_done

\* A worker past the first stage has an entry; a write is never longer than
\* what its entry has left.
Busy ==
  /\ \A w \in Workers : stage[w] # "idle" <=> job[w] # 0
  /\ \A w \in Workers : stage[w] \in {"reserve", "create"} => out_path[w] \in Names
  /\ \A w \in Holding : chunk[w] <= left[w]

IInv == TypeOK /\ TicketsApart /\ PaidOnce /\ OneTeller /\ Busy

-----------------------------------------------------------------------------
(* What keeps two entries apart under keep-both when they resolve to one   *)
(* path: the path is taken before the call, so that every one of them      *)
(* looks for a name beside it, and there are names enough (the code tries  *)
(* the numbers 2 to 9999).  No path of an entry that is not there before   *)
(* the call is a name beside another's.                                    *)

\* The entries that are written to a path, and the names beside it.
Claimants(p) == {e \in Entries : Kind[e] \in {"file", "link"} /\ Target[e] = p}
Beside(p) == {KeepBoth[p][k] : k \in DOMAIN KeepBoth[p]}
Shared(p) == \E e, f \in Claimants(p) : e # f

KeepBothRoom ==
  /\ \A p, q \in Names : Claimants(p) # {} /\ Claimants(q) # {} =>
       /\ p # q => Beside(p) \cap Beside(q) = {}
       /\ q \in Beside(p) => q \in OnDisk
  /\ \A p \in Names : Shared(p) =>
       /\ p \in OnDisk
       /\ Cardinality(Beside(p) \ OnDisk) >= Cardinality(Claimants(p))
=============================================================================
