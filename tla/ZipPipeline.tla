---------------------------- MODULE ZipPipeline ----------------------------
(***************************************************************************)
(* The parallel ZIP writer: ZipWriterBackend::add_directory_bulk in        *)
(* backends/writer.rs over ZipFileWriter in backends/zip_writer.rs.        *)
(*                                                                         *)
(* A pool of workers prepares the small entries in any order and sends     *)
(* them through a bounded channel; the calling thread puts them back in    *)
(* walk order and splices them onto the file, then streams the large       *)
(* entries itself.  Between two receives that time out it tells the host   *)
(* how many bytes the workers have read.                                   *)
(*                                                                         *)
(* Sizes count read chunks (1 MiB in the code).  Entries are numbered in   *)
(* the order they are written: directories, small entries, large entries.  *)
(***************************************************************************)
EXTENDS Naturals, Sequences, FiniteSets

CONSTANTS
  Dirs,         \* number of directory entries of the walk
  Small,        \* number of small files
  SmallSize,    \* SmallSize[i]: chunks in small file i
  Incompressible, \* small files whose deflated body is not shorter
  Large,        \* number of large files
  LargeStat,    \* LargeStat[j]: size of large file j when it is stat'ed
  LargeSize,    \* LargeSize[j]: chunks read from it until end of file
  BytesTotal,   \* bytes_total, summed from stats before any byte is read
  Workers,      \* threads of the private rayon pool
  Depth,        \* CHANNEL_DEPTH
  Max32         \* u32::MAX, in the unit of the offsets

ASSUME SizesAssumption ==
  /\ Dirs \in Nat /\ Small \in Nat /\ Large \in Nat
  /\ SmallSize \in [1..Small -> Nat]
  /\ Incompressible \subseteq 1..Small
  /\ LargeStat \in [1..Large -> Nat]
  /\ LargeSize \in [1..Large -> Nat]
  /\ BytesTotal \in Nat

ASSUME PoolAssumption ==
  /\ Workers # {}
  /\ Depth \in Nat \ {0}
  /\ Max32 \in Nat

VARIABLES
  \* the rayon pool and the channel
  todo,         \* small entries no worker has picked up
  job,          \* job[w]: the entry worker w holds, 0 when it holds none
  stage,        \* stage[w]: where worker w is in prepare_entry / send
  got,          \* got[w]: chunks read in the current pass over the file
  prepared,     \* prepared[i]: the Result<PreparedEntry> of entry i
  chan,         \* the sync_channel, oldest first
  bytes_in_flight,    \* the shared atomic
  \* the calling thread
  pc,           \* where the calling thread is, or how the call ended
  pending,      \* entries received and not yet spliced
  next_idx,     \* the next entry to splice (counted from 1)
  pipeline_error,     \* "none", "io" or "canceled"
  last_inflight_emit, \* the atomic's value at the last tick
  bytes_done,
  last_emitted_top,
  shown,        \* bytes_processed of the last snapshot the host was given
  large_idx,    \* the large entry being streamed
  bytes_read,   \* chunks streamed from it
  count,        \* CountingWriter: bytes of its body written
  \* the output
  cursor,       \* ZipFileWriter::cursor
  file,         \* position and length of the file on disk
  headers,      \* where each local file header was really written
  cd            \* the records of the central directory

poolVars == <<todo, job, stage, got, prepared, bytes_in_flight>>
progressVars == <<last_inflight_emit, last_emitted_top, shown>>
streamVars == <<large_idx, bytes_read, count>>
outVars == <<cursor, file, headers, cd>>
mainVars == <<pc, pending, next_idx, pipeline_error, bytes_done>>
vars == <<poolVars, chan, mainVars, progressVars, streamVars, outVars>>

Total == Dirs + Small + Large
Larger(a, b) == IF a > b THEN a ELSE b
Smaller(a, b) == IF a < b THEN a ELSE b
Final == {"ok", "failed", "declined"}

-----------------------------------------------------------------------------
(* The output file.                                                        *)

\* A local file header is one unit long, two with the ZIP64 extra field.
HeaderLen(zip64) == IF zip64 THEN 2 ELSE 1

NeedsZip64(uncompressed, compressed, offset) ==
  uncompressed > Max32 \/ compressed > Max32 \/ offset > Max32

\* Writing n units at the current position.
Write(f, n) == [pos |-> f.pos + n, len |-> Larger(f.len, f.pos + n)]

Record(id, offset, uncompressed, payload) ==
  [id |-> id, lfh_offset |-> offset,
   uncompressed_size |-> uncompressed, payload |-> payload]

\* A header and a body of `compressed` units holding `payload` bytes of the
\* source: the file grows, cursor follows, the record joins the directory.
AppendEntry(id, uncompressed, compressed, payload, zip64) ==
  LET n == HeaderLen(zip64) + compressed
  IN  /\ headers' = Append(headers, file.pos)
      /\ file' = Write(file, n)
      /\ cursor' = cursor + n
      /\ cd' = Append(cd, Record(id, cursor, uncompressed, payload))

\* A write that fails leaves a torn tail behind it: part of a header, or a
\* header (after which cursor has moved) and part of a body.
TornWrite ==
  \E torn \in 0..1 :
    /\ \/ cursor' = cursor /\ UNCHANGED headers
       \/ torn = 1 /\ cursor' = cursor + 1 /\ headers' = Append(headers, file.pos)
    /\ file' = Write(file, torn)
    /\ UNCHANGED cd

-----------------------------------------------------------------------------
(* The workers: prepare_entry, then tx.send.                               *)

NoEntry == [ok |-> FALSE, size |-> 0, compressed |-> 0]

\* The dispatcher thread lives from s.spawn to the end of the scope.
Spawned == pc \in {"recv", "drain", "join"}

\* Every clone of tx is dropped once par_iter has nothing left to do.
SendersGone == todo = {} /\ \A w \in Workers : stage[w] = "idle"

\* A worker steals any entry left: par_iter promises no order.
Take(w) ==
  /\ Spawned
  /\ stage[w] = "idle"
  /\ \E i \in todo :
       /\ todo' = todo \ {i}
       /\ job' = [job EXCEPT ![w] = i]
  /\ stage' = [stage EXCEPT ![w] = "read"]
  /\ got' = [got EXCEPT ![w] = 0]
  /\ UNCHANGED <<prepared, bytes_in_flight, chan, mainVars, progressVars,
                 streamVars, outVars>>

\* One chunk of either pass; both passes tick the shared atomic.
ReadChunk(w) ==
  /\ stage[w] \in {"read", "reread"}
  /\ got[w] < SmallSize[job[w]]
  /\ got' = [got EXCEPT ![w] = @ + 1]
  /\ bytes_in_flight' = bytes_in_flight + 1
  /\ UNCHANGED <<todo, job, stage, prepared, chan, mainVars, progressVars,
                 streamVars, outVars>>

\* End of the first pass: the file is deflated, and when the result is not
\* shorter the file is read once more to be stored.
Reread(w) ==
  /\ stage[w] = "read"
  /\ got[w] = SmallSize[job[w]]
  /\ job[w] \in Incompressible
  /\ stage' = [stage EXCEPT ![w] = "reread"]
  /\ got' = [got EXCEPT ![w] = 0]
  /\ UNCHANGED <<todo, job, prepared, bytes_in_flight, chan, mainVars,
                 progressVars, streamVars, outVars>>

\* The entry is ready: stored as read, or deflated to something shorter.
Prepare(w) ==
  /\ \/ stage[w] = "reread"
     \/ stage[w] = "read" /\ job[w] \notin Incompressible
  /\ got[w] = SmallSize[job[w]]
  /\ \E n \in 0..got[w] :
       /\ n = 0 => got[w] = 0
       /\ stage[w] = "reread" => n = got[w]
       /\ prepared' = [prepared EXCEPT ![job[w]] =
                         [ok |-> TRUE, size |-> got[w], compressed |-> n]]
  /\ stage' = [stage EXCEPT ![w] = "send"]
  /\ UNCHANGED <<todo, job, got, bytes_in_flight, chan, mainVars,
                 progressVars, streamVars, outVars>>

\* open, read or the encoder fails: the error travels in place of the entry.
PrepareFails(w) ==
  /\ stage[w] \in {"read", "reread"}
  /\ prepared' = [prepared EXCEPT ![job[w]] = NoEntry]
  /\ stage' = [stage EXCEPT ![w] = "send"]
  /\ UNCHANGED <<todo, job, got, bytes_in_flight, chan, mainVars,
                 progressVars, streamVars, outVars>>

\* sync_channel: send blocks while Depth results wait.
Send(w) ==
  /\ stage[w] = "send"
  /\ Len(chan) < Depth
  /\ chan' = Append(chan, job[w])
  /\ stage' = [stage EXCEPT ![w] = "idle"]
  /\ job' = [job EXCEPT ![w] = 0]
  /\ UNCHANGED <<todo, got, prepared, bytes_in_flight, mainVars,
                 progressVars, streamVars, outVars>>

Worker(w) == \/ Take(w) \/ ReadChunk(w) \/ Reread(w) \/ Prepare(w)
             \/ PrepareFails(w) \/ Send(w)

-----------------------------------------------------------------------------
(* The calling thread, before the pipeline.                                *)

\* collect_entries fails, or finds no large file and fewer than
\* PARALLEL_MIN_ENTRIES small ones (how few is left open here): nothing has
\* been written, and a caller that is declined walks again by itself.
WalkEnds ==
  /\ pc = "begin" /\ headers = <<>>
  /\ \/ pc' = "failed"
     \/ Large = 0 /\ pc' = "declined"
  /\ UNCHANGED <<poolVars, chan, pending, next_idx, pipeline_error, bytes_done,
                 progressVars, streamVars, outVars>>

AddDirectory ==
  /\ pc = "begin"
  /\ Len(cd) < Dirs
  /\ \/ AppendEntry(Len(cd) + 1, 0, 0, 0, FALSE) /\ UNCHANGED pc
     \/ TornWrite /\ pc' = "failed"
  /\ UNCHANGED <<poolVars, chan, pending, next_idx, pipeline_error, bytes_done,
                 progressVars, streamVars>>

\* The Scanning tick and the thread pool; either may end the call.
StartPipeline ==
  /\ pc = "begin"
  /\ Len(cd) = Dirs
  /\ shown' = 0
  /\ pc' \in {"failed", IF Small > 0 THEN "recv" ELSE "large"}
  /\ UNCHANGED <<poolVars, chan, pending, next_idx, pipeline_error, bytes_done,
                 last_inflight_emit, last_emitted_top, streamVars, outVars>>

-----------------------------------------------------------------------------
(* The calling thread, small entries: ordered receive and splice.          *)

\* sink.update: the host sees `top` and may answer that it cancels.
Tell(top, error) ==
  /\ shown' = top
  /\ pipeline_error' \in {error, "canceled"}

\* Mutant: an entry received after an error is still spliced.
RecvEntryAlways ==
  /\ pc = "recv" /\ chan # <<>>
  /\ prepared[Head(chan)].ok
  /\ chan' = Tail(chan)
  /\ pending' = pending \cup {Head(chan)}
  /\ pc' = "drain"
  /\ UNCHANGED <<poolVars, next_idx, pipeline_error, bytes_done, progressVars,
                 streamVars, outVars>>

RecvEntry ==
  /\ pc = "recv" /\ pipeline_error = "none" /\ chan # <<>>
  /\ prepared[Head(chan)].ok
  /\ chan' = Tail(chan)
  /\ pending' = pending \cup {Head(chan)}
  /\ pc' = "drain"
  /\ UNCHANGED <<poolVars, next_idx, pipeline_error, bytes_done, progressVars,
                 streamVars, outVars>>

RecvFailure ==
  /\ pc = "recv" /\ pipeline_error = "none" /\ chan # <<>>
  /\ ~prepared[Head(chan)].ok
  /\ chan' = Tail(chan)
  /\ pipeline_error' = "io"
  /\ UNCHANGED <<poolVars, pc, pending, next_idx, bytes_done, progressVars,
                 streamVars, outVars>>

\* Mutant: after an error the loop goes round without receiving.
RecvSpins ==
  /\ pc = "recv" /\ pipeline_error # "none" /\ chan # <<>>
  /\ UNCHANGED vars

\* After an error results are still received, so that no sender blocks.
RecvDiscard ==
  /\ pc = "recv" /\ pipeline_error # "none" /\ chan # <<>>
  /\ chan' = Tail(chan)
  /\ UNCHANGED <<poolVars, mainVars, progressVars, streamVars, outVars>>

\* Mutant: a completed entry reports what is committed, below the forecast.
SpliceTellsCommitted ==
  LET e == prepared[next_idx] IN
  /\ pc = "drain" /\ next_idx \in pending
  /\ pending' = pending \ {next_idx}
  /\ AppendEntry(Dirs + next_idx, e.size, e.compressed, e.size,
                 NeedsZip64(e.size, e.compressed, cursor))
  /\ bytes_done' = bytes_done + e.size
  /\ next_idx' = next_idx + 1
  /\ last_emitted_top' = bytes_done'
  /\ Tell(last_emitted_top', "none")
  /\ pc' = IF pipeline_error' = "none" THEN "drain" ELSE "recv"
  /\ UNCHANGED <<poolVars, chan, last_inflight_emit, streamVars>>

\* add_entry_prepared of the next contiguous entry, then a snapshot.
Splice ==
  LET e == prepared[next_idx] IN
  /\ pc = "drain" /\ next_idx \in pending
  /\ pending' = pending \ {next_idx}
  /\ AppendEntry(Dirs + next_idx, e.size, e.compressed, e.size,
                 NeedsZip64(e.size, e.compressed, cursor))
  /\ bytes_done' = bytes_done + e.size
  /\ next_idx' = next_idx + 1
  /\ last_emitted_top' = Larger(last_emitted_top, bytes_done')
  /\ Tell(last_emitted_top', "none")
  /\ pc' = IF pipeline_error' = "none" THEN "drain" ELSE "recv"
  /\ UNCHANGED <<poolVars, chan, last_inflight_emit, streamVars>>

SpliceFails ==
  /\ pc = "drain" /\ next_idx \in pending
  /\ pending' = pending \ {next_idx}
  /\ TornWrite
  /\ pipeline_error' = "io"
  /\ pc' = "recv"
  /\ UNCHANGED <<poolVars, chan, next_idx, bytes_done, progressVars, streamVars>>

DrainStops ==
  /\ pc = "drain" /\ next_idx \notin pending
  /\ pc' = "recv"
  /\ UNCHANGED <<poolVars, chan, pending, next_idx, pipeline_error, bytes_done,
                 progressVars, streamVars, outVars>>

\* recv_timeout ran out: forecast from the bytes the workers have read.
InFlightTick ==
  LET in_flight == IF bytes_in_flight > bytes_done
                   THEN bytes_in_flight - bytes_done ELSE 0
      forecast_top == Smaller(bytes_done + in_flight, BytesTotal)
  IN
  /\ pc = "recv" /\ pipeline_error = "none" /\ chan = <<>> /\ ~SendersGone
  /\ bytes_in_flight # last_inflight_emit
  /\ last_inflight_emit' = bytes_in_flight
  /\ last_emitted_top' = Larger(last_emitted_top, forecast_top)
  /\ Tell(last_emitted_top', "none")
  /\ UNCHANGED <<poolVars, chan, pc, pending, next_idx, bytes_done, streamVars,
                 outVars>>

\* The channel is empty and the last sender is gone.
Disconnected ==
  /\ pc = "recv" /\ chan = <<>> /\ SendersGone
  /\ pc' = "join"
  /\ UNCHANGED <<poolVars, chan, pending, next_idx, pipeline_error, bytes_done,
                 progressVars, streamVars, outVars>>

\* Mutant: the pipeline's error is not looked at.
JoinIgnoresError ==
  /\ pc = "join" /\ SendersGone
  /\ pc' = "large"
  /\ UNCHANGED <<poolVars, chan, pending, next_idx, pipeline_error, bytes_done,
                 progressVars, streamVars, outVars>>

\* thread::scope joins the dispatcher before the error is looked at.
Join ==
  /\ pc = "join" /\ SendersGone
  /\ pc' = IF pipeline_error = "none" THEN "large" ELSE "failed"
  /\ UNCHANGED <<poolVars, chan, pending, next_idx, pipeline_error, bytes_done,
                 progressVars, streamVars, outVars>>

-----------------------------------------------------------------------------
(* The calling thread, large entries: add_entry_streaming.                 *)

StreamZip64 == LargeStat[large_idx] > Max32 \/ cursor > Max32

\* stat, then the header with placeholders for the checksum and the length.
StreamBegins ==
  /\ pc = "large" /\ large_idx <= Large
  /\ LET n == HeaderLen(StreamZip64) IN
       /\ headers' = Append(headers, file.pos)
       /\ file' = Write(file, n)
       /\ cursor' = cursor + n
  /\ bytes_read' = 0
  /\ count' = 0
  /\ pc' = "stream"
  /\ UNCHANGED <<poolVars, chan, pending, next_idx, pipeline_error, bytes_done,
                 progressVars, large_idx, cd>>

\* A chunk goes through the encoder, which writes some of it now and keeps
\* the rest; then a tick, which may cancel.
StreamChunk ==
  /\ pc = "stream" /\ bytes_read < LargeSize[large_idx]
  /\ \E n \in 0..1 :
       /\ file' = Write(file, n)
       /\ count' = count + n
  /\ bytes_read' = bytes_read + 1
  /\ shown' = bytes_done + bytes_read'
  /\ pc' \in {"stream", "failed"}
  /\ UNCHANGED <<poolVars, chan, pending, next_idx, pipeline_error, bytes_done,
                 last_inflight_emit, last_emitted_top, large_idx, cursor,
                 headers, cd>>

\* Mutant: the position is not restored after the header is patched.
StreamEndsAtHeader ==
  /\ pc = "stream" /\ bytes_read = LargeSize[large_idx]
  /\ \E n \in 0..1 :
       /\ cursor' = cursor + count + n
       /\ file' = [Write(file, n) EXCEPT !.pos = headers[Len(headers)] + 1]
  /\ cd' = Append(cd, Record(Dirs + Small + large_idx, headers[Len(headers)],
                             LargeStat[large_idx], bytes_read))
  /\ pc' = "listed"
  /\ UNCHANGED <<poolVars, chan, pending, next_idx, pipeline_error, bytes_done,
                 progressVars, streamVars, headers>>

\* encoder.finish, the header patched in place, the position restored from
\* the cursor, and the directory record.
StreamEnds ==
  /\ pc = "stream" /\ bytes_read = LargeSize[large_idx]
  /\ \E n \in 0..1 :
       /\ cursor' = cursor + count + n
       /\ file' = [Write(file, n) EXCEPT !.pos = cursor']
  /\ cd' = Append(cd, Record(Dirs + Small + large_idx, headers[Len(headers)],
                             LargeStat[large_idx], bytes_read))
  /\ pc' = "listed"
  /\ UNCHANGED <<poolVars, chan, pending, next_idx, pipeline_error, bytes_done,
                 progressVars, streamVars, headers>>

\* The closing snapshot of a streamed entry: the host may still cancel, and
\* the call then fails although the entry is complete.
StreamTold ==
  /\ pc = "listed"
  /\ shown' = bytes_done + bytes_read
  /\ \/ /\ pc' = "large"
        /\ bytes_done' = bytes_done + LargeStat[large_idx]
        /\ large_idx' = large_idx + 1
     \/ pc' = "failed" /\ UNCHANGED <<bytes_done, large_idx>>
  /\ UNCHANGED <<poolVars, chan, pending, next_idx, pipeline_error,
                 last_inflight_emit, last_emitted_top, bytes_read, count,
                 outVars>>

\* The source cannot be opened or read, or the output cannot be written.
StreamFails ==
  /\ pc \in {"large", "stream"} /\ large_idx <= Large
  /\ TornWrite
  /\ pc' = "failed"
  /\ UNCHANGED <<poolVars, chan, pending, next_idx, pipeline_error, bytes_done,
                 progressVars, streamVars>>

\* Mutant: the last large entry is never reached.
ReturnOkEarly ==
  /\ pc = "large" /\ large_idx >= Large
  /\ pc' = "ok"
  /\ UNCHANGED <<poolVars, chan, pending, next_idx, pipeline_error, bytes_done,
                 progressVars, streamVars, outVars>>

ReturnOk ==
  /\ pc = "large" /\ large_idx > Large
  /\ pc' = "ok"
  /\ UNCHANGED <<poolVars, chan, pending, next_idx, pipeline_error, bytes_done,
                 progressVars, streamVars, outVars>>

Main == \/ WalkEnds \/ AddDirectory \/ StartPipeline
        \/ RecvEntry \/ RecvFailure \/ RecvDiscard
        \/ Splice \/ SpliceFails \/ DrainStops \/ InFlightTick
        \/ Disconnected \/ Join
        \/ StreamBegins \/ StreamChunk \/ StreamEnds \/ StreamTold
        \/ StreamFails \/ ReturnOk

-----------------------------------------------------------------------------
Init ==
  /\ todo = 1..Small
  /\ job = [w \in Workers |-> 0]
  /\ stage = [w \in Workers |-> "idle"]
  /\ got = [w \in Workers |-> 0]
  /\ prepared = [i \in 1..Small |-> NoEntry]
  /\ chan = <<>>
  /\ bytes_in_flight = 0
  /\ pc = "begin"
  /\ pending = {}
  /\ next_idx = 1
  /\ pipeline_error = "none"
  /\ last_inflight_emit = 0 /\ bytes_done = 0 /\ last_emitted_top = 0
  /\ shown = 0
  /\ large_idx = 1 /\ bytes_read = 0 /\ count = 0
  /\ cursor = 0
  /\ file = [pos |-> 0, len |-> 0]
  /\ headers = <<>>
  /\ cd = <<>>

\* The call has returned and no thread of it is left.
Returned == pc \in Final /\ UNCHANGED vars

Next == Main \/ (\E w \in Workers : Worker(w)) \/ Returned

Spec == Init /\ [][Next]_vars

\* The operating system schedules the calling thread and every pool thread.
Fairness == WF_vars(Main) /\ \A w \in Workers : WF_vars(Worker(w))

FairSpec == Spec /\ Fairness

-----------------------------------------------------------------------------
Entry == [ok : BOOLEAN, size : Nat, compressed : Nat]

CdRecords == [id : Nat, lfh_offset : Nat, uncompressed_size : Nat,
              payload : Nat]

PoolType ==
  /\ todo \in SUBSET (1..Small)
  /\ job \in [Workers -> 0..Small]
  /\ stage \in [Workers -> {"idle", "read", "reread", "send"}]
  /\ got \in [Workers -> Nat]
  /\ prepared \in [1..Small -> Entry]
  /\ bytes_in_flight \in Nat

MainType ==
  /\ pc \in {"begin", "recv", "drain", "join", "large", "stream", "listed"}
             \cup Final
  /\ pending \in SUBSET (1..Small)
  /\ next_idx \in 1..(Small + 1)
  /\ pipeline_error \in {"none", "io", "canceled"}
  /\ bytes_done \in Nat
  /\ last_inflight_emit \in Nat /\ last_emitted_top \in Nat /\ shown \in Nat
  /\ large_idx \in 1..(Large + 1) /\ bytes_read \in Nat /\ count \in Nat

OutType ==
  /\ cursor \in Nat
  /\ file \in [pos : Nat, len : Nat]
  /\ headers \in Seq(Nat)
  /\ cd \in Seq(CdRecords)

TypeOK == PoolType /\ chan \in Seq(1..Small) /\ MainType /\ OutType

-----------------------------------------------------------------------------
(* Safety.                                                                 *)

\* The central directory lists the entries in the order of the walk, each
\* once, although the workers finish them in any order (writer.rs: results
\* are buffered and contiguous prefixes drained onto the writer).
OrderedDirectory == \A k \in DOMAIN cd : cd[k].id = k

\* When the call answers Ok, every entry of the walk has been spliced and no
\* prepared entry is left behind in the channel, the map or a worker.
SuccessIsComplete ==
  pc = "ok" => /\ Len(cd) = Total
               /\ pending = {} /\ chan = <<>> /\ SendersGone

\* Each record points at the place where its header was really written, and
\* between two entries the file ends exactly at the writer's cursor, with
\* its write position there: bodies neither overlap nor leave gaps.  The
\* cursor is kept by arithmetic, and a streamed entry seeks back to patch
\* its header and trusts the cursor to find its way to the end again.
OffsetsAreReal ==
  /\ \A k \in DOMAIN cd : k <= Len(headers) /\ cd[k].lfh_offset = headers[k]
  /\ pc \in {"begin", "recv", "drain", "join", "large", "listed", "ok"}
       /\ pipeline_error # "io"
     => file = [pos |-> cursor, len |-> cursor]

\* A result is in one place only: with a worker, in the channel, or waiting
\* to be spliced; what has been spliced never comes back.
HeldOnce ==
  /\ \A w \in Workers, k \in DOMAIN chan : job[w] # chan[k]
  /\ \A w \in Workers : job[w] \notin pending
  /\ \A k \in DOMAIN chan : chan[k] \notin pending
  /\ \A w, v \in Workers : job[w] = job[v] => job[w] = 0 \/ w = v
  /\ \A k, l \in DOMAIN chan : chan[k] = chan[l] => k = l
  /\ \A i \in pending : i >= next_idx
  /\ \A k \in DOMAIN chan : chan[k] >= next_idx

\* Once an entry has failed or the host has cancelled, nothing more is
\* listed: later results are received only to let their workers go.
NothingListedAfterError == [][pipeline_error # "none" => UNCHANGED cd]_vars

\* While small entries are written the host never sees progress go back,
\* although forecasts and completed entries are mixed.
ForecastNeverRegresses ==
  [][(pc \in {"recv", "drain"}) => (shown' >= shown)]_vars

\* The comment in writer.rs: the host's contract that progress only goes up.
ProgressOnlyGoesUp == [][shown' >= shown]_vars

\* The comment in writer.rs: the channel's bound caps in-flight memory.  Read
\* generously: the entries prepared and not yet written are no more than the
\* channel holds plus one for each worker.
Waiting == {i \in 1..Small : /\ prepared[i].ok
                             /\ i \in pending \/ \E k \in DOMAIN chan : chan[k] = i}
InFlightMemoryCapped == Cardinality(Waiting) <= Depth + Cardinality(Workers)

\* The comment in zip_writer.rs: the uncompressed_size field carries the real
\* value already when the header is written.
SizesAreReal == \A k \in DOMAIN cd : cd[k].uncompressed_size = cd[k].payload

\* What the call promises, implemented step by step.
Answer == CASE pc \in Final -> pc
            [] OTHER -> "none"
Listed == [k \in 1..Len(cd) |-> cd[k].id]
Abstract == INSTANCE OrderedArchive WITH listed <- Listed, answer <- Answer
ImplementsOrderedArchive == Abstract!AbsSpec

-----------------------------------------------------------------------------
(* The inductive invariant behind OrderedDirectory, SuccessIsComplete,     *)
(* OffsetsAreReal and HeldOnce.                                            *)

\* No worker moves before the scope begins nor after it has been joined.
Quiet ==
  /\ pc \in {"begin", "declined"} => todo = 1..Small
  /\ pc \notin {"recv", "drain"} =>
       chan = <<>> /\ \A w \in Workers : stage[w] = "idle"
  /\ pc \in {"join", "large", "stream", "listed", "ok"} => todo = {}
  /\ \A w \in Workers : job[w] = 0 <=> stage[w] = "idle"

\* What has not been picked up is nowhere else, and nothing held was spliced.
Untouched ==
  /\ \A i \in todo : /\ i >= next_idx /\ i \notin pending
                     /\ \A w \in Workers : job[w] # i
                     /\ \A k \in DOMAIN chan : chan[k] # i
  /\ \A w \in Workers : job[w] # 0 => job[w] >= next_idx

\* Until an error, every small entry not yet spliced is somewhere.
NothingLost ==
  pipeline_error = "none" /\ pc \notin {"failed", "declined"} =>
    \A i \in 1..Small : i >= next_idx =>
      \/ i \in todo \/ i \in pending
      \/ \E w \in Workers : job[w] = i
      \/ \E k \in DOMAIN chan : chan[k] = i

\* The drain loop stops at a gap.
StopsAtGap ==
  /\ pc \in {"recv", "join"} /\ pipeline_error = "none" => next_idx \notin pending
  /\ pipeline_error # "none" => pc \in {"recv", "join", "failed"}

\* How far the directory is, by phase.
Lengths ==
  /\ pc = "begin" => next_idx = 1 /\ Len(cd) <= Dirs
  /\ pc \in {"begin", "recv", "drain", "join"} => large_idx = 1
  /\ pc \in {"recv", "drain", "join"} => Len(cd) = Dirs + next_idx - 1
  /\ pc \in {"large", "stream", "listed", "ok"} =>
       next_idx = Small + 1 /\ pending = {}
  /\ pc \in {"large", "stream"} => Len(cd) = Dirs + Small + large_idx - 1
  /\ pc = "listed" => Len(cd) = Dirs + Small + large_idx
  /\ pc \in {"stream", "listed"} => large_idx <= Large
  /\ pc = "ok" => Len(cd) = Total

\* The file and the headers, by phase.
Tiling ==
  /\ \A k \in DOMAIN cd : k <= Len(headers) /\ cd[k].lfh_offset = headers[k]
  /\ pc \in {"begin", "recv", "drain", "join", "large", "listed", "ok"}
       /\ pipeline_error # "io"
     => /\ file = [pos |-> cursor, len |-> cursor]
        /\ Len(headers) = Len(cd)
  /\ pc = "stream" => /\ file = [pos |-> cursor + count, len |-> cursor + count]
                      /\ Len(headers) = Len(cd) + 1

IInv == /\ TypeOK /\ HeldOnce /\ Quiet /\ Untouched /\ NothingLost
        /\ StopsAtGap /\ Lengths /\ Tiling /\ OrderedDirectory

-----------------------------------------------------------------------------
(* Liveness: the call returns, also when it is cancelled while every       *)
(* worker is blocked on a full channel.                                    *)
CallReturns == <>(pc \in Final)
=============================================================================
