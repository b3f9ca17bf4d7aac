----------------------------- MODULE TreeWriter -----------------------------
(***************************************************************************)
(* Adding directory trees to an archive through the generic walker and the *)
(* writers it feeds: 7z with and without solid blocks, tar (plain or       *)
(* gzipped), xz and the zip-crate writers of ZIPX and AES ZIP (writer.rs   *)
(* from add_dir_recursive_through on).                                     *)
(*                                                                         *)
(* The nodes of a tree are numbered in the order of a depth-first listing, *)
(* the root is 1; a file is a number of bytes, read one at a time.  A      *)
(* failed call leaves a torn member at most, which is not modelled: its    *)
(* caller gives the archive up (ArchiveHandle).                            *)
(***************************************************************************)
EXTENDS Integers, Sequences, SequencesExt

CONSTANTS
  Trees,      \* trees to add: parent, kind and stat of each node, meta a set
  Formats,    \* "7z", "7z solid", "tar", "xz", "zipx"
  Growth,     \* what a file may have grown by when it is read
  BlockCap,   \* SOLID_BLOCK_CAP, 64 MiB
  Every,      \* TICK_BYTES, 1 MiB
  Calls       \* bound on the trees added to one archive

\* A node follows its parent, a directory, and whatever is listed between them
\* is below that directory too.
IsTree(t) ==
  LET nodes == 1..Len(t.kind) IN
  /\ t.kind \in Seq({"dir", "file", "link"}) /\ t.kind # <<>> /\ t.meta \subseteq nodes
  /\ t.parent \in [nodes -> nodes] /\ t.parent[1] = 1 /\ t.stat \in [nodes -> Nat]
  /\ \A n \in nodes \ {1} :
       /\ t.parent[n] < n /\ t.kind[t.parent[n]] = "dir"
       /\ \A m \in (t.parent[n] + 1)..n : t.parent[m] >= t.parent[n]

ASSUME TreeAssumption ==
  /\ \A t \in Trees : IsTree(t)
  /\ Growth \subseteq Nat /\ BlockCap \in Nat \ {0} /\ Every \in Nat \ {0} /\ Calls \in Nat

VARIABLES
  setup,      \* the arguments: tree, format, options, and the files' true lengths
  pc,         \* where the call is
  calls,      \* calls made so far
  stack,      \* walk's stack, top last
  total,      \* entries_total and bytes_total
  done,       \* entries_processed and bytes_processed
  cur,        \* the entry in process_file_entry: node, bytes read, last_report
  pending,    \* the solid block that is being filled
  pending_bytes,
  out,        \* members written: node, length declared, length of the data
  whole,      \* the writer's last buffer has reached the file
  told,       \* bytes_processed of the last tick of this call
  refused,    \* the sink has answered false
  result      \* what the last call returned

vars == <<setup, pc, calls, stack, total, done, cur, pending, pending_bytes, out,
          whole, told, refused, result>>
writerVars == <<pending, pending_bytes, out>>
walkVars == <<calls, stack, total, done, cur>>

tree == setup.tree
Nodes == 1..Len(tree.kind)

\* Those of the first n nodes that are in S, in the order of the listing, and
\* how many bytes they are; for each n.
FirstOf(S) ==
  LET first[n \in 0..Len(tree.kind)] ==
        IF n = 0 THEN <<>>
        ELSE IF n \in S THEN Append(first[n - 1], n) ELSE first[n - 1]
  IN first
BytesOf(S) ==
  LET bytes[n \in 0..Len(tree.kind)] ==
        IF n = 0 THEN 0 ELSE bytes[n - 1] + (IF n \in S THEN tree.stat[n] ELSE 0)
  IN bytes
InOrder(S) == FirstOf(S)[Len(tree.kind)]

Kids(n) == InOrder({m \in Nodes : m # n /\ tree.parent[m] = n})
NoCount == [entries |-> 0, bytes |-> 0]
NoEntry == [node |-> 0, read |-> 0, last |-> 0]

Metadata(n) == setup.exclude /\ n # 1 /\ n \in tree.meta
IsDir(n) == tree.kind[n] = "dir"
SkippedLink(n) == tree.kind[n] = "link" /\ ~setup.follow

\* pre_scan_visit: what the walk is going to add, by its own recursion.
Kept[n \in Nodes] == n = 1 \/ (~Metadata(n) /\ Kept[tree.parent[n]])
Files == {n \in Nodes : Kept[n] /\ ~IsDir(n) /\ ~SkippedLink(n)}

\* Mutant of PreScan: links that the walk skips are counted.
PreScanLinks ==
  LET all == {n \in Nodes : Kept[n] /\ ~IsDir(n)} IN
  [entries |-> Cardinality(all), bytes |-> BytesOf(all)[Len(tree.kind)]]

PreScan ==
  [entries |-> Cardinality(Files), bytes |-> BytesOf(Files)[Len(tree.kind)]]

Return(r) == pc' = "returned" /\ result' = r

\* ProgressSink::update; without a sink NullSink answers true.  bad is what
\* the call returns when the host asks to stop.
Tell(bytes, bad, go) ==
  IF setup.sink
  THEN /\ told' = bytes
       /\ \/ go /\ UNCHANGED refused
          \/ refused' = TRUE /\ bad
  ELSE go /\ UNCHANGED <<told, refused>>

Init ==
  /\ \E t \in Trees, f \in Formats, s, l, x \in BOOLEAN, g \in Growth :
       setup = [tree |-> t, fmt |-> f, sink |-> s, follow |-> l, exclude |-> x,
                real |-> [n \in 1..Len(t.stat) |-> IF n = Len(t.stat) THEN t.stat[n] + g
                                                   ELSE t.stat[n]]]
  /\ pc = "returned" /\ result = "ok" /\ calls = 0
  /\ stack = <<>> /\ total = NoCount /\ done = NoCount /\ cur = NoEntry
  /\ pending = <<>> /\ pending_bytes = 0 /\ out = <<>> /\ whole = FALSE
  /\ told = 0 /\ refused = FALSE

-----------------------------------------------------------------------------
(* The writers                                                             *)

Item(n, size, data) == [node |-> n, size |-> size, data |-> data]
Solid == setup.fmt = "7z solid"

\* flush_solid_block: the block is taken, then pushed; if the push fails its
\* entries are in neither place.
FlushSolidBlock(extra) ==
  /\ out' = (out \o pending) \o extra
  /\ pending' = <<>>
  /\ pending_bytes' = 0

\* The directory branch of add_entry; xz has none.
AddDirectory(n) ==
  IF Solid THEN FlushSolidBlock(<<Item(n, 0, 0)>>)
  ELSE out' = Append(out, Item(n, 0, 0)) /\ UNCHANGED <<pending, pending_bytes>>

\* The buffered branch of the solid writer: the actual size counts.
AddSmall(n, actual) ==
  IF pending_bytes + actual >= BlockCap
  THEN FlushSolidBlock(<<Item(n, actual, actual)>>)
  ELSE /\ pending' = Append(pending, Item(n, actual, actual))
       /\ pending_bytes' = pending_bytes + actual
       /\ UNCHANGED out

\* add_entry of a file whose data has been read to the end.  The tar header
\* is written first and carries the size the walk has seen.
AddFile(n, actual) ==
  IF Solid /\ tree.stat[n] < BlockCap THEN AddSmall(n, actual)
  ELSE /\ out' = Append(out, Item(n, IF setup.fmt = "tar" THEN tree.stat[n] ELSE actual, actual))
       /\ UNCHANGED <<pending, pending_bytes>>

\* Before the data is read: a large file closes the solid block.
OpenFile(n) ==
  IF Solid /\ tree.stat[n] >= BlockCap THEN FlushSolidBlock(<<>>)
  ELSE UNCHANGED writerVars

\* The xz writer has one stream, and no directories.
RefusesEntry(n) == setup.fmt = "xz" /\ IF IsDir(n) THEN n # 1 ELSE out # <<>>

-----------------------------------------------------------------------------
(* add_dir_recursive_through                                               *)

Begin ==
  /\ pc = "returned" /\ result = "ok" /\ calls < Calls
  /\ calls' = calls + 1
  /\ total' = IF setup.sink THEN PreScan ELSE NoCount
  /\ done' = NoCount /\ told' = 0
  /\ \/ pc' = "scanned" /\ UNCHANGED result
     \/ Return("failed")                    \* no such source, or it cannot be listed
  /\ UNCHANGED <<setup, stack, cur, writerVars, whole, refused>>

ScanningTick ==
  /\ pc = "scanned"
  /\ Tell(0, Return("canceled") /\ UNCHANGED stack,
             pc' = "walk" /\ stack' = <<1>> /\ UNCHANGED result)
  /\ UNCHANGED <<setup, calls, total, done, cur, writerVars, whole>>

Visit ==
  /\ pc = "walk" /\ stack # <<>>
  /\ UNCHANGED <<setup, calls, total, done, whole, told, refused>>
  /\ LET n == Last(stack) IN
     IF Metadata(n) \/ (~IsDir(n) /\ SkippedLink(n))
     THEN stack' = Front(stack) /\ UNCHANGED <<pc, cur, writerVars, result>>
     ELSE IF RefusesEntry(n)
     THEN stack' = <<>> /\ Return("failed") /\ UNCHANGED <<cur, writerVars>>
     ELSE IF IsDir(n)
     THEN /\ stack' = Front(stack) \o Reverse(Kids(n))
          /\ IF n = 1 THEN UNCHANGED writerVars ELSE AddDirectory(n)
          /\ UNCHANGED <<pc, cur, result>>
     ELSE /\ stack' = Front(stack)
          /\ cur' = [NoEntry EXCEPT !.node = n]
          /\ OpenFile(n)
          /\ pc' = "stream" /\ UNCHANGED result

\* Mutant of Canceled: the marker error is not recognised.
CanceledAsFailure == Return("failed")

\* is_cancel_marker: the error the reader raised has come back through the
\* writer and its codec.
Canceled == Return("canceled")

CountEntry(n) == done' = [entries |-> done.entries + 1, bytes |-> done.bytes + tree.stat[n]]

\* ProgressReader::read of the entry that is being added: a tick every Every
\* bytes and at the end of the file.
ReadEntry ==
  /\ pc = "stream"
  /\ UNCHANGED <<setup, calls, stack, total, whole>>
  /\ LET eof == cur.read = setup.real[cur.node]
         n == IF eof THEN cur.read ELSE cur.read + 1
         go == IF eof
               THEN /\ AddFile(cur.node, n) /\ CountEntry(cur.node)
                    /\ cur' = NoEntry /\ pc' = "walk" /\ UNCHANGED result
               ELSE /\ cur' = [cur EXCEPT !.read = n,
                                          !.last = IF n - cur.last >= Every THEN n ELSE @]
                    /\ UNCHANGED <<writerVars, done, pc, result>>
     IN IF eof \/ n - cur.last >= Every
        THEN Tell(done.bytes + n,
                  Canceled /\ cur' = NoEntry /\ UNCHANGED <<writerVars, done>>, go)
        ELSE go /\ UNCHANGED <<told, refused>>

\* A source cannot be opened, listed or read, or the output cannot be written.
Fails ==
  /\ pc \in {"walk", "stream"}
  /\ Return("failed")
  /\ stack' = <<>> /\ cur' = NoEntry
  /\ UNCHANGED <<setup, calls, total, done, writerVars, whole, told, refused>>

WalkDone ==
  /\ pc = "walk" /\ stack = <<>>
  /\ Return("ok")
  /\ UNCHANGED <<setup, walkVars, writerVars, whole, told, refused>>

\* commit of the xz writer and of the two that wrap zip::ZipWriter drops the
\* BufWriter it gets back; what a failing last flush says is lost.  7z and the
\* tar sinks hand that error on.
DropsLastBuffer == setup.fmt \in {"xz", "zipx"}

\* Mutant of Commit: the trailing solid block is forgotten.
CommitUnflushed ==
  /\ pc = "returned" /\ result = "ok" /\ calls > 0
  /\ pc' = "closed" /\ result' \in {"committed", "failed"} /\ whole' = (result' = "committed")
  /\ UNCHANGED <<setup, walkVars, writerVars, told, refused>>

\* commit of each writer: the trailing block, the trailer, the last flush.
Commit ==
  /\ pc = "returned" /\ result = "ok" /\ calls > 0
  /\ pc' = "closed"
  /\ \/ result' = "committed" /\ FlushSolidBlock(<<>>)
        /\ whole' \in IF DropsLastBuffer THEN BOOLEAN ELSE {TRUE}
     \/ result' = "failed" /\ UNCHANGED <<writerVars, whole>>
  /\ UNCHANGED <<setup, walkVars, told, refused>>

Next == Begin \/ ScanningTick \/ Visit \/ ReadEntry \/ Fails \/ WalkDone \/ Commit

Spec == Init /\ [][Next]_vars /\ WF_vars(Next)
-----------------------------------------------------------------------------
(* Properties                                                              *)

\* Every variable has its type; a solid block stays below the cap between two
\* entries, so that its memory does not grow with the archive
\* (writer.rs:1049-1051,1132-1146).
TypeOK ==
  /\ pc \in {"returned", "scanned", "walk", "stream", "closed"}
  /\ result \in {"ok", "failed", "canceled", "committed"}
  /\ calls \in 0..Calls /\ stack \in Seq(Nodes)
  /\ total \in [entries : Nat, bytes : Nat] /\ done \in [entries : Nat, bytes : Nat]
  /\ cur \in [node : Nodes \cup {0}, read : Nat, last : Nat]
  /\ pending \in Seq([node : Nodes, size : Nat, data : Nat])
  /\ pending_bytes \in 0..(BlockCap - 1)
  /\ out \in Seq([node : Nodes, size : Nat, data : Nat])
  /\ whole \in BOOLEAN /\ told \in Nat /\ refused \in BOOLEAN

Unchanged == setup.real = tree.stat

\* One tree in walk order: every directory but the root, every file.
Listed == {n \in Nodes : n \in Files \/ (n # 1 /\ Kept[n] /\ IsDir(n))}
Listing == InOrder(Listed)

\* A commit that answers Ok has written, for each tree, all its entries in
\* the order of the walk, whatever was packed into solid blocks between
\* them, each member is as long as it says, and the end of the archive is in
\* the file (writer.rs:1052-1188,1191-1216).  Of a tar the lengths hold if no
\* file has changed since it was looked at: its header precedes the data.  Of
\* xz, ZIPX and AES ZIP nothing is said when the last flush has failed: their
\* commit answers Ok over an archive whose end is missing (LastFlushIsTold).
CommittedListsTrees ==
  (result = "committed" /\ (whole \/ ~DropsLastBuffer)) =>
    /\ whole
    /\ [i \in DOMAIN out |-> out[i].node] = FlattenSeq([c \in 1..calls |-> Listing])
    /\ \A i \in DOMAIN out : ~IsDir(out[i].node) =>
         /\ out[i].data = setup.real[out[i].node]
         /\ Unchanged \/ setup.fmt # "tar" => out[i].size = out[i].data

\* What TarSink asks of a commit, that a disk full on the very last write
\* fails it loudly (writer.rs:1191-1196), asked of every writer.  It does NOT
\* hold: the xz commit relies on the drop of the BufWriter (1911).
LastFlushIsTold == result = "committed" => whole

\* The totals announced before the walk are what the walk adds, entry by
\* entry, and the last tick shows the whole (writer.rs:1466-1472,1555-1610).
TotalsAreMet ==
  (setup.sink /\ calls > 0) =>
    /\ pc = "returned" /\ result = "ok" => done = total
    /\ pc = "returned" /\ result = "ok" /\ Unchanged => told = total.bytes
    /\ Unchanged /\ pc # "closed" => told <= total.bytes

\* A host that answered false gets Canceled, through whichever codec the
\* error travelled, and is not called again (writer.rs:1742-1746).
CancelIsTold == refused => result = "canceled"
=============================================================================
