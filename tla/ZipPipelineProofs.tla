------------------------- MODULE ZipPipelineProofs -------------------------
(* Proofs about ZipPipeline, for every walk, pool and channel depth.       *)
EXTENDS ZipPipeline, TLAPS

\* The elements of a sequence over S are in S.
LEMMA SeqElements ==
  ASSUME NEW S, NEW s \in Seq(S)
  PROVE  \A k \in DOMAIN s : s[k] \in S
OBVIOUS

\* The initial state satisfies the inductive invariant.
LEMMA InitIInv == Init => IInv
BY SizesAssumption
   DEF Init, IInv, TypeOK, PoolType, MainType, OutType, Final, Entry, NoEntry,
       CdRecords, HeldOnce, Quiet, Untouched, NothingLost, StopsAtGap, Lengths,
       Tiling, OrderedDirectory

\* Appending an entry to the output keeps its variables well typed.
LEMMA AppendEntryType ==
  ASSUME OutType, NEW id \in Nat, NEW u \in Nat, NEW c \in Nat, NEW p \in Nat,
         NEW z \in BOOLEAN, AppendEntry(id, u, c, p, z)
  PROVE  OutType'
BY DEF OutType, AppendEntry, HeaderLen, Write, Larger, Record, CdRecords

\* So does a write that fails.
LEMMA TornWriteType ==
  ASSUME OutType, TornWrite
  PROVE  OutType'
<1>1. PICK torn \in 0..1 :
        /\ \/ cursor' = cursor /\ UNCHANGED headers
           \/ torn = 1 /\ cursor' = cursor + 1 /\ headers' = Append(headers, file.pos)
        /\ file' = Write(file, torn)
        /\ UNCHANGED cd
  BY DEF TornWrite
<1>2. file' \in [pos : Nat, len : Nat]
  BY <1>1 DEF OutType, Write, Larger
<1>3. CASE cursor' = cursor /\ UNCHANGED headers
  BY <1>1, <1>2, <1>3 DEF OutType
<1>4. CASE cursor' = cursor + 1 /\ headers' = Append(headers, file.pos)
  <2>1. file.pos \in Nat /\ headers \in Seq(Nat) /\ cursor \in Nat
    BY DEF OutType
  <2>2. headers' \in Seq(Nat) /\ cursor' \in Nat
    BY <1>4, <2>1
  <2> QED
    BY <1>1, <1>2, <2>2 DEF OutType
<1> QED
  BY <1>1, <1>3, <1>4

\* The workers keep every variable well typed.
LEMMA WorkerType ==
  ASSUME IInv, NEW w \in Workers, Worker(w)
  PROVE  TypeOK'
<1> USE SizesAssumption DEF PoolType, Entry
<1>1. PoolType /\ chan \in Seq(1..Small)
  BY DEF IInv, TypeOK
<1>a. job[w] = 0 <=> stage[w] = "idle"
  BY DEF IInv, Quiet
<1>b. job[w] \in 0..Small /\ (stage[w] # "idle" => job[w] \in 1..Small)
  BY <1>1, <1>a
<1>2. MainType' /\ OutType'
  BY DEF IInv, TypeOK, Worker, Take, ReadChunk, Reread, Prepare, PrepareFails,
     Send, MainType, OutType, mainVars, progressVars, streamVars, outVars
<1>3. CASE Take(w)
  <2>1. PICK i \in todo : todo' = todo \ {i} /\ job' = [job EXCEPT ![w] = i]
    BY <1>3 DEF Take
  <2>2. i \in 1..Small /\ i \in 0..Small
    BY <1>1
  <2>3. /\ todo' \in SUBSET (1..Small) /\ job' \in [Workers -> 0..Small]
        /\ stage' \in [Workers -> {"idle", "read", "reread", "send"}]
        /\ got' \in [Workers -> Nat]
    BY <1>1, <1>3, <2>1, <2>2 DEF Take
  <2> QED
    BY <1>1, <1>2, <1>3, <2>3 DEF Take, TypeOK
<1>4. CASE ReadChunk(w)
  <2>1. got' \in [Workers -> Nat] /\ bytes_in_flight' \in Nat
    BY <1>1, <1>4 DEF ReadChunk
  <2> QED
    BY <1>1, <1>2, <1>4, <2>1 DEF ReadChunk, TypeOK
<1>5. CASE Reread(w)
  BY <1>1, <1>2, <1>5 DEF Reread, TypeOK
<1>6. CASE Prepare(w)
  BY <1>1, <1>2, <1>b, <1>6 DEF Prepare, TypeOK
<1>7. CASE PrepareFails(w)
  BY <1>1, <1>2, <1>b, <1>7 DEF PrepareFails, NoEntry, TypeOK
<1>8. CASE Send(w)
  <2>1. chan' \in Seq(1..Small)
    BY <1>1, <1>b, <1>8 DEF Send
  <2>2. /\ stage' \in [Workers -> {"idle", "read", "reread", "send"}]
        /\ job' \in [Workers -> 0..Small]
    BY <1>1, <1>8 DEF Send
  <2> QED
    BY <1>1, <1>2, <1>8, <2>1, <2>2 DEF Send, TypeOK
<1> QED
  BY <1>3, <1>4, <1>5, <1>6, <1>7, <1>8, Worker(w) DEF Worker

\* So does the calling thread.
LEMMA MainTypeStep ==
  ASSUME IInv, Main
  PROVE  TypeOK'
<1> USE SizesAssumption DEF MainType, Final
<1>0. /\ PoolType /\ chan \in Seq(1..Small) /\ MainType /\ OutType
      /\ Lengths /\ Tiling
  BY DEF IInv, TypeOK
<1>1. PoolType'
  BY <1>0 DEF Main, WalkEnds, AddDirectory, StartPipeline, RecvEntry,
     RecvFailure, RecvDiscard, Splice, SpliceFails, DrainStops, InFlightTick,
     Disconnected, Join, StreamBegins, StreamChunk, StreamEnds, StreamTold,
     StreamFails, ReturnOk, PoolType, poolVars
<1>2. CASE WalkEnds
  BY <1>0, <1>1, <1>2 DEF WalkEnds, TypeOK, progressVars, streamVars, outVars,
     OutType
<1>3. CASE AddDirectory
  <2>1. OutType'
    <3>1. CASE AppendEntry(Len(cd) + 1, 0, 0, 0, FALSE)
      <4>1. Len(cd) + 1 \in Nat
        BY <1>0 DEF OutType
      <4> QED
        BY <1>0, <3>1, <4>1, AppendEntryType
    <3>2. CASE TornWrite
      BY <1>0, <3>2, TornWriteType
    <3> QED
      BY <1>3, <3>1, <3>2 DEF AddDirectory
  <2> QED
    BY <1>0, <1>1, <1>3, <2>1 DEF AddDirectory, TypeOK, progressVars, streamVars
<1>4. CASE StartPipeline
  BY <1>0, <1>1, <1>4 DEF StartPipeline, TypeOK, streamVars, outVars, OutType
<1>5. CASE RecvEntry \/ RecvFailure \/ RecvDiscard
  <2>0. chan # <<>> /\ chan' = Tail(chan)
    BY <1>5 DEF RecvEntry, RecvFailure, RecvDiscard
  <2>1. chan' \in Seq(1..Small) /\ Head(chan) \in 1..Small
    BY <1>0, <2>0
  <2> QED
    BY <1>0, <1>1, <1>5, <2>1 DEF RecvEntry, RecvFailure, RecvDiscard, TypeOK,
       mainVars, progressVars, streamVars, outVars, OutType
<1>6. CASE Splice
  <2> DEFINE e == prepared[next_idx]
             z == NeedsZip64(e.size, e.compressed, cursor)
  <2>1. next_idx \in 1..Small /\ e.size \in Nat /\ e.compressed \in Nat
    BY <1>0, <1>6 DEF Splice, PoolType, Entry
  <2>2. z \in BOOLEAN /\ Dirs + next_idx \in Nat
    BY <1>0, <2>1 DEF NeedsZip64
  <2>3. AppendEntry(Dirs + next_idx, e.size, e.compressed, e.size, z)
    BY <1>6 DEF Splice
  <2>4. OutType'
    BY <1>0, <2>1, <2>2, <2>3, AppendEntryType
  <2>5. /\ bytes_done' \in Nat /\ next_idx' \in 1..(Small + 1)
        /\ last_emitted_top' \in Nat
    BY <1>0, <1>6, <2>1 DEF Splice, Larger
  <2>6. /\ pc' \in {"drain", "recv"} /\ shown' \in Nat
        /\ pipeline_error' \in {"none", "canceled"}
        /\ pending' \in SUBSET (1..Small)
    BY <1>0, <1>6, <2>5 DEF Splice, Tell
  <2> QED
    BY <1>0, <1>1, <1>6, <2>4, <2>5, <2>6 DEF Splice, TypeOK, streamVars
<1>7. CASE SpliceFails
  <2>1. OutType'
    BY <1>0, <1>7, TornWriteType DEF SpliceFails
  <2> QED
    BY <1>0, <1>1, <1>7, <2>1 DEF SpliceFails, TypeOK, progressVars, streamVars
<1>8. CASE DrainStops
  BY <1>0, <1>1, <1>8 DEF DrainStops, TypeOK, progressVars, streamVars, outVars,
     OutType
<1>9. CASE InFlightTick
  <2>1. last_inflight_emit' \in Nat /\ last_emitted_top' \in Nat
    BY <1>0, <1>9 DEF InFlightTick, Larger, Smaller, PoolType
  <2> QED
    BY <1>0, <1>1, <1>9, <2>1 DEF InFlightTick, Tell, TypeOK, streamVars,
       outVars, OutType
<1>10. CASE Disconnected \/ Join
  BY <1>0, <1>1, <1>10 DEF Disconnected, Join, TypeOK, progressVars, streamVars,
     outVars, OutType
<1>11. CASE StreamBegins
  <2>1. OutType'
    BY <1>0, <1>11 DEF StreamBegins, OutType, Write, Larger, HeaderLen
  <2> QED
    BY <1>0, <1>1, <1>11, <2>1 DEF StreamBegins, TypeOK, progressVars
<1>12. CASE StreamChunk
  <2>1. PICK n \in 0..1 : file' = Write(file, n) /\ count' = count + n
    BY <1>12 DEF StreamChunk
  <2>2. file' \in [pos : Nat, len : Nat] /\ count' \in Nat
    BY <1>0, <2>1 DEF OutType, Write, Larger
  <2> QED
    BY <1>0, <1>1, <1>12, <2>2 DEF StreamChunk, TypeOK, OutType
<1>13. CASE StreamEnds
  <2>1. PICK n \in 0..1 : /\ cursor' = cursor + count + n
                          /\ file' = [Write(file, n) EXCEPT !.pos = cursor']
    BY <1>13 DEF StreamEnds
  <2>2. file' \in [pos : Nat, len : Nat] /\ cursor' \in Nat
    <3>1. Write(file, n) \in [pos : Nat, len : Nat]
      <4>1. file.pos \in Nat /\ file.len \in Nat /\ n \in Nat
        BY <1>0 DEF OutType
      <4> QED
        BY <4>1 DEF Write, Larger
    <3>2. cursor' \in Nat
      BY <1>0, <2>1 DEF OutType
    <3> QED
      BY <2>1, <3>1, <3>2
  <2>3. large_idx \in 1..Large /\ headers[Len(headers)] \in Nat
    <3>1. headers \in Seq(Nat) /\ cd \in Seq(CdRecords)
      BY <1>0 DEF OutType
    <3>2. Len(headers) = Len(cd) + 1 /\ large_idx <= Large
      BY <1>0, <1>13 DEF StreamEnds, Lengths, Tiling
    <3> QED
      BY <1>0, <3>1, <3>2
  <2>4. Record(Dirs + Small + large_idx, headers[Len(headers)],
               LargeStat[large_idx], bytes_read) \in CdRecords
    BY <1>0, <2>3 DEF Record, CdRecords
  <2>5. cd' \in Seq(CdRecords)
    BY <1>0, <1>13, <2>4 DEF StreamEnds, OutType
  <2> QED
    BY <1>0, <1>1, <1>13, <2>2, <2>5 DEF StreamEnds, TypeOK, OutType,
       progressVars, streamVars
<1>14. CASE StreamTold
  <2>1. large_idx \in 1..Large /\ LargeStat[large_idx] \in Nat
    BY <1>0, <1>14 DEF StreamTold, Lengths
  <2>2. /\ bytes_done' \in Nat /\ large_idx' \in 1..(Large + 1) /\ shown' \in Nat
        /\ pc' \in {"large", "failed"}
    BY <1>0, <1>14, <2>1 DEF StreamTold
  <2>3. OutType' /\ chan' \in Seq(1..Small)
    BY <1>0, <1>14 DEF StreamTold, OutType, outVars
  <2>4. MainType'
    BY <1>0, <1>14, <2>2 DEF StreamTold
  <2> QED
    BY <1>1, <2>3, <2>4 DEF TypeOK
<1>15. CASE StreamFails
  <2>1. OutType'
    BY <1>0, <1>15, TornWriteType DEF StreamFails
  <2> QED
    BY <1>0, <1>1, <1>15, <2>1 DEF StreamFails, TypeOK, progressVars, streamVars
<1>16. CASE ReturnOk
  BY <1>0, <1>1, <1>16 DEF ReturnOk, TypeOK, progressVars, streamVars, outVars,
     OutType
<1> QED
  BY Main, <1>2, <1>3, <1>4, <1>5, <1>6, <1>7, <1>8, <1>9, <1>10, <1>11, <1>12,
     <1>13, <1>14, <1>15, <1>16 DEF Main

-----------------------------------------------------------------------------
(* What a worker's step preserves.                                         *)

\* What the calling thread and the file are about is out of a worker's reach.
LEMMA WorkerLeavesMain ==
  ASSUME IInv, NEW w \in Workers, Worker(w)
  PROVE  /\ UNCHANGED <<mainVars, progressVars, streamVars, outVars>>
         /\ StopsAtGap' /\ Lengths' /\ Tiling' /\ OrderedDirectory'
<1>1. UNCHANGED <<mainVars, progressVars, streamVars, outVars>>
  BY DEF Worker, Take, ReadChunk, Reread, Prepare, PrepareFails, Send
<1>2. UNCHANGED <<pc, pending, next_idx, pipeline_error, large_idx, count,
                  cursor, file, headers, cd>>
  BY <1>1 DEF mainVars, streamVars, outVars
<1> QED
  BY <1>1, <1>2 DEF IInv, StopsAtGap, Lengths, Tiling, OrderedDirectory

\* Only Take and Send move an entry: from todo to a worker, from a worker to
\* the channel.  Everything else a worker does leaves the entries in place.
LEMMA WorkerMoves ==
  ASSUME IInv, NEW w \in Workers, Worker(w)
  PROVE  \/ /\ job[w] = 0 /\ pc \in {"recv", "drain", "join"}
            /\ \E i \in todo : todo' = todo \ {i} /\ job' = [job EXCEPT ![w] = i]
            /\ stage' = [stage EXCEPT ![w] = "read"]
            /\ chan' = chan
         \/ /\ job[w] # 0 /\ stage[w] = "send"
            /\ todo' = todo /\ job' = [job EXCEPT ![w] = 0]
            /\ stage' = [stage EXCEPT ![w] = "idle"]
            /\ chan' = Append(chan, job[w])
         \/ /\ todo' = todo /\ job' = job /\ chan' = chan
            /\ stage[w] # "idle"
            /\ \E s \in {"read", "reread", "send"} : stage' = [stage EXCEPT ![w] = s]
<1>1. job[w] = 0 <=> stage[w] = "idle"
  BY DEF IInv, Quiet
<1>2. stage \in [Workers -> {"idle", "read", "reread", "send"}]
  BY DEF IInv, TypeOK, PoolType
<1>3. CASE Take(w)
  BY <1>1, <1>3 DEF Take, Spawned
<1>4. CASE ReadChunk(w)
  <2>1. stage' = [stage EXCEPT ![w] = stage[w]]
    BY <1>2, <1>4 DEF ReadChunk
  <2> QED
    BY <1>4, <2>1 DEF ReadChunk
<1>5. CASE Reread(w) \/ Prepare(w) \/ PrepareFails(w)
  BY <1>5 DEF Reread, Prepare, PrepareFails
<1>6. CASE Send(w)
  BY <1>1, <1>6 DEF Send
<1> QED
  BY Worker(w), <1>3, <1>4, <1>5, <1>6 DEF Worker

\* An entry never is in two places.
LEMMA WorkerHeld ==
  ASSUME IInv, NEW w \in Workers, Worker(w)
  PROVE  HeldOnce' /\ Untouched'
<1>1. UNCHANGED <<pending, next_idx>>
  BY WorkerLeavesMain DEF mainVars
<1>2. /\ job \in [Workers -> 0..Small] /\ chan \in Seq(1..Small)
      /\ todo \in SUBSET (1..Small) /\ pending \in SUBSET (1..Small)
      /\ next_idx \in 1..(Small + 1)
      /\ HeldOnce /\ Untouched
  BY DEF IInv, TypeOK, PoolType, MainType
<1>3. CASE /\ job[w] = 0 /\ chan' = chan
           /\ \E i \in todo : todo' = todo \ {i} /\ job' = [job EXCEPT ![w] = i]
  BY <1>1, <1>2, <1>3 DEF HeldOnce, Untouched
<1>4. CASE /\ job[w] # 0 /\ todo' = todo /\ job' = [job EXCEPT ![w] = 0]
           /\ chan' = Append(chan, job[w])
  <2>1. /\ Len(chan') = Len(chan) + 1 /\ DOMAIN chan' = 1..Len(chan) + 1
        /\ DOMAIN chan = 1..Len(chan)
        /\ \A k \in DOMAIN chan : chan'[k] = chan[k]
        /\ chan'[Len(chan) + 1] = job[w]
    BY <1>2, <1>4
  <2> QED
    BY <1>1, <1>2, <1>4, <2>1 DEF HeldOnce, Untouched
<1>5. CASE todo' = todo /\ job' = job /\ chan' = chan
  BY <1>1, <1>2, <1>5 DEF HeldOnce, Untouched
<1> QED
  BY WorkerMoves, <1>3, <1>4, <1>5

\* No entry is lost on the way from todo to the channel.
LEMMA WorkerLosesNothing ==
  ASSUME IInv, NEW w \in Workers, Worker(w)
  PROVE  NothingLost'
<1>1. UNCHANGED <<pc, pipeline_error, pending, next_idx>>
  BY WorkerLeavesMain DEF mainVars
<1>2. /\ job \in [Workers -> 0..Small] /\ chan \in Seq(1..Small)
      /\ NothingLost
  BY DEF IInv, TypeOK, PoolType
<1>3. CASE /\ job[w] = 0 /\ chan' = chan
           /\ \E i \in todo : todo' = todo \ {i} /\ job' = [job EXCEPT ![w] = i]
  BY <1>1, <1>2, <1>3 DEF NothingLost
<1>4. CASE /\ job[w] # 0 /\ todo' = todo /\ job' = [job EXCEPT ![w] = 0]
           /\ chan' = Append(chan, job[w])
  <2>1. /\ \A k \in DOMAIN chan : k \in DOMAIN chan' /\ chan'[k] = chan[k]
        /\ \E k \in DOMAIN chan' : chan'[k] = job[w]
    BY <1>2, <1>4
  <2> QED
    BY <1>1, <1>2, <1>4, <2>1 DEF NothingLost
<1>5. CASE todo' = todo /\ job' = job /\ chan' = chan
  BY <1>1, <1>2, <1>5 DEF NothingLost
<1> QED
  BY WorkerMoves, <1>3, <1>4, <1>5

\* Workers move inside the scope only.
LEMMA WorkerQuiet ==
  ASSUME IInv, NEW w \in Workers, Worker(w)
  PROVE  Quiet'
<1>1. UNCHANGED pc
  BY WorkerLeavesMain DEF mainVars
<1>2. /\ job \in [Workers -> 0..Small] /\ todo \in SUBSET (1..Small)
      /\ stage \in [Workers -> {"idle", "read", "reread", "send"}]
      /\ Quiet
  BY DEF IInv, TypeOK, PoolType
<1>3. pc \in {"recv", "drain"}
  BY <1>2, WorkerMoves DEF Quiet
<1>4. \A v \in Workers : job'[v] = 0 <=> stage'[v] = "idle"
  BY <1>2, WorkerMoves DEF Quiet
<1> QED
  BY <1>1, <1>3, <1>4 DEF Quiet

-----------------------------------------------------------------------------
(* What a step of the calling thread preserves.                            *)

\* Entries move from the channel to the map, and from the map to the file.
LEMMA MainMoves ==
  ASSUME IInv, Main
  PROVE  /\ UNCHANGED poolVars
         /\ \/ /\ chan # <<>> /\ chan' = Tail(chan) /\ next_idx' = next_idx
               /\ pc = "recv" /\ pipeline_error = "none"
               /\ pending' = pending \cup {Head(chan)}
            \/ /\ chan # <<>> /\ chan' = Tail(chan) /\ next_idx' = next_idx
               /\ pc = "recv" /\ pipeline_error' # "none"
               /\ pending' = pending
            \/ /\ chan' = chan /\ next_idx \in pending
               /\ pending' = pending \ {next_idx} /\ next_idx' = next_idx + 1
            \/ /\ chan' = chan /\ next_idx \in pending
               /\ pending' = pending \ {next_idx} /\ next_idx' = next_idx
               /\ pipeline_error' # "none"
            \/ UNCHANGED <<chan, pending, next_idx>>
BY DEF Main, WalkEnds, AddDirectory, StartPipeline, RecvEntry, RecvFailure,
   RecvDiscard, Splice, SpliceFails, DrainStops, InFlightTick, Disconnected,
   Join, StreamBegins, StreamChunk, StreamEnds, StreamTold, StreamFails,
   ReturnOk, mainVars

\* An entry never is in two places.
LEMMA MainHeld ==
  ASSUME IInv, Main
  PROVE  HeldOnce' /\ Untouched'
<1>1. /\ job \in [Workers -> 0..Small] /\ chan \in Seq(1..Small)
      /\ todo \in SUBSET (1..Small) /\ pending \in SUBSET (1..Small)
      /\ next_idx \in 1..(Small + 1)
      /\ HeldOnce /\ Untouched
  BY DEF IInv, TypeOK, PoolType, MainType
<1>2. UNCHANGED <<todo, job>>
  BY MainMoves DEF poolVars
<1>3. ASSUME chan # <<>>, chan' = Tail(chan), next_idx' = next_idx,
             pending' = pending \cup {Head(chan)} \/ pending' = pending
      PROVE  HeldOnce' /\ Untouched'
  <2>1. /\ DOMAIN chan = 1..Len(chan) /\ DOMAIN chan' = 1..(Len(chan) - 1)
        /\ \A k \in DOMAIN chan' : k + 1 \in DOMAIN chan /\ chan'[k] = chan[k + 1]
        /\ 1 \in DOMAIN chan /\ Head(chan) = chan[1]
        /\ Len(chan) \in Nat
    BY <1>1, <1>3
  <2>2. \A k \in DOMAIN chan' : chan'[k] # Head(chan)
    BY <1>1, <2>1 DEF HeldOnce
  <2>3. \A k, l \in DOMAIN chan' : chan'[k] = chan'[l] => k = l
    BY <1>1, <2>1 DEF HeldOnce
  <2>4. /\ \A w \in Workers : job[w] # Head(chan)
        /\ Head(chan) >= next_idx /\ Head(chan) \notin todo
    <3>1. \A w \in Workers : job[w] # chan[1]
      BY <1>1, <2>1 DEF HeldOnce
    <3>2. chan[1] >= next_idx
      BY <1>1, <2>1 DEF HeldOnce
    <3>3. chan[1] \notin todo
      BY <1>1, <2>1 DEF Untouched
    <3> QED
      BY <2>1, <3>1, <3>2, <3>3
  <2>5. \A i \in pending' : i \in pending \/ i = Head(chan)
    BY <1>3
  <2>6. /\ \A w \in Workers, k \in DOMAIN chan' : job[w] # chan'[k]
        /\ \A k \in DOMAIN chan' : chan'[k] \notin pending /\ chan'[k] >= next_idx
        /\ \A i \in todo, k \in DOMAIN chan' : chan'[k] # i
    BY <1>1, <2>1 DEF HeldOnce, Untouched
  <2>7. HeldOnce'
    BY <1>1, <1>2, <1>3, <2>2, <2>3, <2>4, <2>5, <2>6 DEF HeldOnce
  <2>8. Untouched'
    BY <1>1, <1>2, <1>3, <2>4, <2>5, <2>6 DEF Untouched
  <2> QED
    BY <2>7, <2>8
<1>4. ASSUME chan' = chan, next_idx \in pending,
             pending' = pending \ {next_idx}, next_idx' = next_idx + 1
      PROVE  HeldOnce' /\ Untouched'
  <2>1. \A i \in Nat : i >= next_idx /\ i # next_idx => i >= next_idx + 1
    BY <1>1
  <2>2. \A k \in DOMAIN chan : chan[k] \in Nat /\ chan[k] # next_idx
    <3>1. \A k \in DOMAIN chan : chan[k] # next_idx
      BY <1>1, <1>4 DEF HeldOnce
    <3>2. \A k \in DOMAIN chan : chan[k] \in 1..Small
      BY <1>1, SeqElements
    <3> QED
      BY <3>1, <3>2
  <2>3. \A w \in Workers : job[w] \in Nat /\ job[w] # next_idx
    BY <1>1, <1>4 DEF HeldOnce
  <2>4. \A i \in todo : i \in Nat /\ i # next_idx
    BY <1>1, <1>4 DEF Untouched
  <2>5. \A i \in pending : i \in Nat
    BY <1>1
  <2>6. HeldOnce'
    BY <1>1, <1>2, <1>4, <2>1, <2>2, <2>5 DEF HeldOnce
  <2>7. Untouched'
    BY <1>1, <1>2, <1>4, <2>1, <2>3, <2>4 DEF Untouched
  <2> QED
    BY <2>6, <2>7
<1>5. ASSUME chan' = chan, pending' = pending \ {next_idx}, next_idx' = next_idx
      PROVE  HeldOnce' /\ Untouched'
  BY <1>1, <1>2, <1>5 DEF HeldOnce, Untouched
<1>6. ASSUME UNCHANGED <<chan, pending, next_idx>>
      PROVE  HeldOnce' /\ Untouched'
  BY <1>1, <1>2, <1>6 DEF HeldOnce, Untouched
<1> QED
  BY MainMoves, <1>3, <1>4, <1>5, <1>6

\* An error is never forgotten, and a call that has ended has ended.
LEMMA MainErrors ==
  ASSUME IInv, Main
  PROVE  /\ pipeline_error # "none" => pipeline_error' # "none"
         /\ pc \notin Final
BY DEF IInv, TypeOK, MainType, StopsAtGap, Main, WalkEnds, AddDirectory,
   StartPipeline, RecvEntry, RecvFailure, RecvDiscard, Splice, SpliceFails,
   DrainStops, InFlightTick, Disconnected, Join, StreamBegins, StreamChunk,
   StreamEnds, StreamTold, StreamFails, ReturnOk, Final, mainVars

\* Without an error no entry is lost from the channel to the file.
LEMMA MainLosesNothing ==
  ASSUME IInv, Main
  PROVE  NothingLost'
<1> SUFFICES ASSUME pipeline_error' = "none"
             PROVE  NothingLost'
  BY DEF NothingLost
<1>1. /\ job \in [Workers -> 0..Small] /\ chan \in Seq(1..Small)
      /\ pending \in SUBSET (1..Small) /\ next_idx \in 1..(Small + 1)
  BY DEF IInv, TypeOK, PoolType, MainType
<1>2. UNCHANGED <<todo, job>>
  BY MainMoves DEF poolVars
<1>3. \A i \in 1..Small : i >= next_idx =>
         \/ i \in todo \/ i \in pending
         \/ \E w \in Workers : job[w] = i
         \/ \E k \in DOMAIN chan : chan[k] = i
  BY MainErrors DEF IInv, NothingLost, Final
<1>4. ASSUME chan # <<>>, chan' = Tail(chan), next_idx' = next_idx,
             pending' = pending \cup {Head(chan)}
      PROVE  NothingLost'
  <2>1. \A k \in DOMAIN chan :
          chan[k] = Head(chan) \/ \E l \in DOMAIN chan' : chan'[l] = chan[k]
    <3>1. /\ DOMAIN chan = 1..Len(chan) /\ DOMAIN chan' = 1..(Len(chan) - 1)
          /\ \A k \in DOMAIN chan' : chan'[k] = chan[k + 1]
          /\ Head(chan) = chan[1] /\ Len(chan) \in Nat
      BY <1>1, <1>4
    <3>2. ASSUME NEW k \in DOMAIN chan, k # 1
          PROVE  \E l \in DOMAIN chan' : chan'[l] = chan[k]
      <4>1. k - 1 \in DOMAIN chan' /\ (k - 1) + 1 = k
        BY <3>1, <3>2
      <4> QED
        BY <3>1, <4>1
    <3> QED
      BY <3>1, <3>2
  <2> QED
    BY <1>1, <1>2, <1>3, <1>4, <2>1 DEF NothingLost
<1>5. ASSUME chan' = chan, next_idx \in pending,
             pending' = pending \ {next_idx}, next_idx' = next_idx + 1
      PROVE  NothingLost'
  BY <1>1, <1>2, <1>3, <1>5 DEF NothingLost
<1>6. ASSUME UNCHANGED <<chan, pending, next_idx>>
      PROVE  NothingLost'
  BY <1>1, <1>2, <1>3, <1>6 DEF NothingLost
<1> QED
  BY MainMoves, <1>4, <1>5, <1>6

\* The pool is at rest when the calling thread enters or leaves the scope.
LEMMA MainQuiet ==
  ASSUME IInv, Main
  PROVE  Quiet'
<1>1. UNCHANGED <<todo, job, stage>>
  BY MainMoves DEF poolVars
<1>2. /\ Quiet /\ Small \in Nat
      /\ pc = "begin" => Small = 0 \/ Small > 0
      /\ 1..0 = {}
  BY SizesAssumption DEF IInv
<1>3. CASE WalkEnds \/ AddDirectory \/ StartPipeline
  <2>1. pc = "begin" /\ chan' = chan
    BY <1>3 DEF WalkEnds, AddDirectory, StartPipeline
  <2>2. pc' \in {"begin", "failed", "declined", "recv"}
        \/ (pc' = "large" /\ todo = {})
    BY <1>2, <1>3, <2>1 DEF WalkEnds, AddDirectory, StartPipeline, Quiet
  <2> QED
    BY <1>1, <1>2, <2>1, <2>2 DEF Quiet
<1>4. CASE \/ RecvEntry \/ RecvFailure \/ RecvDiscard \/ Splice \/ SpliceFails
           \/ DrainStops \/ InFlightTick
  <2>1. pc \in {"recv", "drain"} /\ pc' \in {"recv", "drain"}
    BY <1>4 DEF RecvEntry, RecvFailure, RecvDiscard, Splice, SpliceFails,
       DrainStops, InFlightTick, mainVars
  <2> QED
    BY <1>1, <1>2, <2>1 DEF Quiet
<1>5. CASE Disconnected \/ Join
  BY <1>1, <1>2, <1>5 DEF Disconnected, Join, SendersGone, Quiet
<1>6. CASE StreamBegins \/ StreamChunk \/ StreamEnds \/ StreamTold
           \/ StreamFails \/ ReturnOk
  <2>1. /\ pc \in {"large", "stream", "listed"} /\ chan' = chan
        /\ pc' \in {"large", "stream", "listed", "ok", "failed"}
    BY <1>6 DEF StreamBegins, StreamChunk, StreamEnds, StreamTold, StreamFails,
       ReturnOk
  <2> QED
    BY <1>1, <1>2, <2>1 DEF Quiet
<1> QED
  BY Main, <1>3, <1>4, <1>5, <1>6 DEF Main

-----------------------------------------------------------------------------
(* The directory and the file, when the calling thread moves.              *)

\* Nothing waits in the map before the pipeline starts.
LEMMA NothingPendingAtFirst ==
  ASSUME IInv, pc = "begin"
  PROVE  pending = {} /\ pipeline_error = "none" /\ next_idx = 1 /\ large_idx = 1
BY DEF IInv, TypeOK, MainType, Quiet, Untouched, StopsAtGap, Lengths

\* The calling thread waits for more only when the next entry is missing.
LEMMA MainStopsAtGap ==
  ASSUME IInv, Main
  PROVE  StopsAtGap'
<1>1. StopsAtGap
  BY DEF IInv
<1>2. CASE WalkEnds \/ AddDirectory \/ StartPipeline
  <2>1. pc = "begin" /\ UNCHANGED <<pending, next_idx, pipeline_error>>
    BY <1>2 DEF WalkEnds, AddDirectory, StartPipeline
  <2> QED
    BY <2>1, NothingPendingAtFirst DEF StopsAtGap
<1>3. CASE RecvEntry \/ RecvFailure \/ RecvDiscard \/ DrainStops
           \/ InFlightTick \/ Disconnected
  BY <1>1, <1>3 DEF RecvEntry, RecvFailure, RecvDiscard, DrainStops,
     InFlightTick, Tell, Disconnected, mainVars, StopsAtGap
<1>4. CASE Splice \/ SpliceFails
  BY <1>4 DEF Splice, SpliceFails, Tell, StopsAtGap
<1>5. CASE Join
  BY <1>1, <1>5 DEF Join, StopsAtGap
<1>6. CASE StreamBegins \/ StreamChunk \/ StreamEnds \/ StreamTold
           \/ StreamFails \/ ReturnOk
  BY <1>1, <1>6 DEF StreamBegins, StreamChunk, StreamEnds, StreamTold,
     StreamFails, ReturnOk, StopsAtGap
<1> QED
  BY Main, <1>2, <1>3, <1>4, <1>5, <1>6 DEF Main

\* When the scope has been joined without an error, every small entry has
\* been spliced: none is left that could have been lost on its way.
LEMMA JoinIsComplete ==
  ASSUME IInv, Join, pipeline_error = "none"
  PROVE  next_idx = Small + 1 /\ pending = {}
<1>1. /\ pc = "join" /\ todo = {} /\ chan = <<>>
      /\ \A w \in Workers : job[w] = 0
      /\ next_idx \notin pending
  BY DEF Join, SendersGone, IInv, Quiet, StopsAtGap
<1>2. next_idx \in 1..(Small + 1) /\ pending \in SUBSET (1..Small)
  BY DEF IInv, TypeOK, MainType
<1>3. \A i \in 1..Small : i >= next_idx => i \in pending
  BY <1>1 DEF IInv, NothingLost
<1>4. next_idx = Small + 1
  BY <1>1, <1>2, <1>3, SizesAssumption
<1>5. \A i \in pending : i >= next_idx
  BY DEF IInv, HeldOnce
<1> QED
  BY <1>2, <1>4, <1>5, SizesAssumption

\* The calling thread keeps count of what is in the directory.
LEMMA MainLengths ==
  ASSUME IInv, Main
  PROVE  Lengths'
<1>1. /\ Lengths /\ StopsAtGap
      /\ pending \in SUBSET (1..Small) /\ next_idx \in 1..(Small + 1)
      /\ large_idx \in 1..(Large + 1) /\ cd \in Seq(CdRecords)
      /\ Dirs \in Nat /\ Small \in Nat /\ Large \in Nat /\ Len(cd) \in Nat
  BY SizesAssumption DEF IInv, TypeOK, MainType, OutType
<1>2. CASE WalkEnds
  BY <1>1, <1>2, NothingPendingAtFirst DEF WalkEnds, Lengths
<1>3. CASE AddDirectory
  <2>1. pc = "begin" /\ Len(cd) < Dirs /\ UNCHANGED <<next_idx, large_idx>>
    BY <1>3 DEF AddDirectory, streamVars
  <2>2. CASE AppendEntry(Len(cd) + 1, 0, 0, 0, FALSE) /\ UNCHANGED pc
    <3>1. Len(cd') = Len(cd) + 1
      BY <1>1, <2>2 DEF AppendEntry
    <3> QED
      BY <1>1, <2>1, <2>2, <3>1 DEF Lengths
  <2>3. CASE TornWrite /\ pc' = "failed"
    BY <2>3 DEF Lengths
  <2> QED
    BY <1>3, <2>2, <2>3 DEF AddDirectory
<1>4. CASE StartPipeline
  <2>1. /\ pc = "begin" /\ Len(cd) = Dirs
        /\ pc' = "failed" \/ (pc' = "recv" /\ Small > 0) \/ (pc' = "large" /\ Small = 0)
        /\ UNCHANGED <<next_idx, large_idx, pending, cd>>
    BY <1>1, <1>4 DEF StartPipeline, streamVars, outVars
  <2> QED
    BY <1>1, <2>1, NothingPendingAtFirst DEF Lengths
<1>5. CASE \/ RecvEntry \/ RecvFailure \/ RecvDiscard \/ DrainStops
           \/ InFlightTick \/ Disconnected \/ SpliceFails
  <2>1. /\ pc \in {"recv", "drain"} /\ pc' \in {"recv", "drain", "join"}
        /\ UNCHANGED <<next_idx, large_idx, cd>>
    BY <1>5 DEF RecvEntry, RecvFailure, RecvDiscard, DrainStops, InFlightTick,
       Disconnected, SpliceFails, TornWrite, mainVars, streamVars, outVars
  <2> QED
    BY <1>1, <2>1 DEF Lengths
<1>6. CASE Splice
  <2>1. /\ pc = "drain" /\ pc' \in {"recv", "drain"}
        /\ next_idx' = next_idx + 1 /\ large_idx' = large_idx
        /\ Len(cd') = Len(cd) + 1
    BY <1>1, <1>6 DEF Splice, AppendEntry, streamVars
  <2> QED
    BY <1>1, <2>1 DEF Lengths
<1>7. CASE Join
  <2>1. /\ pc = "join" /\ UNCHANGED <<next_idx, large_idx, pending, cd>>
        /\ pc' = "failed" \/ (pc' = "large" /\ pipeline_error = "none")
    BY <1>7 DEF Join, streamVars, outVars
  <2> QED
    BY <1>1, <1>7, <2>1, JoinIsComplete DEF Lengths
<1>8. CASE StreamBegins \/ StreamChunk \/ StreamFails
  <2>1. /\ pc \in {"large", "stream"} /\ pc' \in {"stream", "failed"}
        /\ UNCHANGED <<next_idx, large_idx, pending, cd>>
        /\ large_idx <= Large
    BY <1>1, <1>8 DEF StreamBegins, StreamChunk, StreamFails, TornWrite,
       streamVars, Lengths
  <2> QED
    BY <1>1, <2>1 DEF Lengths
<1>9. CASE StreamEnds
  <2>1. Len(cd') = Len(cd) + 1
    BY <1>1, <1>9 DEF StreamEnds
  <2>2. /\ pc = "stream" /\ pc' = "listed"
        /\ UNCHANGED <<next_idx, large_idx, pending>>
    BY <1>9 DEF StreamEnds, streamVars
  <2> QED
    BY <1>1, <2>1, <2>2 DEF Lengths
<1>10. CASE StreamTold
  <2>1. /\ pc = "listed" /\ UNCHANGED <<next_idx, pending, cd>>
        /\ pc' = "failed" \/ (pc' = "large" /\ large_idx' = large_idx + 1)
    BY <1>10 DEF StreamTold, outVars
  <2> QED
    BY <1>1, <2>1 DEF Lengths
<1>11. CASE ReturnOk
  <2>1. /\ pc = "large" /\ pc' = "ok" /\ large_idx = Large + 1
        /\ UNCHANGED <<next_idx, large_idx, pending, cd>>
    BY <1>1, <1>11 DEF ReturnOk, streamVars, outVars
  <2> QED
    BY <1>1, <2>1 DEF Lengths, Total
<1> QED
  BY Main, <1>2, <1>3, <1>4, <1>5, <1>6, <1>7, <1>8, <1>9, <1>10, <1>11 DEF Main

\* An entry is appended where the cursor says, and the cursor stays true.
LEMMA AppendEntryTiles ==
  ASSUME OutType, NEW id, NEW u, NEW c \in Nat, NEW p, NEW z \in BOOLEAN,
         AppendEntry(id, u, c, p, z),
         file = [pos |-> cursor, len |-> cursor], Len(headers) = Len(cd),
         \A k \in DOMAIN cd : k <= Len(headers) /\ cd[k].lfh_offset = headers[k]
  PROVE  /\ file' = [pos |-> cursor', len |-> cursor'] /\ Len(headers') = Len(cd')
         /\ \A k \in DOMAIN cd' :
              k <= Len(headers') /\ cd'[k].lfh_offset = headers'[k]
<1> DEFINE n == HeaderLen(z) + c
           r == Record(id, cursor, u, p)
<1>1. /\ cursor \in Nat /\ headers \in Seq(Nat) /\ cd \in Seq(CdRecords)
      /\ n \in Nat
  BY DEF OutType, HeaderLen
<1>2. /\ headers' = Append(headers, cursor) /\ cd' = Append(cd, r)
      /\ cursor' = cursor + n /\ file' = Write(file, n)
  BY DEF AppendEntry
<1>3. file' = [pos |-> cursor', len |-> cursor']
  BY <1>1, <1>2 DEF Write, Larger
<1>4. r.lfh_offset = cursor
  BY DEF Record
<1>5. /\ Len(headers') = Len(headers) + 1 /\ Len(cd') = Len(cd) + 1
      /\ DOMAIN cd' = 1..(Len(cd) + 1) /\ DOMAIN cd = 1..Len(cd)
      /\ \A k \in 1..Len(cd) : cd'[k] = cd[k] /\ headers'[k] = headers[k]
      /\ cd'[Len(cd) + 1] = r /\ headers'[Len(cd) + 1] = cursor
      /\ Len(cd) \in Nat
  BY <1>1, <1>2
<1>6. ASSUME NEW k \in DOMAIN cd'
      PROVE  k <= Len(headers') /\ cd'[k].lfh_offset = headers'[k]
  <2>1. CASE k \in 1..Len(cd)
    BY <1>5, <2>1
  <2>2. CASE k = Len(cd) + 1
    BY <1>4, <1>5, <2>2
  <2> QED
    BY <1>5, <2>1, <2>2
<1> QED
  BY <1>3, <1>5, <1>6

\* A torn write leaves the records that are listed pointing at their headers.
LEMMA TornWriteKeepsRecords ==
  ASSUME OutType, TornWrite,
         \A k \in DOMAIN cd : k <= Len(headers) /\ cd[k].lfh_offset = headers[k]
  PROVE  \A k \in DOMAIN cd' :
           k <= Len(headers') /\ cd'[k].lfh_offset = headers'[k]
<1>1. /\ headers \in Seq(Nat) /\ cd \in Seq(CdRecords) /\ file.pos \in Nat
      /\ cd' = cd /\ (headers' = headers \/ headers' = Append(headers, file.pos))
  BY DEF OutType, TornWrite
<1>2. /\ DOMAIN cd = 1..Len(cd) /\ Len(cd) \in Nat /\ Len(headers) \in Nat
      /\ Len(headers') >= Len(headers)
      /\ \A k \in 1..Len(headers) : headers'[k] = headers[k]
  BY <1>1
<1> QED
  BY <1>1, <1>2

\* The directory and the file agree after every step of the calling thread.
LEMMA MainTiling ==
  ASSUME IInv, Main
  PROVE  Tiling'
<1> DEFINE Pointing == \A k \in DOMAIN cd :
                         k <= Len(headers) /\ cd[k].lfh_offset = headers[k]
<1>1. /\ OutType /\ Tiling /\ StopsAtGap /\ Pointing /\ count \in Nat
      /\ cursor \in Nat /\ headers \in Seq(Nat) /\ cd \in Seq(CdRecords)
      /\ file \in [pos : Nat, len : Nat]
  BY DEF IInv, TypeOK, MainType, OutType, Tiling
<1>2. CASE WalkEnds
  BY <1>1, <1>2 DEF WalkEnds, outVars, Tiling
<1>3. CASE AddDirectory
  <2>0. pc = "begin" /\ pipeline_error = "none"
        /\ file = [pos |-> cursor, len |-> cursor] /\ Len(headers) = Len(cd)
    BY <1>1, <1>3, NothingPendingAtFirst DEF AddDirectory, Tiling
  <2>1. CASE AppendEntry(Len(cd) + 1, 0, 0, 0, FALSE) /\ UNCHANGED pc
    <3>1. /\ file' = [pos |-> cursor', len |-> cursor'] /\ Len(headers') = Len(cd')
          /\ Pointing'
      BY <1>1, <2>0, <2>1, AppendEntryTiles
    <3> QED
      BY <2>0, <2>1, <3>1 DEF Tiling
  <2>2. CASE TornWrite /\ pc' = "failed"
    BY <1>1, <2>2, TornWriteKeepsRecords DEF Tiling
  <2> QED
    BY <1>3, <2>1, <2>2 DEF AddDirectory
<1>4. CASE StartPipeline \/ RecvEntry \/ RecvDiscard \/ DrainStops
           \/ InFlightTick \/ Disconnected \/ Join
  <2>1. /\ pc \in {"begin", "recv", "drain", "join"} /\ UNCHANGED outVars
        /\ pc' # "stream" /\ (pipeline_error' # "io" => pipeline_error # "io")
    BY <1>4 DEF StartPipeline, RecvEntry, RecvDiscard, DrainStops, InFlightTick,
       Disconnected, Join, mainVars, Tell
  <2> QED
    BY <1>1, <2>1 DEF outVars, Tiling
<1>5. CASE RecvFailure
  BY <1>1, <1>5 DEF RecvFailure, outVars, Tiling
<1>6. CASE Splice
  <2> DEFINE e == prepared[next_idx]
             z == NeedsZip64(e.size, e.compressed, cursor)
  <2>1. next_idx \in 1..Small /\ e.size \in Nat /\ e.compressed \in Nat
    BY <1>6 DEF Splice, IInv, TypeOK, MainType, PoolType, Entry
  <2>2. z \in BOOLEAN
    BY DEF NeedsZip64
  <2>3. AppendEntry(Dirs + next_idx, e.size, e.compressed, e.size, z)
    BY <1>6 DEF Splice
  <2>4. file = [pos |-> cursor, len |-> cursor] /\ Len(headers) = Len(cd)
    BY <1>1, <1>6 DEF Splice, StopsAtGap, Tiling
  <2>5. /\ file' = [pos |-> cursor', len |-> cursor'] /\ Len(headers') = Len(cd')
        /\ Pointing'
    BY <1>1, <2>1, <2>2, <2>3, <2>4, AppendEntryTiles
  <2>6. pc' # "stream"
    BY <1>6 DEF Splice
  <2> QED
    BY <2>5, <2>6 DEF Tiling
<1>7. CASE SpliceFails
  <2>1. Pointing'
    BY <1>1, <1>7, TornWriteKeepsRecords DEF SpliceFails
  <2> QED
    BY <1>7, <2>1 DEF SpliceFails, Tiling
<1>8. CASE StreamBegins
  <2> DEFINE n == HeaderLen(StreamZip64)
  <2>1. /\ file = [pos |-> cursor, len |-> cursor] /\ Len(headers) = Len(cd)
        /\ n \in Nat
    BY <1>1, <1>8 DEF StreamBegins, StopsAtGap, Tiling, HeaderLen
  <2>2. /\ headers' = Append(headers, cursor) /\ cd' = cd /\ count' = 0
        /\ cursor' = cursor + n /\ file' = Write(file, n) /\ pc' = "stream"
    BY <1>8, <2>1 DEF StreamBegins
  <2>3. file' = [pos |-> cursor' + count', len |-> cursor' + count']
    BY <1>1, <2>1, <2>2 DEF Write, Larger
  <2>4. Len(headers') = Len(headers) + 1 /\ Pointing'
    <3>1. /\ DOMAIN cd = 1..Len(cd) /\ Len(headers) \in Nat
          /\ \A k \in 1..Len(headers) : headers'[k] = headers[k]
          /\ Len(headers') = Len(headers) + 1
      BY <1>1, <2>2
    <3> QED
      BY <1>1, <2>1, <2>2, <3>1
  <2> QED
    BY <2>1, <2>2, <2>3, <2>4 DEF Tiling
<1>9. CASE StreamChunk
  <2>1. PICK n \in 0..1 : file' = Write(file, n) /\ count' = count + n
    BY <1>9 DEF StreamChunk
  <2>2. /\ pc = "stream" /\ pc' \in {"stream", "failed"}
        /\ UNCHANGED <<cursor, headers, cd>>
    BY <1>9 DEF StreamChunk
  <2>3. file = [pos |-> cursor + count, len |-> cursor + count]
    BY <1>1, <2>2 DEF Tiling
  <2>4. file' = [pos |-> cursor' + count', len |-> cursor' + count']
    BY <1>1, <2>1, <2>2, <2>3 DEF Write, Larger
  <2> QED
    BY <1>1, <2>2, <2>4 DEF Tiling
<1>10. CASE StreamEnds
  <2> DEFINE r == Record(Dirs + Small + large_idx, headers[Len(headers)],
                         LargeStat[large_idx], bytes_read)
  <2>1. PICK n \in 0..1 : /\ cursor' = cursor + count + n
                          /\ file' = [Write(file, n) EXCEPT !.pos = cursor']
    BY <1>10 DEF StreamEnds
  <2>2. /\ pc = "stream" /\ pc' = "listed" /\ headers' = headers
        /\ cd' = Append(cd, r)
    BY <1>10 DEF StreamEnds
  <2>3. /\ file = [pos |-> cursor + count, len |-> cursor + count]
        /\ Len(headers) = Len(cd) + 1
    BY <1>1, <2>2 DEF Tiling
  <2>4. file' = [pos |-> cursor', len |-> cursor']
    <3>1. Write(file, n) = [pos |-> cursor + count + n, len |-> cursor + count + n]
      BY <1>1, <2>3 DEF Write, Larger
    <3> QED
      BY <2>1, <3>1
  <2>5. /\ Len(cd') = Len(cd) + 1 /\ DOMAIN cd' = 1..(Len(cd) + 1)
        /\ \A k \in 1..Len(cd) : cd'[k] = cd[k]
        /\ cd'[Len(cd) + 1] = r /\ r.lfh_offset = headers[Len(cd) + 1]
        /\ Len(cd) \in Nat /\ DOMAIN cd = 1..Len(cd)
    BY <1>1, <2>2, <2>3 DEF Record
  <2>6. Pointing'
    <3>1. ASSUME NEW k \in DOMAIN cd'
          PROVE  k <= Len(headers') /\ cd'[k].lfh_offset = headers'[k]
      <4>1. CASE k \in 1..Len(cd)
        BY <1>1, <2>2, <2>5, <4>1
      <4>2. CASE k = Len(cd) + 1
        BY <2>2, <2>3, <2>5, <4>2
      <4> QED
        BY <2>5, <4>1, <4>2
    <3> QED
      BY <3>1
  <2> QED
    BY <2>2, <2>3, <2>4, <2>5, <2>6 DEF Tiling
<1>11. CASE StreamTold \/ ReturnOk
  <2>1. /\ pc \in {"large", "listed"} /\ UNCHANGED outVars /\ pc' # "stream"
        /\ pipeline_error = "none"
    BY <1>1, <1>11 DEF StreamTold, ReturnOk, StopsAtGap
  <2> QED
    BY <1>1, <2>1 DEF outVars, Tiling
<1>12. CASE StreamFails
  <2>1. Pointing'
    BY <1>1, <1>12, TornWriteKeepsRecords DEF StreamFails
  <2> QED
    BY <1>12, <2>1 DEF StreamFails, Tiling
<1> QED
  BY Main, <1>2, <1>3, <1>4, <1>5, <1>6, <1>7, <1>8, <1>9, <1>10, <1>11, <1>12
     DEF Main

\* One step of the calling thread lists the next entry of the walk or none.
LEMMA MainListsNext ==
  ASSUME IInv, Main
  PROVE  \/ cd' = cd
         \/ /\ pc \notin Final /\ Len(cd) < Total
            /\ pc' \notin Final
            /\ \E r \in CdRecords : r.id = Len(cd) + 1 /\ cd' = Append(cd, r)
<1>1. /\ Lengths /\ cd \in Seq(CdRecords) /\ Len(cd) \in Nat
      /\ Dirs \in Nat /\ Small \in Nat /\ Large \in Nat
      /\ next_idx \in 1..(Small + 1) /\ large_idx \in 1..(Large + 1)
      /\ cd' \in Seq(CdRecords)
  BY SizesAssumption, MainTypeStep DEF IInv, TypeOK, MainType, OutType
<1>2. CASE AddDirectory
  <2>1. CASE TornWrite
    BY <2>1 DEF TornWrite
  <2>2. CASE AppendEntry(Len(cd) + 1, 0, 0, 0, FALSE) /\ UNCHANGED pc
    <3> DEFINE r == Record(Len(cd) + 1, cursor, 0, 0)
    <3>1. cd' = Append(cd, r) /\ r.id = Len(cd) + 1
      BY <2>2 DEF AppendEntry, Record
    <3>2. r \in CdRecords
      BY <1>1 DEF IInv, TypeOK, OutType, Record, CdRecords
    <3>3. pc \notin Final /\ pc' \notin Final /\ Len(cd) < Total
      BY <1>1, <1>2, <2>2 DEF AddDirectory, Final, Total
    <3> QED
      BY <3>1, <3>2, <3>3
  <2> QED
    BY <1>2, <2>1, <2>2 DEF AddDirectory
<1>3. CASE Splice
  <2> DEFINE e == prepared[next_idx]
             r == Record(Dirs + next_idx, cursor, e.size, e.size)
  <2>1. cd' = Append(cd, r) /\ r.id = Dirs + next_idx
    BY <1>3 DEF Splice, AppendEntry, Record
  <2>2. pc = "drain" /\ pc' \in {"drain", "recv"} /\ next_idx \in 1..Small
    BY <1>3 DEF Splice, IInv, TypeOK, MainType
  <2>3. r \in CdRecords
    <3>1. e.size \in Nat /\ cursor \in Nat
      BY <2>2 DEF IInv, TypeOK, PoolType, OutType, Entry
    <3> QED
      BY <1>1, <3>1 DEF Record, CdRecords
  <2>4. Len(cd) = Dirs + next_idx - 1
    BY <1>1, <2>2 DEF Lengths
  <2> QED
    BY <1>1, <2>1, <2>2, <2>3, <2>4 DEF Final, Total
<1>4. CASE StreamEnds
  <2> DEFINE r == Record(Dirs + Small + large_idx, headers[Len(headers)],
                         LargeStat[large_idx], bytes_read)
  <2>1. cd' = Append(cd, r) /\ r.id = Dirs + Small + large_idx
    BY <1>4 DEF StreamEnds, Record
  <2>2. pc = "stream" /\ pc' = "listed"
    BY <1>4 DEF StreamEnds
  <2>3. Len(cd) = Dirs + Small + large_idx - 1 /\ large_idx <= Large
    BY <1>1, <2>2 DEF Lengths
  <2>4. r \in CdRecords
    <3>1. cd'[Len(cd) + 1] = r /\ Len(cd') = Len(cd) + 1
      BY <1>1, <2>1
    <3>2. Len(cd) + 1 \in DOMAIN cd'
      BY <1>1, <3>1
    <3> QED
      BY <1>1, <3>1, <3>2, SeqElements
  <2> QED
    BY <1>1, <2>1, <2>2, <2>3, <2>4 DEF Final, Total
<1>5. CASE \/ WalkEnds \/ StartPipeline \/ RecvEntry \/ RecvFailure
           \/ RecvDiscard \/ SpliceFails \/ DrainStops \/ InFlightTick
           \/ Disconnected \/ Join \/ StreamBegins \/ StreamChunk
           \/ StreamTold \/ StreamFails \/ ReturnOk
  BY <1>5 DEF WalkEnds, StartPipeline, RecvEntry, RecvFailure, RecvDiscard,
     SpliceFails, DrainStops, InFlightTick, Disconnected, Join, StreamBegins,
     StreamChunk, StreamTold, StreamFails, ReturnOk, TornWrite, outVars
<1> QED
  BY Main, <1>2, <1>3, <1>4, <1>5 DEF Main

\* The directory stays in walk order.
LEMMA MainOrdered ==
  ASSUME IInv, Main
  PROVE  OrderedDirectory'
<1>1. OrderedDirectory /\ cd \in Seq(CdRecords)
  BY DEF IInv, TypeOK, OutType
<1>2. CASE cd' = cd
  BY <1>1, <1>2 DEF OrderedDirectory
<1>3. ASSUME NEW r \in CdRecords, r.id = Len(cd) + 1, cd' = Append(cd, r)
      PROVE  OrderedDirectory'
  BY <1>1, <1>3 DEF OrderedDirectory
<1> QED
  BY <1>2, <1>3, MainListsNext

-----------------------------------------------------------------------------
(* The theorems.                                                           *)

\* Every step preserves the inductive invariant.
LEMMA StepIInv == IInv /\ [Next]_vars => IInv'
<1> SUFFICES ASSUME IInv, [Next]_vars
             PROVE  IInv'
  OBVIOUS
<1>1. CASE Main
  BY <1>1, MainTypeStep, MainHeld, MainQuiet, MainLosesNothing, MainStopsAtGap,
     MainLengths, MainTiling, MainOrdered DEF IInv
<1>2. ASSUME NEW w \in Workers, Worker(w)
      PROVE  IInv'
  BY <1>2, WorkerType, WorkerHeld, WorkerQuiet, WorkerLosesNothing,
     WorkerLeavesMain DEF IInv
<1>3. CASE UNCHANGED vars
  <2>1. UNCHANGED <<todo, job, stage, got, prepared, bytes_in_flight, chan, pc,
                    pending, next_idx, pipeline_error, bytes_done,
                    last_inflight_emit, last_emitted_top, shown, large_idx,
                    bytes_read, count, cursor, file, headers, cd>>
    BY <1>3 DEF vars, poolVars, mainVars, progressVars, streamVars, outVars
  <2> QED
    BY <2>1 DEF IInv, TypeOK, PoolType, MainType, OutType, HeldOnce, Quiet,
       Untouched, NothingLost, StopsAtGap, Lengths, Tiling, OrderedDirectory
<1> QED
  BY [Next]_vars, <1>1, <1>2, <1>3 DEF Next, Returned

\* The strengthening is an invariant of the pipeline.
THEOREM InductiveInvariant == Spec => []IInv
BY InitIInv, StepIInv, PTL DEF Spec

\* Every variable of the pipeline stays in its type.
THEOREM TypeCorrect == Spec => []TypeOK
<1>1. IInv => TypeOK
  BY DEF IInv
<1> QED
  BY <1>1, InductiveInvariant, PTL

\* However the workers are scheduled, the central directory is in walk order.
THEOREM DirectoryIsOrdered == Spec => []OrderedDirectory
<1>1. IInv => OrderedDirectory
  BY DEF IInv
<1> QED
  BY <1>1, InductiveInvariant, PTL

\* However the workers are scheduled, a result is in one place at a time.
THEOREM ResultsAreHeldOnce == Spec => []HeldOnce
<1>1. IInv => HeldOnce
  BY DEF IInv
<1> QED
  BY <1>1, InductiveInvariant, PTL

\* An Ok answer means that nothing was left behind.
THEOREM SuccessMeansComplete == Spec => []SuccessIsComplete
<1>1. IInv => SuccessIsComplete
  BY DEF IInv, Lengths, Quiet, SendersGone, SuccessIsComplete
<1> QED
  BY <1>1, InductiveInvariant, PTL

\* Every record of the directory points at the header that was written, and
\* the file ends where the cursor says.
THEOREM OffsetsAreTrue == Spec => []OffsetsAreReal
<1>1. IInv => OffsetsAreReal
  BY DEF IInv, Tiling, OffsetsAreReal
<1> QED
  BY <1>1, InductiveInvariant, PTL

\* Once an entry has failed or the host has cancelled, nothing more is listed.
THEOREM ErrorsEndTheListing == Spec => NothingListedAfterError
<1>1. IInv /\ [Next]_vars => [pipeline_error # "none" => UNCHANGED cd]_vars
  <2> SUFFICES ASSUME IInv, Next, pipeline_error # "none"
               PROVE  UNCHANGED cd
    OBVIOUS
  <2>1. CASE Main
    <3>1. pc \in {"recv", "join", "failed"}
      BY DEF IInv, StopsAtGap
    <3> QED
      BY <2>1, <3>1 DEF Main, WalkEnds, AddDirectory, StartPipeline, RecvEntry,
         RecvFailure, RecvDiscard, Splice, SpliceFails, DrainStops, InFlightTick,
         Disconnected, Join, StreamBegins, StreamChunk, StreamEnds, StreamTold,
         StreamFails, ReturnOk, TornWrite, outVars
  <2>2. ASSUME NEW w \in Workers, Worker(w)
        PROVE  UNCHANGED cd
    BY <2>2, WorkerLeavesMain DEF outVars
  <2>3. CASE Returned
    BY <2>3 DEF Returned, vars, outVars
  <2> QED
    BY <2>1, <2>2, <2>3 DEF Next
<1> QED
  BY <1>1, InductiveInvariant, PTL DEF Spec, NothingListedAfterError

\* Until the last small entry is written the host has been shown no more than
\* the forecast the next snapshot starts from.
ForecastIsAhead == pc \in {"begin", "recv", "drain"} => shown <= last_emitted_top

\* A snapshot while small entries are written is at least the last forecast.
LEMMA StepForecast ==
  ASSUME IInv, ForecastIsAhead, [Next]_vars
  PROVE  ForecastIsAhead' /\ (pc \in {"recv", "drain"} => shown' >= shown)
<1>1. /\ bytes_done \in Nat /\ last_emitted_top \in Nat /\ shown \in Nat
      /\ bytes_in_flight \in Nat /\ BytesTotal \in Nat
  BY SizesAssumption DEF IInv, TypeOK, PoolType, MainType
<1>2. CASE UNCHANGED <<progressVars, pc>>
  BY <1>1, <1>2 DEF ForecastIsAhead, progressVars
<1>3. CASE Main
  <2>1. CASE StartPipeline
    BY <1>1, <2>1 DEF StartPipeline, ForecastIsAhead
  <2>2. CASE Splice
    <3>1. /\ shown' = last_emitted_top' /\ shown <= last_emitted_top
          /\ last_emitted_top' = Larger(last_emitted_top, bytes_done')
      BY <2>2 DEF Splice, Tell, ForecastIsAhead
    <3>2. bytes_done' \in Nat
      BY <1>3, MainTypeStep DEF TypeOK, MainType
    <3>3. last_emitted_top' \in Nat /\ last_emitted_top' >= last_emitted_top
      BY <1>1, <3>1, <3>2 DEF Larger
    <3> QED
      BY <1>1, <3>1, <3>3 DEF ForecastIsAhead
  <2>3. CASE InFlightTick
    <3>1. shown' = last_emitted_top' /\ shown <= last_emitted_top
      BY <2>3 DEF InFlightTick, Tell, ForecastIsAhead
    <3>2. last_emitted_top' \in Nat /\ last_emitted_top' >= last_emitted_top
      BY <1>1, <2>3 DEF InFlightTick, Larger, Smaller
    <3> QED
      BY <1>1, <3>1, <3>2 DEF ForecastIsAhead
  <2>4. CASE pc \in {"large", "stream", "listed"}
    <3>1. pc' \notin {"begin", "recv", "drain"}
      BY <1>3, <2>4 DEF Main, WalkEnds, AddDirectory, StartPipeline, RecvEntry,
         RecvFailure, RecvDiscard, Splice, SpliceFails, DrainStops, InFlightTick,
         Disconnected, Join, StreamBegins, StreamChunk, StreamEnds, StreamTold,
         StreamFails, ReturnOk, mainVars
    <3> QED
      BY <2>4, <3>1 DEF ForecastIsAhead
  <2>5. CASE /\ UNCHANGED progressVars
             /\ pc' \in {"begin", "recv", "drain"} => pc \in {"begin", "recv", "drain"}
    BY <1>1, <2>5 DEF ForecastIsAhead, progressVars
  <2> QED
    BY <1>3, <2>1, <2>2, <2>3, <2>4, <2>5 DEF Main, WalkEnds, AddDirectory,
       RecvEntry, RecvFailure, RecvDiscard, SpliceFails, DrainStops, Disconnected,
       Join, StreamBegins, StreamChunk, StreamEnds, StreamTold, StreamFails,
       ReturnOk, mainVars
<1>4. ASSUME NEW w \in Workers, Worker(w)
      PROVE  UNCHANGED <<progressVars, pc>>
  BY <1>4, WorkerLeavesMain DEF mainVars, progressVars
<1>5. UNCHANGED vars => UNCHANGED <<progressVars, pc>>
  BY DEF vars, mainVars
<1> QED
  BY <1>2, <1>3, <1>4, <1>5 DEF Next, Returned

\* While small entries are written the host sees no snapshot below an earlier
\* one, whatever the workers have read and whatever the totals were.
THEOREM ForecastOnlyRises == Spec => ForecastNeverRegresses
<1>1. Init => ForecastIsAhead
  BY DEF Init, ForecastIsAhead
<1>2. /\ IInv /\ ForecastIsAhead /\ [Next]_vars => ForecastIsAhead'
      /\ IInv /\ ForecastIsAhead /\ [Next]_vars
           => [(pc \in {"recv", "drain"}) => (shown' >= shown)]_vars
  BY StepForecast
<1> QED
  BY <1>1, <1>2, InductiveInvariant, PTL DEF Spec, ForecastNeverRegresses

\* The pipeline of threads implements the one-entry-at-a-time promise.
THEOREM PipelineImplementsOrderedArchive == Spec => ImplementsOrderedArchive
<1>1. Init => Abstract!AbsInit
  BY DEF Init, Abstract!AbsInit, Listed, Answer, Final
<1>2. IInv /\ [Next]_vars => [Abstract!AbsNext]_(Abstract!absVars)
  <2> SUFFICES ASSUME IInv, [Next]_vars
               PROVE  [Abstract!AbsNext]_(Abstract!absVars)
    OBVIOUS
  <2> USE DEF Abstract!absVars
  <2>0. cd \in Seq(CdRecords) /\ OrderedDirectory /\ Len(cd) \in Nat
    BY DEF IInv, TypeOK, OutType
  <2>1. CASE UNCHANGED <<pc, cd>>
    BY <2>1 DEF Listed, Answer
  <2>2. ASSUME NEW r \in CdRecords, r.id = Len(cd) + 1, cd' = Append(cd, r),
               pc \notin Final, pc' \notin Final, Len(cd) < Total
        PROVE  Abstract!AppendNext
    <3>1. /\ Len(cd') = Len(cd) + 1 /\ cd'[Len(cd) + 1].id = Len(cd) + 1
          /\ \A k \in 1..Len(cd) : cd'[k] = cd[k]
      BY <2>0, <2>2
    <3>2. Len(Listed) = Len(cd) /\ Listed \in Seq(Nat)
      <4>1. \A k \in 1..Len(cd) : cd[k].id \in Nat
        BY <2>0 DEF OrderedDirectory
      <4> QED
        BY <2>0, <4>1 DEF Listed
    <3>3. Listed' = Append(Listed, Len(cd) + 1)
      BY <2>0, <3>1, <3>2 DEF Listed
    <3> QED
      BY <2>2, <3>2, <3>3 DEF Answer, Abstract!AppendNext
  <2>3. ASSUME Main, cd' = cd, pc' # pc
        PROVE  [Abstract!AbsNext]_(Abstract!absVars)
    <3>1. pc \notin Final /\ Listed' = Listed
      BY <2>3, MainErrors DEF Listed
    <3>2. CASE pc' \notin Final
      BY <3>1, <3>2 DEF Answer
    <3>3. CASE pc' = "failed"
      BY <3>1, <3>3 DEF Answer, Final, Abstract!AbsNext, Abstract!ReturnErr
    <3>4. CASE pc' = "declined"
      <4>1. WalkEnds
        BY <2>3, <3>4 DEF Main, WalkEnds, AddDirectory, StartPipeline, RecvEntry,
           RecvFailure, RecvDiscard, Splice, SpliceFails, DrainStops,
           InFlightTick, Disconnected, Join, StreamBegins, StreamChunk,
           StreamEnds, StreamTold, StreamFails, ReturnOk, mainVars
      <4>2. Len(cd) = 0
        BY <4>1, <2>0, NothingPendingAtFirst
           DEF WalkEnds, IInv, Tiling
      <4>3. Listed = <<>>
        BY <4>2 DEF Listed
      <4> QED
        BY <3>1, <3>4, <4>3
           DEF Answer, Final, Abstract!AbsNext, Abstract!ReturnDeclined
    <3>5. CASE pc' = "ok"
      <4>1. IInv'
        BY StepIInv
      <4>2. Len(cd) = Total
        BY <2>3, <3>5, <4>1 DEF IInv, Lengths
      <4>3. Len(Listed) = Len(cd)
        <5>1. Listed \in Seq(Nat)
          BY <2>0 DEF Listed, OrderedDirectory
        <5> QED
          BY <2>0, <5>1 DEF Listed
      <4> QED
        BY <3>1, <3>5, <4>2, <4>3
           DEF Answer, Final, Abstract!AbsNext, Abstract!ReturnOk
    <3> QED
      BY <3>2, <3>3, <3>4, <3>5 DEF Final
  <2>4. CASE Main
    BY <2>1, <2>2, <2>3, <2>4, MainListsNext DEF Abstract!AbsNext
  <2>5. ASSUME NEW w \in Workers, Worker(w)
        PROVE  UNCHANGED <<pc, cd>>
    BY <2>5, WorkerLeavesMain DEF mainVars, outVars
  <2>6. CASE UNCHANGED vars
    BY <2>1, <2>6 DEF vars, mainVars, outVars
  <2> QED
    BY [Next]_vars, <2>1, <2>4, <2>5, <2>6 DEF Next, Returned
<1> QED
  BY <1>1, <1>2, InductiveInvariant, PTL
     DEF Spec, ImplementsOrderedArchive, Abstract!AbsSpec
=============================================================================
