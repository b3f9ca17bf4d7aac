----------------------- MODULE ParallelExtractProofs -----------------------
(* Proofs about ParallelExtract, for every archive, cap, buffer and pool.  *)
EXTENDS ParallelExtract, FiniteSetTheorems, TLAPS

Stages == {"idle", "look", "reserve", "create", "write", "commit", "tick", "tell"}

\* The initial state satisfies the inductive invariant.
LEMMA InitIInv == Init => IInv
<1> SUFFICES ASSUME Init
             PROVE  IInv
  OBVIOUS
<1> USE EntriesAssumption, LimitsAssumption DEF Init
<1>1. PoolType
  BY DEF PoolType, Entries
<1>2. SharedType
  BY DEF SharedType
<1>3. OutputType
  BY DEF OutputType
<1>4. TicketsApart /\ Busy
  BY DEF TicketsApart, Holding, Busy
<1>5. PaidOnce
  BY DEF PaidOnce
<1>6. OneTeller
  BY DEF OneTeller
<1> QED
  BY <1>1, <1>2, <1>3, <1>4, <1>5, <1>6 DEF IInv, TypeOK

\* What a worker may write never exceeds its reservation, nor the cap.
LEMMA FitBounds ==
  ASSUME TypeOK, NEW w \in Workers
  PROVE  /\ Fit(w) \in Nat /\ Fit(w) <= chunk[w]
         /\ Cap > 0 /\ Fit(w) > 0 => prev[w] + Fit(w) <= Cap
BY LimitsAssumption DEF TypeOK, PoolType, Fit, Smaller

\* A worker that is at work has an entry of the archive.
LEMMA AtWork ==
  ASSUME IInv, NEW w \in Workers, stage[w] # "idle"
  PROVE  job[w] \in Entries
BY EntriesAssumption DEF IInv, TypeOK, PoolType, Busy, Entries

\* Going on to another stage keeps the entry, leaving gives it up.
LEMMA Staging ==
  ASSUME IInv, NEW w \in Workers, stage[w] # "idle",
         NEW s \in Stages \ {"idle"},
         GoTo(w, s) \/ Leave(w)
  PROVE  /\ todo' \in SUBSET Entries /\ job' \in [Workers -> 0..EntryCount]
         /\ stage' \in [Workers -> Stages]
         /\ \A v \in Workers : stage'[v] # "idle" <=> job'[v] # 0
         /\ \A v \in Workers : v # w => stage'[v] = stage[v]
         /\ stage'[w] \in {s, "idle"}
<1>1. /\ todo \in SUBSET Entries /\ job \in [Workers -> 0..EntryCount]
      /\ stage \in [Workers -> Stages]
      /\ \A v \in Workers : stage[v] # "idle" <=> job[v] # 0
      /\ EntryCount \in Nat
  BY EntriesAssumption DEF IInv, TypeOK, PoolType, Busy, Stages
<1>2. CASE GoTo(w, s)
  BY <1>1, <1>2 DEF GoTo
<1>3. CASE Leave(w)
  BY <1>1, <1>3 DEF Leave, Stages
<1> QED
  BY <1>2, <1>3

\* Every stage but the first goes on or leaves.
LEMMA WorkerStages ==
  ASSUME IInv, NEW w \in Workers, Worker(w), ~Take(w)
  PROVE  /\ stage[w] # "idle"
         /\ \E s \in Stages \ {"idle"} :
              /\ GoTo(w, s) \/ Leave(w)
              /\ s = "tell" => stage[w] = "tick"
              /\ s = "commit" => ReserveBytes(w)
              /\ s \in {"reserve", "create"} => out_path'[w] \in Names
<1>1. /\ stage[w] \in {"look", "reserve"} => job[w] \in Entries
      /\ stage[w] = "reserve" => out_path[w] \in Names
      /\ out_path \in [Workers -> Names \cup {NoName}]
      /\ Target \in [Entries -> Names] /\ KeepBoth \in [Names -> Seq(Names)]
  BY EntriesAssumption, AtWork DEF IInv, TypeOK, PoolType, Busy
<1>2. CASE Fail(w) \/ Skip(w) \/ MakeDirectory(w) \/ MakeLink(w) \/ TellHost(w)
  <2>1. stage[w] # "idle" /\ Leave(w)
    BY <1>2 DEF Fail, Skip, MakeDirectory, MakeLink, TellHost
  <2> QED
    BY <2>1 DEF Stages
<1>3. CASE Look(w)
  <2>1. /\ stage[w] = "look" /\ out_path'[w] \in Names
        /\ GoTo(w, "create") \/ GoTo(w, "reserve") \/ Leave(w)
    BY <1>1, <1>3 DEF Look
  <2> QED
    BY <2>1 DEF Stages
<1>4. CASE Reserve(w)
  <2>1. stage[w] = "reserve" /\ GoTo(w, "create")
    BY <1>4 DEF Reserve
  <2>2. out_path'[w] \in Names
    <3>1. KeepBoth[out_path[w]] \in Seq(Names)
      BY <1>1, <2>1
    <3>2. \A k \in DOMAIN KeepBoth[out_path[w]] : KeepBoth[out_path[w]][k] \in Names
      BY <3>1
    <3> QED
      BY <1>1, <1>4, <2>1, <3>2 DEF Reserve, FreeNames
  <2> QED
    BY <2>1, <2>2 DEF Stages
<1>5. CASE Create(w) \/ Commit(w)
  <2>1. stage[w] # "idle" /\ (GoTo(w, "write") \/ Leave(w))
    BY <1>5 DEF Create, Commit
  <2> QED
    BY <2>1 DEF Stages
<1>6. CASE ReserveBytes(w)
  <2>1. stage[w] # "idle" /\ GoTo(w, "commit")
    BY <1>6 DEF ReserveBytes
  <2> QED
    BY <1>6, <2>1 DEF Stages
<1>7. CASE Count(w) \/ Tick(w)
  <2>1. \/ stage[w] = "write" /\ (GoTo(w, "tick") \/ Leave(w))
        \/ stage[w] = "tick" /\ (GoTo(w, "tell") \/ Leave(w))
    BY <1>7 DEF Count, Tick
  <2> QED
    BY <2>1 DEF Stages
<1> QED
  BY Worker(w), ~Take(w), <1>2, <1>3, <1>4, <1>5, <1>6, <1>7 DEF Worker

\* The pool and what it writes stay well typed.
LEMMA WorkerType ==
  ASSUME IInv, NEW w \in Workers, Worker(w)
  PROVE  TypeOK'
<1> USE EntriesAssumption, LimitsAssumption
<1>1. /\ PoolType /\ SharedType /\ OutputType /\ Busy
  BY DEF IInv, TypeOK
<1>2. CASE Take(w)
  <2>1. PICK e \in todo : /\ todo' = todo \ {e}
                          /\ \/ UNCHANGED <<job, stage>>
                             \/ /\ job' = [job EXCEPT ![w] = e]
                                /\ stage' = [stage EXCEPT ![w] = "look"]
    BY <1>2 DEF Take
  <2>2. e \in 0..EntryCount
    BY <1>1 DEF PoolType, Entries
  <2>3. /\ todo' \in SUBSET Entries /\ job' \in [Workers -> 0..EntryCount]
        /\ stage' \in [Workers -> Stages]
    <3>1. /\ todo \in SUBSET Entries /\ job \in [Workers -> 0..EntryCount]
          /\ stage \in [Workers -> Stages] /\ "look" \in Stages
      BY <1>1 DEF PoolType, Stages
    <3>2. todo' \in SUBSET Entries
      BY <2>1, <3>1
    <3>3. CASE UNCHANGED <<job, stage>>
      BY <3>1, <3>2, <3>3
    <3>4. CASE /\ job' = [job EXCEPT ![w] = e]
               /\ stage' = [stage EXCEPT ![w] = "look"]
      BY <2>2, <3>1, <3>2, <3>4
    <3> QED
      BY <2>1, <3>3, <3>4
  <2> QED
    BY <1>1, <1>2, <2>3 DEF Take, TypeOK, PoolType, SharedType, OutputType,
       writeVars, countVars, errorVars, tickVars, diskVars, callVars, Stages
<1>3. CASE ~Take(w)
  <2>1. stage[w] # "idle" /\ job[w] \in Entries
    BY <1>3, WorkerStages, AtWork
  <2>2. /\ todo' \in SUBSET Entries /\ job' \in [Workers -> 0..EntryCount]
        /\ stage' \in [Workers -> Stages]
    BY <1>3, <2>1, WorkerStages, Staging
  <2>3. /\ out_path' \in [Workers -> Names \cup {NoName}]
        /\ left' \in [Workers -> Nat] /\ chunk' \in [Workers -> Nat]
        /\ prev' \in [Workers -> Nat]
    <3>1. CASE Look(w)
      BY <1>1, <2>1, <3>1 DEF Look, PoolType, writeVars
    <3>2. CASE Reserve(w)
      <4>1. KeepBoth[out_path[w]] \in Seq(Names)
        BY <1>1, <3>2 DEF Reserve, Busy
      <4>2. \A k \in DOMAIN KeepBoth[out_path[w]] : KeepBoth[out_path[w]][k] \in Names
        BY <4>1
      <4>3. \/ out_path' = out_path
            \/ \E n \in Names : out_path' = [out_path EXCEPT ![w] = n]
        BY <3>2, <4>2 DEF Reserve, FreeNames
      <4> QED
        <5>1. out_path' \in [Workers -> Names \cup {NoName}]
          BY <1>1, <4>3 DEF PoolType
        <5>2. UNCHANGED <<left, chunk, prev>>
          BY <3>2 DEF Reserve, writeVars
        <5> QED
          BY <1>1, <5>1, <5>2 DEF PoolType
    <3>3. CASE Create(w)
      BY <1>1, <2>1, <3>3 DEF Create, PoolType
    <3>4. CASE ReserveBytes(w)
      <4>1. Smaller(Buffer, left[w]) \in Nat /\ bytes_done \in Nat
        BY <1>1 DEF Smaller, PoolType, SharedType
      <4> QED
        BY <1>1, <3>4, <4>1 DEF ReserveBytes, PoolType
    <3>5. CASE Commit(w)
      <4>1. chunk[w] <= left[w] /\ left[w] \in Nat /\ chunk[w] \in Nat
        BY <1>1, <3>5 DEF Commit, Busy, Holding, PoolType
      <4>2. left[w] - Fit(w) \in Nat
        BY <4>1, FitBounds DEF IInv
      <4> QED
        BY <1>1, <3>5, <4>2 DEF Commit, PoolType
    <3>6. CASE \/ Fail(w) \/ Skip(w) \/ MakeDirectory(w) \/ MakeLink(w)
               \/ Count(w) \/ Tick(w) \/ TellHost(w)
      BY <1>1, <3>6 DEF Fail, Skip, MakeDirectory, MakeLink, Count, Tick,
         TellHost, PoolType, writeVars
    <3> QED
      BY <1>3, <3>1, <3>2, <3>3, <3>4, <3>5, <3>6, Worker(w) DEF Worker
  <2>4. entries_so_far' \in [Workers -> Nat] /\ snapshot' \in [Workers -> Nat]
    <3>1. CASE Count(w)
      <4>1. entries_done' \in Nat
        BY <1>1, <3>1 DEF Count, SharedType
      <4> QED
        BY <1>1, <3>1, <4>1 DEF Count, PoolType
    <3>2. CASE Tick(w)
      <4>1. /\ entries_so_far' = entries_so_far
            /\ snapshot' \in {snapshot, [snapshot EXCEPT ![w] = bytes_done]}
        BY <3>2 DEF Tick
      <4>2. [snapshot EXCEPT ![w] = bytes_done] \in [Workers -> Nat]
        BY <1>1 DEF PoolType, SharedType
      <4> QED
        BY <1>1, <4>1, <4>2 DEF PoolType
    <3>3. CASE ~Count(w) /\ ~Tick(w)
      <4>1. UNCHANGED <<entries_so_far, snapshot>>
        BY <1>3, <3>3, Worker(w) DEF Worker, Fail, Skip, MakeDirectory, Look,
           Reserve, Create, MakeLink, ReserveBytes, Commit, TellHost, tickVars
      <4> QED
        BY <1>1, <4>1 DEF PoolType
    <3> QED
      BY <3>1, <3>2, <3>3
  <2>5. bytes_done' \in Nat /\ entries_done' \in Nat /\ entries_skipped' \in Nat
    <3>1. CASE ReserveBytes(w)
      <4>1. Smaller(Buffer, left[w]) \in Nat
        BY <1>1 DEF Smaller, PoolType
      <4> QED
        BY <1>1, <3>1, <4>1 DEF ReserveBytes, SharedType, countVars
    <3>2. CASE ~ReserveBytes(w)
      <4>1. /\ bytes_done' = bytes_done
            /\ entries_done' \in {entries_done, entries_done + 1}
            /\ entries_skipped' \in {entries_skipped, entries_skipped + 1}
        BY <1>3, <3>2, Worker(w) DEF Worker, Fail, Skip, MakeDirectory, Look,
           Reserve, Create, MakeLink, Commit, Count, Tick, TellHost, countVars
      <4> QED
        BY <1>1, <4>1 DEF SharedType
    <3> QED
      BY <3>1, <3>2
  <2>6. canceled' \in BOOLEAN /\ first_err' \in {"none", "io", "exists", "bomb"}
    <3>1. /\ canceled' \in {canceled, TRUE}
          /\ first_err' \in {first_err, "io", "exists", "bomb"}
      BY <1>3, Worker(w) DEF Worker, Fail, Skip, MakeDirectory, Look, Reserve,
         Create, MakeLink, ReserveBytes, Commit, Count, Tick, TellHost,
         SetFirstErr, errorVars
    <3> QED
      BY <1>1, <3>1 DEF SharedType
  <2>7. /\ progress_lock' \in Workers \cup {NoWorker}
        /\ shown' \in [bytes : Nat, entries : Nat]
    <3>1. CASE TellHost(w)
      BY <1>1, <3>1 DEF TellHost, SharedType, PoolType
    <3>2. CASE ~TellHost(w)
      <4>1. progress_lock' \in {progress_lock, w} /\ shown' = shown
        BY <1>3, <3>2, Worker(w) DEF Worker, Fail, Skip, MakeDirectory, Look,
           Reserve, Create, MakeLink, ReserveBytes, Commit, Count, Tick, tickVars
      <4> QED
        BY <1>1, <4>1 DEF SharedType
    <3> QED
      BY <3>1, <3>2
  <2>8. disk' \in SUBSET Names /\ opened' \in [Entries -> Names \cup {NoName}]
    <3>1. CASE Reserve(w)
      <4>1. KeepBoth[out_path[w]] \in Seq(Names)
        BY <1>1, <3>1 DEF Reserve, Busy
      <4>2. \A k \in DOMAIN KeepBoth[out_path[w]] : KeepBoth[out_path[w]][k] \in Names
        BY <4>1
      <4> QED
        BY <1>1, <3>1, <4>2 DEF Reserve, FreeNames, OutputType
    <3>2. CASE Create(w) \/ MakeLink(w)
      <4>1. out_path[w] \in Names
        BY <1>1, <3>2 DEF Create, MakeLink, Busy
      <4> QED
        <5>1. /\ disk' \in {disk, disk \cup {out_path[w]}}
              /\ opened' \in {opened, [opened EXCEPT ![job[w]] = out_path[w]]}
          BY <3>2 DEF Create, MakeLink
        <5>2. [opened EXCEPT ![job[w]] = out_path[w]] \in [Entries -> Names \cup {NoName}]
          BY <1>1, <2>1, <4>1 DEF OutputType
        <5> QED
          BY <1>1, <4>1, <5>1, <5>2 DEF OutputType
    <3>3. CASE ~(Reserve(w) \/ Create(w) \/ MakeLink(w))
      BY <1>1, <1>3, <3>3, Worker(w) DEF Worker, Fail, Skip, MakeDirectory, Look,
         ReserveBytes, Commit, Count, Tick, TellHost, OutputType, diskVars
    <3> QED
      BY <3>1, <3>2, <3>3
  <2>9. paid' \in [Entries -> SUBSET Nat]
    <3>1. CASE Commit(w)
      <4>1. prev[w] + 1 .. prev[w] + Fit(w) \subseteq Nat
        BY <1>1, FitBounds DEF IInv, PoolType
      <4> QED
        BY <1>1, <2>1, <3>1, <4>1 DEF Commit, OutputType
    <3>2. CASE ~Commit(w)
      BY <1>1, <1>3, <3>2, Worker(w) DEF Worker, Fail, Skip, MakeDirectory, Look,
         Reserve, Create, MakeLink, ReserveBytes, Count, Tick, TellHost, OutputType
    <3> QED
      BY <3>1, <3>2
  <2>10. UNCHANGED callVars
    BY <1>3, Worker(w) DEF Worker, Fail, Skip, MakeDirectory, Look,
       Reserve, Create, MakeLink, ReserveBytes, Commit, Count, Tick, TellHost
  <2> QED
    BY <1>1, <2>2, <2>3, <2>4, <2>5, <2>6, <2>7, <2>8, <2>9, <2>10
       DEF TypeOK, PoolType, SharedType, OutputType, callVars, Stages
<1> QED
  BY <1>2, <1>3

-----------------------------------------------------------------------------
(* Tickets.                                                                *)

\* Only fetch_add and the write that follows it touch the tickets.
LEMMA TicketsElsewhere ==
  ASSUME IInv, NEW w \in Workers, Worker(w), ~ReserveBytes(w), ~Commit(w)
  PROVE  UNCHANGED <<chunk, prev, bytes_done, paid>> /\ Holding' \subseteq Holding
<1>1. UNCHANGED <<chunk, prev, bytes_done, paid>>
  BY Worker(w) DEF Worker, Take, Fail, Skip, MakeDirectory, Look, Reserve, Create,
     MakeLink, Count, Tick, TellHost, writeVars
<1>2. stage \in [Workers -> Stages]
  BY DEF IInv, TypeOK, PoolType, Stages
<1>3. stage'[w] # "commit" /\ \A v \in Workers : v # w => stage'[v] = stage[v]
  <2>1. CASE Take(w)
    BY <1>2, <2>1 DEF Take
  <2>2. CASE ~Take(w)
    <3>1. PICK s \in Stages \ {"idle"} : (GoTo(w, s) \/ Leave(w)) /\ s # "commit"
      BY <2>2, WorkerStages
    <3>2. stage'[w] \in {s, "idle"}
      BY <2>2, <3>1, WorkerStages, Staging
    <3> QED
      BY <2>2, <3>1, <3>2, WorkerStages, Staging
  <2> QED
    BY <2>1, <2>2
<1> QED
  BY <1>1, <1>3 DEF Holding

\* fetch_add hands out tickets nobody has had.
LEMMA ReserveTickets ==
  ASSUME IInv, NEW w \in Workers, ReserveBytes(w)
  PROVE  TicketsApart' /\ PaidOnce'
<1> DEFINE n == Smaller(Buffer, left[w])
<1>1. /\ prev \in [Workers -> Nat] /\ chunk \in [Workers -> Nat]
      /\ left \in [Workers -> Nat] /\ bytes_done \in Nat
      /\ paid \in [Entries -> SUBSET Nat] /\ stage \in [Workers -> Stages]
      /\ TicketsApart /\ PaidOnce
  BY DEF IInv, TypeOK, PoolType, SharedType, OutputType, Stages
<1>2. n \in Nat /\ bytes_done' = bytes_done + n /\ paid' = paid
  BY <1>1, LimitsAssumption DEF ReserveBytes, Smaller
<1>3. /\ prev' = [prev EXCEPT ![w] = bytes_done] /\ chunk' = [chunk EXCEPT ![w] = n]
      /\ Holding' = Holding \cup {w} /\ w \notin Holding
  BY <1>1 DEF ReserveBytes, GoTo, Holding
<1>4. Tickets(w)' = bytes_done + 1 .. bytes_done + n
  BY <1>1, <1>2, <1>3 DEF Tickets
<1>5. \A v \in Holding : Tickets(v)' = Tickets(v) /\ Tickets(v) \subseteq 1..bytes_done
  <2> SUFFICES ASSUME NEW v \in Holding
               PROVE  Tickets(v)' = Tickets(v) /\ Tickets(v) \subseteq 1..bytes_done
    OBVIOUS
  <2>1. v \in Workers /\ v # w /\ prev'[v] = prev[v] /\ chunk'[v] = chunk[v]
    BY <1>1, <1>3 DEF Holding
  <2>2. prev[v] \in Nat /\ chunk[v] \in Nat /\ prev[v] + chunk[v] <= bytes_done
    BY <1>1, <2>1 DEF TicketsApart
  <2> QED
    BY <1>1, <2>1, <2>2 DEF Tickets
<1>6. \A v \in Holding' : prev'[v] + chunk'[v] <= bytes_done'
  BY <1>1, <1>2, <1>3 DEF TicketsApart, Holding
<1>7. \A i \in 1..bytes_done : i \notin Tickets(w)'
  BY <1>1, <1>2, <1>4
<1>8. \A v, u \in Holding' : v # u => Tickets(v)' \cap Tickets(u)' = {}
  BY <1>3, <1>5, <1>7, <1>1 DEF TicketsApart
<1>9. \A v \in Holding', e \in Entries : Tickets(v)' \cap paid'[e] = {}
  BY <1>1, <1>2, <1>3, <1>5, <1>7 DEF TicketsApart, PaidOnce
<1>10. TicketsApart'
  BY <1>6, <1>8, <1>9 DEF TicketsApart
<1>11. 1..bytes_done \subseteq 1..bytes_done'
  BY <1>1, <1>2
<1>12. PaidOnce'
  BY <1>1, <1>2, <1>11 DEF PaidOnce
<1> QED
  BY <1>10, <1>12

\* A write uses tickets its worker holds, below the cap, and gives them up.
LEMMA CommitTickets ==
  ASSUME IInv, NEW w \in Workers, Commit(w)
  PROVE  TicketsApart' /\ PaidOnce'
<1> DEFINE new == prev[w] + 1 .. prev[w] + Fit(w)
<1>1. /\ prev \in [Workers -> Nat] /\ chunk \in [Workers -> Nat]
      /\ bytes_done \in Nat /\ Cap \in Nat
      /\ paid \in [Entries -> SUBSET Nat] /\ stage \in [Workers -> Stages]
      /\ TicketsApart /\ PaidOnce
  BY LimitsAssumption DEF IInv, TypeOK, PoolType, SharedType, OutputType, Stages
<1>2. w \in Holding /\ job[w] \in Entries
  BY AtWork DEF Commit, Holding
<1>3. /\ UNCHANGED <<prev, chunk, bytes_done>>
      /\ paid' = [paid EXCEPT ![job[w]] = @ \cup new]
  BY DEF Commit
<1>4. Holding' = Holding \ {w}
  BY <1>1 DEF Commit, GoTo, Leave, Holding
<1>5. new \subseteq Tickets(w) /\ new \subseteq 1..bytes_done
      /\ (Cap > 0 => new \subseteq 1..Cap)
  <2>1. /\ Fit(w) \in Nat /\ Fit(w) <= chunk[w]
        /\ Cap > 0 /\ Fit(w) > 0 => prev[w] + Fit(w) <= Cap
        /\ prev[w] \in Nat /\ chunk[w] \in Nat
        /\ prev[w] + chunk[w] <= bytes_done
    BY <1>1, <1>2, FitBounds DEF IInv, TicketsApart
  <2> QED
    BY <1>1, <2>1 DEF Tickets
<1>6. \A v \in Holding' : Tickets(v)' = Tickets(v) /\ v \in Holding /\ v # w
  BY <1>3, <1>4 DEF Tickets
<1>7. \A v \in Holding' : new \cap Tickets(v) = {}
  BY <1>1, <1>2, <1>5, <1>6 DEF TicketsApart
<1>8. \A e \in Entries : new \cap paid[e] = {}
  BY <1>1, <1>2, <1>5 DEF TicketsApart
<1>9. \A e \in Entries : /\ paid'[e] \subseteq paid[e] \cup new
                         /\ e # job[w] => paid'[e] = paid[e]
  BY <1>1, <1>2, <1>3
<1> HIDE DEF new
<1>10. \A v \in Holding' : prev'[v] + chunk'[v] <= bytes_done'
  BY <1>1, <1>3, <1>6 DEF TicketsApart
<1>11. \A v, u \in Holding' : v # u => Tickets(v)' \cap Tickets(u)' = {}
  BY <1>1, <1>6 DEF TicketsApart
<1>12. \A v \in Holding', e \in Entries : Tickets(v)' \cap paid'[e] = {}
  <2> SUFFICES ASSUME NEW v \in Holding', NEW e \in Entries
               PROVE  Tickets(v)' \cap paid'[e] = {}
    OBVIOUS
  <2>1. Tickets(v)' = Tickets(v) /\ Tickets(v) \cap paid[e] = {}
    BY <1>1, <1>6 DEF TicketsApart
  <2>2. new \cap Tickets(v) = {} /\ paid'[e] \subseteq paid[e] \cup new
    BY <1>7, <1>9
  <2> QED
    BY <2>1, <2>2
<1>13. TicketsApart'
  BY <1>10, <1>11, <1>12 DEF TicketsApart
<1>14. \A e \in Entries : /\ paid'[e] \subseteq 1..bytes_done'
                          /\ Cap > 0 => paid'[e] \subseteq 1..Cap
  BY <1>1, <1>3, <1>5, <1>9 DEF PaidOnce
<1>15. \A e, f \in Entries : e # f => paid'[e] \cap paid'[f] = {}
  <2> SUFFICES ASSUME NEW e \in Entries, NEW f \in Entries, e # f
               PROVE  paid'[e] \cap paid'[f] = {}
    OBVIOUS
  <2>1. /\ paid[e] \cap paid[f] = {}
        /\ new \cap paid[e] = {} /\ new \cap paid[f] = {}
    BY <1>1, <1>8 DEF PaidOnce
  <2>2. /\ paid'[e] \subseteq paid[e] \cup new /\ paid'[f] \subseteq paid[f] \cup new
        /\ paid'[e] = paid[e] \/ paid'[f] = paid[f]
    BY <1>9
  <2> QED
    BY <2>1, <2>2
<1>16. PaidOnce'
  BY <1>14, <1>15 DEF PaidOnce
<1> QED
  BY <1>13, <1>16

\* Every step of a worker keeps the tickets apart.
LEMMA WorkerTickets ==
  ASSUME IInv, NEW w \in Workers, Worker(w)
  PROVE  TicketsApart' /\ PaidOnce'
<1>1. CASE ~ReserveBytes(w) /\ ~Commit(w)
  <2>1. UNCHANGED <<chunk, prev, bytes_done, paid>> /\ Holding' \subseteq Holding
    BY <1>1, TicketsElsewhere
  <2>2. \A v : Tickets(v)' = Tickets(v)
    BY <2>1 DEF Tickets
  <2> QED
    BY <2>1, <2>2 DEF IInv, TicketsApart, PaidOnce
<1> QED
  BY <1>1, ReserveTickets, CommitTickets

-----------------------------------------------------------------------------
(* The sink and the pool.                                                  *)

\* One worker at a time has the sink, and what it tells is not older than
\* what was told before.
LEMMA WorkerTells ==
  ASSUME IInv, NEW w \in Workers, Worker(w)
  PROVE  OneTeller' /\ shown'.bytes >= shown.bytes
<1>1. /\ OneTeller /\ stage \in [Workers -> Stages]
      /\ snapshot \in [Workers -> Nat] /\ bytes_done \in Nat
      /\ shown \in [bytes : Nat, entries : Nat]
      /\ NoWorker \notin Workers /\ bytes_done' \in Nat
  BY WorkerType, LimitsAssumption
     DEF IInv, TypeOK, PoolType, SharedType, Stages
<1>2. CASE Tick(w)
  <2>1. /\ stage[w] = "tick" /\ UNCHANGED <<bytes_done, shown>>
        /\ \A v \in Workers : v # w => stage'[v] = stage[v] /\ snapshot'[v] = snapshot[v]
    BY <1>1, <1>2 DEF Tick, GoTo, Leave
  <2>2. \/ /\ progress_lock = NoWorker /\ progress_lock' = w
           /\ snapshot'[w] = bytes_done /\ stage'[w] = "tell"
        \/ /\ progress_lock # NoWorker /\ UNCHANGED progress_lock
           /\ stage'[w] = "idle"
    BY <1>1, <1>2 DEF Tick, GoTo, Leave
  <2> QED
    BY <1>1, <2>1, <2>2 DEF OneTeller
<1>3. CASE TellHost(w)
  <2>1. /\ stage[w] = "tell" /\ UNCHANGED <<bytes_done, snapshot>>
        /\ progress_lock' = NoWorker /\ shown'.bytes = snapshot[w]
        /\ stage'[w] = "idle" /\ \A v \in Workers : v # w => stage'[v] = stage[v]
    BY <1>1, <1>3 DEF TellHost, Leave
  <2>2. \A v \in Workers : v # w => stage[v] # "tell"
    BY <1>1, <2>1 DEF OneTeller
  <2> QED
    BY <1>1, <2>1, <2>2 DEF OneTeller
<1>4. CASE ~Tick(w) /\ ~TellHost(w)
  <2>1. UNCHANGED <<snapshot, progress_lock, shown>>
    BY <1>4, Worker(w) DEF Worker, Take, Fail, Skip, MakeDirectory, Look, Reserve,
       Create, MakeLink, ReserveBytes, Commit, Count, tickVars
  <2>2. bytes_done' >= bytes_done
    <3>1. CASE ReserveBytes(w)
      <4>1. Smaller(Buffer, left[w]) \in Nat
        BY LimitsAssumption DEF IInv, TypeOK, PoolType, Smaller
      <4> QED
        BY <1>1, <3>1, <4>1 DEF ReserveBytes
    <3>2. CASE ~ReserveBytes(w)
      <4>1. bytes_done' = bytes_done
        BY <1>4, <3>2, Worker(w) DEF Worker, Take, Fail, Skip, MakeDirectory, Look,
           Reserve, Create, MakeLink, Commit, Count
      <4> QED
        BY <1>1, <4>1
    <3> QED
      BY <3>1, <3>2
  <2>3. stage[w] # "tell" /\ stage'[w] # "tell"
        /\ \A v \in Workers : v # w => stage'[v] = stage[v]
    <3>1. CASE Take(w)
      BY <1>1, <3>1 DEF Take
    <3>2. CASE ~Take(w)
      <4>1. stage[w] \notin {"tell", "tick"}
        BY <1>4, <3>2, Worker(w) DEF Worker, Fail, Skip, MakeDirectory, Look,
           Reserve, Create, MakeLink, ReserveBytes, Commit, Count
      <4>2. PICK s \in Stages \ {"idle"} : (GoTo(w, s) \/ Leave(w)) /\ s # "tell"
        BY <3>2, <4>1, WorkerStages
      <4>3. stage'[w] \in {s, "idle"}
            /\ \A v \in Workers : v # w => stage'[v] = stage[v]
        BY <3>2, <4>2, WorkerStages, Staging
      <4> QED
        BY <4>1, <4>2, <4>3
    <3> QED
      BY <3>1, <3>2
  <2> QED
    BY <1>1, <2>1, <2>2, <2>3 DEF OneTeller
<1> QED
  BY <1>2, <1>3, <1>4

\* A worker at work keeps its entry, its path and room for its write.
LEMMA WorkerBusy ==
  ASSUME IInv, NEW w \in Workers, Worker(w)
  PROVE  Busy'
<1>1. /\ Busy /\ TypeOK' /\ stage \in [Workers -> Stages]
      /\ todo \in SUBSET Entries /\ job \in [Workers -> 0..EntryCount]
      /\ out_path \in [Workers -> Names \cup {NoName}]
      /\ left \in [Workers -> Nat] /\ chunk \in [Workers -> Nat]
      /\ EntryCount \in Nat /\ Buffer \in Nat
  BY WorkerType, EntriesAssumption, LimitsAssumption
     DEF IInv, TypeOK, PoolType, Stages
<1>2. /\ \A v \in Workers : stage'[v] # "idle" <=> job'[v] # 0
      /\ \A v \in Workers : v # w => stage'[v] = stage[v]
  <2>1. CASE Take(w)
    <3>1. PICK e \in todo : \/ UNCHANGED <<job, stage>>
                            \/ /\ job' = [job EXCEPT ![w] = e]
                               /\ stage' = [stage EXCEPT ![w] = "look"]
      BY <2>1 DEF Take
    <3>2. e # 0
      BY <1>1 DEF Entries
    <3> QED
      BY <1>1, <3>1, <3>2 DEF Busy
  <2>2. CASE ~Take(w)
    BY <2>2, WorkerStages, Staging
  <2> QED
    BY <2>1, <2>2
<1>3. \A v \in Workers : v # w => /\ out_path'[v] = out_path[v]
                                  /\ left'[v] = left[v] /\ chunk'[v] = chunk[v]
  <2>1. /\ out_path' = out_path \/ \E x : out_path' = [out_path EXCEPT ![w] = x]
        /\ left' = left \/ \E x : left' = [left EXCEPT ![w] = x]
        /\ chunk' = chunk \/ \E x : chunk' = [chunk EXCEPT ![w] = x]
    BY Worker(w) DEF Worker, Take, Fail, Skip, MakeDirectory, Look, Reserve, Create,
       MakeLink, ReserveBytes, Commit, Count, Tick, TellHost, writeVars
  <2> QED
    BY <1>1, <2>1
<1>4. stage'[w] \in {"reserve", "create"} => out_path'[w] \in Names
  <2>1. CASE Take(w)
    BY <1>1, <2>1 DEF Take, Busy
  <2>2. CASE ~Take(w)
    <3>1. PICK s \in Stages \ {"idle"} :
            /\ GoTo(w, s) \/ Leave(w)
            /\ s \in {"reserve", "create"} => out_path'[w] \in Names
      BY <2>2, WorkerStages
    <3>2. stage'[w] \in {s, "idle"}
      BY <2>2, <3>1, WorkerStages, Staging
    <3> QED
      BY <3>1, <3>2
  <2> QED
    BY <2>1, <2>2
<1>5. stage'[w] = "commit" => chunk'[w] <= left'[w]
  <2>1. CASE ReserveBytes(w)
    <3>1. chunk'[w] = Smaller(Buffer, left[w]) /\ left'[w] = left[w]
      BY <1>1, <2>1 DEF ReserveBytes
    <3> QED
      BY <1>1, <3>1 DEF Smaller
  <2>2. CASE ~ReserveBytes(w) /\ ~Commit(w)
    <3>1. Holding' \subseteq Holding /\ UNCHANGED chunk
      BY <2>2, TicketsElsewhere
    <3>2. stage'[w] = "commit" => stage[w] = "commit"
      BY <3>1 DEF Holding
    <3>3. stage[w] = "commit" => left' = left
      BY <2>2, Worker(w) DEF Worker, Take, Fail, Skip, MakeDirectory, Look, Reserve,
         Create, MakeLink, Count, Tick, TellHost, writeVars
    <3> QED
      BY <1>1, <3>1, <3>2, <3>3 DEF Busy, Holding
  <2>3. CASE Commit(w)
    BY <1>1, <2>3 DEF Commit, GoTo, Leave
  <2> QED
    BY <2>1, <2>2, <2>3
<1> QED
  BY <1>1, <1>2, <1>3, <1>4, <1>5 DEF Busy, Holding

-----------------------------------------------------------------------------
(* The theorems.                                                           *)

\* Every step preserves the inductive invariant.
LEMMA StepIInv == IInv /\ [Next]_vars => IInv'
<1> SUFFICES ASSUME IInv, [Next]_vars
             PROVE  IInv'
  OBVIOUS
<1>1. ASSUME NEW w \in Workers, Worker(w)
      PROVE  IInv'
  BY <1>1, WorkerType, WorkerTickets, WorkerTells, WorkerBusy DEF IInv
<1>2. CASE Return
  <2>1. TypeOK'
    BY <1>2 DEF Return, IInv, TypeOK, PoolType, SharedType, OutputType, poolVars,
       writeVars, countVars, errorVars, tickVars, diskVars
  <2>2. UNCHANGED <<job, stage, out_path, left, chunk, prev, bytes_done, snapshot,
                    progress_lock, shown, paid>>
    BY <1>2 DEF Return, poolVars, writeVars, tickVars
  <2> QED
    BY <2>1, <2>2 DEF IInv, TicketsApart, Tickets, Holding, PaidOnce, OneTeller, Busy
<1>3. CASE UNCHANGED vars
  BY <1>3 DEF vars, IInv, TypeOK, PoolType, SharedType, OutputType, poolVars,
     writeVars, countVars, errorVars, tickVars, diskVars, callVars,
     TicketsApart, Tickets, Holding, PaidOnce, OneTeller, Busy
<1> QED
  BY [Next]_vars, <1>1, <1>2, <1>3 DEF Next, Returned

\* The strengthening is an invariant of the extraction.
THEOREM InductiveInvariant == Spec => []IInv
BY InitIInv, StepIInv, PTL DEF Spec

\* Every variable of the extraction stays in its type.
THEOREM TypeCorrect == Spec => []TypeOK
<1>1. IInv => TypeOK
  BY DEF IInv
<1> QED
  BY <1>1, InductiveInvariant, PTL

\* With any number of workers, in any order, the bytes written to all the
\* outputs together never exceed the cap.
THEOREM OutputStaysUnderCap == Spec => []CapHolds
<1>1. IInv => CapHolds
  <2> SUFFICES ASSUME IInv
               PROVE  CapHolds
    OBVIOUS
  <2>1. ASSUME Cap > 0
        PROVE  Cardinality(Output) <= Cap
    <3>1. Output \subseteq 1..Cap
      BY <2>1 DEF IInv, PaidOnce, Output
    <3>2. IsFiniteSet(1..Cap) /\ Cardinality(1..Cap) = Cap
      <4>1. Cap \in Nat /\ 1 \in Int /\ Cap \in Int
        BY LimitsAssumption
      <4>2. Cardinality(1..Cap) = IF 1 > Cap THEN 0 ELSE Cap - 1 + 1
        BY <4>1, FS_Interval
      <4> QED
        BY <2>1, <4>1, <4>2, FS_Interval
    <3>3. Cardinality(Output) <= Cardinality(1..Cap)
      BY <3>1, <3>2, FS_Subset
    <3> QED
      BY <3>2, <3>3
  <2> QED
    BY <2>1 DEF IInv, PaidOnce, CapHolds
<1> QED
  BY <1>1, InductiveInvariant, PTL

\* However the workers race for the sink, the host never sees the bytes go
\* back.
THEOREM HostSeesBytesGrow == Spec => BytesNeverGoBack
<1>1. IInv /\ [Next]_vars => [shown'.bytes >= shown.bytes]_vars
  <2> SUFFICES ASSUME IInv, Next
               PROVE  shown'.bytes >= shown.bytes
    OBVIOUS
  <2>1. shown.bytes \in Nat
    BY DEF IInv, TypeOK, SharedType
  <2>2. CASE Return \/ Returned
    BY <2>1, <2>2 DEF Return, Returned, tickVars, vars
  <2> QED
    BY <2>2, WorkerTells DEF Next
<1> QED
  BY <1>1, InductiveInvariant, PTL DEF Spec, BytesNeverGoBack

\* The error the caller gets is the first any worker met.
THEOREM FirstErrorIsKept == Spec => FirstErrorKept
<1>1. [Next]_vars => [first_err # "none" => first_err' = first_err]_vars
  <2> SUFFICES ASSUME Next, first_err # "none"
               PROVE  first_err' = first_err
    OBVIOUS
  <2>1. ASSUME NEW w \in Workers, Worker(w)
        PROVE  first_err' = first_err
    BY <2>1 DEF Worker, Take, Fail, Skip, MakeDirectory, Look, Reserve, Create,
       MakeLink, ReserveBytes, Commit, Count, Tick, TellHost, SetFirstErr, errorVars
  <2>2. CASE Return \/ Returned
    BY <2>2 DEF Return, Returned, errorVars, vars
  <2> QED
    BY <2>1, <2>2 DEF Next
<1> QED
  BY <1>1, PTL DEF Spec, FirstErrorKept

-----------------------------------------------------------------------------
(* An Ok report is exact.                                                  *)

Before == {"look", "reserve", "create"}
Writing == {"write", "commit"}
InHand == Before \cup Writing

\* No entry is in two hands.
OneEach ==
  \A w \in Workers : /\ job[w] \notin todo
                     /\ \A v \in Workers : w # v /\ job[w] # 0 => job[w] # job[v]

\* Of an entry nobody has opened nothing is paid; of one that is being written
\* what is paid and what is left are the whole; of others everything is paid,
\* unless a worker gave up.
UnopenedIsUnpaid ==
  \A e \in Entries : e \in todo \/ (\E w \in Workers : stage[w] \in Before /\ job[w] = e) =>
    opened[e] = NoName /\ paid[e] = {}
PaidPlusLeft ==
  \A w \in Workers : stage[w] \in Writing =>
    Cardinality(paid[job[w]]) + left[w] = Size[job[w]]
NoneUnfinished ==
  ~canceled => \A e \in Entries :
    Kind[e] = "file" /\ opened[e] # NoName =>
      \/ Cardinality(paid[e]) = Size[e]
      \/ \E w \in Workers : stage[w] \in Writing /\ job[w] = e
BytesAddUp == UnopenedIsUnpaid /\ PaidPlusLeft /\ NoneUnfinished

\* Unless a worker gave up, every ticket is used or held.
AllPaid ==
  ~canceled => \A t \in 1..bytes_done : \/ \E e \in Entries : t \in paid[e]
                                        \/ \E w \in Holding : t \in Tickets(w)

\* Unless a worker gave up, every entry is counted, in hand or to come.
Unfinished == todo \cup {e \in Entries : \E w \in Workers : stage[w] \in InHand /\ job[w] = e}
EntriesAddUp ==
  ~canceled => entries_done + entries_skipped + Cardinality(Unfinished) = EntryCount

\* After an Ok nothing moves any more.
Reported ==
  answer = "ok" =>
    /\ ~canceled /\ todo = {} /\ \A w \in Workers : stage[w] = "idle"
    /\ report = [bytes_written |-> bytes_done, entries_extracted |-> entries_done,
                 entries_skipped |-> entries_skipped]

ExactInv == IInv /\ OneEach /\ BytesAddUp /\ AllPaid /\ EntriesAddUp /\ Reported

\* There are as many entries as the archive lists.
LEMMA EntriesFinite == IsFiniteSet(Entries) /\ Cardinality(Entries) = EntryCount
<1>1. 1 \in Int /\ EntryCount \in Int /\ EntryCount >= 0
  BY EntriesAssumption
<1>2. IsFiniteSet(1..EntryCount) /\
      Cardinality(1..EntryCount) = IF 1 > EntryCount THEN 0 ELSE EntryCount - 1 + 1
  BY <1>1, FS_Interval
<1> QED
  BY <1>1, <1>2 DEF Entries

\* What is paid of an entry is finite.
LEMMA PaidFinite ==
  ASSUME IInv, NEW e \in Entries
  PROVE  IsFiniteSet(paid[e]) /\ Cardinality(paid[e]) \in Nat
<1>1. paid[e] \in SUBSET (1..bytes_done) /\ bytes_done \in Int
  BY DEF IInv, PaidOnce, TypeOK, SharedType
<1>2. IsFiniteSet(1..bytes_done)
  BY <1>1, FS_Interval
<1> QED
  BY <1>1, <1>2, FS_Subset, FS_CardinalityType

\* n tickets in a row are n.
LEMMA TicketCount ==
  ASSUME NEW p \in Nat, NEW n \in Nat
  PROVE  IsFiniteSet(p + 1 .. p + n) /\ Cardinality(p + 1 .. p + n) = n
<1> DEFINE i == p + 1  j == p + n
<1>1. i \in Int /\ j \in Int /\ (IF i > j THEN 0 ELSE j - i + 1) = n
  OBVIOUS
<1> HIDE DEF i, j
<1>2. IsFiniteSet(i..j) /\ Cardinality(i..j) = n
  BY <1>1, FS_Interval
<1> QED
  BY <1>2 DEF i, j

\* At the start every count is nil and nothing is paid.
LEMMA InitExact == Init => ExactInv
<1> SUFFICES ASSUME Init PROVE ExactInv
  OBVIOUS
<1>1. IInv
  BY InitIInv
<1>2. OneEach
  BY DEF Init, OneEach, Entries
<1>3. BytesAddUp
  BY DEF Init, BytesAddUp, UnopenedIsUnpaid, PaidPlusLeft, NoneUnfinished, Before, Writing
<1>4. AllPaid
  BY DEF Init, AllPaid
<1>5. EntriesAddUp
  <2>1. Unfinished = Entries
    BY DEF Init, Unfinished, InHand, Before, Writing
  <2> QED
    BY <2>1, EntriesFinite, EntriesAssumption DEF Init, EntriesAddUp
<1>6. Reported
  BY DEF Init, Reported
<1> QED
  BY <1>1, <1>2, <1>3, <1>4, <1>5, <1>6 DEF ExactInv

\* An entry goes from the list into one hand and from there nowhere.
LEMMA WorkerOneEach ==
  ASSUME IInv, OneEach, NEW w \in Workers, Worker(w)
  PROVE  OneEach'
<1>1. /\ job \in [Workers -> 0..EntryCount] /\ todo \subseteq Entries /\ 0 \notin Entries
  BY EntriesAssumption DEF IInv, TypeOK, PoolType, Entries
<1>2. CASE Take(w)
  <2>1. PICK e \in todo : todo' = todo \ {e} /\ (job' = job \/ job' = [job EXCEPT ![w] = e])
    BY <1>2 DEF Take
  <2> QED
    BY <1>1, <2>1 DEF OneEach
<1>3. CASE ~Take(w)
  <2>1. todo' = todo /\ (job' = job \/ job' = [job EXCEPT ![w] = 0])
    BY <1>3, WorkerStages DEF GoTo, Leave
  <2> QED
    BY <1>1, <2>1 DEF OneEach
<1> QED
  BY <1>2, <1>3

\* What an entry has been paid grows by what is written.
LEMMA CommitPays ==
  ASSUME IInv, NEW w \in Workers, Commit(w)
  PROVE  /\ Cardinality(paid'[job[w]]) = Cardinality(paid[job[w]]) + Fit(w)
         /\ left'[w] = left[w] - Fit(w) /\ Fit(w) \in Nat
<1> DEFINE new == prev[w] + 1 .. prev[w] + Fit(w)
<1>1. w \in Holding /\ job[w] \in Entries /\ prev[w] \in Nat /\ chunk[w] \in Nat
      /\ Fit(w) \in Nat /\ Fit(w) <= chunk[w]
      /\ left \in [Workers -> Nat] /\ paid \in [Entries -> SUBSET Nat]
  BY AtWork, FitBounds DEF Commit, Holding, IInv, TypeOK, PoolType, OutputType
<1>2. paid'[job[w]] = paid[job[w]] \cup new /\ left'[w] = left[w] - Fit(w)
  BY <1>1 DEF Commit
<1>3. IsFiniteSet(new) /\ Cardinality(new) = Fit(w)
  BY <1>1, TicketCount
<1>4. new \subseteq Tickets(w)
  BY <1>1 DEF Tickets
<1>5. paid[job[w]] \cap new = {}
  BY <1>1, <1>4 DEF IInv, TicketsApart
<1> HIDE DEF new
<1>6. Cardinality(paid[job[w]] \cup new)
        = Cardinality(paid[job[w]]) + Cardinality(new) - Cardinality(paid[job[w]] \cap new)
  BY <1>1, <1>3, PaidFinite, FS_Union
<1>7. Cardinality(paid[job[w]]) \in Nat /\ Cardinality(paid[job[w]] \cap new) = 0
  BY <1>1, <1>5, PaidFinite, FS_EmptySet
<1> QED
  BY <1>1, <1>2, <1>3, <1>6, <1>7

\* A write that does not trip the cap is written whole.
LEMMA WholeUnlessTripped ==
  ASSUME TypeOK, NEW w \in Workers, ~Trips(w)
  PROVE  Fit(w) = chunk[w]
BY LimitsAssumption DEF TypeOK, PoolType, Fit, Trips, Smaller

\* What a step does to the hands: only w's, and its entry stays or is dropped.
LEMMA HandsMove ==
  ASSUME IInv, OneEach, NEW w \in Workers, Worker(w), ~Take(w)
  PROVE  /\ stage[w] # "idle" /\ job[w] \in Entries /\ todo' = todo /\ job[w] \notin todo
         /\ \A v \in Workers : v # w => /\ stage'[v] = stage[v] /\ job'[v] = job[v]
                                        /\ job[v] # job[w]
         /\ stage'[w] # "idle" => job'[w] = job[w]
         /\ stage'[w] \in Stages
<1>1. job \in [Workers -> 0..EntryCount] /\ stage \in [Workers -> Stages]
  BY DEF IInv, TypeOK, PoolType, Stages
<1>2. PICK s \in Stages \ {"idle"} : GoTo(w, s) \/ Leave(w)
  BY WorkerStages
<1>3. stage[w] # "idle" /\ job[w] \in Entries /\ job[w] # 0
  BY WorkerStages, AtWork, EntriesAssumption DEF Entries
<1>4. CASE GoTo(w, s)
  <2>1. stage' = [stage EXCEPT ![w] = s] /\ job' = job /\ todo' = todo
    BY <1>4 DEF GoTo
  <2> QED
    BY <1>1, <1>3, <2>1 DEF OneEach
<1>5. CASE Leave(w)
  <2>1. stage' = [stage EXCEPT ![w] = "idle"] /\ job' = [job EXCEPT ![w] = 0] /\ todo' = todo
    BY <1>5 DEF Leave
  <2> QED
    BY <1>1, <1>3, <2>1 DEF OneEach, Stages
<1> QED
  BY <1>2, <1>4, <1>5

\* A worker that takes an entry is the only one to have it.
LEMMA HandTakes ==
  ASSUME IInv, NEW w \in Workers, Take(w)
  PROVE  /\ stage[w] = "idle" /\ answer = "none"
         /\ UNCHANGED <<opened, paid, left, canceled, chunk, prev, bytes_done,
                        entries_done, entries_skipped, answer, report>>
         /\ \A v \in Workers : v # w => stage'[v] = stage[v] /\ job'[v] = job[v]
         /\ \E e \in todo : /\ e \in Entries /\ todo' = todo \ {e}
                            /\ \/ canceled /\ stage'[w] = "idle"
                               \/ stage'[w] = "look" /\ job'[w] = e
<1>1. /\ job \in [Workers -> 0..EntryCount] /\ stage \in [Workers -> Stages]
      /\ todo \subseteq Entries
  BY DEF IInv, TypeOK, PoolType, Stages
<1>2. stage[w] = "idle" /\ answer = "none"
      /\ UNCHANGED <<opened, paid, left, canceled, chunk, prev, bytes_done,
                     entries_done, entries_skipped, answer, report>>
  BY DEF Take, writeVars, countVars, errorVars, diskVars, callVars
<1>3. PICK e \in todo : /\ todo' = todo \ {e}
                        /\ \/ canceled /\ UNCHANGED <<job, stage>>
                           \/ /\ job' = [job EXCEPT ![w] = e]
                              /\ stage' = [stage EXCEPT ![w] = "look"]
  BY DEF Take
<1>4. \A v \in Workers : v # w => stage'[v] = stage[v] /\ job'[v] = job[v]
  BY <1>1, <1>3
<1>5. (canceled /\ stage'[w] = "idle") \/ (stage'[w] = "look" /\ job'[w] = e)
  BY <1>1, <1>2, <1>3
<1> QED
  BY <1>1, <1>2, <1>3, <1>4, <1>5

\* What each kind of step does to the destination and the flag.
LEMMA OutputMoves ==
  ASSUME IInv, NEW w \in Workers, Worker(w), ~Take(w)
  PROVE  /\ \A e \in Entries : e # job[w] => opened'[e] = opened[e] /\ paid'[e] = paid[e]
         /\ \A v \in Workers : v # w => left'[v] = left[v]
         /\ canceled => canceled'
         /\ \/ /\ stage[w] \in Before \cup Writing /\ stage'[w] = "idle" /\ canceled'
               /\ Fail(w) \/ Commit(w)
            \/ /\ stage[w] \in {"look", "reserve"} /\ stage'[w] \in {"idle", "reserve", "create"}
               /\ opened' = opened /\ paid' = paid
            \/ /\ stage[w] = "create" /\ stage'[w] = "write" /\ Create(w)
               /\ paid' = paid /\ left'[w] = Size[job[w]]
            \/ /\ stage[w] = "create" /\ stage'[w] = "idle" /\ Kind[job[w]] = "link"
               /\ paid' = paid
            \/ /\ stage[w] = "write" /\ stage'[w] = "commit"
               /\ opened' = opened /\ paid' = paid /\ left' = left
            \/ /\ stage[w] = "commit" /\ stage'[w] = "write" /\ Commit(w)
               /\ opened' = opened
            \/ /\ stage[w] = "write" /\ stage'[w] \in {"tick", "idle"} /\ left[w] = 0
               /\ opened' = opened /\ paid' = paid
            \/ /\ stage[w] \in {"tick", "tell"} /\ stage'[w] \in {"tell", "idle"}
               /\ opened' = opened /\ paid' = paid
<1>1. /\ stage \in [Workers -> Stages] /\ opened \in [Entries -> Names \cup {NoName}]
      /\ paid \in [Entries -> SUBSET Nat] /\ left \in [Workers -> Nat]
  BY DEF IInv, TypeOK, PoolType, OutputType, Stages
<1>2. \A s : GoTo(w, s) => stage'[w] = s
  BY <1>1 DEF GoTo
<1>3. Leave(w) => stage'[w] = "idle"
  BY <1>1 DEF Leave
<1>4. CASE Fail(w)
  <2>1. /\ canceled' /\ UNCHANGED <<opened, paid, left>> /\ stage'[w] = "idle"
        /\ stage[w] \in Before \cup Writing
    BY <1>3, <1>4 DEF Fail, SetFirstErr, diskVars, writeVars, Before, Writing
  <2> QED
    BY <1>4, <2>1
<1>5. CASE Skip(w) \/ MakeDirectory(w)
  <2>1. /\ UNCHANGED <<opened, paid, left, canceled>> /\ stage'[w] = "idle" /\ stage[w] = "look"
    BY <1>3, <1>5 DEF Skip, MakeDirectory, errorVars, diskVars, writeVars
  <2> QED
    BY <2>1
<1>6. CASE Look(w)
  <2>1. /\ UNCHANGED <<opened, paid, left>> /\ stage[w] = "look"
        /\ stage'[w] \in {"idle", "reserve", "create"} /\ (canceled' = canceled \/ canceled')
    BY <1>2, <1>3, <1>6 DEF Look, SetFirstErr, errorVars, diskVars, writeVars
  <2> QED
    BY <2>1
<1>7. CASE Reserve(w)
  <2>1. /\ UNCHANGED <<opened, paid, left, canceled>> /\ stage[w] = "reserve"
        /\ stage'[w] = "create"
    BY <1>2, <1>7 DEF Reserve, errorVars, diskVars, writeVars
  <2> QED
    BY <2>1
<1>8. CASE Create(w)
  <2>1. /\ UNCHANGED <<paid, canceled>> /\ stage[w] = "create" /\ stage'[w] = "write"
        /\ opened' = [opened EXCEPT ![job[w]] = out_path[w]]
        /\ left' = [left EXCEPT ![w] = Size[job[w]]]
    BY <1>2, <1>8 DEF Create, errorVars
  <2>2. left'[w] = Size[job[w]] /\ \A v \in Workers : v # w => left'[v] = left[v]
    BY <1>1, <2>1
  <2>3. \A e \in Entries : e # job[w] => opened'[e] = opened[e]
    BY <1>1, <2>1
  <2> QED
    BY <1>8, <2>1, <2>2, <2>3
<1>9. CASE MakeLink(w)
  <2>1. /\ UNCHANGED <<paid, canceled, left>> /\ stage[w] = "create" /\ stage'[w] = "idle"
        /\ Kind[job[w]] = "link"
        /\ opened' = opened \/ opened' = [opened EXCEPT ![job[w]] = out_path[w]]
    BY <1>3, <1>9 DEF MakeLink, errorVars, writeVars
  <2>2. \A e \in Entries : e # job[w] => opened'[e] = opened[e]
    BY <1>1, <2>1
  <2> QED
    BY <2>1, <2>2
<1>10. CASE ReserveBytes(w)
  <2>1. /\ UNCHANGED <<opened, paid, left, canceled>> /\ stage[w] = "write" /\ stage'[w] = "commit"
    BY <1>2, <1>10 DEF ReserveBytes, diskVars, errorVars
  <2> QED
    BY <2>1
<1>11. CASE Commit(w)
  <2>1. /\ opened' = opened /\ stage[w] = "commit"
        /\ \/ stage'[w] = "idle" /\ canceled'
           \/ stage'[w] = "write" /\ canceled' = canceled
    BY <1>2, <1>3, <1>11 DEF Commit, SetFirstErr, diskVars, errorVars
  <2>2. \A e \in Entries : e # job[w] => paid'[e] = paid[e]
    BY <1>1, <1>11 DEF Commit
  <2>3. \A v \in Workers : v # w => left'[v] = left[v]
    BY <1>1, <1>11 DEF Commit
  <2>4. CASE stage'[w] = "idle" /\ canceled'
    BY <1>11, <2>1, <2>2, <2>3, <2>4 DEF Writing
  <2>5. CASE stage'[w] = "write" /\ canceled' = canceled
    BY <1>11, <2>1, <2>2, <2>3, <2>5
  <2> QED
    BY <2>1, <2>4, <2>5
<1>12. CASE Count(w)
  <2>1. /\ UNCHANGED <<opened, paid, left, canceled>> /\ stage[w] = "write" /\ left[w] = 0
        /\ stage'[w] \in {"tick", "idle"}
    BY <1>2, <1>3, <1>12 DEF Count, diskVars, errorVars, writeVars
  <2> QED
    BY <2>1
<1>13. CASE Tick(w)
  <2>1. /\ UNCHANGED <<opened, paid, left, canceled>> /\ stage[w] = "tick"
        /\ stage'[w] \in {"tell", "idle"}
    BY <1>2, <1>3, <1>13 DEF Tick, diskVars, errorVars, writeVars
  <2> QED
    BY <2>1
<1>14. CASE TellHost(w)
  <2>1. /\ UNCHANGED <<opened, paid, left>> /\ stage[w] = "tell" /\ stage'[w] = "idle"
        /\ canceled' = canceled \/ canceled'
    BY <1>3, <1>14 DEF TellHost, diskVars, writeVars
  <2> QED
    BY <2>1
<1> QED
  BY <1>4, <1>5, <1>6, <1>7, <1>8, <1>9, <1>10, <1>11, <1>12, <1>13, <1>14,
     Worker(w), ~Take(w) DEF Worker

\* What is paid and what is left stay the whole of an entry.
LEMMA WorkerBytes ==
  ASSUME IInv, OneEach, BytesAddUp, NEW w \in Workers, Worker(w)
  PROVE  BytesAddUp'
<1>1. /\ todo \subseteq Entries /\ Size \in [Entries -> Nat]
      /\ \A e \in Entries : Cardinality(paid[e]) \in Nat
      /\ left \in [Workers -> Nat]
      /\ \A v \in Workers : stage[v] # "idle" => job[v] \in Entries
  BY AtWork, PaidFinite, EntriesAssumption DEF IInv, TypeOK, PoolType
<1>2. CASE Take(w)
  <2>1. PICK e \in todo : /\ e \in Entries /\ todo' = todo \ {e}
                          /\ stage'[w] = "idle" \/ (stage'[w] = "look" /\ job'[w] = e)
    BY <1>2, HandTakes
  <2>2. /\ UNCHANGED <<opened, paid, left, canceled>> /\ stage[w] = "idle"
        /\ \A v \in Workers : v # w => stage'[v] = stage[v] /\ job'[v] = job[v]
    BY <1>2, HandTakes
  <2>3. UnopenedIsUnpaid'
    <3> SUFFICES ASSUME NEW f \in Entries,
                        f \in todo' \/ \E v \in Workers : stage'[v] \in Before /\ job'[v] = f
                 PROVE  opened[f] = NoName /\ paid[f] = {}
      BY <2>2 DEF UnopenedIsUnpaid
    <3>1. f \in todo \/ \E v \in Workers : stage[v] \in Before /\ job[v] = f
      BY <2>1, <2>2 DEF Before
    <3> QED
      BY <3>1 DEF BytesAddUp, UnopenedIsUnpaid
  <2>4. PaidPlusLeft'
    BY <2>1, <2>2 DEF BytesAddUp, PaidPlusLeft, Writing
  <2>5. NoneUnfinished'
    BY <2>1, <2>2 DEF BytesAddUp, NoneUnfinished, Writing
  <2> QED
    BY <2>3, <2>4, <2>5 DEF BytesAddUp
<1>3. CASE ~Take(w)
  <2>1. /\ stage[w] # "idle" /\ job[w] \in Entries /\ todo' = todo /\ job[w] \notin todo
        /\ \A v \in Workers : v # w => /\ stage'[v] = stage[v] /\ job'[v] = job[v]
                                       /\ job[v] # job[w]
        /\ stage'[w] # "idle" => job'[w] = job[w]
    BY <1>3, HandsMove
  <2>2. /\ \A e \in Entries : e # job[w] => opened'[e] = opened[e] /\ paid'[e] = paid[e]
        /\ \A v \in Workers : v # w => left'[v] = left[v]
        /\ canceled => canceled'
    BY <1>3, OutputMoves
  <2>3. UnopenedIsUnpaid'
    <3> SUFFICES ASSUME NEW e \in Entries,
                        e \in todo' \/ \E v \in Workers : stage'[v] \in Before /\ job'[v] = e
                 PROVE  opened'[e] = NoName /\ paid'[e] = {}
      BY DEF UnopenedIsUnpaid
    <3>1. CASE e # job[w]
      <4>1. e \in todo \/ \E v \in Workers : stage[v] \in Before /\ job[v] = e
        BY <2>1, <3>1 DEF Before
      <4> QED
        BY <2>2, <3>1, <4>1 DEF BytesAddUp, UnopenedIsUnpaid
    <3>2. CASE e = job[w]
      <4>1. stage'[w] \in Before
        BY <2>1, <3>2 DEF Before
      <4>2. stage[w] \in Before /\ opened' = opened /\ paid' = paid
        BY <1>3, <4>1, OutputMoves DEF Before
      <4> QED
        BY <3>2, <4>2 DEF BytesAddUp, UnopenedIsUnpaid
    <3> QED
      BY <3>1, <3>2
  <2>4. PaidPlusLeft'
    <3> SUFFICES ASSUME NEW v \in Workers, stage'[v] \in Writing
                 PROVE  Cardinality(paid'[job'[v]]) + left'[v] = Size[job'[v]]
      BY DEF PaidPlusLeft
    <3>1. CASE v # w
      <4>1. stage[v] \in Writing /\ job'[v] = job[v] /\ job[v] # job[w] /\ left'[v] = left[v]
            /\ job[v] \in Entries
        BY <1>1, <2>1, <2>2, <3>1 DEF Writing
      <4>2. paid'[job[v]] = paid[job[v]]
        BY <2>2, <4>1
      <4>3. Cardinality(paid[job[v]]) + left[v] = Size[job[v]]
        BY <4>1 DEF BytesAddUp, PaidPlusLeft
      <4> QED
        BY <4>1, <4>2, <4>3
    <3>2. CASE v = w
      <4>1. job'[w] = job[w]
        BY <2>1, <3>2 DEF Writing
      <4>2. CASE stage[w] = "create" /\ paid' = paid /\ left'[w] = Size[job[w]]
        <5>1. paid[job[w]] = {}
          BY <2>1, <4>2 DEF BytesAddUp, UnopenedIsUnpaid, Before
        <5>2. Cardinality(paid'[job[w]]) = 0
          BY <4>2, <5>1, FS_EmptySet
        <5> QED
          BY <1>1, <2>1, <3>2, <4>1, <4>2, <5>2
      <4>3. CASE stage[w] = "write" /\ paid' = paid /\ left' = left
        BY <3>2, <4>1, <4>3 DEF BytesAddUp, PaidPlusLeft, Writing
      <4>4. CASE stage[w] = "commit" /\ Commit(w)
        <5>1. /\ Cardinality(paid'[job[w]]) = Cardinality(paid[job[w]]) + Fit(w)
              /\ left'[w] = left[w] - Fit(w) /\ Fit(w) \in Nat
          BY <4>4, CommitPays
        <5>2. Cardinality(paid[job[w]]) + left[w] = Size[job[w]]
          BY <4>4 DEF BytesAddUp, PaidPlusLeft, Writing
        <5>3. left[w] \in Nat /\ Cardinality(paid[job[w]]) \in Nat
          BY <1>1, <2>1
        <5> QED
          BY <3>2, <4>1, <5>1, <5>2, <5>3
      <4> QED
        BY <1>3, <3>2, <4>2, <4>3, <4>4, OutputMoves DEF Writing
    <3> QED
      BY <3>1, <3>2
  <2>5. NoneUnfinished'
    <3> SUFFICES ASSUME ~canceled', NEW e \in Entries, Kind[e] = "file", opened'[e] # NoName,
                        Cardinality(paid'[e]) # Size[e]
                 PROVE  \E v \in Workers : stage'[v] \in Writing /\ job'[v] = e
      BY DEF NoneUnfinished
    <3>1. CASE e # job[w]
      <4>1. PICK v \in Workers : stage[v] \in Writing /\ job[v] = e
        BY <2>2, <3>1 DEF BytesAddUp, NoneUnfinished
      <4>2. stage'[v] \in Writing /\ job'[v] = e
        BY <2>1, <3>1, <4>1
      <4> QED
        BY <4>2
    <3>2. CASE e = job[w]
      <4>1. stage[w] \in Writing => Cardinality(paid[e]) + left[w] = Size[e]
        BY <3>2 DEF BytesAddUp, PaidPlusLeft
      <4>2. stage[w] \in Before => opened[e] = NoName
        BY <3>2 DEF BytesAddUp, UnopenedIsUnpaid
      <4>3. stage[w] \in Writing
            => stage'[w] \in Writing \/ (left[w] = 0 /\ paid' = paid)
        BY <1>3, OutputMoves DEF Writing, Before
      <4>4. stage[w] \in Before => stage'[w] \in Writing \/ opened' = opened
        BY <1>3, <3>2, OutputMoves DEF Writing, Before
      <4>5. stage[w] \in {"tick", "tell"} => opened' = opened /\ paid' = paid
        BY <1>3, OutputMoves DEF Writing, Before
      <4>6. CASE stage[w] \in Before
        BY <2>1, <3>2, <4>2, <4>4, <4>6 DEF Writing
      <4>7. CASE stage[w] \in Writing
        <5>1. ~(left[w] = 0 /\ paid' = paid)
          BY <1>1, <4>1, <4>7
        <5> QED
          BY <2>1, <3>2, <4>3, <4>7, <5>1 DEF Writing
      <4>8. CASE stage[w] \in {"tick", "tell"}
        <5>1. PICK v \in Workers : stage[v] \in Writing /\ job[v] = e
          BY <2>2, <4>5, <4>8 DEF BytesAddUp, NoneUnfinished
        <5> QED
          BY <2>1, <3>2, <4>8, <5>1 DEF Writing
      <4>9. stage[w] \in Before \cup Writing \cup {"tick", "tell"}
        BY <2>1 DEF IInv, TypeOK, PoolType, Before, Writing
      <4> QED
        BY <4>6, <4>7, <4>8, <4>9
    <3> QED
      BY <3>1, <3>2
  <2> QED
    BY <2>3, <2>4, <2>5 DEF BytesAddUp
<1> QED
  BY <1>2, <1>3

\* Unless a worker gives up, no ticket is lost.
LEMMA WorkerPays ==
  ASSUME IInv, OneEach, AllPaid, NEW w \in Workers, Worker(w), ~canceled'
  PROVE  AllPaid'
<1>1. /\ stage \in [Workers -> Stages] /\ bytes_done \in Nat
      /\ prev \in [Workers -> Nat] /\ chunk \in [Workers -> Nat] /\ left \in [Workers -> Nat]
      /\ paid \in [Entries -> SUBSET Nat]
  BY DEF IInv, TypeOK, PoolType, SharedType, OutputType, Stages
<1>2. ~canceled
  <2>1. CASE Take(w)
    BY <2>1, HandTakes
  <2>2. CASE ~Take(w)
    BY <2>2, OutputMoves
  <2> QED
    BY <2>1, <2>2
<1>3. \A t \in 1..bytes_done : \/ \E e \in Entries : t \in paid[e]
                               \/ \E v \in Holding : t \in Tickets(v)
  BY <1>2 DEF AllPaid
<1>4. CASE ~ReserveBytes(w) /\ ~Commit(w)
  <2>1. UNCHANGED <<chunk, prev, bytes_done, paid>>
    BY <1>4, TicketsElsewhere
  <2>2. Holding \subseteq Holding'
    <3>1. CASE Take(w)
      BY <3>1, HandTakes DEF Holding
    <3>2. CASE ~Take(w)
      <4>1. stage[w] # "commit"
        BY <1>4, <3>2, OutputMoves, Worker(w) DEF Worker, Fail, SetFirstErr, Skip,
           MakeDirectory, Look, Reserve, Create, MakeLink, Count, Tick, TellHost
      <4> QED
        BY <3>2, <4>1, HandsMove DEF Holding
    <3> QED
      BY <3>1, <3>2
  <2>3. \A v : Tickets(v)' = Tickets(v)
    BY <2>1 DEF Tickets
  <2> QED
    BY <1>3, <2>1, <2>2, <2>3 DEF AllPaid
<1>5. CASE ReserveBytes(w)
  <2> DEFINE n == Smaller(Buffer, left[w])
  <2>1. n \in Nat /\ bytes_done' = bytes_done + n /\ paid' = paid
    BY <1>1, <1>5, LimitsAssumption DEF ReserveBytes, Smaller
  <2>2. /\ prev' = [prev EXCEPT ![w] = bytes_done] /\ chunk' = [chunk EXCEPT ![w] = n]
        /\ stage' = [stage EXCEPT ![w] = "commit"] /\ stage[w] = "write"
    BY <1>5 DEF ReserveBytes, GoTo
  <2> HIDE DEF n
  <2>3. Tickets(w)' = bytes_done + 1 .. bytes_done + n /\ w \in Holding'
    BY <1>1, <2>2 DEF Tickets, Holding
  <2>4. \A v \in Holding : v \in Holding' /\ Tickets(v)' = Tickets(v)
    BY <1>1, <2>2 DEF Tickets, Holding
  <2> SUFFICES ASSUME NEW t \in 1..bytes_done'
               PROVE  \/ \E e \in Entries : t \in paid'[e]
                      \/ \E v \in Holding' : t \in Tickets(v)'
    BY DEF AllPaid
  <2>5. CASE t \in 1..bytes_done
    BY <1>3, <2>1, <2>4, <2>5
  <2>6. CASE t \notin 1..bytes_done
    <3>1. t \in bytes_done + 1 .. bytes_done + n
      BY <1>1, <2>1, <2>6
    <3> QED
      BY <2>3, <3>1
  <2> QED
    BY <2>5, <2>6
<1>6. CASE Commit(w)
  <2>1. ~Trips(w)
    BY <1>6 DEF Commit, SetFirstErr
  <2>2. Fit(w) = chunk[w]
    BY <2>1, WholeUnlessTripped DEF IInv
  <2>3. /\ UNCHANGED <<prev, chunk, bytes_done>> /\ job[w] \in Entries
        /\ paid' = [paid EXCEPT ![job[w]] = @ \cup (prev[w] + 1 .. prev[w] + Fit(w))]
        /\ \A v \in Workers : v # w => stage'[v] = stage[v]
    BY <1>6, AtWork, HandsMove DEF Commit, Take
  <2>4. paid'[job[w]] = paid[job[w]] \cup Tickets(w)
    BY <1>1, <2>2, <2>3 DEF Tickets
  <2>5. \A e \in Entries : paid[e] \subseteq paid'[e]
    BY <1>1, <2>3
  <2>6. \A v \in Holding : v = w \/ v \in Holding'
    BY <2>3 DEF Holding
  <2>7. \A v : Tickets(v)' = Tickets(v)
    BY <2>3 DEF Tickets
  <2> SUFFICES ASSUME NEW t \in 1..bytes_done
               PROVE  \/ \E e \in Entries : t \in paid'[e]
                      \/ \E v \in Holding' : t \in Tickets(v)
    BY <2>3, <2>7 DEF AllPaid
  <2> QED
    BY <1>3, <2>3, <2>4, <2>5, <2>6
<1> QED
  BY <1>4, <1>5, <1>6

\* An entry that leaves the hands is counted, once; no other step counts.
LEMMA CountMoves ==
  ASSUME IInv, NEW w \in Workers, Worker(w), ~Take(w), ~canceled'
  PROVE  \/ /\ stage[w] \in InHand /\ stage'[w] \notin InHand
            /\ entries_done' + entries_skipped' = entries_done + entries_skipped + 1
         \/ /\ stage[w] \in InHand <=> stage'[w] \in InHand
            /\ entries_done' + entries_skipped' = entries_done + entries_skipped
<1>1. stage \in [Workers -> Stages] /\ entries_done \in Nat /\ entries_skipped \in Nat
  BY DEF IInv, TypeOK, PoolType, SharedType, Stages
<1>2. \A s : GoTo(w, s) => stage'[w] = s
  BY <1>1 DEF GoTo
<1>3. Leave(w) => stage'[w] = "idle"
  BY <1>1 DEF Leave
<1>4. CASE Fail(w)
  BY <1>4 DEF Fail, SetFirstErr
<1>5. CASE Skip(w) \/ MakeDirectory(w)
  <2>1. /\ stage[w] = "look" /\ stage'[w] = "idle"
        /\ \/ entries_done' = entries_done + 1 /\ entries_skipped' = entries_skipped
           \/ entries_done' = entries_done /\ entries_skipped' = entries_skipped + 1
    BY <1>3, <1>5 DEF Skip, MakeDirectory
  <2> QED
    BY <1>1, <2>1 DEF InHand, Before, Writing
<1>6. CASE Look(w)
  <2>1. /\ stage[w] = "look" /\ entries_done' = entries_done
        /\ \/ stage'[w] \in {"create", "reserve"} /\ entries_skipped' = entries_skipped
           \/ stage'[w] = "idle" /\ entries_skipped' = entries_skipped + 1
    BY <1>2, <1>3, <1>6 DEF Look, SetFirstErr
  <2> QED
    BY <1>1, <2>1 DEF InHand, Before, Writing
<1>7. CASE Reserve(w) \/ Create(w) \/ ReserveBytes(w)
  <2>1. /\ stage[w] \in {"reserve", "create", "write"}
        /\ stage'[w] \in {"create", "write", "commit"}
        /\ UNCHANGED <<entries_done, entries_skipped>>
    BY <1>2, <1>7 DEF Reserve, Create, ReserveBytes, countVars
  <2> QED
    BY <1>1, <2>1 DEF InHand, Before, Writing
<1>8. CASE Commit(w)
  <2>1. /\ stage[w] = "commit" /\ stage'[w] = "write"
        /\ UNCHANGED <<entries_done, entries_skipped>>
    BY <1>2, <1>8 DEF Commit, SetFirstErr, countVars
  <2> QED
    BY <1>1, <2>1 DEF InHand, Before, Writing
<1>9. CASE MakeLink(w)
  <2>1. /\ stage[w] = "create" /\ stage'[w] = "idle"
        /\ \/ entries_done' = entries_done + 1 /\ entries_skipped' = entries_skipped
           \/ entries_done' = entries_done /\ entries_skipped' = entries_skipped + 1
    BY <1>3, <1>9 DEF MakeLink
  <2> QED
    BY <1>1, <2>1 DEF InHand, Before, Writing
<1>10. CASE Count(w)
  <2>1. /\ stage[w] = "write" /\ stage'[w] \in {"tick", "idle"}
        /\ entries_done' = entries_done + 1 /\ entries_skipped' = entries_skipped
    BY <1>2, <1>3, <1>10 DEF Count
  <2> QED
    BY <1>1, <2>1 DEF InHand, Before, Writing
<1>11. CASE Tick(w) \/ TellHost(w)
  <2>1. /\ stage[w] \in {"tick", "tell"} /\ stage'[w] \in {"tell", "idle"}
        /\ UNCHANGED <<entries_done, entries_skipped>>
    BY <1>2, <1>3, <1>11 DEF Tick, TellHost, countVars
  <2> QED
    BY <1>1, <2>1 DEF InHand, Before, Writing
<1> QED
  BY <1>4, <1>5, <1>6, <1>7, <1>8, <1>9, <1>10, <1>11, Worker(w), ~Take(w) DEF Worker

\* Unless a worker gives up, every entry is counted or will be.
LEMMA WorkerCounts ==
  ASSUME IInv, OneEach, EntriesAddUp, NEW w \in Workers, Worker(w), ~canceled'
  PROVE  EntriesAddUp'
<1>1. /\ todo \subseteq Entries /\ entries_done \in Nat /\ entries_skipped \in Nat
  BY DEF IInv, TypeOK, PoolType, SharedType
<1>2. IsFiniteSet(Unfinished) /\ Cardinality(Unfinished) \in Nat
  <2>1. Unfinished \subseteq Entries
    BY <1>1 DEF Unfinished
  <2> QED
    BY <2>1, EntriesFinite, FS_Subset, FS_CardinalityType
<1>3. ~canceled => entries_done + entries_skipped + Cardinality(Unfinished) = EntryCount
  BY DEF EntriesAddUp
<1>4. CASE Take(w)
  <2>1. /\ stage[w] = "idle"
        /\ UNCHANGED <<canceled, entries_done, entries_skipped>>
        /\ \A v \in Workers : v # w => stage'[v] = stage[v] /\ job'[v] = job[v]
    BY <1>4, HandTakes
  <2>2. PICK e \in todo : /\ e \in Entries /\ todo' = todo \ {e}
                          /\ stage'[w] = "look" /\ job'[w] = e
    BY <1>4, <2>1, HandTakes
  <2>3. Unfinished' = Unfinished
    BY <2>1, <2>2 DEF Unfinished, InHand, Before, Writing
  <2> QED
    BY <1>3, <2>1, <2>3 DEF EntriesAddUp
<1>5. CASE ~Take(w)
  <2>1. /\ job[w] \in Entries /\ todo' = todo /\ job[w] \notin todo
        /\ \A v \in Workers : v # w => /\ stage'[v] = stage[v] /\ job'[v] = job[v]
                                       /\ job[v] # job[w]
        /\ stage'[w] # "idle" => job'[w] = job[w]
    BY <1>5, HandsMove
  <2>2. ~canceled
    BY <1>5, OutputMoves
  <2>3. CASE /\ stage[w] \in InHand /\ stage'[w] \notin InHand
             /\ entries_done' + entries_skipped' = entries_done + entries_skipped + 1
    <3>1. job[w] \in Unfinished
      BY <2>1, <2>3 DEF Unfinished
    <3>2. Unfinished' = Unfinished \ {job[w]}
      BY <2>1, <2>3 DEF Unfinished
    <3>3. Cardinality(Unfinished') = Cardinality(Unfinished) - 1
      BY <1>2, <3>1, <3>2, FS_RemoveElement
    <3> QED
      BY <1>1, <1>2, <1>3, <2>2, <2>3, <3>3 DEF EntriesAddUp
  <2>4. CASE /\ stage[w] \in InHand <=> stage'[w] \in InHand
             /\ entries_done' + entries_skipped' = entries_done + entries_skipped
    <3>1. Unfinished' = Unfinished
      BY <2>1, <2>4 DEF Unfinished, InHand, Before, Writing
    <3> QED
      BY <1>1, <1>2, <1>3, <2>2, <2>4, <3>1 DEF EntriesAddUp
  <2> QED
    BY <1>5, <2>3, <2>4, CountMoves
<1> QED
  BY <1>4, <1>5

\* When the call has returned no worker moves.
LEMMA NothingAfterOk ==
  ASSUME IInv, Reported, NEW w \in Workers, Worker(w)
  PROVE  answer # "ok" /\ answer' = answer
<1>1. answer' = answer
  BY Worker(w) DEF Worker, Take, Fail, Skip, MakeDirectory, Look, Reserve, Create,
     MakeLink, ReserveBytes, Commit, Count, Tick, TellHost, callVars
<1>2. answer # "ok"
  <2>1. CASE Take(w)
    BY <2>1 DEF Take
  <2>2. CASE ~Take(w)
    BY <2>2, WorkerStages DEF Reported
  <2> QED
    BY <2>1, <2>2
<1> QED
  BY <1>1, <1>2

\* Every step keeps the counts exact.
LEMMA StepExact == ExactInv /\ [Next]_vars => ExactInv'
<1> SUFFICES ASSUME ExactInv, [Next]_vars
             PROVE  ExactInv'
  OBVIOUS
<1>1. IInv'
  BY StepIInv DEF ExactInv
<1>2. ASSUME NEW w \in Workers, Worker(w)
      PROVE  ExactInv'
  <2>1. OneEach' /\ BytesAddUp'
    BY <1>2, WorkerOneEach, WorkerBytes DEF ExactInv
  <2>2. AllPaid'
    <3>1. CASE canceled'
      BY <3>1 DEF AllPaid
    <3>2. CASE ~canceled'
      BY <1>2, <3>2, WorkerPays DEF ExactInv
    <3> QED
      BY <3>1, <3>2
  <2>3. EntriesAddUp'
    <3>1. CASE canceled'
      BY <3>1 DEF EntriesAddUp
    <3>2. CASE ~canceled'
      BY <1>2, <3>2, WorkerCounts DEF ExactInv
    <3> QED
      BY <3>1, <3>2
  <2>4. Reported'
    BY <1>2, NothingAfterOk DEF ExactInv, Reported
  <2> QED
    BY <1>1, <2>1, <2>2, <2>3, <2>4 DEF ExactInv
<1>3. CASE Return
  <2>1. UNCHANGED <<todo, job, stage, opened, paid, left, canceled, chunk, prev,
                    bytes_done, entries_done, entries_skipped>>
    BY <1>3 DEF Return, poolVars, diskVars, writeVars, countVars, errorVars
  <2>2. \A v : Tickets(v)' = Tickets(v)
    BY <2>1 DEF Tickets
  <2>3. OneEach' /\ BytesAddUp' /\ AllPaid' /\ EntriesAddUp'
    BY <2>1, <2>2 DEF ExactInv, OneEach, BytesAddUp, UnopenedIsUnpaid, PaidPlusLeft,
       NoneUnfinished, AllPaid, Holding, EntriesAddUp, Unfinished
  <2>4. Reported'
    BY <1>3, <2>1 DEF Return, Reported
  <2> QED
    BY <1>1, <2>3, <2>4 DEF ExactInv
<1>4. CASE UNCHANGED vars
  <2>1. UNCHANGED <<todo, job, stage, opened, paid, left, canceled, chunk, prev,
                    bytes_done, entries_done, entries_skipped, answer, report>>
    BY <1>4 DEF vars, poolVars, diskVars, writeVars, countVars, errorVars, callVars
  <2>2. \A v : Tickets(v)' = Tickets(v)
    BY <2>1 DEF Tickets
  <2> QED
    BY <1>1, <2>1, <2>2 DEF ExactInv, OneEach, BytesAddUp, UnopenedIsUnpaid,
       PaidPlusLeft, NoneUnfinished, AllPaid, Holding, EntriesAddUp, Unfinished, Reported
<1> QED
  BY [Next]_vars, <1>2, <1>3, <1>4 DEF Next, Returned

\* An Ok report is exact, however the workers raced for the counters: its
\* bytes are the bytes written, each entry is counted once, and no file was
\* left unfinished.
THEOREM SuccessReportIsExact == Spec => []SuccessIsExact
<1>1. ExactInv => SuccessIsExact
  <2> SUFFICES ASSUME ExactInv, answer = "ok"
               PROVE  /\ report.bytes_written = Cardinality(Output)
                      /\ report.entries_extracted + report.entries_skipped = EntryCount
                      /\ \A e \in Entries : Kind[e] = "file" /\ opened[e] # NoName =>
                           Cardinality(paid[e]) = Size[e]
    BY DEF SuccessIsExact
  <2>1. /\ ~canceled /\ todo = {} /\ \A w \in Workers : stage[w] = "idle"
        /\ report = [bytes_written |-> bytes_done, entries_extracted |-> entries_done,
                     entries_skipped |-> entries_skipped]
    BY DEF ExactInv, Reported
  <2>2. bytes_done \in Nat /\ entries_done \in Nat /\ entries_skipped \in Nat
    BY DEF ExactInv, IInv, TypeOK, SharedType
  <2>3. Output = 1..bytes_done
    <3>1. Output \subseteq 1..bytes_done
      BY DEF ExactInv, IInv, PaidOnce, Output
    <3>2. Holding = {}
      BY <2>1 DEF Holding
    <3>3. 1..bytes_done \subseteq Output
      BY <2>1, <3>2 DEF ExactInv, AllPaid, Output
    <3> QED
      BY <3>1, <3>3
  <2>4. Cardinality(1..bytes_done) = bytes_done
    <3>1. 1 \in Int /\ bytes_done \in Int
      BY <2>2
    <3>2. Cardinality(1..bytes_done) = IF 1 > bytes_done THEN 0 ELSE bytes_done - 1 + 1
      BY <3>1, FS_Interval
    <3> QED
      BY <2>2, <3>2
  <2>5. Unfinished = {}
    BY <2>1 DEF Unfinished, InHand, Before, Writing
  <2>6. Cardinality(Unfinished) = 0
    BY <2>5, FS_EmptySet
  <2>7. entries_done + entries_skipped = EntryCount
    BY <2>1, <2>2, <2>6 DEF ExactInv, EntriesAddUp
  <2>8. \A e \in Entries : Kind[e] = "file" /\ opened[e] # NoName =>
          Cardinality(paid[e]) = Size[e]
    BY <2>1 DEF ExactInv, BytesAddUp, NoneUnfinished, Writing
  <2> QED
    BY <2>1, <2>3, <2>4, <2>7, <2>8
<1> QED
  BY <1>1, InitExact, StepExact, PTL DEF Spec

-----------------------------------------------------------------------------
(* Files that were there, and files that are shared.                       *)

\* A file that was there is written to only under keep-both, when every name
\* beside it is taken.
MayTake(q, files) ==
  q \in OnDisk => /\ overwrite = "rename"
                  /\ \A k \in DOMAIN KeepBoth[q] : KeepBoth[q][k] \in files
PathsKept ==
  /\ OnDisk \subseteq disk
  /\ \A w \in Workers : stage[w] = "reserve" => overwrite = "rename"
  /\ overwrite # "always" =>
       /\ \A w \in Workers : stage[w] = "create" => MayTake(out_path[w], disk)
       /\ \A e \in Entries : opened[e] # NoName => opened[e] \in Names /\ MayTake(opened[e], disk)

\* What each kind of step does to the paths.
LEMMA PathMoves ==
  ASSUME IInv, OneEach, NEW w \in Workers, Worker(w), ~Take(w)
  PROVE  /\ overwrite' = overwrite /\ disk \subseteq disk'
         /\ \A v \in Workers : v # w => out_path'[v] = out_path[v]
         /\ \/ /\ stage'[w] \notin {"look", "reserve", "create"}
               /\ opened' = opened /\ disk' = disk
            \/ /\ stage[w] = "look" /\ stage'[w] = "create" /\ opened' = opened /\ disk' = disk
               /\ Kind[job[w]] \in {"file", "link"} /\ out_path'[w] = Target[job[w]]
               /\ Target[job[w]] \notin disk \/ overwrite = "always"
            \/ /\ stage[w] = "look" /\ stage'[w] = "reserve" /\ opened' = opened /\ disk' = disk
               /\ Kind[job[w]] \in {"file", "link"} /\ out_path'[w] = Target[job[w]]
               /\ overwrite = "rename"
            \/ /\ stage[w] = "reserve" /\ stage'[w] = "create" /\ opened' = opened
               /\ out_path'[w] \in Beside(out_path[w]) \ disk
               /\ disk' = disk \cup {out_path'[w]}
            \/ /\ stage[w] = "reserve" /\ stage'[w] = "create" /\ opened' = opened
               /\ disk' = disk /\ out_path'[w] = out_path[w] /\ Beside(out_path[w]) \subseteq disk
            \/ /\ stage[w] = "create" /\ stage'[w] \in {"write", "idle"}
               /\ Kind[job[w]] \in {"file", "link"}
               /\ opened' = [opened EXCEPT ![job[w]] = out_path[w]]
               /\ disk' = disk \cup {out_path[w]}
<1>1. stage \in [Workers -> Stages] /\ out_path \in [Workers -> Names \cup {NoName}]
  BY DEF IInv, TypeOK, PoolType, Stages
<1>2. \A s : GoTo(w, s) => stage'[w] = s
  BY <1>1 DEF GoTo
<1>3. Leave(w) => stage'[w] = "idle"
  BY <1>1 DEF Leave
<1>4. CASE \/ Fail(w) \/ Skip(w) \/ MakeDirectory(w) \/ ReserveBytes(w) \/ Commit(w)
           \/ Count(w) \/ Tick(w) \/ TellHost(w)
  <2>1. UNCHANGED <<out_path, opened, disk, overwrite>>
    BY <1>4 DEF Fail, Skip, MakeDirectory, ReserveBytes, Commit, Count, Tick, TellHost,
       diskVars, callVars
  <2>2. stage'[w] \in {"idle", "commit", "write", "tick", "tell"}
    BY <1>2, <1>3, <1>4 DEF Fail, Skip, MakeDirectory, ReserveBytes, Commit, Count, Tick,
       TellHost
  <2> QED
    BY <2>1, <2>2
<1>5. CASE Look(w)
  <2>1. UNCHANGED <<opened, disk, overwrite>>
        /\ out_path' = [out_path EXCEPT ![w] = Target[job[w]]]
        /\ stage[w] = "look" /\ Kind[job[w]] \in {"file", "link"}
    BY <1>5 DEF Look, diskVars, callVars
  <2>2. out_path'[w] = Target[job[w]] /\ \A v \in Workers : v # w => out_path'[v] = out_path[v]
    BY <1>1, <2>1
  <2>3. \/ stage'[w] = "create" /\ (Target[job[w]] \notin disk \/ overwrite = "always")
        \/ stage'[w] = "reserve" /\ overwrite = "rename"
        \/ stage'[w] = "idle"
    BY <1>2, <1>3, <1>5 DEF Look
  <2> QED
    BY <2>1, <2>2, <2>3
<1>6. CASE Reserve(w)
  <2>1. UNCHANGED <<opened, overwrite>> /\ stage[w] = "reserve" /\ stage'[w] = "create"
    BY <1>2, <1>6 DEF Reserve, callVars
  <2>2. CASE FreeNames(w) = {} /\ UNCHANGED <<out_path, disk>>
    <3>1. Beside(out_path[w]) \subseteq disk
      BY <2>2 DEF FreeNames, Beside
    <3> QED
      BY <2>1, <2>2, <3>1
  <2>3. CASE \E k \in FreeNames(w) :
               /\ out_path' = [out_path EXCEPT ![w] = KeepBoth[out_path[w]][k]]
               /\ disk' = disk \cup {KeepBoth[out_path[w]][k]}
    <3>1. PICK k \in DOMAIN KeepBoth[out_path[w]] :
            /\ KeepBoth[out_path[w]][k] \notin disk
            /\ out_path' = [out_path EXCEPT ![w] = KeepBoth[out_path[w]][k]]
            /\ disk' = disk \cup {KeepBoth[out_path[w]][k]}
      BY <2>3 DEF FreeNames
    <3>2. out_path'[w] = KeepBoth[out_path[w]][k]
          /\ \A v \in Workers : v # w => out_path'[v] = out_path[v]
      BY <1>1, <3>1
    <3>3. out_path'[w] \in Beside(out_path[w])
      BY <3>1, <3>2 DEF Beside
    <3> QED
      BY <2>1, <3>1, <3>2, <3>3
  <2> QED
    BY <1>6, <2>2, <2>3 DEF Reserve
<1>7. CASE Create(w)
  <2>1. /\ UNCHANGED <<out_path, overwrite>> /\ stage[w] = "create" /\ stage'[w] = "write"
        /\ Kind[job[w]] = "file" /\ disk' = disk \cup {out_path[w]}
        /\ opened' = [opened EXCEPT ![job[w]] = out_path[w]]
    BY <1>2, <1>7 DEF Create, callVars
  <2> QED
    BY <2>1
<1>8. CASE MakeLink(w)
  <2>1. /\ UNCHANGED <<out_path, overwrite>> /\ stage[w] = "create" /\ stage'[w] = "idle"
        /\ Kind[job[w]] = "link"
        /\ \/ /\ disk' = disk \cup {out_path[w]}
              /\ opened' = [opened EXCEPT ![job[w]] = out_path[w]]
           \/ UNCHANGED <<disk, opened>>
    BY <1>3, <1>8 DEF MakeLink, callVars
  <2> QED
    BY <2>1
<1> QED
  BY <1>4, <1>5, <1>6, <1>7, <1>8, Worker(w), ~Take(w) DEF Worker

\* No step writes to a file that was there unless it may.
LEMMA WorkerKeeps ==
  ASSUME IInv, OneEach, PathsKept, NEW w \in Workers, Worker(w)
  PROVE  PathsKept'
<1>1. /\ \A v \in Workers : stage[v] # "idle" => job[v] \in Entries
      /\ \A v \in Workers : stage[v] \in {"reserve", "create"} => out_path[v] \in Names
      /\ opened \in [Entries -> Names \cup {NoName}] /\ Target \in [Entries -> Names]
      /\ KeepBoth \in [Names -> Seq(Names)]
  BY AtWork, EntriesAssumption DEF IInv, TypeOK, OutputType, Busy
<1>2. CASE Take(w)
  <2>1. UNCHANGED <<out_path, opened, disk, overwrite>>
    BY <1>2 DEF Take, diskVars, callVars
  <2>2. \A v \in Workers : stage'[v] \in {"reserve", "create"} => stage'[v] = stage[v]
    BY <1>2, HandTakes
  <2> QED
    BY <2>1, <2>2 DEF PathsKept, MayTake
<1>3. CASE ~Take(w)
  <2>1. overwrite' = overwrite /\ disk \subseteq disk'
        /\ \A v \in Workers : v # w => stage'[v] = stage[v] /\ out_path'[v] = out_path[v]
    BY <1>3, PathMoves, HandsMove
  <2>2. \A q : MayTake(q, disk) => MayTake(q, disk')
    BY <2>1 DEF MayTake
  <2>3. OnDisk \subseteq disk'
    BY <2>1 DEF PathsKept
  <2>4. \A v \in Workers : stage'[v] = "reserve" => overwrite' = "rename"
    BY <1>3, <2>1, PathMoves DEF PathsKept
  <2>5. ASSUME overwrite # "always", stage'[w] = "create"
        PROVE  MayTake(out_path'[w], disk')
    <3>1. CASE out_path'[w] \notin disk
      BY <3>1 DEF PathsKept, MayTake
    <3>2. CASE /\ stage[w] = "reserve" /\ out_path'[w] = out_path[w]
               /\ Beside(out_path[w]) \subseteq disk
      BY <1>1, <2>2, <3>2 DEF PathsKept, MayTake, Beside
    <3> QED
      BY <1>3, <2>5, <3>1, <3>2, PathMoves
  <2>6. ASSUME overwrite # "always", NEW e \in Entries, opened'[e] # NoName
        PROVE  opened'[e] \in Names /\ MayTake(opened'[e], disk')
    <3>1. CASE opened'[e] = opened[e]
      <4>1. opened[e] \in Names /\ MayTake(opened[e], disk)
        BY <2>6, <3>1 DEF PathsKept
      <4>2. MayTake(opened[e], disk')
        BY <4>1, <2>1 DEF MayTake
      <4> QED
        BY <3>1, <4>1, <4>2
    <3>2. CASE opened'[e] # opened[e]
      <4>1. stage[w] = "create" /\ opened'[e] = out_path[w]
        BY <1>1, <1>3, <3>2, PathMoves
      <4>2. MayTake(out_path[w], disk) /\ out_path[w] \in Names
        BY <1>1, <2>6, <4>1 DEF PathsKept
      <4> QED
        BY <2>1, <4>1, <4>2 DEF MayTake
    <3> QED
      BY <3>1, <3>2
  <2>7. ASSUME overwrite # "always", NEW v \in Workers, stage'[v] = "create"
        PROVE  MayTake(out_path'[v], disk')
    <3>1. CASE v # w
      BY <2>1, <2>7, <3>1 DEF PathsKept, MayTake
    <3> QED
      BY <2>5, <2>7, <3>1
  <2> QED
    BY <2>1, <2>3, <2>4, <2>6, <2>7 DEF PathsKept, MayTake
<1> QED
  BY <1>2, <1>3

\* Steps that are not a worker's leave the hands and the paths alone.
LEMMA OthersKeepPaths ==
  ASSUME Return \/ UNCHANGED vars
  PROVE  UNCHANGED <<todo, job, stage, out_path, opened, disk, overwrite>>
BY DEF Return, vars, poolVars, diskVars, callVars

KeptInv == IInv /\ OneEach /\ PathsKept

\* At the start no worker has a path.
LEMMA InitKept == Init => KeptInv
BY InitExact DEF Init, ExactInv, KeptInv, PathsKept

\* Every step keeps to the paths the policy allows.
LEMMA StepKept == KeptInv /\ [Next]_vars => KeptInv'
<1> SUFFICES ASSUME KeptInv, [Next]_vars
             PROVE  KeptInv'
  OBVIOUS
<1>1. IInv'
  BY StepIInv DEF KeptInv
<1>2. ASSUME NEW w \in Workers, Worker(w)
      PROVE  KeptInv'
  BY <1>1, <1>2, WorkerOneEach, WorkerKeeps DEF KeptInv
<1>3. CASE Return \/ UNCHANGED vars
  BY <1>1, <1>3, OthersKeepPaths DEF KeptInv, OneEach, PathsKept, MayTake
<1> QED
  BY [Next]_vars, <1>2, <1>3 DEF Next, Returned

\* Whatever the workers race for, a file that was there before the call is
\* overwritten only when the policy says so, or under keep-both when every
\* name beside it is taken.
THEOREM ExistingFilesAreKept == Spec => []ExistingKept
<1>1. KeptInv => ExistingKept
  <2> SUFFICES ASSUME KeptInv, NEW e \in Entries, overwrite # "always", opened[e] \in OnDisk
               PROVE  /\ overwrite = "rename"
                      /\ \A k \in DOMAIN KeepBoth[opened[e]] : KeepBoth[opened[e]][k] \in disk
    BY DEF ExistingKept
  <2>1. opened[e] # NoName
    BY EntriesAssumption
  <2> QED
    BY <2>1 DEF KeptInv, PathsKept, MayTake
<1> QED
  BY <1>1, InitKept, StepKept, PTL DEF Spec

-----------------------------------------------------------------------------
(* Keep-both.                                                              *)

OnlyClaimants ==
  /\ \A w \in Workers : stage[w] \in {"reserve", "create"} => Kind[job[w]] \in {"file", "link"}
  /\ \A w \in Workers : stage[w] = "reserve" => out_path[w] = Target[job[w]]
  /\ \A e \in Entries : opened[e] # NoName => Kind[e] \in {"file", "link"}

\* Entry e is written to q, or is about to be.
Claims(e, q) ==
  \/ opened[e] = q
  \/ \E w \in Workers : job[w] = e /\ stage[w] = "create" /\ out_path[w] = q

\* It has the path to itself, or a name beside it that was made for it.
Rightly(e, q, files) ==
  \/ q = Target[e] /\ (q \in OnDisk => ~Shared(q))
  \/ q \in Beside(Target[e]) \ OnDisk /\ q \in files

ClaimedOnce ==
  /\ \A e \in Entries, q \in Names : Claims(e, q) => Rightly(e, q, disk)
  /\ \A e, f \in Entries, q \in Names : Claims(e, q) /\ Claims(f, q) => e = f

\* Entries that may still take a name beside p.
Coming(p) ==
  {e \in Claimants(p) : \/ e \in todo
                        \/ \E w \in Workers : job[w] = e /\ stage[w] \in {"look", "reserve"}}

\* Each name that was made beside p was made for one of its claimants.
Made(p, files) == (Beside(p) \cap files) \ OnDisk
Room ==
  \A p \in Names : Claimants(p) # {} =>
    Cardinality(Made(p, disk)) + Cardinality(Coming(p)) <= Cardinality(Claimants(p))

ApartInv == KeptInv /\ OnlyClaimants /\ (overwrite = "rename" => ClaimedOnce /\ Room)

\* The names beside a path can be counted.
LEMMA BesideFinite ==
  ASSUME NEW p \in Names
  PROVE  /\ IsFiniteSet(Beside(p)) /\ IsFiniteSet(Claimants(p))
         /\ Beside(p) \subseteq Names
<1>1. KeepBoth[p] \in Seq(Names)
  BY EntriesAssumption
<1>2. DOMAIN KeepBoth[p] = 1..Len(KeepBoth[p]) /\ Len(KeepBoth[p]) \in Nat
  BY <1>1
<1>3. IsFiniteSet(DOMAIN KeepBoth[p])
  BY <1>2, FS_Interval
<1>4. IsFiniteSet(Beside(p))
  <2> DEFINE S == DOMAIN KeepBoth[p]
             F == [k \in S |-> KeepBoth[p][k]]
             T == Beside(p)
  <2>1. F \in Surjection(S, T)
    BY DEF Surjection, Beside
  <2> HIDE DEF F, S, T
  <2>2. IsFiniteSet(S)
    BY <1>3 DEF S
  <2>3. IsFiniteSet(T)
    BY <2>1, <2>2, FS_Surjection
  <2> QED
    BY <2>3 DEF T
<1>5. IsFiniteSet(Claimants(p))
  BY EntriesFinite, FS_Subset DEF Claimants
<1>6. Beside(p) \subseteq Names
  BY <1>1, <1>2 DEF Beside
<1> QED
  BY <1>4, <1>5, <1>6

\* Counts of what is made beside a path and of what may come.
LEMMA RoomCounts ==
  ASSUME NEW p \in Names, NEW files
  PROVE  /\ IsFiniteSet(Made(p, files)) /\ Cardinality(Made(p, files)) \in Nat
         /\ IsFiniteSet(Coming(p)) /\ Cardinality(Coming(p)) \in Nat
         /\ Cardinality(Claimants(p)) \in Nat
<1>1. Made(p, files) \subseteq Beside(p) /\ Coming(p) \subseteq Claimants(p)
  BY DEF Made, Coming
<1> QED
  BY <1>1, BesideFinite, FS_Subset, FS_CardinalityType

\* At the start nothing is claimed.
LEMMA InitApart == Init => ApartInv
<1> SUFFICES ASSUME Init PROVE ApartInv
  OBVIOUS
<1>1. OnlyClaimants
  BY DEF Init, OnlyClaimants
<1>2. ClaimedOnce
  BY EntriesAssumption DEF Init, ClaimedOnce, Claims
<1>3. Room
  <2> SUFFICES ASSUME NEW p \in Names
               PROVE  Cardinality(Made(p, disk)) + Cardinality(Coming(p))
                        <= Cardinality(Claimants(p))
    BY DEF Room
  <2>1. Made(p, disk) = {}
    BY DEF Init, Made
  <2>2. Cardinality(Made(p, disk)) = 0
    BY <2>1, FS_EmptySet
  <2>3. Cardinality(Coming(p)) <= Cardinality(Claimants(p))
    BY BesideFinite, FS_Subset DEF Coming
  <2> QED
    BY <2>2, <2>3, RoomCounts
<1> QED
  BY <1>1, <1>2, <1>3, InitKept DEF ApartInv

\* An entry in a hand that writes is a claimant of its target.
LEMMA HandClaims ==
  ASSUME IInv, NEW w \in Workers, stage[w] # "idle", Kind[job[w]] \in {"file", "link"}
  PROVE  /\ job[w] \in Entries /\ Target[job[w]] \in Names
         /\ job[w] \in Claimants(Target[job[w]])
BY AtWork, EntriesAssumption DEF Claimants

\* Whoever writes or is about to is a claimant.
LEMMA ClaimsClaim ==
  ASSUME IInv, OnlyClaimants, NEW e \in Entries, NEW q \in Names, Claims(e, q)
  PROVE  e \in Claimants(Target[e])
BY EntriesAssumption DEF OnlyClaimants, Claims, Claimants

\* A claim is an old one or that of the worker that just chose its path.
LEMMA ClaimMoves ==
  ASSUME IInv, OneEach, NEW w \in Workers, Worker(w),
         NEW e \in Entries, NEW q \in Names, Claims(e, q)'
  PROVE  \/ Claims(e, q)
         \/ /\ ~Take(w) /\ e = job[w] /\ q = out_path'[w] /\ stage'[w] = "create"
            /\ stage[w] \in {"look", "reserve"}
<1>1. CASE Take(w)
  <2>1. UNCHANGED <<out_path, opened>> /\ stage'[w] # "create"
    BY <1>1, HandTakes DEF Take, diskVars
  <2> QED
    BY <1>1, <2>1, HandTakes DEF Claims
<1>2. CASE ~Take(w)
  <2>1. /\ \A v \in Workers : v # w => /\ stage'[v] = stage[v] /\ job'[v] = job[v]
                                       /\ out_path'[v] = out_path[v]
        /\ stage'[w] # "idle" => job'[w] = job[w]
    BY <1>2, HandsMove, PathMoves
  <2>2. CASE opened'[e] = q
    <3>1. \/ opened'[e] = opened[e]
          \/ e = job[w] /\ stage[w] = "create" /\ opened'[e] = out_path[w]
      <4>1. opened \in [Entries -> Names \cup {NoName}]
        BY DEF IInv, TypeOK, OutputType
      <4>2. \/ opened' = opened
            \/ stage[w] = "create" /\ opened' = [opened EXCEPT ![job[w]] = out_path[w]]
        BY <1>2, PathMoves
      <4> QED
        BY <4>1, <4>2
    <3> QED
      BY <2>2, <3>1 DEF Claims
  <2>3. ASSUME NEW v \in Workers, job'[v] = e, stage'[v] = "create", out_path'[v] = q
        PROVE  \/ Claims(e, q)
               \/ e = job[w] /\ q = out_path'[w] /\ stage'[w] = "create"
                  /\ stage[w] \in {"look", "reserve"}
    <3>1. CASE v # w
      BY <2>1, <2>3, <3>1 DEF Claims
    <3>2. CASE v = w
      <4>1. stage[w] \in {"look", "reserve"}
        BY <1>2, <2>3, <3>2, PathMoves
      <4> QED
        BY <2>1, <2>3, <3>2, <4>1
    <3> QED
      BY <3>1, <3>2
  <2> QED
    BY <1>2, <2>2, <2>3 DEF Claims
<1> QED
  BY <1>1, <1>2

\* Of a path that two entries claim, some name beside it is still free while
\* one of them has not chosen.
LEMMA RoomLeft ==
  ASSUME KeepBothRoom, IInv, Room, NEW p \in Names, NEW e \in Coming(p),
         Beside(p) \subseteq disk
  PROVE  ~Shared(p)
<1> SUFFICES ASSUME Shared(p) PROVE FALSE
  OBVIOUS
<1>1. Claimants(p) # {} /\ e \in Claimants(p)
  BY DEF Coming
<1>2. Made(p, disk) = Beside(p) \ OnDisk
  BY DEF Made
<1>3. Cardinality(Beside(p) \ OnDisk) >= Cardinality(Claimants(p))
  BY DEF KeepBothRoom
<1>4. Cardinality(Made(p, disk)) + Cardinality(Coming(p)) <= Cardinality(Claimants(p))
  BY <1>1 DEF Room
<1>5. Cardinality(Coming(p)) # 0
  BY RoomCounts, FS_EmptySet
<1> QED
  BY <1>2, <1>3, <1>4, <1>5, RoomCounts

\* The path a worker chooses is its entry's by right, and nobody else's.
LEMMA NewClaim ==
  ASSUME KeepBothRoom, ApartInv, overwrite = "rename",
         NEW w \in Workers, Worker(w), ~Take(w),
         stage[w] \in {"look", "reserve"}, stage'[w] = "create", out_path'[w] \in Names
  PROVE  /\ Rightly(job[w], out_path'[w], disk')
         /\ \A f \in Entries : Claims(f, out_path'[w]) => f = job[w]
<1> DEFINE e == job[w]  q == out_path'[w]  p == Target[job[w]]
<1>1. IInv /\ OneEach /\ OnlyClaimants /\ ClaimedOnce /\ Room /\ OnDisk \subseteq disk
  BY DEF ApartInv, KeptInv, PathsKept
<1>2. Kind[e] \in {"file", "link"}
  <2>1. CASE stage[w] = "reserve"
    BY <1>1, <2>1 DEF OnlyClaimants
  <2>2. CASE stage[w] = "look"
    BY <1>1, <2>2, PathMoves
  <2> QED
    BY <2>1, <2>2
<1>3. e \in Entries /\ p \in Names /\ e \in Claimants(p)
  BY <1>1, <1>2, HandClaims
<1>4. \A f \in Entries : Claims(f, q) =>
        f \in Claimants(Target[f]) /\ Target[f] \in Names /\ Rightly(f, q, disk)
  BY <1>1, ClaimsClaim, EntriesAssumption DEF ClaimedOnce
<1>5. \A f \in Entries : Claims(f, q) /\ f # e /\ q = Target[f] /\ q = p => Shared(p)
  BY <1>3, <1>4 DEF Shared
<1>6. \A f \in Entries : Claims(f, q) /\ q \in Beside(Target[f]) /\ q = p => q \in OnDisk
  BY <1>3, <1>4 DEF KeepBothRoom
<1>7. CASE stage[w] = "look"
  <2>1. q = p /\ p \notin disk
    BY <1>1, <1>7, PathMoves
  <2>2. p \notin OnDisk /\ ~Shared(p)
    BY <1>1, <1>3, <2>1 DEF KeepBothRoom
  <2>3. Rightly(e, q, disk')
    BY <2>1, <2>2 DEF Rightly
  <2>4. \A f \in Entries : Claims(f, q) => f = e
    BY <1>4, <1>5, <2>1, <2>2 DEF Rightly
  <2> QED
    BY <2>3, <2>4
<1>8. CASE stage[w] = "reserve"
  <2>1. out_path[w] = p
    BY <1>1, <1>8 DEF OnlyClaimants
  <2>2. CASE q \in Beside(p) \ disk /\ disk' = disk \cup {q}
    <3>1. Rightly(e, q, disk')
      BY <1>1, <2>2 DEF Rightly
    <3>2. \A f \in Entries : ~Claims(f, q)
      <4> SUFFICES ASSUME NEW f \in Entries, Claims(f, q)
                   PROVE  FALSE
        OBVIOUS
      <4>1. q = Target[f]
        BY <1>4, <2>2 DEF Rightly
      <4>2. q \in OnDisk
        BY <1>3, <1>4, <2>2, <4>1 DEF KeepBothRoom
      <4> QED
        BY <1>1, <2>2, <4>2
    <3> QED
      BY <3>1, <3>2
  <2>3. CASE q = p /\ Beside(p) \subseteq disk
    <3>1. e \in Coming(p)
      BY <1>3, <1>8 DEF Coming
    <3>2. ~Shared(p)
      BY <1>1, <1>3, <2>3, <3>1, RoomLeft
    <3>3. Rightly(e, q, disk')
      BY <2>3, <3>2 DEF Rightly
    <3>4. \A f \in Entries : Claims(f, q) => f = e
      BY <1>4, <1>5, <1>6, <2>3, <3>2 DEF Rightly
    <3> QED
      BY <3>3, <3>4
  <2> QED
    BY <1>1, <1>8, <2>1, <2>2, <2>3, PathMoves
<1> QED
  BY <1>7, <1>8

\* Names beside a path are used up only by its own claimants.
LEMMA WorkerRoom ==
  ASSUME KeepBothRoom, ApartInv, overwrite = "rename", NEW w \in Workers, Worker(w)
  PROVE  Room'
<1> SUFFICES ASSUME NEW p \in Names, Claimants(p) # {}
             PROVE  Cardinality(Made(p, disk')) + Cardinality(Coming(p)') <= Cardinality(Claimants(p))
  BY DEF Room
<1>1. IInv /\ OneEach /\ OnlyClaimants /\ ClaimedOnce /\ Room /\ OnDisk \subseteq disk
  BY DEF ApartInv, KeptInv, PathsKept
<1>2. /\ Cardinality(Made(p, disk)) + Cardinality(Coming(p)) <= Cardinality(Claimants(p))
      /\ IsFiniteSet(Made(p, disk)) /\ Cardinality(Made(p, disk)) \in Nat
      /\ IsFiniteSet(Coming(p)) /\ Cardinality(Coming(p)) \in Nat
      /\ Cardinality(Claimants(p)) \in Nat
  BY <1>1, RoomCounts DEF Room
<1>3. Coming(p)' \subseteq Coming(p)
  <2> SUFFICES ASSUME NEW f \in Claimants(p),
                      \/ f \in todo'
                      \/ \E v \in Workers : job'[v] = f /\ stage'[v] \in {"look", "reserve"}
               PROVE  f \in Coming(p)
    BY DEF Coming, Claimants
  <2>1. CASE Take(w)
    BY <1>1, <2>1, HandTakes DEF Coming
  <2>2. CASE ~Take(w)
    <3>1. /\ todo' = todo
          /\ \A v \in Workers : v # w => stage'[v] = stage[v] /\ job'[v] = job[v]
          /\ stage'[w] # "idle" => job'[w] = job[w]
      BY <1>1, <2>2, HandsMove
    <3>2. stage'[w] \in {"look", "reserve"} => stage[w] \in {"look", "reserve"}
      BY <1>1, <2>2, PathMoves
    <3> QED
      BY <3>1, <3>2 DEF Coming
  <2> QED
    BY <2>1, <2>2
<1>4. Cardinality(Coming(p)') \in Nat /\ Cardinality(Coming(p)') <= Cardinality(Coming(p))
  BY <1>2, <1>3, FS_Subset, FS_CardinalityType
<1>5. CASE Made(p, disk') = Made(p, disk)
  BY <1>2, <1>4, <1>5
<1>6. CASE Made(p, disk') # Made(p, disk)
  <2>1. ~Take(w) /\ disk' # disk
    BY <1>6 DEF Take, diskVars
  <2>2. CASE stage[w] = "create" /\ disk' = disk \cup {out_path[w]}
    <3>1. out_path[w] \in Names /\ job[w] \in Entries /\ Claims(job[w], out_path[w])
          /\ Target[job[w]] \in Names
      BY <1>1, <2>2, AtWork, EntriesAssumption DEF IInv, Busy, Claims
    <3>2. Rightly(job[w], out_path[w], disk) /\ job[w] \in Claimants(Target[job[w]])
      BY <1>1, <3>1, ClaimsClaim DEF ClaimedOnce
    <3>3. out_path[w] \in Beside(p) => out_path[w] \in disk \cup OnDisk
      BY <3>1, <3>2 DEF Rightly, KeepBothRoom
    <3>4. Made(p, disk') = Made(p, disk)
      BY <2>2, <3>3 DEF Made
    <3> QED
      BY <1>6, <3>4
  <2>3. CASE /\ stage[w] = "reserve" /\ out_path'[w] \in Beside(out_path[w]) \ disk
             /\ disk' = disk \cup {out_path'[w]} /\ stage'[w] = "create"
    <3>1. Kind[job[w]] \in {"file", "link"} /\ out_path[w] = Target[job[w]]
      BY <1>1, <2>3 DEF OnlyClaimants
    <3>2. job[w] \in Entries /\ out_path[w] \in Names /\ job[w] \in Claimants(out_path[w])
      BY <1>1, <2>3, <3>1, HandClaims
    <3>3. out_path[w] = p
      BY <1>6, <2>3, <3>2 DEF KeepBothRoom, Made
    <3>4. job[w] \in Coming(p)
      BY <2>3, <3>2, <3>3 DEF Coming
    <3>5. job[w] \notin Coming(p)'
      <4>1. todo' = todo /\ job[w] \notin todo
            /\ \A v \in Workers : v # w => job'[v] = job[v] /\ job[v] # job[w]
        BY <1>1, <2>1, HandsMove
      <4> QED
        BY <2>3, <4>1 DEF Coming
    <3>6. Cardinality(Coming(p)') <= Cardinality(Coming(p)) - 1
      <4>1. Coming(p)' \subseteq Coming(p) \ {job[w]}
        BY <1>3, <3>5
      <4>2. /\ Cardinality(Coming(p) \ {job[w]}) = Cardinality(Coming(p)) - 1
            /\ IsFiniteSet(Coming(p) \ {job[w]})
        BY <1>2, <3>4, FS_RemoveElement
      <4>3. Cardinality(Coming(p)') <= Cardinality(Coming(p) \ {job[w]})
        BY <4>1, <4>2, FS_Subset
      <4> QED
        BY <4>2, <4>3
    <3>7. Cardinality(Made(p, disk')) <= Cardinality(Made(p, disk)) + 1
          /\ Cardinality(Made(p, disk')) \in Nat
      <4>1. Made(p, disk') = Made(p, disk) \cup {out_path'[w]} /\ out_path'[w] \notin Made(p, disk)
        BY <1>6, <2>3 DEF Made
      <4>2. ASSUME NEW S, NEW x, IsFiniteSet(S), x \notin S
            PROVE  Cardinality(S \cup {x}) = Cardinality(S) + 1
        BY <4>2, FS_AddElement
      <4>3. Cardinality(Made(p, disk')) = Cardinality(Made(p, disk)) + 1
        BY <1>2, <4>1, <4>2
      <4> QED
        BY <1>2, <4>3
    <3> QED
      BY <1>2, <1>4, <3>6, <3>7
  <2> QED
    BY <1>1, <2>1, <2>2, <2>3, PathMoves
<1> QED
  BY <1>5, <1>6

\* What a worker does to the claims on the shared path.
LEMMA WorkerApart ==
  ASSUME KeepBothRoom, ApartInv, NEW w \in Workers, Worker(w)
  PROVE  OnlyClaimants' /\ (overwrite' = "rename" => ClaimedOnce' /\ Room')
<1>1. /\ IInv /\ OneEach /\ OnlyClaimants /\ OnDisk \subseteq disk
      /\ opened \in [Entries -> Names \cup {NoName}]
  BY DEF ApartInv, KeptInv, PathsKept, IInv, TypeOK, OutputType
<1>2. overwrite' = overwrite /\ disk \subseteq disk'
  <2>1. CASE Take(w)
    BY <2>1 DEF Take, diskVars, callVars
  <2>2. CASE ~Take(w)
    BY <1>1, <2>2, PathMoves
  <2> QED
    BY <2>1, <2>2
<1>3. OnlyClaimants'
  <2>1. CASE Take(w)
    <3>1. UNCHANGED <<out_path, opened>>
          /\ \A v \in Workers : stage'[v] \in {"reserve", "create"} =>
               stage'[v] = stage[v] /\ job'[v] = job[v]
      BY <1>1, <2>1, HandTakes DEF Take, diskVars
    <3> QED
      BY <1>1, <3>1 DEF OnlyClaimants
  <2>2. CASE ~Take(w)
    <3>1. /\ \A v \in Workers : v # w => /\ stage'[v] = stage[v] /\ job'[v] = job[v]
                                         /\ out_path'[v] = out_path[v]
          /\ stage'[w] # "idle" => job'[w] = job[w]
      BY <1>1, <2>2, HandsMove, PathMoves
    <3>2. stage'[w] \in {"reserve", "create"} => Kind[job[w]] \in {"file", "link"}
      BY <1>1, <2>2, PathMoves DEF OnlyClaimants
    <3>3. stage'[w] = "reserve" => out_path'[w] = Target[job[w]]
      BY <1>1, <2>2, PathMoves
    <3>4. \A e \in Entries : opened'[e] # NoName => Kind[e] \in {"file", "link"}
      BY <1>1, <2>2, PathMoves DEF OnlyClaimants
    <3> QED
      BY <1>1, <3>1, <3>2, <3>3, <3>4 DEF OnlyClaimants
  <2> QED
    BY <2>1, <2>2
<1>4. ASSUME overwrite = "rename"
      PROVE  ClaimedOnce'
  <2>1. ClaimedOnce
    BY <1>4 DEF ApartInv
  <2>2. ASSUME NEW e \in Entries, NEW q \in Names, Claims(e, q)', ~Claims(e, q)
        PROVE  /\ e = job[w] /\ Rightly(e, q, disk')
               /\ \A f \in Entries : Claims(f, q) => f = e
    <3>1. /\ ~Take(w) /\ e = job[w] /\ q = out_path'[w] /\ stage'[w] = "create"
          /\ stage[w] \in {"look", "reserve"}
      BY <1>1, <2>2, ClaimMoves
    <3> QED
      BY <1>4, <3>1, NewClaim
  <2>3. \A e \in Entries, q \in Names : Rightly(e, q, disk) => Rightly(e, q, disk')
    BY <1>2 DEF Rightly
  <2>4. \A e \in Entries, q \in Names : Claims(e, q)' => Rightly(e, q, disk')
    BY <2>1, <2>2, <2>3 DEF ClaimedOnce
  <2>5. \A e, f \in Entries, q \in Names : Claims(e, q)' /\ Claims(f, q)' => e = f
    BY <2>1, <2>2 DEF ClaimedOnce
  <2>6. \A e \in Entries, q \in Names : Rightly(e, q, disk)' <=> Rightly(e, q, disk')
    BY DEF Rightly, Shared, Beside, Claimants
  <2> QED
    BY <2>4, <2>5, <2>6 DEF ClaimedOnce
<1> QED
  BY <1>2, <1>3, <1>4, WorkerRoom

\* Every step keeps the claims on the shared path apart.
LEMMA StepApart == ASSUME KeepBothRoom PROVE ApartInv /\ [Next]_vars => ApartInv'
<1> SUFFICES ASSUME ApartInv, [Next]_vars
             PROVE  ApartInv'
  OBVIOUS
<1>1. KeptInv'
  BY StepKept DEF ApartInv
<1>2. ASSUME NEW w \in Workers, Worker(w)
      PROVE  ApartInv'
  BY <1>1, <1>2, WorkerApart DEF ApartInv
<1>3. CASE Return \/ UNCHANGED vars
  <2>1. UNCHANGED <<todo, job, stage, out_path, opened, disk, overwrite>>
    BY <1>3, OthersKeepPaths
  <2>2. OnlyClaimants'
    BY <2>1 DEF ApartInv, OnlyClaimants
  <2>3. \A e, q : Claims(e, q)' <=> Claims(e, q)
    BY <2>1 DEF Claims
  <2>4. \A e, q : Rightly(e, q, disk)' <=> Rightly(e, q, disk)
    BY <2>1 DEF Rightly, Shared, Beside, Claimants
  <2>5. \A p : /\ Coming(p)' = Coming(p) /\ Made(p, disk)' = Made(p, disk)
               /\ Claimants(p)' = Claimants(p)
    BY <2>1 DEF Coming, Made, Beside, Claimants
  <2> QED
    BY <1>1, <2>1, <2>2, <2>3, <2>4, <2>5 DEF ApartInv, ClaimedOnce, Room
<1> QED
  BY [Next]_vars, <1>2, <1>3 DEF Next, Returned

\* Under keep-both no two entries are ever written to one file, however many
\* workers look for a name at the same time: where the paths of the archive
\* leave it room (KeepBothRoom).
THEOREM KeepBothKeepsApart == ASSUME KeepBothRoom PROVE Spec => []KeptApart
<1>1. ApartInv => KeptApart
  <2> SUFFICES ASSUME ApartInv, overwrite = "rename", NEW e \in Entries, NEW f \in Entries,
                      opened[e] = opened[f], opened[e] # NoName
               PROVE  e = f
    BY DEF KeptApart
  <2>1. opened[e] \in Names
    BY DEF ApartInv, KeptInv, IInv, TypeOK, OutputType
  <2> QED
    BY <2>1 DEF ApartInv, ClaimedOnce, Claims
<1>2. Init => ApartInv
  BY InitApart
<1>3. ApartInv /\ [Next]_vars => ApartInv'
  BY StepApart
<1> QED
  BY <1>1, <1>2, <1>3, PTL DEF Spec
=============================================================================
