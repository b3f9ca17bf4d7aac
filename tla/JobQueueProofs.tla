--------------------------- MODULE JobQueueProofs ---------------------------
(***************************************************************************)
(* Proofs about JobQueue, for every set of jobs, every limit and every way *)
(* the dispatcher interleaves with the pool: the slots of the semaphore    *)
(* are conserved, the queue implements the bounded executor, a settled     *)
(* card is frozen and shows the summary, the caller is told the truth, and *)
(* the window of a verb waits for its jobs; and about OutputNames, for any *)
(* number of jobs of any kinds: names are apart, what was delivered is     *)
(* kept, older output is not touched and no name stays reserved.           *)
(***************************************************************************)
EXTENDS JobQueue, OutputNames, FiniteSetTheorems, TLAPS

RunStates == {"idle", "waiting", "working", "summing", "marking", "ended"}

\* The waiters of the semaphore are exactly jobs that wait, each once.
WaitersWait ==
  /\ \A k \in DOMAIN waiters : run[waiters[k]] = "waiting"
  /\ \A k, l \in DOMAIN waiters : waiters[k] = waiters[l] => k = l

SlotInv ==
  /\ run \in [Jobs -> RunStates] /\ waiters \in Seq(Jobs)
  /\ slots \in Nat /\ limit \in 1..MaxSlots
  /\ WaitersWait
  /\ SlotsConserved

\* What the proofs need to know of the operators on sequences.
LEMMA AppendFacts ==
  ASSUME NEW S, NEW s \in Seq(S), NEW e \in S
  PROVE  /\ Append(s, e) \in Seq(S)
         /\ DOMAIN Append(s, e) = DOMAIN s \cup {Len(s) + 1}
         /\ \A k \in DOMAIN s : Append(s, e)[k] = s[k]
         /\ Append(s, e)[Len(s) + 1] = e
         /\ Len(s) + 1 \notin DOMAIN s
  OBVIOUS

\* What is left of a queue once its head is served.
LEMMA TailFacts ==
  ASSUME NEW S, NEW s \in Seq(S), s # <<>>
  PROVE  /\ Tail(s) \in Seq(S)
         /\ Head(s) = s[1] /\ 1 \in DOMAIN s
         /\ \A k \in DOMAIN Tail(s) : k + 1 \in DOMAIN s /\ Tail(s)[k] = s[k + 1] /\ k \in Nat \ {0}
  OBVIOUS

\* Taking one element out keeps the others in their order.
TakeOut(s, k) == SubSeq(s, 1, k - 1) \o SubSeq(s, k + 1, Len(s))

\* What is left of a queue once one waiter gives up.
LEMMA TakeOutFacts ==
  ASSUME NEW S, NEW s \in Seq(S), NEW k \in DOMAIN s
  PROVE  /\ TakeOut(s, k) \in Seq(S)
         /\ DOMAIN TakeOut(s, k) = 1..(Len(s) - 1)
         /\ \A i \in 1..(Len(s) - 1) :
              TakeOut(s, k)[i] = IF i < k THEN s[i] ELSE s[i + 1]
<1>1. k \in 1..Len(s)
  OBVIOUS
<1>2. /\ SubSeq(s, 1, k - 1) \in Seq(S) /\ Len(SubSeq(s, 1, k - 1)) = k - 1
      /\ \A i \in 1..(k - 1) : SubSeq(s, 1, k - 1)[i] = s[i]
  BY <1>1
<1>3. /\ SubSeq(s, k + 1, Len(s)) \in Seq(S)
      /\ Len(SubSeq(s, k + 1, Len(s))) = Len(s) - k
      /\ \A i \in 1..(Len(s) - k) : SubSeq(s, k + 1, Len(s))[i] = s[k + i]
  BY <1>1
<1> DEFINE p == SubSeq(s, 1, k - 1)
           q == SubSeq(s, k + 1, Len(s))
<1>4. /\ p \in Seq(S) /\ Len(p) = k - 1
      /\ \A i \in 1..(k - 1) : p[i] = s[i]
  BY <1>2
<1>5. /\ q \in Seq(S) /\ Len(q) = Len(s) - k
      /\ \A i \in 1..(Len(s) - k) : q[i] = s[k + i]
  BY <1>3
<1>6. TakeOut(s, k) = p \o q
  BY DEF TakeOut
<1> HIDE DEF p, q
<1>7. /\ p \o q \in Seq(S) /\ DOMAIN (p \o q) = 1..(Len(p) + Len(q))
      /\ \A i \in 1..(Len(p) + Len(q)) :
           (p \o q)[i] = IF i <= Len(p) THEN p[i] ELSE q[i - Len(p)]
  <2>1. p \in Seq(S) /\ q \in Seq(S)
    BY <1>4, <1>5
  <2> QED
    BY <2>1
<1>8. Len(s) \in Nat /\ k \in Int /\ Len(p) + Len(q) = Len(s) - 1
  BY <1>1, <1>4, <1>5
<1>9. ASSUME NEW i \in 1..(Len(s) - 1)
      PROVE  (p \o q)[i] = IF i < k THEN s[i] ELSE s[i + 1]
  <2>1. (p \o q)[i] = IF i <= k - 1 THEN p[i] ELSE q[i - (k - 1)]
    BY <1>4, <1>7, <1>8
  <2>2. CASE i < k
    <3>1. i \in 1..(k - 1) /\ i <= k - 1
      BY <1>8, <2>2
    <3>2. (p \o q)[i] = s[i]
      BY <1>4, <2>1, <3>1
    <3> QED
      BY <2>2, <3>2
  <2>3. CASE ~(i < k)
    <3>1. i - (k - 1) \in 1..(Len(s) - k) /\ k + (i - (k - 1)) = i + 1 /\ ~(i <= k - 1)
      BY <1>8, <2>3
    <3>2. q[i - (k - 1)] = s[i + 1]
      BY <1>5, <3>1
    <3> QED
      BY <2>1, <2>3, <3>1, <3>2
  <2> QED
    BY <2>2, <2>3
<1> QED
  BY <1>6, <1>7, <1>8, <1>9

\* A raised limit lets in as many holders as it grew by.
LEMMA RaiseAddsUp ==
  ASSUME NEW a \in Nat, NEW h \in Nat, NEW b \in Int, NEW c \in Int, c > b, a + h = b
  PROVE  a + (c - b) \in Nat /\ (a + (c - b)) + h = c
  OBVIOUS

\* The slots add up at every step.
LEMMA InitSlots == Init => SlotInv
<1> SUFFICES ASSUME Init PROVE SlotInv
  OBVIOUS
<1>1. Holders = {}
  BY DEF Init, Holders
<1>2. Cardinality(Holders) = 0
  BY <1>1, FS_EmptySet
<1> QED
  BY <1>2, QueueAssumption DEF Init, SlotInv, WaitersWait, SlotsConserved, RunStates

\* The jobs that hold a slot can be counted.
LEMMA HoldersFinite == IsFiniteSet(Holders) /\ Cardinality(Holders) \in Nat
<1>1. Holders \subseteq Jobs
  BY DEF Holders
<1> QED
  BY <1>1, QueueAssumption, FS_Subset, FS_CardinalityType

\* What a step does to the pool, seen from the semaphore.
Submitted(j) == /\ run[j] = "idle" /\ run' = [run EXCEPT ![j] = "waiting"]
                /\ waiters' = Append(waiters, j) /\ UNCHANGED <<slots, limit>>
Acquired(j) == /\ run[j] = "waiting" /\ waiters # <<>> /\ Head(waiters) = j /\ slots > 0
               /\ waiters' = Tail(waiters) /\ slots' = slots - 1 /\ UNCHANGED limit
               /\ \E r \in {"working", "marking"} : run' = [run EXCEPT ![j] = r]
GivenUp(j) == /\ run[j] = "waiting" /\ run' = [run EXCEPT ![j] = "ended"]
              /\ \E k \in DOMAIN waiters : /\ waiters[k] = j
                                           /\ waiters' = TakeOut(waiters, k)
              /\ UNCHANGED <<slots, limit>>
Raised == /\ limit' \in 1..MaxSlots /\ limit' > limit /\ slots' = slots + (limit' - limit)
          /\ UNCHANGED <<run, waiters>>
Held(j) == /\ run[j] \in {"working", "summing"} /\ UNCHANGED <<waiters, slots, limit>>
           /\ \E r \in {"summing", "marking"} : run' = [run EXCEPT ![j] = r]
Settled(j) == /\ run[j] = "marking" /\ run' = [run EXCEPT ![j] = "ended"]
              /\ slots' = slots + 1 /\ UNCHANGED <<waiters, limit>>
Elsewhere == UNCHANGED <<run, waiters, slots, limit>>

PoolStep == \/ \E j \in Jobs : \/ Submitted(j) \/ Acquired(j) \/ GivenUp(j)
                               \/ Held(j) \/ Settled(j)
            \/ Raised \/ Elsewhere

\* What each step does to the semaphore, and to nothing else of it.
LEMMA StepsAreKnown == ASSUME SlotInv, [Next]_vars PROVE PoolStep
<1> USE DEF runVars, semVars, tickVars, cardVars, callerVars
<1>1. CASE UNCHANGED vars
  BY <1>1 DEF vars, PoolStep, Elsewhere
<1>2. ASSUME NEW j \in Jobs, Submit(j) PROVE PoolStep
  BY <1>2 DEF Submit, PoolStep, Submitted
<1>3. ASSUME NEW j \in Jobs, Acquire(j) PROVE PoolStep
  BY <1>3 DEF Acquire, PoolStep, Acquired
<1>4. ASSUME NEW j \in Jobs, WaitCancelled(j) PROVE PoolStep
  BY <1>4 DEF WaitCancelled, PoolStep, GivenUp, TakeOut
<1>5. ASSUME NEW j \in Jobs, WorkEnds(j) PROVE PoolStep
  <2>1. CASE WorkSucceeds(j)
    BY <2>1 DEF WorkSucceeds, PoolStep, Held
  <2>2. CASE Summarised(j)
    BY <2>2 DEF Summarised, PoolStep, Held
  <2>3. CASE WorkFails(j)
    BY <2>3 DEF WorkFails, PoolStep, Held
  <2> QED
    BY <1>5, <2>1, <2>2, <2>3 DEF WorkEnds
<1>6. ASSUME NEW j \in Jobs, Settle(j) PROVE PoolStep
  BY <1>6 DEF Settle, PoolStep, Settled
<1>7. ASSUME RaiseLimit PROVE PoolStep
  <2>1. PICK n \in {Clamp(m) : m \in Limits} :
          n > limit /\ limit' = n /\ slots' = slots + (n - limit)
    BY <1>7 DEF RaiseLimit
  <2>2. n \in 1..MaxSlots
    BY <2>1, QueueAssumption DEF Clamp
  <2> QED
    BY <1>7, <2>1, <2>2 DEF RaiseLimit, PoolStep, Raised
<1>8. ASSUME Dispatcher PROVE Elsewhere
  BY <1>8 DEF Dispatcher, ShowAdded, ShowRunning, ShowTick, ShowSummary,
              ShowTerminal, ShowGhost, ShowRemoved, Elsewhere
<1>9. ASSUME NEW j \in Jobs, Report(j) \/ Deliver(j) \/ RequestCancel(j)
      PROVE  Elsewhere
  BY <1>9 DEF Report, Deliver, RequestCancel, Elsewhere
<1>10. ASSUME NEW c \in Cards, Remove(c) PROVE Elsewhere
  BY <1>10 DEF Remove, Elsewhere
<1>11. ASSUME NEW g \in Ghosts, ReportError(g) PROVE Elsewhere
  BY <1>11 DEF ReportError, Elsewhere
<1>12. Idle => Elsewhere
  BY DEF Idle, vars, Elsewhere
<1>13. Elsewhere => PoolStep
  BY DEF PoolStep
<1> QED
  BY <1>1, <1>2, <1>3, <1>4, <1>5, <1>6, <1>7, <1>8, <1>9, <1>10, <1>11, <1>12,
     <1>13 DEF Next, Pool

\* Who holds a slot after one job has moved.
LEMMA HoldersAfter ==
  ASSUME run \in [Jobs -> RunStates], NEW j \in Jobs, NEW r \in RunStates,
         run' = [run EXCEPT ![j] = r]
  PROVE  Holders' = IF r \in {"working", "summing", "marking"} THEN Holders \cup {j}
                    ELSE Holders \ {j}
  BY DEF Holders

\* Every step keeps the slots: acquire and settle move one, the rest none.
LEMMA NextSlots == ASSUME SlotInv, [Next]_vars PROVE SlotInv'
<1> USE DEF SlotInv
<1>0. IsFiniteSet(Holders) /\ Cardinality(Holders) \in Nat /\ MaxSlots \in Nat
  BY HoldersFinite, QueueAssumption
<1>1. ASSUME NEW j \in Jobs, Submitted(j) PROVE SlotInv'
  <2>1. Holders' = Holders
    <3>1. Holders' = Holders \ {j} /\ j \notin Holders
      BY <1>1, HoldersAfter DEF Submitted, Holders, RunStates
    <3> QED BY <3>1
  <2>2. waiters' \in Seq(Jobs) /\ WaitersWait'
    BY <1>1, AppendFacts DEF Submitted, WaitersWait
  <2> QED
    BY <1>1, <2>1, <2>2 DEF Submitted, SlotsConserved, RunStates
<1>2. ASSUME NEW j \in Jobs, Acquired(j) PROVE SlotInv'
  <2>1. Holders' = Holders \cup {j} /\ j \notin Holders
    BY <1>2, HoldersAfter DEF Acquired, Holders, RunStates
  <2>2. Cardinality(Holders') = Cardinality(Holders) + 1
    BY <1>0, <2>1, FS_AddElement
  <2>3. waiters' \in Seq(Jobs) /\ WaitersWait'
    BY <1>2, TailFacts DEF Acquired, WaitersWait
  <2>4. run' \in [Jobs -> RunStates]
    BY <1>2 DEF Acquired, RunStates
  <2> QED
    BY <1>0, <1>2, <2>2, <2>3, <2>4 DEF Acquired, SlotsConserved
<1>3. ASSUME NEW j \in Jobs, GivenUp(j) PROVE SlotInv'
  <2>1. Holders' = Holders
    <3>1. Holders' = Holders \ {j} /\ j \notin Holders
      BY <1>3, HoldersAfter DEF GivenUp, Holders, RunStates
    <3> QED BY <3>1
  <2>2. PICK k \in DOMAIN waiters : waiters[k] = j /\ waiters' = TakeOut(waiters, k)
    BY <1>3 DEF GivenUp
  <2>3. /\ waiters' \in Seq(Jobs) /\ DOMAIN waiters' = 1..(Len(waiters) - 1)
        /\ \A i \in DOMAIN waiters' :
             waiters'[i] = IF i < k THEN waiters[i] ELSE waiters[i + 1]
    BY <2>2, TakeOutFacts
  <2>4. DOMAIN waiters = 1..Len(waiters) /\ Len(waiters) \in Nat
    OBVIOUS
  <2>5. WaitersWait'
    <3> DEFINE at(i) == IF i < k THEN i ELSE i + 1
    <3>1. ASSUME NEW i \in DOMAIN waiters'
          PROVE  /\ at(i) \in DOMAIN waiters /\ at(i) # k
                 /\ waiters'[i] = waiters[at(i)]
      BY <2>2, <2>3, <2>4
    <3>2. \A i, l \in DOMAIN waiters' : at(i) = at(l) => i = l
      BY <2>2, <2>3, <2>4
    <3>3. ASSUME NEW i \in DOMAIN waiters' PROVE run'[waiters'[i]] = "waiting"
      <4>1. waiters[at(i)] # j /\ run[waiters[at(i)]] = "waiting"
        BY <2>2, <3>1 DEF WaitersWait
      <4>2. waiters[at(i)] \in Jobs
        BY <3>1
      <4> QED
        BY <1>3, <3>1, <4>1, <4>2 DEF GivenUp
    <3>4. ASSUME NEW i \in DOMAIN waiters', NEW l \in DOMAIN waiters',
                 waiters'[i] = waiters'[l]
          PROVE  i = l
      <4> HIDE DEF at
      <4>1. at(i) = at(l)
        BY <3>1, <3>4 DEF WaitersWait
      <4> QED
        BY <3>2, <4>1
    <3> QED
      BY <3>3, <3>4 DEF WaitersWait
  <2>6. run' \in [Jobs -> RunStates]
    BY <1>3 DEF GivenUp, RunStates
  <2> QED
    BY <1>3, <2>1, <2>3, <2>5, <2>6 DEF GivenUp, SlotsConserved
<1>4. ASSUME NEW j \in Jobs, Held(j) PROVE SlotInv'
  <2>1. Holders' = Holders
    <3>1. Holders' = Holders \cup {j} /\ j \in Holders
      BY <1>4, HoldersAfter DEF Held, Holders, RunStates
    <3> QED BY <3>1
  <2>2. WaitersWait' /\ run' \in [Jobs -> RunStates]
    BY <1>4 DEF Held, WaitersWait, RunStates
  <2> QED
    BY <1>4, <2>1, <2>2 DEF Held, SlotsConserved
<1>5. ASSUME NEW j \in Jobs, Settled(j) PROVE SlotInv'
  <2>1. Holders' = Holders \ {j} /\ j \in Holders
    BY <1>5, HoldersAfter DEF Settled, Holders, RunStates
  <2>2. Cardinality(Holders') = Cardinality(Holders) - 1
    BY <1>0, <2>1, FS_RemoveElement
  <2>3. WaitersWait' /\ run' \in [Jobs -> RunStates]
    BY <1>5 DEF Settled, WaitersWait, RunStates
  <2> QED
    BY <1>0, <1>5, <2>2, <2>3 DEF Settled, SlotsConserved
<1>6. ASSUME Raised PROVE SlotInv'
  <2>1. Holders' = Holders /\ WaitersWait'
    BY <1>6 DEF Raised, Holders, WaitersWait
  <2>2. slots' \in Nat /\ slots' + Cardinality(Holders) = limit' /\ limit' <= MaxSlots
    <3>1. /\ slots \in Nat /\ limit \in Int /\ limit' \in Int
          /\ slots + Cardinality(Holders) = limit
      BY <1>0, <1>6 DEF Raised, SlotsConserved
    <3>2. limit' > limit /\ slots' = slots + (limit' - limit) /\ limit' \in 1..MaxSlots
      BY <1>6 DEF Raised
    <3> HIDE DEF SlotInv
    <3>3. /\ slots + (limit' - limit) \in Nat
          /\ (slots + (limit' - limit)) + Cardinality(Holders) = limit'
      BY <1>0, <3>1, <3>2, RaiseAddsUp
    <3> QED
      BY <1>0, <3>2, <3>3
  <2>3. Cardinality(Holders)' = Cardinality(Holders)
    BY <2>1
  <2> QED
    BY <1>6, <2>1, <2>2, <2>3 DEF Raised, SlotsConserved
<1>7. ASSUME Elsewhere PROVE SlotInv'
  <2>1. Holders' = Holders /\ WaitersWait'
    BY <1>7 DEF Elsewhere, Holders, WaitersWait
  <2> QED
    BY <1>7, <2>1 DEF Elsewhere, SlotsConserved
<1> QED
  BY <1>1, <1>2, <1>3, <1>4, <1>5, <1>6, <1>7, StepsAreKnown DEF PoolStep

\* Every reachable state keeps the account of the semaphore (SlotInv).
THEOREM SlotInvariant == Spec => []SlotInv
<1>1. Init => SlotInv
  BY InitSlots
<1>2. SlotInv /\ [Next]_vars => SlotInv'
  BY NextSlots
<1> QED
  BY <1>1, <1>2, PTL DEF Spec

\* No slot is lost or invented, so never more than `limit` jobs hold one
\* (JobQueue.cs, the finally of RunAsync and TrySetConcurrentLimit).
THEOREM SlotsAreConserved == Spec => []SlotsConserved
<1>1. SlotInv => SlotsConserved
  BY DEF SlotInv
<1> QED
  BY <1>1, SlotInvariant, PTL

-----------------------------------------------------------------------------
\* The empty queue is the empty executor.
LEMMA InitMaps == Init => Abstract!AbsInit
  BY DEF Init, Abstract!AbsInit, Holders

\* Every step of the queue is a step of the executor or leaves it alone.
LEMMA StepMaps == ASSUME SlotInv, [Next]_vars
                  PROVE  [Abstract!AbsNext]_(Abstract!absVars)
<1> DEFINE Ended == {j \in Jobs : run[j] = "ended"}
<1> USE DEF SlotInv
<1>0. IsFiniteSet(Holders) /\ Cardinality(Holders) \in Nat /\ MaxSlots \in Nat
  BY HoldersFinite, QueueAssumption
<1>1. ASSUME NEW j \in Jobs, Submitted(j) PROVE Abstract!AbsSubmit
  <2>1. Holders' = Holders /\ Ended' = Ended
    BY <1>1 DEF Submitted, Holders
  <2>2. j \notin Holders /\ j \notin Ended /\ \A k \in DOMAIN waiters : waiters[k] # j
    BY <1>1 DEF Submitted, Holders, WaitersWait
  <2>3. j \in Jobs \ Abstract!Known
    BY <2>2 DEF Abstract!Known
  <2> QED
    BY <1>1, <2>1, <2>3 DEF Submitted, Abstract!AbsSubmit
<1>2. ASSUME NEW j \in Jobs, Acquired(j) PROVE Abstract!AbsStart
  <2>1. Holders' = Holders \cup {Head(waiters)} /\ Ended' = Ended
    BY <1>2 DEF Acquired, Holders
  <2>2. Cardinality(Holders) < limit
    BY <1>0, <1>2 DEF Acquired, SlotsConserved
  <2>3. waiters # <<>> /\ waiters' = Tail(waiters) /\ limit' = limit
    BY <1>2 DEF Acquired
  <2>4. Abstract!Cardinality(Holders) = Cardinality(Holders)
    BY DEF Cardinality, Abstract!Cardinality
  <2> QED
    BY <2>1, <2>2, <2>3, <2>4 DEF Abstract!AbsStart
<1>3. ASSUME NEW j \in Jobs, GivenUp(j) PROVE Abstract!AbsGiveUp
  <2>1. Holders' = Holders /\ Ended' = Ended \cup {j}
    BY <1>3 DEF GivenUp, Holders
  <2> QED
    BY <1>3, <2>1 DEF GivenUp, TakeOut, Abstract!AbsGiveUp
<1>4. ASSUME NEW j \in Jobs, Held(j) PROVE UNCHANGED Abstract!absVars
  <2>1. Holders' = Holders /\ Ended' = Ended
    BY <1>4 DEF Held, Holders
  <2> QED
    BY <1>4, <2>1 DEF Held, Abstract!absVars
<1>5. ASSUME NEW j \in Jobs, Settled(j) PROVE Abstract!AbsEnd
  <2>1. Holders' = Holders \ {j} /\ Ended' = Ended \cup {j} /\ j \in Holders
    BY <1>5 DEF Settled, Holders
  <2> QED
    BY <1>5, <2>1 DEF Settled, Abstract!AbsEnd
<1>6. ASSUME Raised PROVE Abstract!AbsRaise
  <2>1. Holders' = Holders /\ Ended' = Ended
    BY <1>6 DEF Raised, Holders
  <2> QED
    BY <1>0, <1>6, <2>1 DEF Raised, Abstract!AbsRaise
<1>7. ASSUME Elsewhere PROVE UNCHANGED Abstract!absVars
  BY <1>7 DEF Elsewhere, Holders, Abstract!absVars
<1> QED
  BY <1>1, <1>2, <1>3, <1>4, <1>5, <1>6, <1>7, StepsAreKnown
     DEF PoolStep, Abstract!AbsNext

\* The queue is a bounded first-come-first-served executor: whatever a
\* history of the queue does, BoundedExecutor allows (JobQueue.cs Submit,
\* RunAsync and WaitForSlotAsync).
THEOREM QueueImplementsExecutor == Spec => ImplementsExecutor
<1>1. Init => Abstract!AbsInit
  BY InitMaps
<1>2. SlotInv /\ [Next]_vars => [Abstract!AbsNext]_(Abstract!absVars)
  BY StepMaps
<1> QED
  BY <1>1, <1>2, SlotInvariant, PTL DEF Spec, ImplementsExecutor, Abstract!AbsSpec

-----------------------------------------------------------------------------
(* The cards: what the closures in the dispatcher's queue may still do.    *)

\* Which closures can be waiting for the dispatcher, by how far their job is.
ClosuresFit ==
  \A k \in DOMAIN ui : LET j == ui[k].job  op == ui[k].op IN
    /\ op = "ghost" => j \in Ghosts
    /\ op = "remove" => state[j] \in Terminal
    /\ op \in {"add", "running", "tick", "summary"} \cup Terminal => j \in Jobs
    /\ op = "running" => /\ run[j] \in {"working", "summing", "marking", "ended"}
                         /\ state[j] \notin Terminal
    /\ op = "summary" => run[j] = "summing" /\ SummaryOnUi /\ ui[k].p = 0
    /\ op \in Terminal => run[j] = "ended" /\ op = outcome[j] /\ state[j] \notin Terminal

\* A job's running comes before its summary and its end, and it ends once.
ClosuresOrdered ==
  \A k, l \in DOMAIN ui : ui[k].job = ui[l].job =>
    /\ ui[k].op \in Terminal /\ ui[l].op \in Terminal => k = l
    /\ ui[k].op = "running" /\ ui[l].op \in {"summary"} \cup Terminal => k < l

\* A job has an outcome from when its work is over, and its card shows that.
Outcomes ==
  \A j \in Jobs :
    /\ run[j] \in {"idle", "waiting", "working", "summing"} => outcome[j] = "none"
    /\ run[j] \in {"marking", "ended"} => outcome[j] \in Terminal
    /\ state[j] \in Terminal => run[j] = "ended" /\ state[j] = outcome[j]

\* Only a card that has settled loses its token source.
GoneIsOver == \A c \in Cards : cts[c] = "gone" => state[c] \in Terminal

CardInv == SlotInv /\ TypeOK /\ ClosuresFit /\ ClosuresOrdered /\ Outcomes /\ GoneIsOver

\* The queue of the dispatcher after a closure was posted.
LEMMA QueueAppended ==
  ASSUME ui \in Seq(Closures), NEW c \in Closures, ui' = Append(ui, c)
  PROVE  /\ ui' \in Seq(Closures)
         /\ \A k \in DOMAIN ui' : \/ k \in DOMAIN ui /\ ui'[k] = ui[k]
                                  \/ k = Len(ui) + 1 /\ ui'[k] = c
         /\ \A k \in DOMAIN ui : k \in Nat /\ k < Len(ui) + 1 /\ ui[k] \in Closures
         /\ Len(ui) + 1 \in DOMAIN ui' /\ ui'[Len(ui) + 1] = c
  OBVIOUS

\* The queue of the dispatcher after its head was run.
LEMMA QueueServed ==
  ASSUME ui \in Seq(Closures), ui # <<>>, ui' = Tail(ui)
  PROVE  /\ ui' \in Seq(Closures) /\ 1 \in DOMAIN ui /\ Head(ui) = ui[1] /\ ui[1] \in Closures
         /\ \A k \in DOMAIN ui' : /\ k \in Nat /\ k + 1 \in DOMAIN ui /\ k + 1 # 1
                                  /\ ui'[k] = ui[k + 1] /\ ui[k + 1] \in Closures
                                  /\ 1 < k + 1
  OBVIOUS

\* At the start no closure is posted and no job is over.
LEMMA InitCards == Init => CardInv
<1> SUFFICES ASSUME Init PROVE CardInv
  OBVIOUS
<1>1. TypeOK
  <2>1. PoolType
    BY InitSlots, QueueAssumption DEF Init, PoolType, Cards, SlotInv
  <2>2. CardType
    <3>1. ui \in Seq(Closures)
      BY DEF Init
    <3>2. 0 \in 0..Full /\ 0 \in Nat /\ 0 \in Int
      BY QueueAssumption
    <3>3. /\ state \in [Cards -> Active \cup Terminal] /\ progress \in [Cards -> 0..Full]
          /\ text \in [Cards -> {"none", "starting", "percent", "summary", "cancelled", "error"}]
          /\ settled \in [Cards -> Nat] /\ awaited \in [Cards -> {"pending"} \cup Terminal]
      BY <3>2 DEF Init, Active
    <3> QED
      BY <3>1, <3>2, <3>3 DEF Init, CardType
  <2> QED
    BY <2>1, <2>2 DEF TypeOK
<1>2. ClosuresFit /\ ClosuresOrdered
  BY DEF Init, ClosuresFit, ClosuresOrdered
<1>3. Outcomes /\ GoneIsOver
  BY DEF Init, Outcomes, GoneIsOver, Terminal, Cards
<1> QED
  BY <1>1, <1>2, <1>3, InitSlots DEF CardInv

\* What the lemmas below use of the types.
LEMMA CardTypes ==
  ASSUME TypeOK
  PROVE  /\ run \in [Jobs -> RunStates] /\ outcome \in [Jobs -> {"none", "broken"} \cup Terminal]
         /\ ui \in Seq(Closures) /\ state \in [Cards -> Active \cup Terminal]
         /\ cts \in [Cards -> {"none", "live", "cancelled", "gone"}]
         /\ Jobs \subseteq Cards /\ Ghosts \subseteq Cards /\ Jobs \cap Ghosts = {}
BY QueueAssumption DEF TypeOK, PoolType, CardType, RunStates, Cards

\* A closure of job j is posted while j moves on; no other job moves.
LEMMA Posting ==
  ASSUME CardInv, NEW j \in Jobs, NEW r \in RunStates, NEW o \in {"none"} \cup Terminal,
         NEW op \in {"add", "running", "tick", "summary"} \cup Terminal, NEW p \in 0..Full,
         ui' = Append(ui, [op |-> op, job |-> j, p |-> p]),
         run' = [run EXCEPT ![j] = r], outcome' = [outcome EXCEPT ![j] = o],
         UNCHANGED <<state, cts>>,
         r \in {"idle", "waiting", "working", "summing"} => o = "none",
         r \in {"marking", "ended"} => o \in Terminal,
         state[j] \in Terminal => op \in {"add", "tick"} /\ r = "ended" /\ o = outcome[j],
         run[j] = "ended" => r = "ended" /\ o = outcome[j] /\ op \in {"add", "tick"},
         run[j] \in {"working", "summing", "marking"} =>
           /\ r \in {"working", "summing", "marking", "ended"} /\ op # "running",
         run[j] = "summing" => r = "summing",
         op = "running" => r = "working" /\ run[j] \in {"idle", "waiting"},
         op = "summary" => r = "summing" /\ SummaryOnUi /\ p = 0,
         op \in Terminal => r = "ended" /\ op = o
  PROVE  ClosuresFit' /\ ClosuresOrdered' /\ Outcomes' /\ GoneIsOver'
<1> DEFINE c == [op |-> op, job |-> j, p |-> p]
<1>1. /\ run \in [Jobs -> RunStates] /\ outcome \in [Jobs -> {"none", "broken"} \cup Terminal]
      /\ ui \in Seq(Closures) /\ Jobs \subseteq Cards
      /\ ClosuresFit /\ ClosuresOrdered /\ Outcomes /\ GoneIsOver
  BY CardTypes DEF CardInv
<1>2. c \in Closures /\ c.op = op /\ c.job = j /\ c.p = p
  BY <1>1 DEF Closures
<1> HIDE DEF c
<1>3. /\ \A k \in DOMAIN ui' : \/ k \in DOMAIN ui /\ ui'[k] = ui[k]
                               \/ k = Len(ui) + 1 /\ ui'[k] = c
      /\ \A k \in DOMAIN ui : k \in Nat /\ k < Len(ui) + 1
  BY <1>1, <1>2, QueueAppended DEF c
<1>4. /\ run'[j] = r /\ outcome'[j] = o
      /\ \A i \in Jobs : i # j => run'[i] = run[i] /\ outcome'[i] = outcome[i]
  BY <1>1
<1>5. ClosuresFit'
  <2> SUFFICES ASSUME NEW k \in DOMAIN ui'
               PROVE  LET i == ui'[k].job  q == ui'[k].op IN
                      /\ q = "ghost" => i \in Ghosts
                      /\ q = "remove" => state[i] \in Terminal
                      /\ q \in {"add", "running", "tick", "summary"} \cup Terminal => i \in Jobs
                      /\ q = "running" => /\ run'[i] \in {"working", "summing", "marking", "ended"}
                                          /\ state[i] \notin Terminal
                      /\ q = "summary" => run'[i] = "summing" /\ SummaryOnUi /\ ui'[k].p = 0
                      /\ q \in Terminal => run'[i] = "ended" /\ q = outcome'[i] /\ state[i] \notin Terminal
    BY DEF ClosuresFit
  <2>1. CASE k \in DOMAIN ui /\ ui'[k] = ui[k]
    BY <1>1, <1>4, <2>1 DEF ClosuresFit, Terminal
  <2>2. CASE ui'[k] = c
    BY <1>1, <1>2, <1>4, <2>2 DEF Terminal, Outcomes
  <2> QED
    BY <1>3, <2>1, <2>2
<1>6. ClosuresOrdered'
  <2> SUFFICES ASSUME NEW k \in DOMAIN ui', NEW l \in DOMAIN ui', ui'[k].job = ui'[l].job
               PROVE  /\ ui'[k].op \in Terminal /\ ui'[l].op \in Terminal => k = l
                      /\ ui'[k].op = "running" /\ ui'[l].op \in {"summary"} \cup Terminal => k < l
    BY DEF ClosuresOrdered
  <2>1. CASE ui'[k] = ui[k] /\ k \in DOMAIN ui /\ ui'[l] = ui[l] /\ l \in DOMAIN ui
    BY <1>1, <2>1 DEF ClosuresOrdered
  <2>2. CASE k = Len(ui) + 1 /\ ui'[k] = c /\ l = Len(ui) + 1
    BY <1>2, <2>2 DEF Terminal
  <2>3. CASE k \in DOMAIN ui /\ ui'[k] = ui[k] /\ l = Len(ui) + 1 /\ ui'[l] = c
    <3>1. ui[k].op \in Terminal => op \notin Terminal
      BY <1>1, <1>2, <2>3 DEF ClosuresFit, Terminal
    <3> QED
      BY <1>2, <1>3, <2>3, <3>1
  <2>4. CASE l \in DOMAIN ui /\ ui'[l] = ui[l] /\ k = Len(ui) + 1 /\ ui'[k] = c
    <3>1. ui[l].op \in Terminal \cup {"summary"} =>
            \/ op \notin Terminal /\ op # "running"
            \/ ui[l].op = "summary" /\ op # "running"
      BY <1>1, <1>2, <2>4 DEF ClosuresFit, Terminal
    <3> QED
      BY <1>2, <1>3, <2>4, <3>1 DEF Terminal
  <2> QED
    BY <1>3, <2>1, <2>2, <2>3, <2>4
<1>7. Outcomes'
  BY <1>1, <1>4 DEF Outcomes, Terminal
<1>8. GoneIsOver'
  BY <1>1 DEF GoneIsOver
<1> QED
  BY <1>5, <1>6, <1>7, <1>8

\* Job j moves on and nothing is posted.
LEMMA Moving ==
  ASSUME CardInv, NEW j \in Jobs, NEW r \in RunStates, NEW o \in {"none"} \cup Terminal,
         run' = [run EXCEPT ![j] = r], outcome' = [outcome EXCEPT ![j] = o],
         UNCHANGED <<ui, state, cts>>,
         run[j] \in {"working", "summing"}, r = "marking", o \in Terminal,
         \A k \in DOMAIN ui : ui[k].op = "summary" => ui[k].job # j
  PROVE  ClosuresFit' /\ ClosuresOrdered' /\ Outcomes' /\ GoneIsOver'
<1>1. /\ run \in [Jobs -> RunStates] /\ outcome \in [Jobs -> {"none", "broken"} \cup Terminal]
      /\ ui \in Seq(Closures) /\ Jobs \subseteq Cards
      /\ ClosuresFit /\ ClosuresOrdered /\ Outcomes /\ GoneIsOver
  BY CardTypes DEF CardInv
<1>2. /\ run'[j] = r /\ outcome'[j] = o
      /\ \A i \in Jobs : i # j => run'[i] = run[i] /\ outcome'[i] = outcome[i]
  BY <1>1
<1>3. ClosuresFit'
  BY <1>1, <1>2 DEF ClosuresFit, Terminal
<1>4. ClosuresOrdered' /\ GoneIsOver'
  BY <1>1 DEF ClosuresOrdered, GoneIsOver
<1>5. Outcomes'
  BY <1>1, <1>2 DEF Outcomes, Terminal
<1> QED
  BY <1>3, <1>4, <1>5

\* A closure that concerns no job is posted: a failure that never was a job,
\* or the removal of a card that has settled.
LEMMA PostingForCard ==
  ASSUME CardInv, NEW c \in Cards,
         \/ /\ c \in Ghosts /\ state' = [state EXCEPT ![c] = "error"]
            /\ ui' = Append(ui, [op |-> "ghost", job |-> c, p |-> 0])
         \/ /\ state[c] \in Terminal /\ state' = state
            /\ ui' = Append(ui, [op |-> "remove", job |-> c, p |-> 0]),
         UNCHANGED <<run, outcome, cts>>
  PROVE  ClosuresFit' /\ ClosuresOrdered' /\ Outcomes' /\ GoneIsOver'
<1>1. /\ run \in [Jobs -> RunStates] /\ outcome \in [Jobs -> {"none", "broken"} \cup Terminal]
      /\ ui \in Seq(Closures) /\ Jobs \subseteq Cards /\ Jobs \cap Ghosts = {}
      /\ state \in [Cards -> Active \cup Terminal]
      /\ ClosuresFit /\ ClosuresOrdered /\ Outcomes /\ GoneIsOver
  BY CardTypes DEF CardInv
<1>2. PICK op \in {"ghost", "remove"} : /\ ui' = Append(ui, [op |-> op, job |-> c, p |-> 0])
                                        /\ op = "ghost" => c \in Ghosts
                                        /\ op = "remove" => state'[c] \in Terminal
  BY <1>1
<1> DEFINE x == [op |-> op, job |-> c, p |-> 0]
<1>3. x \in Closures /\ x.op = op /\ x.job = c
  BY QueueAssumption DEF Closures
<1> HIDE DEF x
<1>4. /\ \A k \in DOMAIN ui' : \/ k \in DOMAIN ui /\ ui'[k] = ui[k]
                               \/ k = Len(ui) + 1 /\ ui'[k] = x
      /\ \A k \in DOMAIN ui : k \in Nat /\ k < Len(ui) + 1 /\ ui[k] \in Closures
  BY <1>1, <1>2, <1>3, QueueAppended DEF x
<1>5. /\ \A i \in Cards : state[i] \in Terminal => state'[i] \in Terminal
      /\ \A i \in Jobs : state'[i] = state[i]
  BY <1>1 DEF Terminal
<1>6. ClosuresFit'
  <2> SUFFICES ASSUME NEW k \in DOMAIN ui'
               PROVE  LET i == ui'[k].job  q == ui'[k].op IN
                      /\ q = "ghost" => i \in Ghosts
                      /\ q = "remove" => state'[i] \in Terminal
                      /\ q \in {"add", "running", "tick", "summary"} \cup Terminal => i \in Jobs
                      /\ q = "running" => /\ run[i] \in {"working", "summing", "marking", "ended"}
                                          /\ state'[i] \notin Terminal
                      /\ q = "summary" => run[i] = "summing" /\ SummaryOnUi /\ ui'[k].p = 0
                      /\ q \in Terminal => run[i] = "ended" /\ q = outcome[i] /\ state'[i] \notin Terminal
    BY DEF ClosuresFit
  <2>1. CASE k \in DOMAIN ui /\ ui'[k] = ui[k]
    <3>1. ui[k].job \in Cards
      BY <1>4, <2>1 DEF Closures
    <3> QED
      BY <1>1, <1>5, <2>1, <3>1 DEF ClosuresFit, Terminal
  <2>2. CASE ui'[k] = x
    BY <1>2, <1>3, <2>2 DEF Terminal
  <2> QED
    BY <1>4, <2>1, <2>2
<1>7. ClosuresOrdered'
  BY <1>1, <1>3, <1>4 DEF ClosuresOrdered, Terminal
<1>8. Outcomes' /\ GoneIsOver'
  BY <1>1, <1>5, CardTypes DEF Outcomes, GoneIsOver, Terminal
<1> QED
  BY <1>6, <1>7, <1>8

\* The closure at the head runs and shows what it says.
LEMMA Serving ==
  ASSUME CardInv, ui # <<>>, ui' = Tail(ui), UNCHANGED <<run, outcome>>,
         LET j == Head(ui).job  op == Head(ui).op IN
           /\ state' = IF op = "running" \/ op \in Terminal THEN [state EXCEPT ![j] = op] ELSE state
           /\ \/ cts' = cts
              \/ op = "remove" /\ \E x : cts' = [cts EXCEPT ![j] = x]
  PROVE  ClosuresFit' /\ ClosuresOrdered' /\ Outcomes' /\ GoneIsOver'
<1> DEFINE j == ui[1].job  op == ui[1].op
<1>1. /\ run \in [Jobs -> RunStates] /\ outcome \in [Jobs -> {"none", "broken"} \cup Terminal]
      /\ ui \in Seq(Closures) /\ Jobs \subseteq Cards /\ Jobs \cap Ghosts = {}
      /\ state \in [Cards -> Active \cup Terminal]
      /\ cts \in [Cards -> {"none", "live", "cancelled", "gone"}]
      /\ ClosuresFit /\ ClosuresOrdered /\ Outcomes /\ GoneIsOver
  BY CardTypes DEF CardInv
<1>2. /\ 1 \in DOMAIN ui /\ Head(ui) = ui[1] /\ ui[1] \in Closures
      /\ \A k \in DOMAIN ui' : /\ k \in Nat /\ k + 1 \in DOMAIN ui /\ k + 1 # 1
                               /\ ui'[k] = ui[k + 1] /\ ui[k + 1] \in Closures
                               /\ 1 < k + 1
  BY <1>1, QueueServed
<1>3. j \in Cards /\ op \in {"add", "running", "tick", "summary", "ghost", "remove"} \cup Terminal
  BY <1>2 DEF Closures
<1>4. /\ \A i \in Cards : i # j => state'[i] = state[i] /\ cts'[i] = cts[i]
      /\ op \in {"running"} \cup Terminal => state'[j] = op
      /\ op \notin {"running"} \cup Terminal => state'[j] = state[j]
      /\ op # "remove" => cts'[j] = cts[j]
  BY <1>1, <1>2, <1>3 DEF Terminal
<1>5. /\ op = "remove" => state[j] \in Terminal
      /\ op \in {"running"} \cup Terminal => j \in Jobs /\ state[j] \notin Terminal
      /\ op \in Terminal => run[j] = "ended" /\ op = outcome[j]
  BY <1>1, <1>2 DEF ClosuresFit
<1>6. \A k \in DOMAIN ui' : ui'[k].job = j /\ op \in Terminal =>
        ui'[k].op \notin {"running", "summary"} \cup Terminal
  <2> SUFFICES ASSUME NEW k \in DOMAIN ui', ui'[k].job = j, op \in Terminal
               PROVE  ui'[k].op \notin {"running", "summary"} \cup Terminal
    OBVIOUS
  <2>1. /\ k + 1 \in DOMAIN ui /\ ui[k + 1].job = j /\ ui'[k].op = ui[k + 1].op
        /\ k \in Nat /\ k + 1 # 1
    BY <1>2
  <2>2. ui[k + 1].op \notin Terminal /\ ui[k + 1].op # "running"
    BY <1>1, <1>2, <2>1 DEF ClosuresOrdered
  <2>3. ui[k + 1].op # "summary"
    BY <1>1, <1>5, <2>1 DEF ClosuresFit
  <2> QED
    BY <2>1, <2>2, <2>3
<1>7. \A i \in Cards : state[i] \in Terminal => state'[i] \in Terminal
  BY <1>4, <1>5
<1>8. ClosuresFit'
  <2> SUFFICES ASSUME NEW k \in DOMAIN ui'
               PROVE  LET i == ui'[k].job  q == ui'[k].op IN
                      /\ q = "ghost" => i \in Ghosts
                      /\ q = "remove" => state'[i] \in Terminal
                      /\ q \in {"add", "running", "tick", "summary"} \cup Terminal => i \in Jobs
                      /\ q = "running" => /\ run[i] \in {"working", "summing", "marking", "ended"}
                                          /\ state'[i] \notin Terminal
                      /\ q = "summary" => run[i] = "summing" /\ SummaryOnUi /\ ui'[k].p = 0
                      /\ q \in Terminal => run[i] = "ended" /\ q = outcome[i] /\ state'[i] \notin Terminal
    BY DEF ClosuresFit
  <2> DEFINE i == ui'[k].job
  <2>1. k + 1 \in DOMAIN ui /\ ui'[k] = ui[k + 1] /\ i \in Cards
    BY <1>1, <1>2 DEF Closures
  <2>2. CASE i # j
    BY <1>1, <1>4, <2>1, <2>2 DEF ClosuresFit
  <2>3. CASE i = j /\ op \in Terminal
    BY <1>1, <1>4, <1>6, <2>1, <2>3 DEF ClosuresFit
  <2>4. CASE i = j /\ op \notin Terminal
    BY <1>1, <1>4, <1>5, <2>1, <2>4 DEF ClosuresFit, Terminal
  <2> QED
    BY <2>2, <2>3, <2>4
<1>9. ClosuresOrdered'
  <2> SUFFICES ASSUME NEW k \in DOMAIN ui', NEW l \in DOMAIN ui', ui'[k].job = ui'[l].job
               PROVE  /\ ui'[k].op \in Terminal /\ ui'[l].op \in Terminal => k = l
                      /\ ui'[k].op = "running" /\ ui'[l].op \in {"summary"} \cup Terminal => k < l
    BY DEF ClosuresOrdered
  <2>1. /\ k \in Nat /\ l \in Nat /\ k + 1 \in DOMAIN ui /\ l + 1 \in DOMAIN ui
        /\ ui'[k] = ui[k + 1] /\ ui'[l] = ui[l + 1]
    BY <1>2
  <2>2. /\ ui[k + 1].op \in Terminal /\ ui[l + 1].op \in Terminal => k + 1 = l + 1
        /\ ui[k + 1].op = "running" /\ ui[l + 1].op \in {"summary"} \cup Terminal => k + 1 < l + 1
    BY <1>1, <2>1 DEF ClosuresOrdered
  <2> QED
    BY <2>1, <2>2
<1>10. Outcomes'
  BY <1>1, <1>4, <1>5 DEF Outcomes, Terminal
<1>11. GoneIsOver'
  BY <1>1, <1>3, <1>4, <1>5, <1>7 DEF GoneIsOver
<1> QED
  BY <1>8, <1>9, <1>10, <1>11

\* The types of what a closure is made of, and of what is not the pool's.
LEMMA HeadType ==
  ASSUME TypeOK, ui # <<>>
  PROVE  /\ Head(ui).job \in Cards /\ Head(ui).p \in 0..Full
         /\ Head(ui).op \in {"add", "running", "tick", "summary", "ghost", "remove"} \cup Terminal
         /\ Tail(ui) \in Seq(Closures)
<1>1. ui \in Seq(Closures)
  BY DEF TypeOK, CardType
<1>2. Head(ui) \in Closures /\ Tail(ui) \in Seq(Closures)
  BY <1>1
<1> QED
  BY <1>2 DEF Closures

\* What is posted is a closure.
LEMMA PostType ==
  ASSUME TypeOK, NEW j \in Cards, NEW p \in 0..Full,
         NEW op \in {"add", "running", "tick", "summary", "ghost", "remove"} \cup Terminal,
         Post(op, j, p)
  PROVE  ui' \in Seq(Closures)
<1>1. ui \in Seq(Closures) /\ [op |-> op, job |-> j, p |-> p] \in Closures
  BY DEF TypeOK, CardType, Closures
<1> QED
  BY <1>1 DEF Post

\* A step of the pool changes nothing on the cards but a caption.
LEMMA PoolTypes ==
  ASSUME CardInv, NEW j \in Jobs,
         Submit(j) \/ Pool(j) \/ Report(j) \/ Deliver(j) \/ RequestCancel(j)
  PROVE  /\ outcome' \in [Jobs -> {"none", "broken"} \cup Terminal]
         /\ cts' \in [Cards -> {"none", "live", "cancelled", "gone"}]
         /\ reports' \in [Jobs -> 0..Ticks] /\ ticks' \in [Jobs -> SUBSET (0..Full)]
         /\ CardType'
<1> USE DEF runVars, semVars, tickVars, cardVars, callerVars
<1>1. /\ TypeOK /\ j \in Cards /\ 0 \in 0..Full /\ PoolType /\ CardType
      /\ outcome \in [Jobs -> {"none", "broken"} \cup Terminal]
      /\ cts \in [Cards -> {"none", "live", "cancelled", "gone"}]
      /\ reports \in [Jobs -> 0..Ticks] /\ ticks \in [Jobs -> SUBSET (0..Full)]
  BY QueueAssumption DEF CardInv, TypeOK, PoolType, Cards
<1>2. CASE Submit(j)
  <2>1. ui' \in Seq(Closures)
    BY <1>1, <1>2, PostType DEF Submit
  <2>2. outstanding' \in Int
    BY <1>1, <1>2 DEF Submit, CardType
  <2> QED
    BY <1>1, <1>2, <2>1, <2>2 DEF Submit, CardType
<1>3. CASE Acquire(j)
  <2>1. ui' \in Seq(Closures)
    BY <1>1, <1>3, PostType DEF Acquire
  <2>2. outcome' \in [Jobs -> {"none", "broken"} \cup Terminal]
    BY <1>1, <1>3 DEF Acquire
  <2> QED
    BY <1>1, <1>3, <2>1, <2>2 DEF Acquire, CardType
<1>4. CASE WaitCancelled(j)
  <2>1. ui' \in Seq(Closures)
    BY <1>1, <1>4, PostType DEF WaitCancelled, Terminal
  <2>2. outcome' \in [Jobs -> {"none", "broken"} \cup Terminal]
    BY <1>1, <1>4 DEF WaitCancelled, Terminal
  <2> QED
    BY <1>1, <1>4, <2>1, <2>2 DEF WaitCancelled, CardType
<1>5. CASE WorkSucceeds(j)
  <2>1. ui' \in Seq(Closures)
    BY <1>1, <1>5, PostType DEF WorkSucceeds, CardType
  <2>2. /\ outcome' \in [Jobs -> {"none", "broken"} \cup Terminal]
        /\ text' \in [Cards -> {"none", "starting", "percent", "summary", "cancelled", "error"}]
        /\ awaited' = awaited
    BY <1>1, <1>5 DEF WorkSucceeds, Terminal, CardType
  <2> QED
    BY <1>1, <1>5, <2>1, <2>2 DEF WorkSucceeds, CardType
<1>6. CASE Summarised(j)
  <2>1. /\ outcome' \in [Jobs -> {"none", "broken"} \cup Terminal]
        /\ awaited' \in [Cards -> {"pending"} \cup Terminal]
    BY <1>1, <1>6 DEF Summarised, Terminal, CardType
  <2> QED
    BY <1>1, <1>6, <2>1 DEF Summarised, CardType
<1>7. CASE WorkFails(j)
  <2>1. /\ outcome' \in [Jobs -> {"none", "broken"} \cup Terminal]
        /\ awaited' \in [Cards -> {"pending"} \cup Terminal]
    BY <1>1, <1>7 DEF WorkFails, Terminal, CardType
  <2> QED
    BY <1>1, <1>7, <2>1 DEF WorkFails, CardType
<1>8. CASE Settle(j)
  <2>1. outcome[j] \in Terminal
    BY <1>8 DEF Settle, CardInv, Outcomes
  <2>2. ui' \in Seq(Closures)
    BY <1>1, <1>8, <2>1, PostType DEF Settle, Terminal
  <2> QED
    BY <1>1, <1>8, <2>2 DEF Settle, CardType
<1>9. CASE Report(j)
  <2>1. reports' \in [Jobs -> 0..Ticks]
    <3>1. reports[j] + 1 \in 0..Ticks
      BY <1>1, <1>9, QueueAssumption DEF Report
    <3> QED
      BY <1>1, <1>9, <3>1 DEF Report
  <2>2. ticks' \in [Jobs -> SUBSET (0..Full)]
    BY <1>1, <1>9 DEF Report
  <2> QED
    BY <1>1, <1>9, <2>1, <2>2 DEF Report, CardType
<1>10. CASE Deliver(j)
  <2>1. PICK p \in ticks[j] : /\ ticks' = [ticks EXCEPT ![j] = @ \ {p}]
                              /\ ui' = ui \/ Post("tick", j, p)
    BY <1>10 DEF Deliver
  <2>2. p \in 0..Full
    BY <1>1, <2>1
  <2>3. ui' \in Seq(Closures)
    BY <1>1, <2>1, <2>2, PostType DEF CardType
  <2>4. ticks' \in [Jobs -> SUBSET (0..Full)]
    BY <1>1, <2>1
  <2> QED
    BY <1>1, <1>10, <2>3, <2>4 DEF Deliver, CardType
<1>11. CASE RequestCancel(j)
  <2>1. cts' \in [Cards -> {"none", "live", "cancelled", "gone"}]
    BY <1>1, <1>11 DEF RequestCancel
  <2> QED
    BY <1>1, <1>11, <2>1 DEF RequestCancel, CardType
<1> QED
  BY <1>2, <1>3, <1>4, <1>5, <1>6, <1>7, <1>8, <1>9, <1>10, <1>11 DEF Pool, WorkEnds

\* JobSettled keeps the types of what it counts and answers.
LEMMA SettledTypes ==
  ASSUME CardInv, NEW j \in Cards, NEW s, RaiseSettled(j, s)
  PROVE  /\ settled' \in [Cards -> Nat] /\ awaited' \in [Cards -> {"pending"} \cup Terminal]
         /\ outstanding' \in Int /\ closed' \in BOOLEAN
<1>1. /\ settled \in [Cards -> Nat] /\ awaited \in [Cards -> {"pending"} \cup Terminal]
      /\ outstanding \in Int
  BY DEF CardInv, TypeOK, CardType
<1>2. settled' \in [Cards -> Nat]
  BY <1>1 DEF RaiseSettled
<1>3. awaited' \in [Cards -> {"pending"} \cup Terminal]
  BY <1>1 DEF RaiseSettled, Terminal
<1>4. outstanding' \in Int
  BY <1>1 DEF RaiseSettled
<1>5. closed' \in BOOLEAN
  BY DEF RaiseSettled
<1> QED
  BY <1>2, <1>3, <1>4, <1>5

\* A closure that runs keeps the types of the cards and of the callers.
LEMMA DispatcherTypes ==
  ASSUME CardInv, Dispatcher
  PROVE  /\ UNCHANGED <<outcome, reports, ticks>>
         /\ cts' \in [Cards -> {"none", "live", "cancelled", "gone"}]
         /\ CardType'
<1> USE DEF runVars, semVars, tickVars, cardVars, callerVars
<1> DEFINE j == Head(ui).job
<1>1. /\ TypeOK /\ CardType /\ cts \in [Cards -> {"none", "live", "cancelled", "gone"}]
      /\ Full \in 0..Full
  BY QueueAssumption DEF CardInv, TypeOK, PoolType
<1>2. /\ ui # <<>> /\ ui' = Tail(ui)
  BY Dispatcher DEF Dispatcher, Turn, ShowAdded, ShowRunning, ShowTick, ShowSummary,
     ShowTerminal, ShowGhost, ShowRemoved
<1>3. ui' \in Seq(Closures) /\ j \in Cards /\ Head(ui).p \in 0..Full
  BY <1>1, <1>2, HeadType
<1>4. UNCHANGED <<outcome, reports, ticks>>
  BY Dispatcher DEF Dispatcher, ShowAdded, ShowRunning, ShowTick, ShowSummary,
     ShowTerminal, ShowGhost, ShowRemoved
<1>5. CASE ShowAdded
  BY <1>1, <1>3, <1>4, <1>5 DEF ShowAdded, CardType
<1>6. CASE ShowRunning
  BY <1>1, <1>3, <1>4, <1>6 DEF ShowRunning, CardType, Active
<1>7. CASE ShowTick
  BY <1>1, <1>3, <1>4, <1>7 DEF ShowTick, CardType
<1>8. CASE ShowSummary
  BY <1>1, <1>3, <1>4, <1>8 DEF ShowSummary, CardType
<1>9. CASE ShowTerminal
  <2>1. /\ settled' \in [Cards -> Nat] /\ awaited' \in [Cards -> {"pending"} \cup Terminal]
        /\ outstanding' \in Int /\ closed' \in BOOLEAN
    BY <1>3, <1>9, SettledTypes DEF ShowTerminal
  <2>2. Head(ui).op \in Terminal
    BY <1>9 DEF ShowTerminal, Turn
  <2>3. /\ state' \in [Cards -> Active \cup Terminal] /\ progress' \in [Cards -> 0..Full]
        /\ text' \in [Cards -> {"none", "starting", "percent", "summary", "cancelled", "error"}]
    BY <1>1, <1>3, <1>9, <2>2 DEF ShowTerminal, CardType, Terminal
  <2> QED
    BY <1>1, <1>3, <1>4, <1>9, <2>1, <2>3 DEF ShowTerminal, CardType
<1>10. CASE ShowGhost
  <2>1. /\ settled' \in [Cards -> Nat] /\ awaited' \in [Cards -> {"pending"} \cup Terminal]
        /\ outstanding' \in Int /\ closed' \in BOOLEAN
    BY <1>3, <1>10, SettledTypes DEF ShowGhost
  <2> QED
    BY <1>1, <1>3, <1>4, <1>10, <2>1 DEF ShowGhost, CardType
<1>11. CASE ShowRemoved
  BY <1>1, <1>3, <1>4, <1>11 DEF ShowRemoved, CardType
<1> QED
  BY <1>5, <1>6, <1>7, <1>8, <1>9, <1>10, <1>11, Dispatcher DEF Dispatcher

\* Every step keeps the types.
LEMMA StepTypes == ASSUME CardInv, [Next]_vars PROVE SlotInv' /\ TypeOK'
<1> USE DEF runVars, semVars, tickVars, cardVars, callerVars
<1>1. SlotInv' /\ TypeOK /\ PoolType /\ CardType
  BY NextSlots DEF CardInv, TypeOK
<1>2. CASE \E j \in Jobs : Submit(j) \/ Pool(j) \/ Report(j) \/ Deliver(j) \/ RequestCancel(j)
  BY <1>1, <1>2, PoolTypes DEF TypeOK, PoolType, SlotInv, RunStates
<1>3. CASE Dispatcher
  BY <1>1, <1>3, DispatcherTypes DEF TypeOK, PoolType, SlotInv, RunStates
<1>4. ASSUME NEW g \in Ghosts, ReportError(g)
      PROVE  TypeOK'
  <2>1. ui' \in Seq(Closures)
    BY <1>1, <1>4, PostType, QueueAssumption DEF ReportError, Cards
  <2>2. /\ state' \in [Cards -> Active \cup Terminal]
        /\ text' \in [Cards -> {"none", "starting", "percent", "summary", "cancelled", "error"}]
    BY <1>1, <1>4 DEF ReportError, CardType, Terminal, Cards
  <2> QED
    BY <1>1, <1>4, <2>1, <2>2 DEF ReportError, TypeOK, PoolType, CardType
<1>5. ASSUME NEW c \in Cards, Remove(c)
      PROVE  TypeOK'
  <2>1. ui' \in Seq(Closures)
    BY <1>1, <1>5, PostType, QueueAssumption DEF Remove
  <2> QED
    BY <1>1, <1>5, <2>1 DEF Remove, TypeOK, PoolType, CardType
<1>6. CASE RaiseLimit
  BY <1>1, <1>6 DEF RaiseLimit, TypeOK, PoolType, CardType, SlotInv
<1>7. CASE Idle \/ UNCHANGED vars
  BY <1>1, <1>7 DEF Idle, vars, TypeOK, PoolType, CardType
<1> QED
  BY <1>1, <1>2, <1>3, <1>4, <1>5, <1>6, <1>7 DEF Next

\* Every step keeps the account of the closures: the actions one by one.
LEMMA StepCards == ASSUME CardInv, [Next]_vars PROVE CardInv'
<1> USE DEF runVars, semVars, tickVars, cardVars, callerVars
<1> DEFINE Good == ClosuresFit' /\ ClosuresOrdered' /\ Outcomes' /\ GoneIsOver'
<1> SUFFICES Good
  BY StepTypes DEF CardInv
<1>0. /\ run \in [Jobs -> RunStates] /\ outcome \in [Jobs -> {"none", "broken"} \cup Terminal]
      /\ state \in [Cards -> Active \cup Terminal]
      /\ cts \in [Cards -> {"none", "live", "cancelled", "gone"}]
      /\ ui \in Seq(Closures) /\ Jobs \subseteq Cards /\ Ghosts \subseteq Cards /\ 0 \in 0..Full
      /\ ClosuresFit /\ ClosuresOrdered /\ Outcomes /\ GoneIsOver
      /\ ticks \in [Jobs -> SUBSET (0..Full)]
  BY CardTypes, QueueAssumption DEF CardInv, TypeOK, PoolType
<1>1. ASSUME UNCHANGED <<ui, run, outcome, state>>,
             \A c \in Cards : cts'[c] = "gone" => cts[c] = "gone"
      PROVE  Good
  BY <1>0, <1>1 DEF ClosuresFit, ClosuresOrdered, Outcomes, GoneIsOver
<1>2. ASSUME NEW j \in Jobs, Submit(j)
      PROVE  Good
  <2>1. /\ run[j] = "idle" /\ run' = [run EXCEPT ![j] = "waiting"]
        /\ cts' = [cts EXCEPT ![j] = "live"] /\ UNCHANGED <<outcome, state>>
        /\ ui' = Append(ui, [op |-> "add", job |-> j, p |-> 0])
    BY <1>2 DEF Submit, Post
  <2>2. outcome[j] = "none" /\ state[j] \notin Terminal
    BY <1>0, <2>1 DEF Outcomes
  <2> DEFINE c == [op |-> "add", job |-> j, p |-> 0]
  <2>3. c \in Closures /\ c.op = "add" /\ c.job = j
    BY <1>0 DEF Closures
  <2> HIDE DEF c
  <2>4. /\ \A k \in DOMAIN ui' : \/ k \in DOMAIN ui /\ ui'[k] = ui[k]
                                 \/ k = Len(ui) + 1 /\ ui'[k] = c
        /\ \A k \in DOMAIN ui : k \in Nat /\ k < Len(ui) + 1
    BY <1>0, <2>1, <2>3, QueueAppended DEF c
  <2>5. run'[j] = "waiting" /\ \A i \in Jobs : i # j => run'[i] = run[i]
    BY <1>0, <2>1
  <2>6. ClosuresFit'
    BY <1>0, <2>1, <2>2, <2>3, <2>4, <2>5 DEF ClosuresFit, Terminal
  <2>7. ClosuresOrdered'
    BY <1>0, <2>3, <2>4 DEF ClosuresOrdered, Terminal
  <2>8. Outcomes' /\ GoneIsOver'
    BY <1>0, <2>1, <2>2, <2>5 DEF Outcomes, GoneIsOver, Terminal
  <2> QED
    BY <2>6, <2>7, <2>8
<1>3. ASSUME NEW j \in Jobs, Acquire(j)
      PROVE  Good
  <2>1. run[j] = "waiting" /\ state[j] \notin Terminal /\ outcome[j] = "none"
    BY <1>0, <1>3 DEF Acquire, Outcomes
  <2>2. cts[j] # "gone"
    BY <1>0, <2>1 DEF GoneIsOver
  <2>3. /\ run' = [run EXCEPT ![j] = "working"] /\ UNCHANGED <<outcome, state, cts>>
        /\ ui' = Append(ui, [op |-> "running", job |-> j, p |-> 0])
    BY <1>3, <2>2 DEF Acquire, Post
  <2>4. outcome' = [outcome EXCEPT ![j] = "none"]
    BY <1>0, <2>1, <2>3
  <2> QED
    BY <1>0, <2>1, <2>3, <2>4, Posting DEF RunStates, Terminal
<1>4. ASSUME NEW j \in Jobs, WaitCancelled(j)
      PROVE  Good
  <2>1. run[j] = "waiting" /\ state[j] \notin Terminal
    BY <1>0, <1>4 DEF WaitCancelled, Outcomes
  <2>2. /\ run' = [run EXCEPT ![j] = "ended"] /\ outcome' = [outcome EXCEPT ![j] = "cancelled"]
        /\ ui' = Append(ui, [op |-> "cancelled", job |-> j, p |-> 0])
        /\ UNCHANGED <<state, cts>>
    BY <1>4 DEF WaitCancelled, Post
  <2> QED
    BY <1>0, <2>1, <2>2, Posting DEF RunStates, Terminal
<1>5. ASSUME NEW j \in Jobs, WorkSucceeds(j)
      PROVE  Good
  <2>1. run[j] = "working" /\ state[j] \notin Terminal /\ outcome[j] = "none"
        /\ UNCHANGED <<state, cts>>
        /\ \A k \in DOMAIN ui : ui[k].op = "summary" => ui[k].job # j
    BY <1>0, <1>5 DEF WorkSucceeds, Outcomes, ClosuresFit
  <2>2. CASE SummaryOnUi
    <3>1. /\ run' = [run EXCEPT ![j] = "summing"] /\ outcome' = outcome
          /\ ui' = Append(ui, [op |-> "summary", job |-> j, p |-> 0])
      BY <1>5, <2>2 DEF WorkSucceeds, Post
    <3>2. outcome' = [outcome EXCEPT ![j] = "none"]
      BY <1>0, <2>1, <3>1
    <3> QED
      BY <1>0, <2>1, <2>2, <3>1, <3>2, Posting DEF RunStates, Terminal
  <2>3. CASE ~SummaryOnUi
    <3>1. /\ run' = [run EXCEPT ![j] = "marking"] /\ outcome' = [outcome EXCEPT ![j] = "done"]
          /\ ui' = ui
      BY <1>5, <2>3 DEF WorkSucceeds
    <3> QED
      BY <2>1, <3>1, Moving DEF RunStates, Terminal
  <2> QED
    BY <2>2, <2>3
<1>6. ASSUME NEW j \in Jobs, Summarised(j)
      PROVE  Good
  <2>1. /\ run[j] = "summing" /\ run' = [run EXCEPT ![j] = "marking"]
        /\ outcome' = [outcome EXCEPT ![j] = "done"] /\ UNCHANGED <<ui, state, cts>>
        /\ \A k \in DOMAIN ui : ui[k] # [op |-> "summary", job |-> j, p |-> 0]
    BY <1>6 DEF Summarised
  <2>2. \A k \in DOMAIN ui : ui[k].op = "summary" => ui[k].job # j
    <3> SUFFICES ASSUME NEW k \in DOMAIN ui, ui[k].op = "summary", ui[k].job = j
                 PROVE  FALSE
      OBVIOUS
    <3>1. ui[k] \in Closures /\ ui[k].p = 0
      BY <1>0 DEF ClosuresFit
    <3>2. ui[k] = [op |-> "summary", job |-> j, p |-> 0]
      BY <3>1 DEF Closures
    <3> QED
      BY <2>1, <3>2
  <2> QED
    BY <2>1, <2>2, Moving DEF RunStates, Terminal
<1>7. ASSUME NEW j \in Jobs, WorkFails(j)
      PROVE  Good
  <2>1. PICK o \in {"cancelled", "error"} : outcome' = [outcome EXCEPT ![j] = o]
    BY <1>7 DEF WorkFails
  <2>2. /\ run[j] = "working" /\ run' = [run EXCEPT ![j] = "marking"]
        /\ UNCHANGED <<ui, state, cts>>
        /\ \A k \in DOMAIN ui : ui[k].op = "summary" => ui[k].job # j
    BY <1>0, <1>7 DEF WorkFails, ClosuresFit
  <2> QED
    BY <2>1, <2>2, Moving DEF RunStates, Terminal
<1>8. ASSUME NEW j \in Jobs, Settle(j)
      PROVE  Good
  <2>1. run[j] = "marking" /\ state[j] \notin Terminal /\ outcome[j] \in Terminal
    BY <1>0, <1>8 DEF Settle, Outcomes
  <2>2. /\ run' = [run EXCEPT ![j] = "ended"] /\ UNCHANGED <<outcome, state, cts>>
        /\ ui' = Append(ui, [op |-> outcome[j], job |-> j, p |-> 0])
    BY <1>8, <2>1 DEF Settle, Post, Terminal
  <2>3. outcome' = [outcome EXCEPT ![j] = outcome[j]]
    BY <1>0, <2>2
  <2> QED
    BY <1>0, <2>1, <2>2, <2>3, Posting DEF RunStates, Terminal
<1>9. ASSUME NEW j \in Jobs, Report(j)
      PROVE  Good
  BY <1>1, <1>9 DEF Report
<1>10. ASSUME NEW j \in Jobs, Deliver(j)
       PROVE  Good
  <2>1. UNCHANGED <<run, outcome, state, cts>>
    BY <1>10 DEF Deliver
  <2>2. CASE ui' = ui
    BY <1>1, <2>1, <2>2
  <2>3. ASSUME NEW p \in 0..Full, ui' = Append(ui, [op |-> "tick", job |-> j, p |-> p])
        PROVE  Good
    <3> DEFINE c == [op |-> "tick", job |-> j, p |-> p]
    <3>1. c \in Closures /\ c.op = "tick" /\ c.job = j
      BY <1>0 DEF Closures
    <3> HIDE DEF c
    <3>2. /\ \A k \in DOMAIN ui' : \/ k \in DOMAIN ui /\ ui'[k] = ui[k]
                                   \/ k = Len(ui) + 1 /\ ui'[k] = c
          /\ \A k \in DOMAIN ui : k \in Nat /\ k < Len(ui) + 1
      BY <1>0, <2>3, <3>1, QueueAppended DEF c
    <3>3. ClosuresFit' /\ ClosuresOrdered'
      BY <1>0, <2>1, <3>1, <3>2 DEF ClosuresFit, ClosuresOrdered, Terminal
    <3> QED
      BY <1>0, <2>1, <3>3 DEF Outcomes, GoneIsOver
  <2>4. ui' = ui \/ \E p \in 0..Full : ui' = Append(ui, [op |-> "tick", job |-> j, p |-> p])
    BY <1>0, <1>10 DEF Deliver, Post
  <2> QED
    BY <2>2, <2>3, <2>4
<1>11. ASSUME NEW j \in Jobs, RequestCancel(j)
       PROVE  Good
  BY <1>0, <1>1, <1>11 DEF RequestCancel
<1>12. ASSUME NEW g \in Ghosts, ReportError(g)
       PROVE  Good
  <2>1. /\ state' = [state EXCEPT ![g] = "error"] /\ UNCHANGED <<run, outcome, cts>>
        /\ ui' = Append(ui, [op |-> "ghost", job |-> g, p |-> 0])
    BY <1>12 DEF ReportError, Post
  <2> QED
    BY <1>0, <2>1, PostingForCard
<1>13. ASSUME NEW c \in Cards, Remove(c)
       PROVE  Good
  <2>1. /\ state[c] \in Terminal /\ UNCHANGED <<state, run, outcome, cts>>
        /\ ui' = Append(ui, [op |-> "remove", job |-> c, p |-> 0])
    BY <1>13 DEF Remove, Post
  <2> QED
    BY <2>1, PostingForCard
<1>14. CASE RaiseLimit
  BY <1>1, <1>14 DEF RaiseLimit
<1>15. CASE Dispatcher
  <2> DEFINE op == Head(ui).op
  <2>1. ui # <<>> /\ ui' = Tail(ui) /\ UNCHANGED <<run, outcome>>
    BY <1>15 DEF Dispatcher, Turn, ShowAdded, ShowRunning, ShowTick, ShowSummary,
       ShowTerminal, ShowGhost, ShowRemoved
  <2>2. CASE ShowAdded \/ ShowTick \/ ShowSummary \/ ShowGhost
    <3>1. op \in {"add", "tick", "summary", "ghost"} /\ UNCHANGED <<state, cts>>
      BY <2>2 DEF Turn, ShowAdded, ShowTick, ShowSummary, ShowGhost
    <3> QED
      BY <2>1, <3>1, Serving DEF Terminal
  <2>3. CASE ShowRunning
    <3>1. op = "running" /\ state' = [state EXCEPT ![Head(ui).job] = "running"] /\ cts' = cts
      BY <2>3 DEF Turn, ShowRunning
    <3> QED
      BY <2>1, <3>1, Serving DEF Terminal
  <2>4. CASE ShowTerminal
    <3>1. op \in Terminal /\ state' = [state EXCEPT ![Head(ui).job] = op] /\ cts' = cts
      BY <2>4 DEF Turn, ShowTerminal
    <3> QED
      BY <2>1, <3>1, Serving DEF Terminal
  <2>5. CASE ShowRemoved
    <3>1. /\ op = "remove" /\ state' = state
          /\ \E x : cts' = [cts EXCEPT ![Head(ui).job] = x]
      BY <2>5 DEF Turn, ShowRemoved
    <3> QED
      BY <2>1, <3>1, Serving DEF Terminal
  <2> QED
    BY <1>15, <2>2, <2>3, <2>4, <2>5 DEF Dispatcher
<1>16. CASE Idle \/ UNCHANGED vars
  BY <1>1, <1>16 DEF Idle, vars
<1> QED
  BY <1>2, <1>3, <1>4, <1>5, <1>6, <1>7, <1>8, <1>9, <1>10, <1>11, <1>12, <1>13, <1>14,
     <1>15, <1>16 DEF Next, Pool, WorkEnds

\* Every reachable state keeps the account of the closures (CardInv).
THEOREM CardInvariant == Spec => []CardInv
<1>1. Init => CardInv
  BY InitCards
<1>2. CardInv /\ [Next]_vars => CardInv'
  BY StepCards
<1> QED
  BY <1>1, <1>2, PTL DEF Spec

-----------------------------------------------------------------------------
(* What a card shows once its job is over.                                 *)

\* The closure that is about to run, and what its job has done by then.
LEMMA HeadFits ==
  ASSUME CardInv, ui # <<>>
  PROVE  LET j == Head(ui).job  op == Head(ui).op IN
         /\ j \in Cards
         /\ op = "ghost" => j \in Ghosts
         /\ op = "running" => j \in Jobs /\ state[j] \notin Terminal
         /\ op = "summary" => j \in Jobs /\ run[j] = "summing"
         /\ op \in Terminal => /\ j \in Jobs /\ run[j] = "ended" /\ op = outcome[j]
                               /\ state[j] \notin Terminal
<1>1. ui \in Seq(Closures) /\ ClosuresFit
  BY CardTypes DEF CardInv
<1>2. 1 \in DOMAIN ui /\ Head(ui) = ui[1] /\ ui[1] \in Closures
  BY <1>1
<1>3. ui[1].job \in Cards
  BY <1>2 DEF Closures
<1> QED
  BY <1>1, <1>2, <1>3 DEF ClosuresFit

\* A step that touches the card of a settled job leaves what it shows.
LEMMA StepFrozen ==
  ASSUME CardInv, [Next]_vars, NEW c \in Cards, state[c] \in Terminal
  PROVE  state'[c] = state[c] /\ text'[c] = text[c] /\ progress'[c] = progress[c]
<1> USE DEF runVars, semVars, tickVars, cardVars, callerVars
<1>0. /\ state \in [Cards -> Active \cup Terminal] /\ progress \in [Cards -> 0..Full]
      /\ text \in [Cards -> {"none", "starting", "percent", "summary", "cancelled", "error"}]
      /\ Jobs \subseteq Cards /\ Ghosts \subseteq Cards
  BY CardTypes DEF CardInv, TypeOK, CardType
<1>1. CASE UNCHANGED cardVars
  BY <1>1
<1>2. ASSUME NEW j \in Jobs, WorkSucceeds(j)
      PROVE  state'[c] = state[c] /\ text'[c] = text[c] /\ progress'[c] = progress[c]
  <2>1. j # c
    BY <1>2 DEF WorkSucceeds, CardInv, Outcomes
  <2> QED
    BY <1>0, <1>2, <2>1 DEF WorkSucceeds
<1>3. ASSUME NEW g \in Ghosts, ReportError(g)
      PROVE  state'[c] = state[c] /\ text'[c] = text[c] /\ progress'[c] = progress[c]
  <2>1. g # c
    BY <1>3 DEF ReportError, Terminal
  <2> QED
    BY <1>0, <1>3, <2>1 DEF ReportError
<1>4. CASE ShowRunning
  <2>1. ui # <<>> /\ Head(ui).op = "running"
    BY <1>4 DEF ShowRunning, Turn
  <2>2. Head(ui).job # c
    BY <2>1, HeadFits
  <2> QED
    BY <1>0, <1>4, <2>2 DEF ShowRunning
<1>5. CASE ShowTick
  BY <1>0, <1>5 DEF ShowTick
<1>6. CASE ShowSummary
  <2>1. ui # <<>> /\ Head(ui).op = "summary"
    BY <1>6 DEF ShowSummary, Turn
  <2>2. Head(ui).job \in Jobs /\ run[Head(ui).job] = "summing"
    BY <2>1, HeadFits
  <2>3. Head(ui).job # c
    BY <2>2 DEF CardInv, Outcomes
  <2> QED
    BY <1>0, <1>6, <2>3 DEF ShowSummary
<1>7. CASE ShowTerminal
  <2>1. ui # <<>> /\ Head(ui).op \in Terminal
    BY <1>7 DEF ShowTerminal, Turn
  <2>2. Head(ui).job # c
    BY <2>1, HeadFits
  <2> QED
    BY <1>0, <1>7, <2>2 DEF ShowTerminal
<1>8. UNCHANGED cardVars \/ (\E j \in Jobs : WorkSucceeds(j)) \/ (\E g \in Ghosts : ReportError(g))
      \/ ShowRunning \/ ShowTick \/ ShowSummary \/ ShowTerminal
  BY DEF Next, Submit, Pool, Acquire, WaitCancelled, WorkEnds, Summarised, WorkFails, Settle,
     Report, Deliver, RequestCancel, Remove, RaiseLimit, Dispatcher, ShowAdded, ShowGhost,
     ShowRemoved, Idle, vars
<1> QED
  BY <1>1, <1>2, <1>3, <1>4, <1>5, <1>6, <1>7, <1>8

\* A settled card is frozen, whatever closures and callbacks are still on
\* their way to it (the guards of JobQueue.cs on late progress).
THEOREM SettledCardsAreFrozen == Spec => SettledCardFrozen
<1>1. CardInv /\ [Next]_vars =>
        [\A c \in Cards : state[c] \in Terminal =>
           /\ state'[c] = state[c] /\ text'[c] = text[c] /\ progress'[c] = progress[c]]_vars
  BY StepFrozen
<1> QED
  BY <1>1, CardInvariant, PTL DEF Spec, SettledCardFrozen

-----------------------------------------------------------------------------
(* OtterZip.App: the summary of a job that succeeded stays on its card.    *)

\* The summary's closure has run: the job is done, or about to be.
Summed(j) == \/ outcome[j] = "done"
             \/ /\ run[j] = "summing"
                /\ \A k \in DOMAIN ui : ui[k].op = "summary" => ui[k].job # j

\* From then on the caption is the summary, the bar at 1.0 drops every tick,
\* and MarkRunning's closure is behind.
SummaryStands ==
  \A j \in Jobs : Summed(j) =>
    /\ text[j] = "summary" /\ progress[j] = Full
    /\ \A k \in DOMAIN ui : ui[k].op = "running" => ui[k].job # j

SummaryInv == CardInv /\ SummaryStands

\* Where the summary has run before a step, the step leaves it.
LEMMA SummaryStays ==
  ASSUME SummaryOnUi, SummaryInv, [Next]_vars, NEW j \in Jobs, Summed(j)
  PROVE  /\ text'[j] = "summary" /\ progress'[j] = Full
         /\ \A k \in DOMAIN ui' : ui'[k].op = "running" => ui'[k].job # j
<1> USE DEF runVars, semVars, tickVars, cardVars, callerVars
<1>0. /\ state \in [Cards -> Active \cup Terminal] /\ progress \in [Cards -> 0..Full]
      /\ text \in [Cards -> {"none", "starting", "percent", "summary", "cancelled", "error"}]
      /\ Jobs \subseteq Cards /\ Jobs \cap Ghosts = {} /\ ui \in Seq(Closures) /\ j \in Cards
      /\ Full \in Nat /\ 0 \in 0..Full
  BY CardTypes, QueueAssumption DEF SummaryInv, CardInv, TypeOK, CardType
<1>1. /\ text[j] = "summary" /\ progress[j] = Full
      /\ \A k \in DOMAIN ui : ui[k].op = "running" => ui[k].job # j
  BY DEF SummaryInv, SummaryStands
<1>2. run[j] \notin {"idle", "waiting", "working"}
  BY DEF Summed, SummaryInv, CardInv, Outcomes, Terminal
<1>3. \A k \in DOMAIN ui' : ui'[k].op = "running" => ui'[k].job # j
  <2>1. ASSUME NEW i \in Jobs, Acquire(i)
        PROVE  \A k \in DOMAIN ui' : ui'[k].op = "running" => ui'[k].job # j
    <3>1. i # j /\ ui' = Append(ui, [op |-> "running", job |-> i, p |-> 0])
      BY <1>2, <2>1 DEF Acquire, Post
    <3> QED
      BY <1>0, <1>1, <3>1
  <2>2. ASSUME NEW c, c.op # "running", ui' = Append(ui, c)
        PROVE  \A k \in DOMAIN ui' : ui'[k].op = "running" => ui'[k].job # j
    BY <1>0, <1>1, <2>2
  <2>3. CASE ui' = ui
    BY <1>1, <2>3
  <2>4. CASE ui # <<>> /\ ui' = Tail(ui)
    BY <1>0, <1>1, <2>4, QueueServed
  <2>5. ASSUME NEW i \in Jobs, Submit(i) \/ WaitCancelled(i) \/ WorkSucceeds(i)
        PROVE  \/ ui' = ui
               \/ \E c : c.op # "running" /\ ui' = Append(ui, c)
    BY <2>5 DEF Submit, WaitCancelled, WorkSucceeds, Post
  <2>6. ASSUME NEW i \in Jobs, Settle(i)
        PROVE  \E c : c.op # "running" /\ ui' = Append(ui, c)
    <3>1. outcome[i] \in Terminal
      BY <2>6 DEF Settle, SummaryInv, CardInv, Outcomes
    <3> QED
      BY <2>6, <3>1 DEF Settle, Post, Terminal
  <2>7. ASSUME NEW i \in Jobs, Deliver(i)
        PROVE  ui' = ui \/ \E c : c.op # "running" /\ ui' = Append(ui, c)
    BY <2>7 DEF Deliver, Post
  <2>8. ASSUME NEW c \in Cards, ReportError(c) \/ Remove(c)
        PROVE  \E x : x.op # "running" /\ ui' = Append(ui, x)
    BY <2>8 DEF ReportError, Remove, Post
  <2>9. Dispatcher => ui # <<>> /\ ui' = Tail(ui)
    BY DEF Dispatcher, Turn, ShowAdded, ShowRunning, ShowTick, ShowSummary,
       ShowTerminal, ShowGhost, ShowRemoved
  <2>10. \/ ui' = ui \/ Dispatcher \/ \E c \in Cards : ReportError(c) \/ Remove(c)
         \/ \E i \in Jobs : \/ Submit(i) \/ Acquire(i) \/ WaitCancelled(i) \/ WorkSucceeds(i)
                            \/ Settle(i) \/ Deliver(i)
    BY DEF Next, Pool, WorkEnds, Summarised, WorkFails, Report, RequestCancel, RaiseLimit, Idle,
       vars, Cards
  <2> QED
    BY <2>1, <2>2, <2>3, <2>4, <2>5, <2>6, <2>7, <2>8, <2>9, <2>10
<1>4. text'[j] = "summary" /\ progress'[j] = Full
  <2>1. CASE UNCHANGED cardVars
    BY <1>1, <2>1
  <2>2. ASSUME NEW i \in Jobs, WorkSucceeds(i)
        PROVE  text'[j] = "summary" /\ progress'[j] = Full
    BY <1>1, <2>2 DEF WorkSucceeds
  <2>3. ASSUME NEW g \in Ghosts, ReportError(g)
        PROVE  text'[j] = "summary" /\ progress'[j] = Full
    BY <1>0, <1>1, <2>3 DEF ReportError
  <2>4. CASE ShowRunning
    <3>1. ui # <<>> /\ Head(ui).op = "running"
      BY <2>4 DEF ShowRunning, Turn
    <3>2. Head(ui).job # j
      BY <1>0, <1>1, <3>1
    <3> QED
      BY <1>0, <1>1, <2>4, <3>2 DEF ShowRunning
  <2>5. CASE ShowTick
    <3>1. Head(ui).job = j => progress[Head(ui).job] >= Full
      BY <1>0, <1>1
    <3>2. CASE Head(ui).job = j
      BY <1>1, <2>5, <3>1, <3>2 DEF ShowTick
    <3>3. CASE Head(ui).job # j
      BY <1>0, <1>1, <2>5, <3>3 DEF ShowTick
    <3> QED
      BY <3>2, <3>3
  <2>6. CASE ShowSummary
    BY <1>0, <1>1, <2>6 DEF ShowSummary
  <2>7. CASE ShowTerminal
    <3>1. ui # <<>> /\ Head(ui).op \in Terminal
      BY <2>7 DEF ShowTerminal, Turn
    <3>2. /\ Head(ui).op = outcome[Head(ui).job] /\ run[Head(ui).job] = "ended"
      BY <3>1, HeadFits DEF SummaryInv
    <3>3. Head(ui).job = j => Head(ui).op = "done"
      BY <3>2 DEF Summed
    <3> QED
      BY <1>0, <1>1, <2>7, <3>3 DEF ShowTerminal
  <2>8. UNCHANGED cardVars \/ (\E i \in Jobs : WorkSucceeds(i)) \/ (\E g \in Ghosts : ReportError(g))
        \/ ShowRunning \/ ShowTick \/ ShowSummary \/ ShowTerminal
    BY DEF Next, Submit, Pool, Acquire, WaitCancelled, WorkEnds, Summarised, WorkFails, Settle,
       Report, Deliver, RequestCancel, Remove, RaiseLimit, Dispatcher, ShowAdded, ShowGhost,
       ShowRemoved, Idle, vars
  <2> QED
    BY <2>1, <2>2, <2>3, <2>4, <2>5, <2>6, <2>7, <2>8
<1> QED
  BY <1>3, <1>4

\* A summary comes to stand only when the dispatcher runs its closure.
LEMMA SummaryShown ==
  ASSUME SummaryOnUi, SummaryInv, [Next]_vars, NEW j \in Jobs, ~Summed(j), Summed(j)'
  PROVE  ShowSummary /\ Head(ui).job = j
<1> USE DEF runVars, semVars, tickVars, cardVars, callerVars
<1>0. /\ run \in [Jobs -> RunStates] /\ outcome \in [Jobs -> {"none", "broken"} \cup Terminal]
      /\ ui \in Seq(Closures) /\ j \in Cards
  BY CardTypes DEF SummaryInv, CardInv
<1>1. ASSUME run'[j] = run[j], outcome'[j] = outcome[j],
             \/ ui' = ui
             \/ \E c : ui' = Append(ui, c)
             \/ ui # <<>> /\ ui' = Tail(ui) /\ (Head(ui).op = "summary" => Head(ui).job # j)
      PROVE  FALSE
  <2>1. outcome[j] # "done" /\ run[j] = "summing"
        /\ \A k \in DOMAIN ui' : ui'[k].op = "summary" => ui'[k].job # j
    BY <1>1 DEF Summed
  <2>2. PICK k \in DOMAIN ui : ui[k].op = "summary" /\ ui[k].job = j
    BY <2>1 DEF Summed
  <2>3. CASE ui' = ui
    BY <2>1, <2>2, <2>3
  <2>4. ASSUME NEW c, ui' = Append(ui, c)
        PROVE  FALSE
    <3>1. k \in DOMAIN ui' /\ ui'[k] = ui[k]
      BY <1>0, <2>2, <2>4
    <3> QED
      BY <2>1, <2>2, <3>1
  <2>5. CASE ui # <<>> /\ ui' = Tail(ui) /\ (Head(ui).op = "summary" => Head(ui).job # j)
    <3>1. k # 1
      BY <1>0, <2>2, <2>5
    <3>2. k - 1 \in DOMAIN ui' /\ ui'[k - 1] = ui[k]
      BY <1>0, <2>2, <2>5, <3>1
    <3> QED
      BY <2>1, <2>2, <3>2
  <2> QED
    BY <1>1, <2>3, <2>4, <2>5
<1>2. ASSUME NEW i \in Jobs,
             Submit(i) \/ Acquire(i) \/ WaitCancelled(i) \/ WorkSucceeds(i) \/ WorkFails(i)
      PROVE  FALSE
  <2>1. run[i] \in {"idle", "waiting", "working"} /\ outcome[i] = "none"
        /\ (outcome[i] = "none" => i # j \/ outcome'[i] # "done")
    <3>1. run[i] \in {"idle", "waiting", "working"}
      BY <1>2 DEF Submit, Acquire, WaitCancelled, WorkSucceeds, WorkFails
    <3>2. outcome'[i] # "done"
      BY <1>0, <1>2, <3>1 DEF Submit, Acquire, WaitCancelled, WorkSucceeds, WorkFails, SummaryInv,
         CardInv, Outcomes
    <3> QED
      BY <3>1, <3>2 DEF SummaryInv, CardInv, Outcomes
  <2>2. CASE i # j
    <3>1. run'[j] = run[j] /\ outcome'[j] = outcome[j]
      BY <1>0, <1>2, <2>2 DEF Submit, Acquire, WaitCancelled, WorkSucceeds, WorkFails
    <3>2. ui' = ui \/ \E c : ui' = Append(ui, c)
      BY <1>2 DEF Submit, Acquire, WaitCancelled, WorkSucceeds, WorkFails, Post
    <3> QED
      BY <1>1, <3>1, <3>2
  <2>3. CASE i = j
    <3>1. run'[j] = "summing" => ui' = Append(ui, [op |-> "summary", job |-> j, p |-> 0])
      BY <1>0, <1>2, <2>3 DEF Submit, Acquire, WaitCancelled, WorkSucceeds, WorkFails, Post
    <3>2. run'[j] = "summing" => \E k \in DOMAIN ui' : ui'[k].op = "summary" /\ ui'[k].job = j
      BY <1>0, <3>1
    <3> QED
      BY <2>1, <2>3, <3>2 DEF Summed
  <2> QED
    BY <2>2, <2>3
<1>3. ASSUME NEW i \in Jobs, Summarised(i)
      PROVE  FALSE
  <2>1. CASE i # j
    BY <1>0, <1>1, <1>3, <2>1 DEF Summarised
  <2>2. CASE i = j
    <3>1. PICK k \in DOMAIN ui : ui[k].op = "summary" /\ ui[k].job = j
      BY <1>3, <2>2 DEF Summed, Summarised
    <3>2. ui[k].p = 0 /\ ui[k] \in Closures
      BY <1>0, <3>1 DEF SummaryInv, CardInv, ClosuresFit
    <3>3. ui[k] = [op |-> "summary", job |-> j, p |-> 0]
      BY <3>1, <3>2 DEF Closures
    <3> QED
      BY <1>3, <2>2, <3>3 DEF Summarised
  <2> QED
    BY <2>1, <2>2
<1>4. ASSUME NEW i \in Jobs, Settle(i)
      PROVE  FALSE
  <2>1. outcome' = outcome /\ ~(run'[j] = "summing" /\ i = j) /\ (\E c : ui' = Append(ui, c))
        /\ (i # j => run'[j] = run[j])
    BY <1>0, <1>4 DEF Settle, Post
  <2> QED
    BY <1>1, <2>1 DEF Summed
<1>5. CASE UNCHANGED <<run, outcome>> /\ (ui' = ui \/ \E c : ui' = Append(ui, c))
  BY <1>1, <1>5
<1>6. CASE Dispatcher /\ ~(ShowSummary /\ Head(ui).job = j)
  <2>1. ui # <<>> /\ ui' = Tail(ui) /\ UNCHANGED <<run, outcome>>
    BY <1>6 DEF Dispatcher, Turn, ShowAdded, ShowRunning, ShowTick, ShowSummary,
       ShowTerminal, ShowGhost, ShowRemoved
  <2>2. Head(ui).op = "summary" => Head(ui).job # j
    BY <1>6 DEF Dispatcher, Turn, ShowAdded, ShowRunning, ShowTick, ShowSummary,
       ShowTerminal, ShowGhost, ShowRemoved, Terminal
  <2> QED
    BY <1>1, <2>1, <2>2
<1>7. \/ \E i \in Jobs : \/ Submit(i) \/ Acquire(i) \/ WaitCancelled(i) \/ WorkSucceeds(i)
                         \/ WorkFails(i) \/ Summarised(i) \/ Settle(i)
      \/ UNCHANGED <<run, outcome>> /\ (ui' = ui \/ \E c : ui' = Append(ui, c))
      \/ Dispatcher
  BY DEF Next, Pool, WorkEnds, Report, Deliver, RequestCancel, ReportError, Remove, RaiseLimit,
     Idle, vars, Post
<1> QED
  BY <1>2, <1>3, <1>4, <1>5, <1>6, <1>7

\* Nothing is summed up at the start.
LEMMA InitSummary == Init => SummaryInv
<1> SUFFICES ASSUME Init PROVE SummaryInv
  OBVIOUS
<1>1. \A j \in Jobs : ~Summed(j)
  BY DEF Init, Summed
<1> QED
  BY <1>1, InitCards DEF SummaryInv, SummaryStands

\* A step keeps every summary that stands, and shows one before it counts.
LEMMA StepSummary == SummaryOnUi /\ SummaryInv /\ [Next]_vars => SummaryInv'
<1> SUFFICES ASSUME SummaryOnUi, SummaryInv, [Next]_vars PROVE SummaryInv'
  OBVIOUS
<1>1. CardInv'
  BY StepCards DEF SummaryInv
<1>2. ASSUME NEW j \in Jobs, Summed(j)'
      PROVE  /\ text'[j] = "summary" /\ progress'[j] = Full
             /\ \A k \in DOMAIN ui' : ui'[k].op = "running" => ui'[k].job # j
  <2>1. CASE Summed(j)
    BY <2>1, SummaryStays
  <2>2. CASE ~Summed(j)
    <3>1. ShowSummary /\ Head(ui).job = j
      BY <1>2, <2>2, SummaryShown
    <3>2. /\ ui # <<>> /\ ui' = Tail(ui) /\ Head(ui).op = "summary"
          /\ progress' = [progress EXCEPT ![j] = Full] /\ text' = [text EXCEPT ![j] = "summary"]
      BY <3>1 DEF ShowSummary, Turn
    <3>3. /\ ui \in Seq(Closures) /\ j \in Cards /\ ClosuresOrdered /\ progress \in [Cards -> 0..Full]
          /\ text \in [Cards -> {"none", "starting", "percent", "summary", "cancelled", "error"}]
      BY CardTypes DEF SummaryInv, CardInv, TypeOK, CardType
    <3>4. ASSUME NEW k \in DOMAIN ui', ui'[k].op = "running"
          PROVE  ui'[k].job # j
      <4>1. /\ 1 \in DOMAIN ui /\ Head(ui) = ui[1] /\ k + 1 \in DOMAIN ui
            /\ ui'[k] = ui[k + 1] /\ 1 < k + 1 /\ k \in Nat
        BY <3>2, <3>3, QueueServed
      <4>2. ui[k + 1].job = ui[1].job => k + 1 < 1
        BY <3>2, <3>3, <3>4, <4>1 DEF ClosuresOrdered
      <4> QED
        BY <3>1, <4>1, <4>2
    <3> QED
      BY <3>2, <3>3, <3>4
  <2> QED
    BY <2>1, <2>2
<1> QED
  BY <1>1, <1>2 DEF SummaryInv, SummaryStands

\* What the card of a successful job says is the summary of its delegate, in
\* OtterZip.App, where the delegate waits until its closure has run.
THEOREM DoneCardsShowSummary == ASSUME SummaryOnUi PROVE Spec => []DoneShowsSummary
<1>1. SummaryInv => DoneShowsSummary
  BY DEF SummaryInv, SummaryStands, CardInv, Outcomes, DoneShowsSummary, Summed, Terminal
<1> QED
  BY <1>1, InitSummary, StepSummary, PTL DEF Spec

-----------------------------------------------------------------------------
(* OtterZip.App: what the caller that awaits a job is told.                *)

\* The delegate answers as it ends; only a job cancelled while it waited
\* leaves that to JobSettled.
Answered ==
  \A j \in Jobs :
    /\ run[j] \in {"idle", "waiting", "working", "summing"} => awaited[j] = "pending"
    /\ run[j] = "marking" => awaited[j] = outcome[j]
    /\ run[j] = "ended" => \/ awaited[j] = outcome[j]
                           \/ awaited[j] = "pending" /\ outcome[j] = "cancelled"

AnswerInv == CardInv /\ Answered

\* At the start everyone waits.
LEMMA InitAnswers == Init => AnswerInv
<1> SUFFICES ASSUME Init PROVE AnswerInv
  OBVIOUS
<1>1. \A j \in Jobs : run[j] = "idle" /\ awaited[j] = "pending"
  BY DEF Init, Cards
<1> QED
  BY <1>1, InitCards DEF AnswerInv, Answered

\* A step of the pool answers only the caller of the job it ends.
LEMMA StepAnswers == SummaryOnUi /\ AnswerInv /\ [Next]_vars => AnswerInv'
<1> SUFFICES ASSUME SummaryOnUi, AnswerInv, [Next]_vars PROVE Answered'
  BY StepCards DEF AnswerInv
<1> USE DEF runVars, semVars, tickVars, cardVars, callerVars
<1>0. /\ run \in [Jobs -> RunStates] /\ outcome \in [Jobs -> {"none", "broken"} \cup Terminal]
      /\ awaited \in [Cards -> {"pending"} \cup Terminal]
      /\ Jobs \subseteq Cards /\ Jobs \cap Ghosts = {} /\ Outcomes /\ GoneIsOver /\ Answered
      /\ CardInv
  BY CardTypes DEF AnswerInv, CardInv, TypeOK, CardType
<1>1. CASE UNCHANGED <<run, outcome, awaited>>
  BY <1>0, <1>1 DEF Answered
<1>2. ASSUME NEW j \in Jobs, Submit(j) \/ Acquire(j)
      PROVE  Answered'
  <2>1. /\ run[j] \in {"idle", "waiting"} /\ outcome' = outcome /\ awaited' = awaited
        /\ \E r \in {"waiting", "working"} : run' = [run EXCEPT ![j] = r]
    BY <1>0, <1>2 DEF Submit, Acquire, Outcomes, GoneIsOver
  <2> QED
    BY <1>0, <2>1 DEF Answered
<1>3. ASSUME NEW j \in Jobs, WaitCancelled(j)
      PROVE  Answered'
  <2>1. /\ run[j] = "waiting" /\ awaited' = awaited
        /\ run' = [run EXCEPT ![j] = "ended"] /\ outcome' = [outcome EXCEPT ![j] = "cancelled"]
    BY <1>3 DEF WaitCancelled
  <2> QED
    BY <1>0, <2>1 DEF Answered
<1>4. ASSUME NEW j \in Jobs, WorkSucceeds(j)
      PROVE  Answered'
  <2>1. /\ run[j] = "working" /\ outcome' = outcome /\ awaited' = awaited
        /\ run' = [run EXCEPT ![j] = "summing"]
    BY <1>4 DEF WorkSucceeds
  <2> QED
    BY <1>0, <2>1 DEF Answered
<1>5. ASSUME NEW j \in Jobs, Summarised(j) \/ WorkFails(j)
      PROVE  Answered'
  <2>1. /\ run[j] \in {"working", "summing"} /\ run' = [run EXCEPT ![j] = "marking"]
    BY <1>5 DEF Summarised, WorkFails
  <2>2. awaited[j] = "pending"
    BY <1>0, <2>1 DEF Answered
  <2>3. PICK o \in Terminal : /\ outcome' = [outcome EXCEPT ![j] = o]
                              /\ awaited' = [awaited EXCEPT ![j] = o]
    BY <1>0, <1>5, <2>2 DEF Summarised, WorkFails, Terminal
  <2> QED
    BY <1>0, <2>1, <2>3 DEF Answered
<1>6. ASSUME NEW j \in Jobs, Settle(j)
      PROVE  Answered'
  <2>1. /\ run[j] = "marking" /\ run' = [run EXCEPT ![j] = "ended"]
        /\ UNCHANGED <<outcome, awaited>>
    BY <1>6 DEF Settle
  <2> QED
    BY <1>0, <2>1 DEF Answered
<1>7. CASE ShowTerminal \/ ShowGhost
  <2> DEFINE j == Head(ui).job
  <2>1. /\ UNCHANGED <<run, outcome>> /\ ui # <<>>
        /\ awaited' = [awaited EXCEPT ![j] = IF @ = "pending" THEN "cancelled" ELSE @]
        /\ Head(ui).op \in Terminal \cup {"ghost"}
    BY <1>7 DEF ShowTerminal, ShowGhost, Turn, RaiseSettled
  <2>2. j \in Jobs => run[j] = "ended"
    BY <1>0, <2>1, HeadFits
  <2> HIDE DEF j
  <2>3. \A i \in Jobs : awaited'[i] = IF i = j /\ awaited[i] = "pending" THEN "cancelled"
                                                                        ELSE awaited[i]
    BY <1>0, <2>1
  <2>4. \A i \in Jobs : i = j /\ awaited[i] = "pending" =>
           run[i] = "ended" /\ outcome[i] = "cancelled"
    BY <1>0, <2>2 DEF Answered, Terminal
  <2>5. \A i \in Jobs : \/ awaited'[i] = awaited[i]
                         \/ /\ run[i] = "ended" /\ awaited'[i] = "cancelled"
                            /\ outcome[i] = "cancelled"
    BY <2>3, <2>4
  <2> QED
    BY <1>0, <2>1, <2>5 DEF Answered
<1>8. \/ UNCHANGED <<run, outcome, awaited>> \/ ShowTerminal \/ ShowGhost
      \/ \E j \in Jobs : \/ Submit(j) \/ Acquire(j) \/ WaitCancelled(j) \/ WorkSucceeds(j)
                         \/ Summarised(j) \/ WorkFails(j) \/ Settle(j)
  BY DEF Next, Pool, WorkEnds, Report, Deliver, RequestCancel, ReportError, Remove, RaiseLimit,
     Idle, vars, Dispatcher, ShowAdded, ShowRunning, ShowTick, ShowSummary, ShowRemoved
<1> QED
  BY <1>1, <1>2, <1>3, <1>4, <1>5, <1>6, <1>7, <1>8

\* The caller of an inline extract is told how its work ended, and the queue
\* never fails under a job, in OtterZip.App.
THEOREM CallersAreToldTheTruth == ASSUME SummaryOnUi PROVE Spec => []CallerToldTheTruth
<1>1. AnswerInv => CallerToldTheTruth
  <2> SUFFICES ASSUME AnswerInv, NEW j \in Jobs, awaited[j] # "pending"
               PROVE  awaited[j] = outcome[j]
    BY DEF CallerToldTheTruth
  <2>1. run[j] \in RunStates
    BY CardTypes DEF AnswerInv, CardInv
  <2> QED
    BY <2>1 DEF AnswerInv, Answered, RunStates
<1> QED
  BY <1>1, InitAnswers, StepAnswers, PTL DEF Spec

-----------------------------------------------------------------------------
(* OtterZip.Linux: the window of a verb that submits jobs only.            *)

Unsettled == {j \in Jobs : run[j] # "idle" /\ state[j] \notin Terminal}

\* The counter is the number of jobs submitted and not settled, JobSettled is
\* raised once per job, and the window that is closed has none left.
Accounted ==
  /\ \A j \in Jobs : settled[j] = IF state[j] \in Terminal THEN 1 ELSE 0
  /\ Headless => outstanding = Cardinality(Unsettled)
  /\ closed => Unsettled = {} /\ \A j \in Jobs : run[j] # "idle"

VerbInv == CardInv /\ Accounted

\* No job, no count.
LEMMA InitVerb == Init => VerbInv
<1> SUFFICES ASSUME Init PROVE VerbInv
  OBVIOUS
<1>1. Unsettled = {} /\ Cardinality({}) = 0
  BY FS_EmptySet DEF Init, Unsettled
<1>2. \A j \in Jobs : state[j] \notin Terminal /\ settled[j] = 0
  BY DEF Init, Terminal, Cards
<1> QED
  BY <1>1, <1>2, InitCards DEF VerbInv, Accounted, Init

\* Submitting a job opens one account; the closure that settles it closes it.
LEMMA StepVerb == (Headless => Ghosts = {}) /\ VerbInv /\ [Next]_vars => VerbInv'
<1> SUFFICES ASSUME Headless => Ghosts = {}, VerbInv, [Next]_vars PROVE Accounted'
  BY StepCards DEF VerbInv
<1> USE DEF runVars, semVars, tickVars, cardVars, callerVars
<1>0. /\ run \in [Jobs -> RunStates] /\ outcome \in [Jobs -> {"none", "broken"} \cup Terminal]
      /\ state \in [Cards -> Active \cup Terminal] /\ settled \in [Cards -> Nat]
      /\ outstanding \in Int /\ Jobs \subseteq Cards /\ Jobs \cap Ghosts = {}
      /\ Ghosts \subseteq Cards /\ Outcomes /\ Accounted /\ CardInv
  BY CardTypes DEF VerbInv, CardInv, TypeOK, CardType
<1>1. IsFiniteSet(Unsettled) /\ Cardinality(Unsettled) \in Nat
  BY QueueAssumption, FS_Subset, FS_CardinalityType DEF Unsettled
<1>2. ASSUME UNCHANGED <<settled, outstanding, closed>>,
             \A j \in Jobs : (state'[j] \in Terminal <=> state[j] \in Terminal)
                             /\ (run'[j] # "idle" <=> run[j] # "idle")
      PROVE  Accounted'
  <2>1. Unsettled' = Unsettled
    BY <1>2 DEF Unsettled
  <2> QED
    BY <1>0, <1>2, <2>1 DEF Accounted
<1>3. ASSUME NEW j \in Jobs, Submit(j)
      PROVE  Accounted'
  <2>1. /\ run[j] = "idle" /\ ~closed /\ run' = [run EXCEPT ![j] = "waiting"]
        /\ closed' = closed /\ UNCHANGED <<state, settled>>
        /\ Headless => outstanding' = outstanding + 1
    BY <1>3 DEF Submit
  <2>2. state[j] \notin Terminal
    BY <1>0, <2>1 DEF Outcomes
  <2>3. Unsettled' = Unsettled \cup {j} /\ j \notin Unsettled
    BY <1>0, <2>1, <2>2 DEF Unsettled
  <2>4. Cardinality(Unsettled') = Cardinality(Unsettled) + 1
    BY <1>1, <2>3, FS_AddElement
  <2> QED
    BY <1>0, <2>1, <2>4 DEF Accounted
<1>4. CASE ShowTerminal
  <2> DEFINE j == Head(ui).job
  <2>1. /\ ui # <<>> /\ Head(ui).op \in Terminal /\ run' = run
        /\ Headless => \A i \in Jobs : run[i] # "idle"
        /\ state' = [state EXCEPT ![j] = Head(ui).op]
        /\ settled' = [settled EXCEPT ![j] = @ + 1]
        /\ Headless => outstanding' = outstanding - 1
        /\ closed' => Headless /\ outstanding' <= 0
    BY <1>4 DEF ShowTerminal, Turn, RaiseSettled
  <2>2. j \in Jobs /\ run[j] = "ended" /\ state[j] \notin Terminal
    BY <1>0, <2>1, HeadFits
  <2> HIDE DEF j
  <2>3. /\ state'[j] \in Terminal /\ settled'[j] = settled[j] + 1
        /\ \A i \in Jobs : i # j => state'[i] = state[i] /\ settled'[i] = settled[i]
    BY <1>0, <2>1, <2>2
  <2>4. Unsettled' = Unsettled \ {j} /\ j \in Unsettled
    BY <1>0, <2>1, <2>2, <2>3 DEF Unsettled
  <2>5. /\ Cardinality(Unsettled') = Cardinality(Unsettled) - 1
        /\ IsFiniteSet(Unsettled') /\ Cardinality(Unsettled') \in Nat
    BY <1>1, <2>4, FS_RemoveElement, FS_CardinalityType
  <2>6. \A i \in Jobs : settled'[i] = IF state'[i] \in Terminal THEN 1 ELSE 0
    BY <1>0, <2>2, <2>3 DEF Accounted
  <2>7. Headless => outstanding' = Cardinality(Unsettled')
    BY <1>0, <2>1, <2>5 DEF Accounted
  <2>8. closed' => Unsettled' = {} /\ \A i \in Jobs : run'[i] # "idle"
    <3> SUFFICES ASSUME closed' PROVE Unsettled' = {} /\ \A i \in Jobs : run'[i] # "idle"
      OBVIOUS
    <3>1. Headless /\ \A i \in Jobs : run'[i] # "idle"
      BY <2>1
    <3>2. outstanding' <= 0 /\ outstanding' = Cardinality(Unsettled')
      BY <2>1, <2>7, <3>1
    <3>3. Cardinality(Unsettled') \in Nat
      BY <2>5
    <3>4. Cardinality(Unsettled') = 0
      BY <3>2, <3>3
    <3> QED
      BY <2>5, <3>1, <3>4, FS_EmptySet
  <2> QED
    BY <2>6, <2>7, <2>8 DEF Accounted
<1>5. CASE ShowGhost
  <2>1. /\ ui # <<>> /\ Head(ui).op = "ghost" /\ UNCHANGED <<run, state>>
        /\ settled' = [settled EXCEPT ![Head(ui).job] = @ + 1]
        /\ ~Headless => ~closed'
    BY <1>5 DEF ShowGhost, Turn, RaiseSettled
  <2>2. Head(ui).job \in Ghosts
    BY <1>0, <2>1, HeadFits
  <2>3. ~Headless
    BY <2>2
  <2>4. \A i \in Jobs : settled'[i] = settled[i]
    BY <1>0, <2>1, <2>2
  <2> QED
    BY <1>0, <2>1, <2>3, <2>4 DEF Accounted
<1>6. ASSUME NEW j \in Jobs, Acquire(j) \/ WaitCancelled(j) \/ WorkEnds(j) \/ Settle(j)
      PROVE  Accounted'
  <2>1. /\ UNCHANGED <<settled, outstanding, closed, state>> /\ run[j] # "idle"
        /\ \E r \in RunStates \ {"idle"} : run' = [run EXCEPT ![j] = r]
    BY <1>6 DEF Acquire, WaitCancelled, WorkEnds, WorkSucceeds, Summarised, WorkFails, Settle,
       RunStates
  <2> QED
    BY <1>0, <1>2, <2>1
<1>7. ASSUME NEW g \in Ghosts, ReportError(g)
      PROVE  Accounted'
  <2>1. \A i \in Jobs : state'[i] = state[i]
    BY <1>0, <1>7 DEF ReportError
  <2> QED
    BY <1>2, <1>7, <2>1 DEF ReportError
<1>8. CASE ShowRunning
  <2>1. /\ ui # <<>> /\ Head(ui).op = "running"
        /\ UNCHANGED <<run, settled, outstanding, closed>>
        /\ state' = [state EXCEPT ![Head(ui).job] = "running"]
    BY <1>8 DEF ShowRunning, Turn
  <2>2. state[Head(ui).job] \notin Terminal
    BY <1>0, <2>1, HeadFits
  <2> QED
    BY <1>0, <1>2, <2>1, <2>2 DEF Terminal
<1>9. \/ UNCHANGED <<settled, outstanding, closed, state, run>>
      \/ ShowTerminal \/ ShowGhost \/ ShowRunning \/ (\E g \in Ghosts : ReportError(g))
      \/ \E j \in Jobs : \/ Submit(j) \/ Acquire(j) \/ WaitCancelled(j) \/ WorkEnds(j)
                         \/ Settle(j)
  BY DEF Next, Pool, Report, Deliver, RequestCancel, Remove, RaiseLimit,
     Idle, vars, Dispatcher, ShowAdded, ShowTick, ShowSummary, ShowRemoved
<1> QED
  BY <1>2, <1>3, <1>4, <1>5, <1>6, <1>7, <1>8, <1>9

\* The window of a verb waits for every job the verb submitted, as long as
\* the verb reports no failure outside its jobs: ReportError raises JobSettled
\* for a card TrackHeadless has not counted (MainWindow.axaml.cs:667, :677).
THEOREM WindowWaitsForAll ==
  ASSUME Headless => Ghosts = {} PROVE Spec => []ClosesAfterLast
<1>1. VerbInv => ClosesAfterLast
  <2> SUFFICES ASSUME VerbInv, closed, NEW j \in Jobs PROVE settled[j] = 1
    BY DEF ClosesAfterLast
  <2>1. state[j] \in Terminal
    BY DEF VerbInv, Accounted, Unsettled
  <2> QED
    BY <2>1 DEF VerbInv, Accounted
<1> QED
  BY <1>1, InitVerb, StepVerb, PTL DEF Spec

-----------------------------------------------------------------------------
(* The names the jobs write to.                                            *)

\* A job that has a name and has neither ended nor given it back.
Holding(j) == pc[j] \in {"planned", "queued", "writing", "written", "done", "cleaning"}

\* It has its name in the registry, unless the name is contested.
HeldInRegistry ==
  \A j \in Tasks : Holding(j) /\ Name(j) \notin contested => Name(j) \in reserved

\* What was there before is only under the name of a job that takes its
\* folder as it is, and that job found it there.
OldAside ==
  \A j \in Tasks : Planned(j) /\ Old \in whole[Name(j)] =>
    kind[j] = "here" /\ (pc[j] = "planned" \/ existed[j])

\* Under a name that is not contested is nothing before its job starts, the
\* job alone afterwards, and nobody else's while it fails.
Wrote(j) == pc[j] \in {"writing", "written", "done", "settled well"} /\ kind[j] # "volumes"
Mine ==
  \A j \in Tasks : Planned(j) /\ Name(j) \notin contested =>
    /\ pc[j] \in {"planned", "queued"} => whole[Name(j)] = {}
    /\ ~HasEnded(j) => whole[Name(j)] \subseteq {j}
    /\ Wrote(j) => whole[Name(j)] = {j}

\* A folder loses what a job put there only to one that found none.
InFolder ==
  \A j \in Tasks : Wrote(j) /\ ~Compresses(j) =>
    j \in whole[Name(j)] \/ \E k \in Tasks : MayHaveDeleted(j, k)

\* Linux's extraction cleans nothing up.
ShellLeaves == \A j \in Tasks : kind[j] = "shell" => pc[j] \notin {"cleaning", "released"}

\* A reserved name is that of a job that will release it, or of a folder
\* nobody does.
Kept ==
  \A n \in reserved : \E j \in Tasks :
    /\ Planned(j) /\ Name(j) = n /\ Reserves(j)
    /\ ~CardSettled(j) \/ kind[j] = "shell"

NamesInv ==
  /\ NamesTypeOK /\ HeldInRegistry /\ NamesAreApart /\ OldAside /\ Mine /\ InFolder
  /\ ShellLeaves /\ Kept

LEMMA NameTyped ==
  ASSUME NamesTypeOK, NEW j \in Tasks
  PROVE  Name(j) \in Names
BY DEF NamesTypeOK, Name, Named, Names

LEMMA InitNames == NamesInit => NamesInv
<1> SUFFICES ASSUME NamesInit PROVE NamesInv
  OBVIOUS
<1>1. NamesTypeOK
  <2>1. PICK had \in SUBSET {"archive", "folder"}, had001 \in BOOLEAN :
          /\ whole = [n \in Names |-> IF n[1] \in had /\ n[2] = 0 THEN {Old} ELSE {}]
          /\ segments = [n \in Names |-> IF had001 /\ n = <<"archive", 0>> THEN {Old} ELSE {}]
    BY DEF NamesInit
  <2>2. 0 \in 0..Last
    BY OutputNamesAssumption
  <2> QED
    BY <2>1, <2>2 DEF NamesInit, NamesTypeOK, States
<1>2. reserved = {} /\ \A j \in Tasks : pc[j] = "new"
  BY DEF NamesInit
<1> QED
  BY <1>1, <1>2 DEF NamesInv, HeldInRegistry, NamesAreApart, Same, OldAside, Mine, InFolder,
     Wrote, ShellLeaves, Kept, Holding, Planned

(***************************************************************************)
(* A step is a plan, a submission, a start, a settling, one of the two     *)
(* steps of the clean-up, or leaves names, files and registry alone.       *)
(***************************************************************************)
Quiet(j) ==
  \/ Abandon(j) \/ CancelQueued(j) \/ Write(j) \/ MaybeRecycleSources(j)
  \/ Finish(j) \/ Fail(j) \/ FailKeeping(j)

LEMMA QuietStep ==
  ASSUME NamesTypeOK, NEW j \in Tasks, Quiet(j)
  PROVE  /\ UNCHANGED <<kind, dest, existed, whole, reserved, contested>>
         /\ \E to \in States :
              /\ pc' = [pc EXCEPT ![j] = to]
              /\ pc[j] \in {"planned", "queued", "writing", "written"}
              /\ to \in {"abandoned", "writing", "written", "done", "cleaning", "failed"}
              /\ to \in {"writing", "written", "done"} => pc[j] \in {"writing", "written"}
              /\ to = "cleaning" => kind[j] # "shell"
<1> USE DEF Goes, States, NamesTypeOK
<1>1. CASE Abandon(j) \/ CancelQueued(j)
  BY <1>1 DEF Abandon, CancelQueued
<1>2. CASE Write(j) \/ Finish(j)
  BY <1>2 DEF Write, Finish
<1>3. CASE MaybeRecycleSources(j)
  <2>1. pc' = [pc EXCEPT ![j] = "written"] /\ pc[j] = "written"
    BY <1>3 DEF MaybeRecycleSources
  <2> QED
    BY <1>3, <2>1 DEF MaybeRecycleSources
<1>4. CASE Fail(j) \/ FailKeeping(j)
  BY <1>4 DEF Fail, FailKeeping
<1> QED
  BY <1>1, <1>2, <1>3, <1>4 DEF Quiet

\* Every step is one of these.
LEMMA NamesSteps ==
  ASSUME [NamesNext]_namesVars
  PROVE  \/ \E j \in Tasks : \/ Plan(j) \/ SubmitPlan(j) \/ Start(j) \/ CleanRelease(j)
                             \/ CleanDelete(j) \/ SettleCard(j) \/ Quiet(j)
         \/ UNCHANGED namesVars
BY DEF NamesNext, AllEnded, Quiet

LEMMA TypeStep ==
  ASSUME NamesTypeOK, [NamesNext]_namesVars
  PROVE  NamesTypeOK'
<1> USE DEF NamesTypeOK, Goes, States
<1>1. ASSUME NEW j \in Tasks, Plan(j) PROVE NamesTypeOK'
  <2>1. PICK i \in 0..Last :
          /\ dest' = [dest EXCEPT ![j] = i]
          /\ reserved' = IF Reserves(j) THEN reserved \cup {Named(j, i)} ELSE reserved
          /\ contested' = IF Reserves(j) /\ ~CleaningUp(Named(j, i)) THEN contested
                          ELSE contested \cup {Named(j, i)}
    BY <1>1 DEF Plan
  <2>2. Named(j, i) \in Names
    BY DEF Named, Names
  <2>3. UNCHANGED <<kind, existed, whole, segments, recycled>> /\ pc' = [pc EXCEPT ![j] = "planned"]
    BY <1>1 DEF Plan
  <2> QED
    BY <2>1, <2>2, <2>3
<1>2. ASSUME NEW j \in Tasks, SubmitPlan(j) PROVE NamesTypeOK'
  <2>1. (RollsBack(j) /\ whole[Name(j)] # {}) \in BOOLEAN
    OBVIOUS
  <2>2. existed' \in [Tasks -> BOOLEAN]
    BY <1>2, <2>1 DEF SubmitPlan
  <2> QED
    BY <1>2, <2>2 DEF SubmitPlan
<1>3. ASSUME NEW j \in Tasks, Start(j) PROVE NamesTypeOK'
  <2>1. whole' \in [Names -> SUBSET (Tasks \cup {Old})]
    BY <1>3, NameTyped DEF Start
  <2> QED
    BY <1>3, <2>1 DEF Start
<1>4. ASSUME NEW j \in Tasks, CleanDelete(j) PROVE NamesTypeOK'
  BY <1>4, NameTyped DEF CleanDelete
<1>5. ASSUME NEW j \in Tasks, CleanRelease(j) PROVE NamesTypeOK'
  BY <1>5 DEF CleanRelease
<1>6. ASSUME NEW j \in Tasks, SettleCard(j) PROVE NamesTypeOK'
  BY <1>6 DEF SettleCard, ReleaseReservation
<1>7. ASSUME NEW j \in Tasks, Quiet(j) PROVE NamesTypeOK'
  <2>1. CASE Write(j)
    <3>1. segments' \in [Names -> SUBSET (Tasks \cup {Old})] /\ recycled' = recycled
      BY <2>1, NameTyped DEF Write
    <3> QED
      BY <1>7, <3>1, QuietStep
  <2>2. CASE ~Write(j)
    <3>1. segments' = segments /\ recycled' \subseteq Tasks
      BY <1>7, <2>2 DEF Quiet, Abandon, CancelQueued, MaybeRecycleSources, Finish, Fail,
         FailKeeping
    <3> QED
      BY <1>7, <3>1, QuietStep
  <2> QED
    BY <2>1, <2>2
<1>8. ASSUME UNCHANGED namesVars PROVE NamesTypeOK'
  BY <1>8 DEF namesVars
<1> QED
  BY <1>1, <1>2, <1>3, <1>4, <1>5, <1>6, <1>7, <1>8, NamesSteps

---------------------------------------------------------------------------

\* A job keeps its name and its kind, a contested name stays so, what was
\* noted at submission stays noted, and nobody comes back to his name.
LEMMA NamesStay ==
  ASSUME NamesTypeOK, [NamesNext]_namesVars, NEW j \in Tasks, Planned(j)
  PROVE  /\ kind' = kind /\ Planned(j)' /\ Name(j)' = Name(j) /\ contested \subseteq contested'
         /\ pc[j] # "planned" => pc'[j] # "planned" /\ existed'[j] = existed[j]
         /\ Holding(j)' => Holding(j)
         /\ HasEnded(j) => HasEnded(j)'
         /\ pc[j] \in {"failed", "settled badly"} => pc'[j] \in {"failed", "settled badly"}
<1> USE DEF NamesTypeOK, Goes, Planned, Holding, HasEnded, CardSettled, Name, Named, Compresses
<1>1. CASE \E k \in Tasks : Plan(k)
  BY <1>1 DEF Plan
<1>2. CASE \E k \in Tasks : SubmitPlan(k)
  BY <1>2 DEF SubmitPlan
<1>3. CASE \E k \in Tasks : Start(k) \/ CleanRelease(k) \/ CleanDelete(k) \/ SettleCard(k)
  BY <1>3 DEF Start, CleanRelease, CleanDelete, SettleCard
<1>4. CASE \E k \in Tasks : Quiet(k)
  BY <1>4, QuietStep
<1>5. CASE UNCHANGED namesVars
  BY <1>5 DEF namesVars
<1> QED
  BY <1>1, <1>2, <1>3, <1>4, <1>5, NamesSteps

\* Only its plan gives a job a name.
LEMMA OnlyPlans ==
  ASSUME NamesTypeOK, [NamesNext]_namesVars, NEW j \in Tasks, ~Planned(j), Planned(j)'
  PROVE  Plan(j)
<1> USE DEF NamesTypeOK, Goes, Planned
<1>1. ASSUME NEW k \in Tasks, Plan(k) PROVE j = k
  BY <1>1 DEF Plan
<1>2. ASSUME NEW k \in Tasks, Quiet(k) PROVE FALSE
  BY <1>2, QuietStep
<1>3. ASSUME NEW k \in Tasks, SubmitPlan(k) \/ Start(k) \/ CleanRelease(k) \/ CleanDelete(k)
                                              \/ SettleCard(k)
      PROVE  FALSE
  BY <1>3 DEF SubmitPlan, Start, CleanRelease, CleanDelete, SettleCard
<1>4. CASE UNCHANGED namesVars
  BY <1>4 DEF namesVars
<1> QED
  BY <1>1, <1>2, <1>3, <1>4, NamesSteps

\* What a plan that leaves its name uncontested found: a name free on disk and
\* in the registry, and nobody cleaning up there.
LEMMA PlanFinds ==
  ASSUME NamesTypeOK, NEW j \in Tasks, Plan(j)
  PROVE  /\ Name(j)' = Named(j, dest'[j]) /\ Named(j, dest'[j]) \in Names
         /\ pc' = [pc EXCEPT ![j] = "planned"] /\ pc[j] = "new"
         /\ UNCHANGED <<kind, existed, whole>>
         /\ kind[j] # "here" => whole[Named(j, dest'[j])] = {}
         /\ Named(j, dest'[j]) \notin contested' =>
              /\ Reserves(j) /\ Named(j, dest'[j]) \in reserved'
              /\ Named(j, dest'[j]) \notin reserved /\ whole[Named(j, dest'[j])] = {}
              /\ ~CleaningUp(Named(j, dest'[j]))
<1> DEFINE n == Named(j, dest'[j])
<1>1. PICK i \in 0..Last :
        /\ IF kind[j] = "here" THEN i = 0
           ELSE ~Taken(j, Named(j, i)) /\ \A k \in 0..(i - 1) : Taken(j, Named(j, k))
        /\ dest' = [dest EXCEPT ![j] = i]
        /\ reserved' = IF Reserves(j) THEN reserved \cup {Named(j, i)} ELSE reserved
        /\ contested' = IF Reserves(j) /\ ~CleaningUp(Named(j, i)) THEN contested
                        ELSE contested \cup {Named(j, i)}
  BY DEF Plan
<1>2. /\ UNCHANGED <<kind, existed, whole>> /\ pc[j] = "new"
      /\ pc' = [pc EXCEPT ![j] = "planned"]
  BY DEF Plan, Goes
<1>3. n = Named(j, i) /\ n \in Names /\ Name(j)' = n
  BY <1>1, <1>2 DEF NamesTypeOK, Name, Named, Names, Compresses
<1>4. kind[j] # "here" => ~Taken(j, n)
  BY <1>1, <1>3
<1>5. n \notin contested' => Reserves(j) /\ n \in reserved' /\ ~CleaningUp(n)
  BY <1>1, <1>3
<1>6. Reserves(j) => kind[j] \notin {"inline", "here"}
  BY DEF Reserves
<1> HIDE DEF n
<1>7. kind[j] # "here" => whole[n] = {}
  BY <1>4 DEF Taken
<1>8. n \notin contested' => n \notin reserved
  BY <1>4, <1>5, <1>6 DEF Taken
<1> QED
  BY <1>2, <1>3, <1>5, <1>6, <1>7, <1>8 DEF n

LEMMA HeldStep ==
  ASSUME NamesTypeOK, HeldInRegistry, NamesAreApart, [NamesNext]_namesVars
  PROVE  HeldInRegistry'
<1> SUFFICES ASSUME NEW j \in Tasks, Holding(j)', Name(j)' \notin contested'
             PROVE  Name(j)' \in reserved'
  BY DEF HeldInRegistry
<1>1. CASE ~Planned(j)
  <2>1. Plan(j)
    BY <1>1, OnlyPlans DEF Planned, Holding
  <2> QED
    BY <2>1, PlanFinds
<1>2. CASE Planned(j)
  <2>1. /\ Holding(j) /\ ~HasEnded(j) /\ Name(j)' = Name(j) /\ Name(j) \notin contested
        /\ kind' = kind
    BY <1>2, NamesStay DEF Holding, HasEnded, CardSettled
  <2>2. Name(j) \in reserved
    BY <2>1 DEF HeldInRegistry
  <2>3. ASSUME NEW k \in Tasks, Plan(k) PROVE Name(j) \in reserved'
    BY <2>2, <2>3 DEF Plan
  <2>4. ASSUME NEW k \in Tasks, CleanRelease(k) \/ SettleCard(k) PROVE Name(j) \in reserved'
    <3>1. Planned(k) /\ ~HasEnded(k)
      BY <2>4 DEF CleanRelease, SettleCard, Planned, HasEnded, CardSettled
    <3>2. j # k
      BY <2>4 DEF CleanRelease, SettleCard, Holding, Goes, NamesTypeOK
    <3>3. Name(j) # Name(k)
      BY <1>2, <2>1, <3>1, <3>2 DEF NamesAreApart, Same
    <3> QED
      BY <2>2, <2>4, <3>3 DEF CleanRelease, SettleCard, ReleaseReservation
  <2>5. ASSUME NEW k \in Tasks, Quiet(k) PROVE Name(j) \in reserved'
    BY <2>2, <2>5, QuietStep
  <2>6. ASSUME NEW k \in Tasks, SubmitPlan(k) \/ Start(k) \/ CleanDelete(k)
        PROVE  Name(j) \in reserved'
    BY <2>2, <2>6 DEF SubmitPlan, Start, CleanDelete
  <2>7. CASE UNCHANGED namesVars
    BY <2>1, <2>2, <2>7 DEF namesVars
  <2> QED
    BY <2>1, <2>3, <2>4, <2>5, <2>6, <2>7, NamesSteps
<1> QED
  BY <1>1, <1>2

\* Only a plan makes two jobs of one name, and it takes one nobody has.
LEMMA ApartStep ==
  ASSUME NamesTypeOK, HeldInRegistry, NamesAreApart, [NamesNext]_namesVars
  PROVE  NamesAreApart'
<1>1. ASSUME NEW j \in Tasks, NEW k \in Tasks, j # k, Plan(j), Planned(k),
             Name(j)' = Name(k)', ~HasEnded(k)'
      PROVE  Name(j)' \in contested'
  <2>1. /\ Name(k)' = Name(k) /\ ~HasEnded(k) /\ contested \subseteq contested'
    BY <1>1, NamesStay
  <2>2. SUFFICES ASSUME Name(j)' \notin contested' PROVE FALSE
    OBVIOUS
  <2>3. Name(k) \notin contested /\ Name(k) \notin reserved /\ ~CleaningUp(Name(k))
    BY <1>1, <2>1, <2>2, PlanFinds
  <2>4. ~Holding(k)
    BY <2>3 DEF HeldInRegistry
  <2>5. pc[k] \notin {"released", "failed"}
    BY <2>3 DEF CleaningUp
  <2> QED
    BY <1>1, <2>1, <2>4, <2>5 DEF Holding, HasEnded, CardSettled, Planned, NamesTypeOK, States
<1>2. ASSUME NEW j \in Tasks, NEW k \in Tasks, j # k, Same(j, k)', ~HasEnded(j)', ~HasEnded(k)'
      PROVE  Name(j)' \in contested'
  <2>1. Planned(j)' /\ Planned(k)' /\ Name(j)' = Name(k)'
    BY <1>2 DEF Same
  <2>2. CASE Planned(j) /\ Planned(k)
    <3>1. /\ Name(j)' = Name(j) /\ Name(k)' = Name(k) /\ ~HasEnded(j) /\ ~HasEnded(k)
          /\ contested \subseteq contested'
      BY <1>2, <2>2, NamesStay
    <3>2. Same(j, k)
      BY <2>1, <2>2, <3>1 DEF Same
    <3> QED
      BY <1>2, <3>1, <3>2 DEF NamesAreApart
  <2>3. CASE ~Planned(j)
    <3>1. Plan(j)
      BY <2>1, <2>3, OnlyPlans
    <3>2. Planned(k)
      BY <1>2, <2>1, <3>1 DEF Plan, Planned, Goes, NamesTypeOK
    <3> QED
      BY <1>1, <1>2, <2>1, <3>1, <3>2
  <2>4. CASE ~Planned(k)
    <3>1. Plan(k)
      BY <2>1, <2>4, OnlyPlans
    <3>2. Planned(j)
      BY <1>2, <2>1, <3>1 DEF Plan, Planned, Goes, NamesTypeOK
    <3> QED
      BY <1>1, <1>2, <2>1, <3>1, <3>2
  <2> QED
    BY <2>2, <2>3, <2>4
<1> QED
  BY <1>2 DEF NamesAreApart

\* Nobody takes the name of an old file, and who takes an old folder as it is
\* finds it there when submitted.
LEMMA OldAsideStep ==
  ASSUME NamesTypeOK, OldAside, [NamesNext]_namesVars
  PROVE  OldAside'
<1> SUFFICES ASSUME NEW j \in Tasks, Planned(j)', Old \in whole'[Name(j)']
             PROVE  kind'[j] = "here" /\ (pc'[j] = "planned" \/ existed'[j])
  BY DEF OldAside
<1>1. CASE ~Planned(j)
  <2>1. Plan(j)
    BY <1>1, OnlyPlans
  <2> QED
    BY <2>1, PlanFinds DEF NamesTypeOK
<1>2. CASE Planned(j)
  <2>1. /\ Name(j)' = Name(j) /\ Name(j) \in Names /\ kind' = kind
        /\ pc[j] # "planned" => existed'[j] = existed[j]
    BY <1>2, NamesStay, NameTyped
  <2>2. Old \in whole[Name(j)]
    <3>1. ASSUME NEW k \in Tasks, Start(k) PROVE Old \in whole[Name(j)]
      <4>1. Name(k) \in Names /\ k # Old
        BY NameTyped, OutputNamesAssumption
      <4> QED
        BY <2>1, <3>1, <4>1 DEF Start, NamesTypeOK
    <3>2. ASSUME NEW k \in Tasks, CleanDelete(k) PROVE Old \in whole[Name(j)]
      BY <2>1, <3>2, NameTyped DEF CleanDelete, NamesTypeOK
    <3>3. ASSUME NEW k \in Tasks, Quiet(k) PROVE Old \in whole[Name(j)]
      BY <2>1, <3>3, QuietStep
    <3>4. ASSUME NEW k \in Tasks, Plan(k) \/ SubmitPlan(k) \/ CleanRelease(k) \/ SettleCard(k)
          PROVE  Old \in whole[Name(j)]
      BY <2>1, <3>4 DEF Plan, SubmitPlan, CleanRelease, SettleCard
    <3>5. CASE UNCHANGED namesVars
      BY <2>1, <3>5 DEF namesVars
    <3> QED
      BY <3>1, <3>2, <3>3, <3>4, <3>5, NamesSteps
  <2>3. kind[j] = "here" /\ (pc[j] = "planned" \/ existed[j])
    BY <1>2, <2>2 DEF OldAside
  <2>4. CASE pc[j] # "planned"
    BY <2>1, <2>3, <2>4
  <2>5. CASE pc[j] = "planned" /\ pc'[j] # "planned"
    <3>1. SubmitPlan(j)
      <4>1. ~UNCHANGED namesVars
        BY <2>5 DEF namesVars
      <4>2. ASSUME NEW k \in Tasks, Quiet(k) PROVE FALSE
        BY <2>3, <2>5, <4>2 DEF Quiet, Abandon, CancelQueued, Write, MaybeRecycleSources,
           Finish, Fail, FailKeeping, Goes, NamesTypeOK
      <4>3. ASSUME NEW k \in Tasks, Plan(k) \/ Start(k) \/ CleanRelease(k) \/ CleanDelete(k)
                                           \/ SettleCard(k)
            PROVE  FALSE
        BY <2>5, <4>3 DEF Plan, Start, CleanRelease, CleanDelete, SettleCard, Goes, NamesTypeOK
      <4>4. ASSUME NEW k \in Tasks, SubmitPlan(k), k # j PROVE FALSE
        BY <2>5, <4>4 DEF SubmitPlan, Goes, NamesTypeOK
      <4> QED
        BY <4>1, <4>2, <4>3, <4>4, NamesSteps
    <3>2. RollsBack(j) /\ whole[Name(j)] # {}
      BY <2>2, <2>3 DEF RollsBack
    <3>3. existed' = [existed EXCEPT ![j] = TRUE]
      BY <3>1, <3>2 DEF SubmitPlan
    <3> QED
      BY <2>1, <2>3, <3>3 DEF NamesTypeOK
  <2> QED
    BY <2>1, <2>3, <2>4, <2>5
<1> QED
  BY <1>1, <1>2

\* Whoever starts or cleans up under a name that is not contested is the only
\* one who has not ended.
LEMMA MineStep ==
  ASSUME NamesTypeOK, NamesAreApart, Mine, [NamesNext]_namesVars
  PROVE  Mine'
<1> DEFINE Keeps(j) ==
      /\ pc[j] \in {"planned", "queued"} => whole[Name(j)] = {}
      /\ ~HasEnded(j) => whole[Name(j)] \subseteq {j}
      /\ Wrote(j) => whole[Name(j)] = {j}
<1> SUFFICES ASSUME NEW j \in Tasks, Planned(j)', Name(j)' \notin contested' PROVE Keeps(j)'
  BY DEF Mine
<1>1. CASE ~Planned(j)
  <2>1. Plan(j)
    BY <1>1, OnlyPlans
  <2> QED
    BY <2>1, PlanFinds DEF Wrote, NamesTypeOK
<1>2. CASE Planned(j)
  <2>1. /\ Name(j)' = Name(j) /\ Name(j) \in Names /\ kind' = kind /\ Name(j) \notin contested
        /\ HasEnded(j) => HasEnded(j)'
    BY <1>2, NamesStay, NameTyped
  <2>2. Keeps(j)
    BY <1>2, <2>1 DEF Mine
  \* Another job of that name that has not ended has written nothing yet.
  <2>3. ASSUME NEW k \in Tasks, k # j, Planned(k), ~HasEnded(k), Name(k) = Name(j)
        PROVE  HasEnded(j) /\ ~Wrote(j)
    <3>1. HasEnded(j)
      BY <1>2, <2>1, <2>3 DEF NamesAreApart, Same
    <3>2. whole[Name(j)] \subseteq {k}
      BY <2>1, <2>3 DEF Mine
    <3> QED
      BY <2>2, <2>3, <3>1, <3>2
  <2>4. ASSUME NEW k \in Tasks, Start(k) PROVE Keeps(j)'
    <3>1. /\ pc[k] = "queued" /\ pc' = [pc EXCEPT ![k] = "writing"] /\ Planned(k)
          /\ Name(k) \in Names /\ ~HasEnded(k)
      BY <2>4, NameTyped DEF Start, Goes, Planned, HasEnded, CardSettled
    <3>2. CASE j = k
      <4>1. whole[Name(j)] = {}
        BY <2>2, <3>1, <3>2
      <4>2. whole'[Name(j)] = IF kind[j] = "volumes" THEN {} ELSE {j}
        BY <2>1, <2>4, <3>2, <4>1 DEF Start, NamesTypeOK
      <4> QED
        BY <2>1, <3>1, <3>2, <4>2 DEF Wrote, NamesTypeOK
    <3>3. CASE j # k /\ Name(j) # Name(k)
      <4>1. whole'[Name(j)] = whole[Name(j)] /\ pc'[j] = pc[j]
        BY <2>1, <2>4, <3>1, <3>3 DEF Start, NamesTypeOK
      <4> QED
        BY <2>1, <2>2, <4>1 DEF Wrote, HasEnded, CardSettled
    <3>4. CASE j # k /\ Name(j) = Name(k)
      <4>1. HasEnded(j) /\ ~Wrote(j) /\ pc'[j] = pc[j]
        BY <2>3, <3>1, <3>4 DEF NamesTypeOK
      <4> QED
        BY <2>1, <4>1 DEF Wrote, HasEnded, CardSettled
    <3> QED
      BY <3>2, <3>3, <3>4
  <2>5. ASSUME NEW k \in Tasks, CleanDelete(k) PROVE Keeps(j)'
    <3>1. /\ pc[k] = "released" /\ pc' = [pc EXCEPT ![k] = "failed"] /\ Planned(k)
          /\ Name(k) \in Names /\ ~HasEnded(k)
      BY <2>5, NameTyped DEF CleanDelete, Goes, Planned, HasEnded, CardSettled
    <3>2. CASE j = k
      <4>1. whole'[Name(j)] = whole[Name(j)] \/ whole'[Name(j)] = {}
        BY <2>1, <2>5, <3>2 DEF CleanDelete, NamesTypeOK
      <4>2. ~HasEnded(j) /\ pc'[j] = "failed"
        BY <3>1, <3>2 DEF NamesTypeOK
      <4> QED
        BY <2>1, <2>2, <4>1, <4>2 DEF Wrote
    <3>3. CASE j # k /\ Name(j) # Name(k)
      <4>1. whole'[Name(j)] = whole[Name(j)] /\ pc'[j] = pc[j]
        BY <2>1, <2>5, <3>1, <3>3 DEF CleanDelete, NamesTypeOK
      <4> QED
        BY <2>1, <2>2, <4>1 DEF Wrote, HasEnded, CardSettled
    <3>4. CASE j # k /\ Name(j) = Name(k)
      <4>1. HasEnded(j) /\ ~Wrote(j) /\ pc'[j] = pc[j]
        BY <2>3, <3>1, <3>4 DEF NamesTypeOK
      <4> QED
        BY <2>1, <4>1 DEF Wrote, HasEnded, CardSettled
    <3> QED
      BY <3>2, <3>3, <3>4
  <2>6. ASSUME whole' = whole,
               pc'[j] \in {"planned", "queued"} => pc[j] \in {"planned", "queued"},
               Wrote(j)' => Wrote(j)
        PROVE  Keeps(j)'
    BY <2>1, <2>2, <2>6
  <2>7. ASSUME NEW k \in Tasks, Quiet(k) PROVE Keeps(j)'
    <3>1. PICK to \in States :
            /\ pc' = [pc EXCEPT ![k] = to] /\ to \notin {"planned", "queued", "settled well"}
            /\ to \in {"writing", "written", "done"} => pc[k] \in {"writing", "written"}
      BY <2>7, QuietStep
    <3>2. whole' = whole
      BY <2>7, QuietStep
    <3> QED
      BY <2>1, <2>6, <3>1, <3>2 DEF Wrote, NamesTypeOK
  <2>8. ASSUME NEW k \in Tasks, Plan(k) \/ SubmitPlan(k) \/ CleanRelease(k) \/ SettleCard(k)
        PROVE  Keeps(j)'
    <3>1. whole' = whole
      BY <2>8 DEF Plan, SubmitPlan, CleanRelease, SettleCard
    <3>2. /\ pc'[j] \in {"planned", "queued"} => pc[j] \in {"planned", "queued"}
          /\ Wrote(j)' => Wrote(j)
      BY <1>2, <2>1, <2>8 DEF Plan, SubmitPlan, CleanRelease, SettleCard, Goes, NamesTypeOK,
         Planned, Wrote
    <3> QED
      BY <2>6, <3>1, <3>2
  <2>9. CASE UNCHANGED namesVars
    BY <2>1, <2>2, <2>9 DEF namesVars, Wrote, HasEnded, CardSettled
  <2> QED
    BY <2>4, <2>5, <2>7, <2>8, <2>9, NamesSteps
<1> QED
  BY <1>1, <1>2

LEMMA ShellStep ==
  ASSUME NamesTypeOK, ShellLeaves, [NamesNext]_namesVars
  PROVE  ShellLeaves'
<1> USE DEF NamesTypeOK, ShellLeaves, Goes
<1>1. ASSUME NEW k \in Tasks, Quiet(k) PROVE ShellLeaves'
  BY <1>1, QuietStep
<1>2. ASSUME NEW k \in Tasks, Plan(k) \/ SubmitPlan(k) \/ Start(k) \/ CleanRelease(k)
                                     \/ CleanDelete(k) \/ SettleCard(k)
      PROVE  ShellLeaves'
  BY <1>2 DEF Plan, SubmitPlan, Start, CleanRelease, CleanDelete, SettleCard
<1>3. CASE UNCHANGED namesVars
  BY <1>3 DEF namesVars
<1> QED
  BY <1>1, <1>2, <1>3, NamesSteps

\* Only the clean-up of a job that found no folder deletes it, and that job has
\* failed from then on.
LEMMA InFolderStep ==
  ASSUME NamesTypeOK, InFolder, ShellLeaves, [NamesNext]_namesVars
  PROVE  InFolder'
<1> SUFFICES ASSUME NEW j \in Tasks, Wrote(j)', ~Compresses(j)'
             PROVE  j \in whole'[Name(j)'] \/ \E k \in Tasks : MayHaveDeleted(j, k)'
  BY DEF InFolder
<1>1. Planned(j)
  <2> SUFFICES ASSUME ~Planned(j) PROVE FALSE
    OBVIOUS
  <2>1. Plan(j)
    BY OnlyPlans DEF Planned, Wrote
  <2> QED
    BY <2>1, PlanFinds DEF Wrote, NamesTypeOK
<1>2. Name(j)' = Name(j) /\ Name(j) \in Names /\ kind' = kind /\ ~Compresses(j)
  BY <1>1, NamesStay, NameTyped DEF Compresses
<1>3. ASSUME NEW k \in Tasks, MayHaveDeleted(j, k) PROVE MayHaveDeleted(j, k)'
  <2>1. Planned(k) /\ Name(j) = Name(k) /\ pc[k] \in {"failed", "settled badly"}
    BY <1>3 DEF MayHaveDeleted, Same
  <2>2. /\ Planned(j)' /\ Planned(k)' /\ Name(j)' = Name(k)' /\ existed'[k] = existed[k]
        /\ pc'[k] \in {"failed", "settled badly"}
    BY <1>1, <2>1, NamesStay
  <2> QED
    BY <1>2, <1>3, <2>2 DEF MayHaveDeleted, Same
<1>4. CASE Wrote(j)
  <2>1. j \in whole[Name(j)] \/ \E k \in Tasks : MayHaveDeleted(j, k)
    BY <1>2, <1>4 DEF InFolder
  <2>2. CASE \E k \in Tasks : MayHaveDeleted(j, k)
    BY <1>3, <2>2
  <2>3. CASE j \in whole[Name(j)]
    <3>1. ASSUME NEW k \in Tasks, Start(k) PROVE j \in whole'[Name(j)]
      <4>1. Name(k) \in Names
        BY NameTyped
      <4>2. kind[k] = "archive" => Name(k) # Name(j)
        BY <1>2 DEF Name, Named, Compresses
      <4> QED
        BY <1>2, <2>3, <3>1, <4>1, <4>2 DEF Start, NamesTypeOK
    <3>2. ASSUME NEW k \in Tasks, CleanDelete(k)
          PROVE  j \in whole'[Name(j)] \/ MayHaveDeleted(j, k)'
      <4>1. pc[k] = "released" /\ Planned(k) /\ Name(k) \in Names /\ kind[k] # "shell"
        BY <3>2, NameTyped DEF CleanDelete, Planned, ShellLeaves
      <4>2. CASE Name(k) # Name(j) \/ Spares(k)
        BY <1>2, <2>3, <3>2, <4>1, <4>2 DEF CleanDelete, NamesTypeOK
      <4>3. CASE Name(k) = Name(j) /\ ~Spares(k)
        <5>1. ~Compresses(k)
          BY <1>2, <4>3 DEF Name, Named, Compresses
        <5>2. RollsBack(k)
          BY <4>1, <5>1, OutputNamesAssumption DEF RollsBack, Compresses, AllKinds, NamesTypeOK
        <5>3. ~existed[k] /\ existed' = existed
          BY <3>2, <4>3, <5>2 DEF Spares, CleanDelete
        <5>4. pc'[k] = "failed"
          BY <3>2 DEF CleanDelete, Goes, NamesTypeOK
        <5>5. Same(j, k)'
          BY <1>1, <4>1, <4>3, NamesStay DEF Same
        <5> QED
          BY <1>2, <4>1, <5>3, <5>4, <5>5 DEF MayHaveDeleted
      <4> QED
        BY <4>2, <4>3
    <3>3. ASSUME NEW k \in Tasks, Quiet(k) PROVE j \in whole'[Name(j)]
      BY <2>3, <3>3, QuietStep
    <3>4. ASSUME NEW k \in Tasks, Plan(k) \/ SubmitPlan(k) \/ CleanRelease(k) \/ SettleCard(k)
          PROVE  j \in whole'[Name(j)]
      BY <2>3, <3>4 DEF Plan, SubmitPlan, CleanRelease, SettleCard
    <3>5. CASE UNCHANGED namesVars
      BY <1>2, <2>3, <3>5 DEF namesVars
    <3> QED
      BY <1>2, <3>1, <3>2, <3>3, <3>4, <3>5, NamesSteps
  <2> QED
    BY <2>1, <2>2, <2>3
<1>5. CASE ~Wrote(j)
  <2>1. Start(j)
    <3>1. ASSUME NEW k \in Tasks, Quiet(k) PROVE FALSE
      <4>1. PICK to \in States :
              /\ pc' = [pc EXCEPT ![k] = to] /\ to # "settled well"
              /\ to \in {"writing", "written", "done"} => pc[k] \in {"writing", "written"}
        BY <3>1, QuietStep
      <4> QED
        BY <1>2, <1>5, <4>1 DEF Wrote, NamesTypeOK
    <3>2. ASSUME NEW k \in Tasks, Plan(k) \/ SubmitPlan(k) \/ CleanRelease(k) \/ CleanDelete(k)
                                         \/ SettleCard(k)
          PROVE  FALSE
      BY <1>2, <1>5, <3>2 DEF Plan, SubmitPlan, CleanRelease, CleanDelete, SettleCard, Wrote,
         Goes, NamesTypeOK
    <3>3. ASSUME NEW k \in Tasks, Start(k), k # j PROVE FALSE
      BY <1>2, <1>5, <3>3 DEF Start, Wrote, Goes, NamesTypeOK
    <3>4. ~UNCHANGED namesVars
      BY <1>5 DEF namesVars, Wrote
    <3> QED
      BY <3>1, <3>2, <3>3, <3>4, NamesSteps
  <2> QED
    BY <1>2, <2>1 DEF Start, Compresses, NamesTypeOK
<1> QED
  BY <1>4, <1>5

\* Only a job that settles leaves what it reserved, and it takes the name with it.
LEMMA KeptStep ==
  ASSUME NamesTypeOK, Kept, [NamesNext]_namesVars
  PROVE  Kept'
<1> DEFINE Keeper(j, n) ==
      /\ Planned(j) /\ Name(j) = n /\ Reserves(j)
      /\ ~CardSettled(j) \/ kind[j] = "shell"
<1> SUFFICES ASSUME NEW n \in reserved' PROVE \E j \in Tasks : Keeper(j, n)'
  BY DEF Kept
<1>1. ASSUME NEW k \in Tasks, Plan(k), n \notin reserved PROVE Keeper(k, n)'
  <2>1. n = Named(k, dest'[k]) /\ Reserves(k)
    BY <1>1 DEF Plan, NamesTypeOK
  <2> QED
    BY <1>1, <2>1, PlanFinds DEF Planned, CardSettled, Reserves, NamesTypeOK
<1>2. CASE n \notin reserved
  <2>1. ASSUME NEW k \in Tasks, SubmitPlan(k) \/ Start(k) \/ CleanRelease(k) \/ CleanDelete(k)
                                             \/ SettleCard(k)
        PROVE  FALSE
    BY <1>2, <2>1 DEF SubmitPlan, Start, CleanRelease, CleanDelete, SettleCard,
       ReleaseReservation
  <2>2. ASSUME NEW k \in Tasks, Quiet(k) PROVE FALSE
    BY <1>2, <2>2, QuietStep
  <2>3. ~UNCHANGED namesVars
    BY <1>2 DEF namesVars
  <2> QED
    BY <1>1, <1>2, <2>1, <2>2, <2>3, NamesSteps
<1>3. CASE n \in reserved
  <2>1. PICK j \in Tasks : Keeper(j, n)
    BY <1>3 DEF Kept
  <2>2. Planned(j)' /\ Name(j)' = n /\ kind' = kind
    BY <2>1, NamesStay
  <2>3. CASE CardSettled(j) \/ ~CardSettled(j)' \/ kind[j] = "shell"
    BY <2>1, <2>2, <2>3 DEF Reserves
  <2>4. CASE ~CardSettled(j) /\ CardSettled(j)' /\ kind[j] # "shell"
    <3>1. ASSUME NEW k \in Tasks, Quiet(k) PROVE FALSE
      BY <2>4, <3>1, QuietStep DEF CardSettled, NamesTypeOK
    <3>2. ASSUME NEW k \in Tasks, Plan(k) \/ SubmitPlan(k) \/ Start(k) \/ CleanRelease(k)
                                         \/ CleanDelete(k)
          PROVE  FALSE
      BY <2>4, <3>2 DEF Plan, SubmitPlan, Start, CleanRelease, CleanDelete, Goes, CardSettled,
         NamesTypeOK
    <3>3. PICK k \in Tasks : SettleCard(k)
      BY <2>4, <3>1, <3>2, NamesSteps DEF namesVars, CardSettled
    <3>4. k = j
      BY <2>4, <3>3 DEF SettleCard, Goes, CardSettled, NamesTypeOK
    <3> QED
      BY <2>1, <2>4, <3>3, <3>4 DEF SettleCard, ReleaseReservation, Reserves
  <2> QED
    BY <2>3, <2>4
<1> QED
  BY <1>2, <1>3

---------------------------------------------------------------------------

\* Names are apart, held and given back, and files and folders keep what was
\* written there, in every reachable state (OutputNamer.cs, CompressEngine.cs,
\* MainWindow.xaml.cs, JobQueue.cs).
THEOREM NamesInvariant == NamesSpec => []NamesInv
<1>1. NamesInv /\ [NamesNext]_namesVars => NamesInv'
  BY TypeStep, HeldStep, ApartStep, OldAsideStep, MineStep, InFolderStep, ShellStep, KeptStep
     DEF NamesInv
<1> QED
  BY InitNames, <1>1, PTL DEF NamesSpec

\* Every variable has its type.
THEOREM NamesTypeCorrect == NamesSpec => []NamesTypeOK
<1>1. NamesInv => NamesTypeOK
  BY DEF NamesInv
<1> QED
  BY NamesInvariant, <1>1, PTL

\* No two jobs that have yet to end have one name, unless an extraction took it
\* unreserved or a plan took it amid the clean-up of another job
\* (OutputNamer.cs:143).
THEOREM NoTwoWriters == NamesSpec => []NamesAreApart
<1>1. NamesInv => NamesAreApart
  BY DEF NamesInv
<1> QED
  BY NamesInvariant, <1>1, PTL

\* What a job delivered stays, alone under a name that was never contested; a
\* folder keeps it, contested or not, unless a job failed there that found no
\* folder when submitted (CompressEngine.cs:208, MainWindow.xaml.cs:1458).
THEOREM OutputStays == NamesSpec => []DeliveredIsKept
<1>1. ASSUME NamesInv, NEW j \in Tasks, Delivered(j), kind[j] # "volumes"
      PROVE  Wrote(j) /\ Planned(j)
  BY <1>1 DEF Delivered, Wrote, Planned
<1>2. NamesInv => DeliveredIsKept
  BY <1>1 DEF NamesInv, Mine, InFolder, DeliveredIsKept
<1> QED
  BY NamesInvariant, <1>2, PTL

\* No name stays reserved once its jobs have ended (JobQueue.cs:287).
THEOREM NamesReturn == NamesSpec => []NothingLeftReserved
<1>1. NamesInv => NothingLeftReserved
  BY DEF NamesInv, Kept, NothingLeftReserved
<1> QED
  BY NamesInvariant, <1>1, PTL

\* What the user had stays, in a file and in a folder that extractions take as
\* it is and fail in (MainWindow.xaml.cs:1463).
THEOREM OldStays == NamesSpec => OldIsKept
<1>1. ASSUME NamesInv, [NamesNext]_namesVars
      PROVE  [\A n \in Names : Old \in whole[n] => Old \in whole'[n]]_namesVars
  <2> SUFFICES ASSUME NEW n \in Names, Old \in whole[n] PROVE Old \in whole'[n]
    OBVIOUS
  <2>1. NamesTypeOK /\ \A j \in Tasks : Planned(j) /\ Name(j) = n =>
                          kind[j] = "here" /\ (pc[j] = "planned" \/ existed[j])
    BY <1>1 DEF NamesInv, OldAside
  <2>2. ASSUME NEW k \in Tasks, Start(k) PROVE Old \in whole'[n]
    <3>1. Name(k) = n => kind[k] = "here"
      BY <2>1, <2>2 DEF Start, Planned
    <3> QED
      BY <2>1, <2>2, <3>1 DEF Start, NamesTypeOK
  <2>3. ASSUME NEW k \in Tasks, CleanDelete(k) PROVE Old \in whole'[n]
    <3>1. Name(k) = n => Spares(k)
      BY <2>1, <2>3 DEF CleanDelete, Planned, Spares, RollsBack
    <3> QED
      BY <2>1, <2>3, <3>1 DEF CleanDelete, NamesTypeOK
  <2>4. ASSUME NEW k \in Tasks, Quiet(k) PROVE Old \in whole'[n]
    BY <2>1, <2>4, QuietStep
  <2>5. ASSUME NEW k \in Tasks, Plan(k) \/ SubmitPlan(k) \/ CleanRelease(k) \/ SettleCard(k)
        PROVE  Old \in whole'[n]
    BY <2>5 DEF Plan, SubmitPlan, CleanRelease, SettleCard
  <2>6. CASE UNCHANGED namesVars
    BY <2>6 DEF namesVars
  <2> QED
    BY <1>1, <2>2, <2>3, <2>4, <2>5, <2>6, NamesSteps
<1> QED
  BY NamesInvariant, <1>1, PTL DEF NamesSpec, OldIsKept
=============================================================================
