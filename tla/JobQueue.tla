------------------------------ MODULE JobQueue ------------------------------
(***************************************************************************)
(* The job queue of the desktop applications: Services/JobQueue.cs of      *)
(* OtterZip.App (OtterZip.Linux has the same steps), the JobItem its cards *)
(* are bound to, and the callers that await a job or close the window when *)
(* the last one has settled.                                               *)
(*                                                                         *)
(* Every job runs on the thread pool behind a SemaphoreSlim; everything    *)
(* its card shows is changed by closures the pool threads post to the UI   *)
(* dispatcher, which runs them one at a time in the order they were        *)
(* posted.  Progress travels through Progress<double>, whose callbacks the *)
(* thread pool runs in any order.                                          *)
(***************************************************************************)
EXTENDS Integers, Sequences, FiniteSets

CONSTANTS
  Jobs,         \* work that may be submitted
  Ghosts,       \* failures reported before any work exists
  FirstLimit,   \* concurrentLimit of the constructor
  Limits,       \* values TrySetConcurrentLimit is called with
  MaxSlots,     \* the hard ceiling (8)
  Ticks,        \* bound: progress reports one job makes
  Full,         \* progress 1.0, in steps
  SummaryOnUi,  \* TRUE: OtterZip.App; FALSE: OtterZip.Linux
  Headless      \* TRUE: the window runs one shell verb and then closes

ASSUME QueueAssumption ==
  /\ IsFiniteSet(Jobs) /\ Jobs \cap Ghosts = {}
  /\ MaxSlots \in Nat /\ FirstLimit \in 1..MaxSlots /\ Limits \subseteq Int
  /\ Ticks \in Nat /\ Full \in Nat \ {0}
  /\ SummaryOnUi \in BOOLEAN /\ Headless \in BOOLEAN

VARIABLES
  \* the pool side
  run,          \* where RunAsync is
  outcome,      \* how the work delegate ended
  waiters,      \* who awaits the semaphore, oldest first
  slots,        \* its current count
  limit,        \* _currentLimit
  cts,          \* the job's CancellationTokenSource
  reports,      \* how often the work has reported progress
  ticks,        \* reports whose callback has not run
  \* the dispatcher and the cards
  ui,           \* posted closures, oldest first
  listed,       \* the collection Jobs
  state, progress, text,
  settled,      \* how often JobSettled was raised for the job
  \* the callers
  awaited,      \* the TaskCompletionSource of an inline extract
  outstanding,  \* _headlessOutstanding
  closed        \* the window is gone

runVars == <<run, outcome>>
semVars == <<waiters, slots, limit>>
tickVars == <<reports, ticks>>
cardVars == <<state, progress, text>>
callerVars == <<awaited, outstanding, closed>>
vars == <<runVars, semVars, cts, tickVars, ui, listed, cardVars, settled, callerVars>>

Cards == Jobs \cup Ghosts
Active == {"queued", "running"}
Terminal == {"done", "cancelled", "error"}
Post(op, j, p) == ui' = Append(ui, [op |-> op, job |-> j, p |-> p])

-----------------------------------------------------------------------------
(* Submitting, and the semaphore.                                          *)

\* The card is added eagerly and RunAsync goes as far as WaitAsync.
Submit(j) ==
  /\ run[j] = "idle" /\ ~closed
  /\ run' = [run EXCEPT ![j] = "waiting"]
  /\ cts' = [cts EXCEPT ![j] = "live"]
  /\ waiters' = Append(waiters, j)
  /\ outstanding' = IF Headless THEN outstanding + 1 ELSE outstanding
  /\ Post("add", j, 0)
  /\ UNCHANGED <<outcome, slots, limit, tickVars, listed, cardVars, settled,
                 awaited, closed>>

\* A card already in the Error state; no slot and no work.
ReportError(g) ==
  /\ state[g] = "queued" /\ ~closed
  /\ state' = [state EXCEPT ![g] = "error"]
  /\ text' = [text EXCEPT ![g] = "error"]
  /\ Post("ghost", g, 0)
  /\ UNCHANGED <<runVars, semVars, cts, tickVars, listed, progress, settled,
                 callerVars>>

\* SemaphoreSlim serves its asynchronous waiters first come, first served.
\* With the slot: MarkRunning, then work(item.Cts!.Token); were the source
\* gone, the null reference is caught like any error of the work.
Acquire(j) ==
  /\ run[j] = "waiting" /\ waiters # <<>> /\ Head(waiters) = j /\ slots > 0
  /\ waiters' = Tail(waiters) /\ slots' = slots - 1
  /\ Post("running", j, 0)
  /\ IF cts[j] = "gone"
       THEN /\ run' = [run EXCEPT ![j] = "marking"]
            /\ outcome' = [outcome EXCEPT ![j] = "broken"]
       ELSE run' = [run EXCEPT ![j] = "working"] /\ UNCHANGED outcome
  /\ UNCHANGED <<limit, cts, tickVars, listed, cardVars, settled, callerVars>>

\* Mutant: a job that gives up waiting releases a slot as the others do.
WaitCancelledReleases(j) ==
  /\ run[j] = "waiting" /\ cts[j] \in {"cancelled", "gone"}
  /\ \E k \in DOMAIN waiters :
       /\ waiters[k] = j
       /\ waiters' = SubSeq(waiters, 1, k - 1) \o SubSeq(waiters, k + 1, Len(waiters))
  /\ run' = [run EXCEPT ![j] = "ended"]
  /\ outcome' = [outcome EXCEPT ![j] = "cancelled"]
  /\ slots' = slots + 1
  /\ Post("cancelled", j, 0)
  /\ UNCHANGED <<limit, cts, tickVars, listed, cardVars, settled, callerVars>>

\* Cancelled before starting: no slot was taken, none is released.
WaitCancelled(j) ==
  /\ run[j] = "waiting" /\ cts[j] \in {"cancelled", "gone"}
  /\ \E k \in DOMAIN waiters :
       /\ waiters[k] = j
       /\ waiters' = SubSeq(waiters, 1, k - 1) \o SubSeq(waiters, k + 1, Len(waiters))
  /\ run' = [run EXCEPT ![j] = "ended"]
  /\ outcome' = [outcome EXCEPT ![j] = "cancelled"]
  /\ Post("cancelled", j, 0)
  /\ UNCHANGED <<slots, limit, cts, tickVars, listed, cardVars, settled, callerVars>>

Clamp(n) == IF n > MaxSlots THEN MaxSlots ELSE IF n < 1 THEN 1 ELSE n

\* Mutant: raising the limit releases as many slots as the new limit.
RaiseLimitAnew ==
  \E n \in {Clamp(m) : m \in Limits} :
    /\ n > limit /\ limit' = n /\ slots' = slots + n
    /\ UNCHANGED <<runVars, waiters, cts, tickVars, ui, listed, cardVars, settled,
                   callerVars>>

\* TrySetConcurrentLimit: clamped, only upwards, by the difference.
RaiseLimit ==
  \E n \in {Clamp(m) : m \in Limits} :
    /\ n > limit /\ limit' = n /\ slots' = slots + (n - limit)
    /\ UNCHANGED <<runVars, waiters, cts, tickVars, ui, listed, cardVars, settled,
                   callerVars>>

-----------------------------------------------------------------------------
(* The work.                                                               *)

\* The work reports a fraction, not necessarily a larger one than before.
Report(j) ==
  /\ run[j] = "working" /\ reports[j] < Ticks
  /\ reports' = [reports EXCEPT ![j] = @ + 1]
  /\ \E p \in 0..Full : ticks' = [ticks EXCEPT ![j] = @ \cup {p}]
  /\ UNCHANGED <<runVars, semVars, cts, ui, listed, cardVars, settled, callerVars>>

\* The callback of one of them runs, perhaps long after the work has ended;
\* within 33 ms of another it is dropped, unless it says 1.0.
Deliver(j) ==
  /\ \E p \in ticks[j] :
       /\ ticks' = [ticks EXCEPT ![j] = @ \ {p}]
       /\ \/ p < Full /\ UNCHANGED ui
          \/ Post("tick", j, p)
  /\ UNCHANGED <<runVars, semVars, cts, reports, listed, cardVars, settled,
                 callerVars>>

\* The delegate succeeds.  OtterZip.App posts its summary and waits until
\* the closure has run; OtterZip.Linux writes the caption from the pool.
WorkSucceeds(j) ==
  /\ run[j] = "working"
  /\ IF SummaryOnUi
       THEN /\ run' = [run EXCEPT ![j] = "summing"] /\ Post("summary", j, 0)
            /\ UNCHANGED <<outcome, awaited, text>>
       ELSE /\ run' = [run EXCEPT ![j] = "marking"]
            /\ outcome' = [outcome EXCEPT ![j] = "done"]
            /\ text' = [text EXCEPT ![j] = "summary"]
            /\ UNCHANGED <<ui, awaited>>
  /\ UNCHANGED <<semVars, cts, tickVars, listed, state, progress, settled,
                 outstanding, closed>>

Summarised(j) ==
  /\ run[j] = "summing" /\ \A k \in DOMAIN ui : ui[k] # [op |-> "summary", job |-> j, p |-> 0]
  /\ run' = [run EXCEPT ![j] = "marking"]
  /\ outcome' = [outcome EXCEPT ![j] = "done"]
  /\ awaited' = [awaited EXCEPT ![j] = IF @ = "pending" THEN "done" ELSE @]
  /\ UNCHANGED <<semVars, cts, tickVars, ui, listed, cardVars, settled,
                 outstanding, closed>>

\* Mutant: only a cancellation is answered by the delegate itself.
WorkFailsUnanswered(j) ==
  /\ run[j] = "working"
  /\ run' = [run EXCEPT ![j] = "marking"]
  /\ \E o \in {"cancelled", "error"} :
       /\ o = "cancelled" => cts[j] = "cancelled"
       /\ outcome' = [outcome EXCEPT ![j] = o]
       /\ awaited' = [awaited EXCEPT ![j] =
            IF @ = "pending" /\ o = "cancelled" THEN o ELSE @]
  /\ UNCHANGED <<semVars, cts, tickVars, ui, listed, cardVars, settled,
                 outstanding, closed>>

\* It fails, or observes a cancellation that was asked for, and answers
\* whoever awaits it before it rethrows.
WorkFails(j) ==
  /\ run[j] = "working"
  /\ run' = [run EXCEPT ![j] = "marking"]
  /\ \E o \in {"cancelled", "error"} :
       /\ o = "cancelled" => cts[j] = "cancelled"
       /\ outcome' = [outcome EXCEPT ![j] = o]
       /\ awaited' = [awaited EXCEPT ![j] = IF @ = "pending" THEN o ELSE @]
  /\ UNCHANGED <<semVars, cts, tickVars, ui, listed, cardVars, settled,
                 outstanding, closed>>

\* Mutant: without the finally, a failed job keeps its slot.
SettleKeepingSlot(j) ==
  /\ run[j] = "marking"
  /\ Post(IF outcome[j] = "broken" THEN "error" ELSE outcome[j], j, 0)
  /\ slots' = IF outcome[j] = "done" THEN slots + 1 ELSE slots
  /\ run' = [run EXCEPT ![j] = "ended"]
  /\ UNCHANGED <<outcome, waiters, limit, cts, tickVars, listed, cardVars,
                 settled, callerVars>>

\* MarkDone, MarkCancelled or MarkError, and the finally.
Settle(j) ==
  /\ run[j] = "marking"
  /\ Post(IF outcome[j] = "broken" THEN "error" ELSE outcome[j], j, 0)
  /\ slots' = slots + 1
  /\ run' = [run EXCEPT ![j] = "ended"]
  /\ UNCHANGED <<outcome, waiters, limit, cts, tickVars, listed, cardVars,
                 settled, callerVars>>

WorkEnds(j) == WorkSucceeds(j) \/ Summarised(j) \/ WorkFails(j)

Pool(j) == Acquire(j) \/ WaitCancelled(j) \/ WorkEnds(j) \/ Settle(j)

-----------------------------------------------------------------------------
(* The user, on the UI thread.                                             *)

\* The card's button while the job is active, or the window closing.
RequestCancel(j) ==
  /\ j \in listed /\ state[j] \in Active /\ cts[j] = "live" /\ ~closed
  /\ cts' = [cts EXCEPT ![j] = "cancelled"]
  /\ UNCHANGED <<runVars, semVars, tickVars, ui, listed, cardVars, settled,
                 callerVars>>

\* Mutant: the card of an active job can be dismissed too.
RemoveActive(j) ==
  /\ j \in listed /\ ~closed
  /\ \A k \in DOMAIN ui : ui[k] # [op |-> "remove", job |-> j, p |-> 0]
  /\ cts' = [cts EXCEPT ![j] = IF @ = "live" THEN "cancelled" ELSE @]
  /\ Post("remove", j, 0)
  /\ UNCHANGED <<runVars, semVars, tickVars, listed, cardVars, settled, callerVars>>

\* The same button afterwards: both front ends offer it on terminal cards
\* only, so Remove's own cancellation is never needed.
Remove(j) ==
  /\ j \in listed /\ state[j] \in Terminal /\ ~closed
  /\ \A k \in DOMAIN ui : ui[k] # [op |-> "remove", job |-> j, p |-> 0]
  /\ Post("remove", j, 0)
  /\ UNCHANGED <<runVars, semVars, cts, tickVars, listed, cardVars, settled,
                 callerVars>>

-----------------------------------------------------------------------------
(* The dispatcher: the closure at the head of the queue runs.              *)

\* A shell verb submits all its jobs in one turn, when the window opens.
Turn(op) == /\ ui # <<>> /\ ~closed /\ Head(ui).op \in op
            /\ Headless => /\ \A j \in Jobs : run[j] # "idle"
                           /\ \A g \in Ghosts : state[g] = "error"
            /\ ui' = Tail(ui)

ShowAdded ==
  /\ Turn({"add"})
  /\ listed' = listed \cup {Head(ui).job}
  /\ UNCHANGED <<runVars, semVars, cts, tickVars, cardVars, settled, callerVars>>

ShowRunning ==
  LET j == Head(ui).job IN
  /\ Turn({"running"})
  /\ state' = [state EXCEPT ![j] = "running"]
  /\ text' = [text EXCEPT ![j] = "starting"]
  /\ UNCHANGED <<runVars, semVars, cts, tickVars, listed, progress, settled,
                 callerVars>>

\* Mutant: the guard against late ticks is left out.
ShowTickLate ==
  LET j == Head(ui).job  p == Head(ui).p IN
  /\ Turn({"tick"})
  /\ \/ /\ progress[j] < Full /\ p >= progress[j]
        /\ progress' = [progress EXCEPT ![j] = p]
        /\ text' = [text EXCEPT ![j] = "percent"]
     \/ /\ progress[j] >= Full \/ p < progress[j]
        /\ UNCHANGED <<progress, text>>
  /\ UNCHANGED <<runVars, semVars, cts, tickVars, listed, state, settled,
                 callerVars>>

\* A tick counts unless the job has settled, is at 1.0, or is ahead of it.
ShowTick ==
  LET j == Head(ui).job  p == Head(ui).p
      stale == state[j] \in Terminal \/ progress[j] >= Full \/ p < progress[j]
  IN
  /\ Turn({"tick"})
  /\ \/ /\ ~stale
        /\ progress' = [progress EXCEPT ![j] = p]
        /\ text' = [text EXCEPT ![j] = "percent"]
     \/ stale /\ UNCHANGED <<progress, text>>
  /\ UNCHANGED <<runVars, semVars, cts, tickVars, listed, state, settled,
                 callerVars>>

\* Mutant: the summary does not raise the bar.
ShowSummaryLow ==
  LET j == Head(ui).job IN
  /\ Turn({"summary"})
  /\ text' = [text EXCEPT ![j] = "summary"]
  /\ UNCHANGED <<runVars, semVars, cts, tickVars, listed, state, progress,
                 settled, callerVars>>

\* The delegate's last words; the bar at 1.0 keeps later ticks away.
ShowSummary ==
  LET j == Head(ui).job IN
  /\ Turn({"summary"})
  /\ progress' = [progress EXCEPT ![j] = Full]
  /\ text' = [text EXCEPT ![j] = "summary"]
  /\ UNCHANGED <<runVars, semVars, cts, tickVars, listed, state, settled,
                 callerVars>>

\* Mutant: nobody tells the caller of a job that never ran.
RaiseSettledUnheard(j, s) ==
  /\ settled' = [settled EXCEPT ![j] = @ + 1]
  /\ outstanding' = IF Headless THEN outstanding - 1 ELSE outstanding
  /\ closed' = (Headless /\ outstanding' <= 0 /\ s # "error")
  /\ UNCHANGED awaited

\* Mutant: the window closes when one job is left.
RaiseSettledHasty(j, s) ==
  /\ settled' = [settled EXCEPT ![j] = @ + 1]
  /\ awaited' = [awaited EXCEPT ![j] = IF @ = "pending" THEN "cancelled" ELSE @]
  /\ outstanding' = IF Headless THEN outstanding - 1 ELSE outstanding
  /\ closed' = (Headless /\ outstanding <= 2 /\ s # "error")

\* JobSettled: an inline extract that is still awaited is cancelled, and a
\* headless window closes after its last job, unless that one failed.
RaiseSettled(j, s) ==
  /\ settled' = [settled EXCEPT ![j] = @ + 1]
  /\ awaited' = [awaited EXCEPT ![j] = IF @ = "pending" THEN "cancelled" ELSE @]
  /\ outstanding' = IF Headless THEN outstanding - 1 ELSE outstanding
  /\ closed' = (Headless /\ outstanding' <= 0 /\ s # "error")

\* A job settles: Done leaves the caption alone, the others replace it.
ShowTerminal ==
  LET j == Head(ui).job  s == Head(ui).op IN
  /\ Turn(Terminal)
  /\ state' = [state EXCEPT ![j] = s]
  /\ progress' = [progress EXCEPT ![j] = IF s = "done" THEN Full ELSE @]
  /\ text' = [text EXCEPT ![j] = IF s = "done" THEN @ ELSE s]
  /\ RaiseSettled(j, s)
  /\ UNCHANGED <<runVars, semVars, cts, tickVars, listed>>

ShowGhost ==
  /\ Turn({"ghost"})
  /\ listed' = listed \cup {Head(ui).job}
  /\ RaiseSettled(Head(ui).job, "error")
  /\ UNCHANGED <<runVars, semVars, cts, tickVars, cardVars>>

\* Remove's closure: the card goes and its token source with it.
ShowRemoved ==
  LET j == Head(ui).job IN
  /\ Turn({"remove"})
  /\ listed' = listed \ {j}
  /\ cts' = [cts EXCEPT ![j] = IF @ = "none" THEN @ ELSE "gone"]
  /\ UNCHANGED <<runVars, semVars, tickVars, cardVars, settled, callerVars>>

Dispatcher == \/ ShowAdded \/ ShowRunning \/ ShowTick \/ ShowSummary
              \/ ShowTerminal \/ ShowGhost \/ ShowRemoved

-----------------------------------------------------------------------------
Init ==
  /\ run = [j \in Jobs |-> "idle"]
  /\ outcome = [j \in Jobs |-> "none"]
  /\ waiters = <<>> /\ slots = FirstLimit /\ limit = FirstLimit
  /\ cts = [j \in Cards |-> "none"]
  /\ reports = [j \in Jobs |-> 0]
  /\ ticks = [j \in Jobs |-> {}]
  /\ ui = <<>> /\ listed = {}
  /\ state = [j \in Cards |-> "queued"]
  /\ progress = [j \in Cards |-> 0]
  /\ text = [j \in Cards |-> "none"]
  /\ settled = [j \in Cards |-> 0]
  /\ awaited = [j \in Cards |-> "pending"]
  /\ outstanding = 0 /\ closed = FALSE

\* Every job has run, every closure too, and no card is left.
Idle == /\ closed \/ /\ ui = <<>> /\ listed = {} /\ \A j \in Jobs : run[j] = "ended"
        /\ UNCHANGED vars

Next == \/ \E j \in Jobs : \/ Submit(j) \/ Pool(j) \/ Report(j) \/ Deliver(j)
                           \/ RequestCancel(j)
        \/ \E g \in Ghosts : ReportError(g)
        \/ \E c \in Cards : Remove(c)
        \/ RaiseLimit \/ Dispatcher \/ Idle

Spec == Init /\ [][Next]_vars

\* The dispatcher keeps running closures, the thread pool runs every job it
\* has started and every callback, a work delegate returns, and a verb's
\* loop over its files reaches the last of them.
Fairness == /\ WF_vars(Dispatcher)
            /\ \A j \in IF Headless THEN Jobs ELSE {} : WF_vars(Submit(j))
            /\ \A j \in Jobs : WF_vars(Pool(j)) /\ WF_vars(Deliver(j))

FairSpec == Spec /\ Fairness

-----------------------------------------------------------------------------
Closures == [op : {"add", "running", "tick", "summary", "ghost", "remove"} \cup Terminal,
             job : Cards, p : 0..Full]

PoolType ==
  /\ run \in [Jobs -> {"idle", "waiting", "working", "summing", "marking",
                       "ended"}]
  /\ outcome \in [Jobs -> {"none", "broken"} \cup Terminal]
  /\ waiters \in Seq(Jobs) /\ slots \in Nat /\ limit \in 1..MaxSlots
  /\ cts \in [Cards -> {"none", "live", "cancelled", "gone"}]
  /\ reports \in [Jobs -> 0..Ticks]
  /\ ticks \in [Jobs -> SUBSET (0..Full)]

CardType ==
  /\ ui \in Seq(Closures)
  /\ listed \in SUBSET Cards
  /\ state \in [Cards -> Active \cup Terminal]
  /\ progress \in [Cards -> 0..Full]
  /\ text \in [Cards -> {"none", "starting", "percent", "summary", "cancelled", "error"}]
  /\ settled \in [Cards -> Nat]
  /\ awaited \in [Cards -> {"pending"} \cup Terminal]
  /\ outstanding \in Int /\ closed \in BOOLEAN

TypeOK == PoolType /\ CardType

-----------------------------------------------------------------------------
(* Properties.                                                             *)

\* A slot is held from WaitAsync to the finally.
Holders == {j \in Jobs : run[j] \in {"working", "summing", "marking"}}

\* No slot is lost or invented, whatever is cancelled, fails or is raised
\* meanwhile: so at most `limit` jobs run, and never more than the ceiling
\* (JobQueue.cs: at most ConcurrentLimit jobs run at the same time).
SlotsConserved == slots + Cardinality(Holders) = limit /\ limit <= MaxSlots

\* A settled card is frozen: no late tick or closure changes what it says
\* (JobQueue.cs: late progress callbacks must not overwrite the caption).
SettledCardFrozen ==
  [][\A c \in Cards : state[c] \in Terminal =>
       /\ state'[c] = state[c] /\ text'[c] = text[c] /\ progress'[c] = progress[c]]_vars

\* What the card of a successful job says is the summary of its delegate
\* (JobQueue.cs: late progress must not overwrite the Done caption).
DoneShowsSummary == \A j \in Jobs : state[j] = "done" => text[j] = "summary"

\* Once the delegate's summary is on the card no tick replaces it
\* (JobQueue.cs of OtterZip.Linux: a late progress callback must not
\* overwrite the Done caption).
LateTicksKeepSummary ==
  [][\A j \in Jobs : text[j] = "summary" => text'[j] # "percent"]_vars

\* What the awaiting caller of an inline extract is told is how its work
\* ended.  So the queue's own bookkeeping never fails under a job ("broken": a
\* token source that Remove had disposed), which is told as an error.
CallerToldTheTruth == \A j \in Jobs : awaited[j] # "pending" => awaited[j] = outcome[j]

\* The queue is a bounded first-come-first-served executor.
Abstract == INSTANCE BoundedExecutor WITH
  waiting <- waiters, running <- Holders,
  ended <- {j \in Jobs : run[j] = "ended"}
ImplementsExecutor == Abstract!AbsSpec

\* Every submitted job settles, also one behind jobs that fail or are
\* cancelled, and the caller that awaits it is answered.
EverySubmissionSettles ==
  \A j \in Jobs : run[j] # "idle" ~> settled[j] = 1 /\ awaited[j] # "pending"

\* The window of a verb waits for every job the verb submitted.
ClosesAfterLast == closed => \A j \in Jobs : settled[j] = 1

\* The comment in MainWindow.axaml.cs of OtterZip.Linux: a failed verb keeps
\* the window up so that the user can read why.
FailureStaysReadable == closed => \A c \in Cards : state[c] # "error"
=============================================================================
