-------------------------- MODULE BoundedExecutor --------------------------
(***************************************************************************)
(* What the job queue promises whoever submits work: jobs start in the     *)
(* order they were submitted, never more than `limit` at once; a job that  *)
(* is cancelled while it waits never starts; a job that ends stays ended.  *)
(***************************************************************************)
EXTENDS Naturals, Sequences, FiniteSets

CONSTANTS Jobs, FirstLimit

VARIABLES waiting,   \* submitted and not started, oldest first
          running,   \* started and not ended
          ended,     \* ran, or cancelled before it could
          limit      \* how many may run at once

absVars == <<waiting, running, ended, limit>>

AbsInit == waiting = <<>> /\ running = {} /\ ended = {} /\ limit = FirstLimit

Known == running \cup ended \cup {waiting[k] : k \in DOMAIN waiting}

AbsSubmit == \E j \in Jobs \ Known :
  waiting' = Append(waiting, j) /\ UNCHANGED <<running, ended, limit>>

AbsStart ==
  /\ waiting # <<>> /\ Cardinality(running) < limit
  /\ waiting' = Tail(waiting) /\ running' = running \cup {Head(waiting)}
  /\ UNCHANGED <<ended, limit>>

AbsGiveUp == \E k \in DOMAIN waiting :
  /\ waiting' = SubSeq(waiting, 1, k - 1) \o SubSeq(waiting, k + 1, Len(waiting))
  /\ ended' = ended \cup {waiting[k]}
  /\ UNCHANGED <<running, limit>>

AbsEnd == \E j \in running :
  /\ running' = running \ {j} /\ ended' = ended \cup {j}
  /\ UNCHANGED <<waiting, limit>>

\* The limit is only ever raised.
AbsRaise == limit' \in Nat /\ limit' > limit /\ UNCHANGED <<waiting, running, ended>>

AbsNext == AbsSubmit \/ AbsStart \/ AbsGiveUp \/ AbsEnd \/ AbsRaise

AbsSpec == AbsInit /\ [][AbsNext]_absVars
=============================================================================
