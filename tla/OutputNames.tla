---------------------------- MODULE OutputNames ----------------------------
(***************************************************************************)
(* Where jobs that would all write to one name end up: the registry of     *)
(* reserved names (Services/OutputNamer.cs), the plans that take one, the  *)
(* jobs that write there, their clean-up when they fail                    *)
(* (Services/CompressEngine.cs, MainWindow.xaml.cs) and the card that      *)
(* settles (Services/JobQueue.cs).                                         *)
(*                                                                         *)
(* Of a job, the queue only says when it starts, as JobQueue has it.  Name *)
(* number 0 is the one asked for and number i is "name (i)"; archives and  *)
(* folders have names of their own.  Nobody else writes there meanwhile.   *)
(***************************************************************************)
EXTENDS Integers, FiniteSets

CONSTANTS
  Tasks,
  Kinds,  \* a subset of the kinds below
  Old,    \* whoever wrote what was there before
  Last    \* 9999: a number every job finds free below it

(***************************************************************************)
(* archive  a single file, planned by BuildPlan or the options dialog      *)
(* volumes  the same, split: name.001 and on, and name itself for a while  *)
(* bulk     a folder of the bulk extraction, whose name is reserved        *)
(* shell    a folder of Linux's extraction, reserved and never released    *)
(* inline   a folder of the Windows extraction, whose name is only probed  *)
(* here     a folder of the Windows extraction that is taken as it is: the *)
(*          archive's own, or the one typed or set, neither probed nor     *)
(*          reserved                                                       *)
(***************************************************************************)
AllKinds == {"archive", "volumes", "bulk", "shell", "inline", "here"}

ASSUME OutputNamesAssumption ==
  /\ Kinds \subseteq AllKinds /\ Old \notin Tasks
  /\ Last \in Nat /\ Last > Cardinality(Tasks)

VARIABLES
  kind,      \* job -> kind
  pc,        \* job -> where it is
  dest,      \* job -> number of its name
  existed,   \* job -> destExistedBefore
  whole,     \* name -> who wrote the file or into the folder
  segments,  \* name -> who wrote its .001 and on
  reserved,  \* s_reserved
  recycled,  \* jobs whose sources went to the recycle bin
  contested  \* names once taken unreserved or amid a clean-up (history)

namesVars == <<kind, pc, dest, existed, whole, segments, reserved, recycled, contested>>

Compresses(j) == kind[j] \in {"archive", "volumes"}
RollsBack(j) == kind[j] \in {"bulk", "inline", "here"}
Reserves(j) == kind[j] \notin {"inline", "here"}
Names == {"archive", "folder"} \X (0..Last)
Named(j, i) == <<IF Compresses(j) THEN "archive" ELSE "folder", i>>
Name(j) == Named(j, dest[j])

NamesInit ==
  /\ kind \in [Tasks -> Kinds]
  /\ pc = [j \in Tasks |-> "new"]
  /\ dest = [j \in Tasks |-> 0] /\ existed = [j \in Tasks |-> FALSE]
  /\ \E had \in SUBSET {"archive", "folder"}, had001 \in BOOLEAN :
       /\ whole = [n \in Names |-> IF n[1] \in had /\ n[2] = 0 THEN {Old} ELSE {}]
       /\ segments = [n \in Names |-> IF had001 /\ n = <<"archive", 0>> THEN {Old} ELSE {}]
  /\ reserved = {} /\ recycled = {} /\ contested = {}

Goes(j, to) == pc' = [pc EXCEPT ![j] = to]

---------------------------------------------------------------------------

\* Mutant of Taken: only the disk is asked.
TakenOnDisk(j, n) == whole[n] # {}

\* Mutant of Taken: only the registry is asked.
TakenInRegistry(j, n) == n \in reserved

\* What UniquifyFile and UniquifyDirectory are asked.  The name of a volume
\* set is the name of no file, and the inline extraction asks only the disk.
Taken(j, n) == whole[n] # {} \/ (kind[j] # "inline" /\ n \in reserved)

\* Whoever had name n failed, gave it back, and may yet delete what has it
\* or give it back once more.
CleaningUp(n) == \E k \in Tasks : pc[k] \in {"released", "failed"} /\ Name(k) = n

\* ReserveUnique and ReserveUniqueDirectory, under one lock; a folder taken as
\* it is needs neither.
Plan(j) ==
  /\ pc[j] = "new"
  /\ \E i \in 0..Last :
     /\ IF kind[j] = "here" THEN i = 0
        ELSE ~Taken(j, Named(j, i)) /\ \A k \in 0..(i - 1) : Taken(j, Named(j, k))
     /\ dest' = [dest EXCEPT ![j] = i]
     /\ reserved' = IF Reserves(j) THEN reserved \cup {Named(j, i)} ELSE reserved
     /\ contested' = IF Reserves(j) /\ ~CleaningUp(Named(j, i)) THEN contested
                     ELSE contested \cup {Named(j, i)}
  /\ Goes(j, "planned")
  /\ UNCHANGED <<kind, existed, whole, segments, recycled>>

\* The password prompt after the plan is dismissed; the name stays reserved.
Abandon(j) ==
  /\ pc[j] = "planned" /\ kind[j] = "archive" /\ Goes(j, "abandoned")
  /\ UNCHANGED <<kind, dest, existed, whole, segments, reserved, recycled, contested>>

\* An extraction notes whether its folder is there, whoever made it.
SubmitPlan(j) ==
  /\ pc[j] = "planned" /\ Goes(j, "queued")
  /\ existed' = [existed EXCEPT ![j] = RollsBack(j) /\ whole[Name(j)] # {}]
  /\ UNCHANGED <<kind, dest, whole, segments, reserved, recycled, contested>>

\* Cancelled before it had a slot: the delegate never runs, nothing is deleted.
CancelQueued(j) ==
  /\ pc[j] = "queued" /\ Goes(j, "failed")
  /\ UNCHANGED <<kind, dest, existed, whole, segments, reserved, recycled, contested>>

\* The archive is truncated, a split one is written beside its name, a folder
\* is shared with what is in it.
Start(j) ==
  /\ pc[j] = "queued" /\ Goes(j, "writing")
  /\ whole' = IF kind[j] = "volumes" THEN whole
              ELSE [whole EXCEPT ![Name(j)] = IF kind[j] = "archive" THEN {j} ELSE @ \cup {j}]
  /\ UNCHANGED <<kind, dest, existed, segments, reserved, recycled, contested>>

\* commit: the segments overwrite those of the same name.
Write(j) ==
  /\ pc[j] = "writing" /\ Goes(j, "written")
  /\ segments' = IF kind[j] = "volumes" THEN [segments EXCEPT ![Name(j)] = {j}] ELSE segments
  /\ UNCHANGED <<kind, dest, existed, whole, reserved, recycled, contested>>

\* After success and the optional check of the archive, not at the end of the
\* delegate.
MaybeRecycleSources(j) ==
  /\ pc[j] = "written" /\ Compresses(j)
  /\ recycled' = recycled \cup {j}
  /\ UNCHANGED <<kind, pc, dest, existed, whole, segments, reserved, contested>>

Finish(j) ==
  /\ pc[j] = "written" /\ Goes(j, "done")
  /\ UNCHANGED <<kind, dest, existed, whole, segments, reserved, recycled, contested>>

\* The delegate throws: before it created anything, while it wrote, when the
\* check finds damage, or after it recycled.  One that only opens wrote nothing.
Fail(j) ==
  /\ pc[j] \in {"queued", "writing"} \cup (IF Compresses(j) THEN {"written"} ELSE {})
  /\ Goes(j, IF kind[j] = "shell" THEN "failed" ELSE "cleaning")
  /\ UNCHANGED <<kind, dest, existed, whole, segments, reserved, recycled, contested>>

\* An extraction that fails of anything but a cancel or a wrong password
\* keeps what it wrote.
FailKeeping(j) ==
  /\ pc[j] = "writing" /\ RollsBack(j) /\ Goes(j, "failed")
  /\ UNCHANGED <<kind, dest, existed, whole, segments, reserved, recycled, contested>>

\* TryDeletePartialArchive and RollbackPartialExtract release the name first,
CleanRelease(j) ==
  /\ pc[j] = "cleaning" /\ Goes(j, "released")
  /\ reserved' = reserved \ {Name(j)}
  /\ UNCHANGED <<kind, dest, existed, whole, segments, recycled, contested>>

\* Mutant of Spares: DestExistedBefore is not asked.
SparesNothing(j) == FALSE

\* A folder that was there when the job was submitted is left.
Spares(j) == RollsBack(j) /\ existed[j]

\* then delete what has the name, whoever wrote it.
CleanDelete(j) ==
  /\ pc[j] = "released" /\ Goes(j, "failed")
  /\ whole' = IF Spares(j) THEN whole ELSE [whole EXCEPT ![Name(j)] = {}]
  /\ segments' = IF kind[j] = "volumes" THEN [segments EXCEPT ![Name(j)] = {}] ELSE segments
  /\ UNCHANGED <<kind, dest, existed, reserved, recycled, contested>>

CardSettled(j) == pc[j] \in {"settled well", "settled badly"}

\* Mutant of ReleaseReservation: a failed job is taken to have released it.
ReleaseReservationOfDone(j) == IF pc[j] = "done" THEN reserved \ {Name(j)} ELSE reserved

\* ReleaseReservation when the card settles, where the card knows the name;
\* of those that take a folder as it is, the bulk extraction's does.
ReleaseReservation(j) ==
  IF kind[j] \in {"shell", "inline"} THEN reserved ELSE reserved \ {Name(j)}

SettleCard(j) ==
  /\ pc[j] \in {"done", "failed"}
  /\ Goes(j, IF pc[j] = "done" THEN "settled well" ELSE "settled badly")
  /\ \/ reserved' = ReleaseReservation(j)
     \/ kind[j] = "here" /\ reserved' = reserved
  /\ UNCHANGED <<kind, dest, existed, whole, segments, recycled, contested>>

HasEnded(j) == CardSettled(j) \/ pc[j] = "abandoned"
AllEnded == (\A j \in Tasks : HasEnded(j)) /\ UNCHANGED namesVars

NamesNext ==
  \/ \E j \in Tasks :
       \/ Plan(j) \/ Abandon(j) \/ SubmitPlan(j) \/ CancelQueued(j) \/ Start(j) \/ Write(j)
       \/ MaybeRecycleSources(j) \/ Finish(j) \/ Fail(j) \/ FailKeeping(j)
       \/ CleanRelease(j) \/ CleanDelete(j) \/ SettleCard(j)
  \/ AllEnded

NamesSpec == NamesInit /\ [][NamesNext]_namesVars

---------------------------------------------------------------------------

States == {"new", "planned", "abandoned", "queued", "writing", "written", "done", "cleaning",
           "released", "failed", "settled well", "settled badly"}

\* Every variable has its type.
NamesTypeOK ==
  /\ kind \in [Tasks -> Kinds] /\ pc \in [Tasks -> States]
  /\ dest \in [Tasks -> 0..Last] /\ existed \in [Tasks -> BOOLEAN]
  /\ whole \in [Names -> SUBSET (Tasks \cup {Old})]
  /\ segments \in [Names -> SUBSET (Tasks \cup {Old})]
  /\ reserved \subseteq Names /\ recycled \subseteq Tasks /\ contested \subseteq Names

Planned(j) == pc[j] # "new"
Same(j, k) == Planned(j) /\ Planned(k) /\ Name(j) = Name(k)

(***************************************************************************)
(* No two jobs that have yet to end have one name, though all plans are    *)
(* made before anything is written (OutputNamer.cs:143): not while one of  *)
(* them writes, not while it cleans up or settles.  Excepted are names an  *)
(* extraction took without reserving them, and names planned between the   *)
(* two steps of a clean-up or before the card of the failed job settled,   *)
(* which releases the name once more, whoever has it by then.              *)
(***************************************************************************)
NamesAreApart ==
  \A j, k \in Tasks :
    j # k /\ Same(j, k) /\ ~HasEnded(j) /\ ~HasEnded(k) => Name(j) \in contested

\* It reported success, or has recycled its sources and not failed since.
Delivered(j) ==
  \/ pc[j] \in {"done", "settled well"}
  \/ j \in recycled /\ pc[j] = "written"

\* A job in the folder of j that failed, having found none when submitted.
MayHaveDeleted(j, k) ==
  /\ Same(j, k) /\ kind[k] # "shell" /\ ~existed[k]
  /\ pc[k] \in {"failed", "settled badly"}

(***************************************************************************)
(* What a job delivered stays under its name, and only its own, whatever   *)
(* others plan, write, clean up and settle, unless the name was contested  *)
(* as above.  A folder keeps it even then, with what others put there,     *)
(* unless one of them failed who found no folder when it was submitted: of *)
(* a folder found there no clean-up takes anything.  Volume sets are       *)
(* excepted: no plan can see their name.                                   *)
(***************************************************************************)
DeliveredIsKept ==
  \A j \in Tasks : Delivered(j) /\ kind[j] # "volumes" =>
    /\ Name(j) \notin contested => whole[Name(j)] = {j}
    /\ ~Compresses(j) => j \in whole[Name(j)] \/ \E k \in Tasks : MayHaveDeleted(j, k)

(***************************************************************************)
(* Does not hold: sources go to the recycle bin while the delegate may     *)
(* still throw, and then the archive is deleted too                        *)
(* (MainWindow.xaml.cs:2188, MainWindow.axaml.cs:445).                     *)
(***************************************************************************)
RecycledIsDelivered == \A j \in recycled : Delivered(j)

(***************************************************************************)
(* What the user had in a file or a folder before the jobs stays there: no *)
(* plan takes the name of a file, and a failed or cancelled extraction     *)
(* into a folder that was there deletes nothing of it, RollbackPartial-    *)
(* Extract (MainWindow.xaml.cs:1458).  Segments of an older volume set are *)
(* excepted: a new set of the same name overwrites or deletes them.        *)
(***************************************************************************)
OldIsKept == [][\A n \in Names : Old \in whole[n] => Old \in whole'[n]]_namesVars

(***************************************************************************)
(* When every job has ended no name stays taken, "spurious (1) suffix"     *)
(* (JobQueue.cs:287), but those of abandoned plans and of Linux's folders. *)
(***************************************************************************)
NothingLeftReserved ==
  \A n \in reserved :
    \E j \in Tasks :
      /\ Planned(j) /\ Name(j) = n
      /\ ~CardSettled(j) \/ kind[j] = "shell"
============================================================================
