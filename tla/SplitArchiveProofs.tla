-------------------------- MODULE SplitArchiveProofs --------------------------
(***************************************************************************)
(* Proofs about ArchiveHandle and SplitArchive, for every length, volume   *)
(* size, buffer and limit: a committed archive is complete, a failed one   *)
(* leaves nothing, the pointer .NET keeps is that of a live handle; and,   *)
(* but for the length 0, the volumes a commit leaves read as one file.     *)
(*                                                                         *)
(* What the recursive function Origins gives is proved by the smallest     *)
(* counterexample (Smallest), since numbers below are well-founded.        *)
(***************************************************************************)
EXTENDS SplitArchive, FiniteSetTheorems, WellFoundedInduction, TLAPS

-----------------------------------------------------------------------------
(* The archive handle and its segments                                     *)

\* No file is of a build to come.
Bygone == \A p \in Places : file[p].by <= build

\* While an archive is written, of its build there is only the file it goes to.
Fresh ==
  native.st = "writer" =>
    \A p \in Places : p # WritePath(native.split) => file[p].by # build

\* Segments opened so far, and bytes that are in them.
Count == slicer.index - 1
InThem == native.length - slicer.left - slicer.data

\* Behind the last segment there is none of this build; all but the last are
\* full, and the last holds the rest of what was taken over, at least a byte
\* or the chunk at hand.
Cutting ==
  native.st = "slicing" =>
    /\ native.split > 0 /\ answer = "ok"
    /\ InThem \in Nat
    /\ slicer.made = 1..Count /\ (slicer.open <=> Count > 0)
    /\ \A k \in Segments : k > Count => file[k].by # build
    /\ \A k \in 1..Count : /\ file[k].by = build
                           /\ file[k].from = (k - 1) * native.split
                           /\ k < Count => file[k].to = k * native.split
    /\ Count = 0 => InThem = 0
    /\ Count > 0 => /\ file[Count].to = InThem
                    /\ slicer.room = Count * native.split - InThem
                    /\ InThem > (Count - 1) * native.split
                         \/ (InThem = (Count - 1) * native.split /\ slicer.data > 0)

HandleInv ==
  /\ TypeOK /\ PointerIsLive /\ Bygone /\ Fresh /\ Cutting
  /\ FailedSliceLeavesNothing /\ CommittedIsComplete
---------------------------------------------------------------------------

LEMMA Bounds ==
  /\ VolumeSizes \cup {0} \subseteq Nat /\ Lengths \cup {0} \subseteq Nat
  /\ OldVolumes \subseteq Nat /\ 0..Builds \subseteq Nat /\ -1..Builds \subseteq Int
  /\ MaxVolumes \in Nat \ {0} /\ Buffer \in Nat \ {0} /\ Builds \in Nat
BY HandleAssumption

LEMMA Numbers ==
  ASSUME TypeOK
  PROVE  /\ \A p \in Places : file[p].by \in Int
         /\ native.split \in Nat /\ native.length \in Nat
         /\ slicer.left \in Nat /\ slicer.data \in Nat /\ slicer.room \in Nat
         /\ slicer.index \in 1..(MaxVolumes + 1)
         /\ build \in Nat
<1>1. \A p \in Places : file[p].by \in -1..Builds
  BY DEF File, TypeOK
<1>2. native.split \in VolumeSizes \cup {0} /\ native.length \in Lengths \cup {0}
  BY DEF Native, TypeOK
<1>3. build \in 0..Builds
  BY DEF TypeOK
<1>4. /\ slicer.left \in Nat /\ slicer.data \in Nat /\ slicer.room \in Nat
      /\ slicer.index \in 1..(MaxVolumes + 1)
  BY DEF Slicer, TypeOK
<1> QED
  BY <1>1, <1>2, <1>3, <1>4, Bounds

LEMMA SomeFiles ==
  /\ Absent \in File /\ Absent.by = -1
  /\ \A b \in 0..Builds, m, n \in Nat : Stretch(b, m, n) \in File /\ Stretch(b, m, n).by = b
  /\ Unheld \in Native /\ Idle \in Slicer
<1>1. -1 \in -1..Builds /\ \A b \in 0..Builds : b \in -1..Builds
  BY Bounds
<1>2. Absent \in File /\ Absent.by = -1
  BY <1>1 DEF Absent, File
<1>3. \A b \in 0..Builds, m, n \in Nat : Stretch(b, m, n) \in File /\ Stretch(b, m, n).by = b
  BY <1>1 DEF Stretch, File
<1>4. Unheld \in Native
  BY DEF Unheld, Native
<1>5. 1 \in 1..(MaxVolumes + 1)
  BY Bounds
<1>6. Idle \in Slicer
  BY <1>5 DEF Idle, Slicer
<1> QED
  BY <1>2, <1>3, <1>4, <1>6

LEMMA InitHandle == Init => HandleInv
<1> SUFFICES ASSUME Init PROVE HandleInv
  OBVIOUS
<1>1. PICK old \in OldVolumes, whole \in BOOLEAN :
        file = [p \in Places |->
                 IF p \in 1..old THEN Stretch(0, p - 1, p)
                 ELSE IF p = Whole /\ whole THEN Stretch(0, 0, 1) ELSE Absent]
  BY DEF Init
<1>2. /\ native = Unheld /\ slicer = Idle /\ build = 0 /\ ptr = FALSE /\ answer = "none"
  BY DEF Init
<1>3. 0 \in 0..Builds /\ old \in Nat
  BY Bounds
<1>4. ASSUME NEW p \in Places PROVE file[p] \in File /\ file[p].by <= 0
  <2>1. CASE p \in 1..old
    <3>1. p - 1 \in Nat /\ p \in Nat
      BY <1>3, <2>1
    <3> QED
      BY <1>1, <1>3, <2>1, <3>1, SomeFiles
  <2>2. CASE p \notin 1..old
    <3>1. file[p] = Stretch(0, 0, 1) \/ file[p] = Absent
      BY <1>1, <2>2
    <3> QED
      BY <1>3, <3>1, SomeFiles
  <2> QED
    BY <2>1, <2>2
<1>5. file \in [Places -> File]
  BY <1>1, <1>4
<1>6. TypeOK
  BY <1>2, <1>3, <1>5, SomeFiles DEF Answers, TypeOK
<1>7. Bygone
  BY <1>2, <1>4 DEF Bygone
<1>8. native.st = "none"
  BY <1>2 DEF Unheld
<1> QED
  BY <1>2, <1>6, <1>7, <1>8 DEF HandleInv, PointerIsLive, Fresh, Cutting,
     FailedSliceLeavesNothing, CommittedIsComplete

---------------------------------------------------------------------------

LEMMA CreateStep ==
  ASSUME HandleInv, NEW fmt \in Formats, NEW password \in BOOLEAN, NEW method \in Methods,
         NEW v \in VolumeSizes, Create(fmt, password, method, v)
  PROVE  HandleInv'
<1> DEFINE m == Effective(password, method)
<1>1. /\ ~ptr /\ native.st \in {"none", "freed"} /\ build' = build + 1 /\ slicer' = slicer
      /\ build < Builds
  BY DEF Create
<1>2. /\ file \in [Places -> File] /\ native \in Native /\ slicer \in Slicer
      /\ build \in Nat /\ \A p \in Places : file[p].by <= build /\ file[p].by \in Int
  BY Numbers DEF HandleInv, Bygone, TypeOK
<1>3. WritePath(v) \in Places
  BY DEF WritePath, Places, Part, Whole
<1>4. build' \in 0..Builds /\ 0 \in Nat
  BY <1>1, <1>2, Bounds
<1>5. Stretch(build', 0, 0) \in File /\ Stretch(build', 0, 0).by = build'
  BY <1>4, SomeFiles
<1>6. ASSUME file' = file \/ file' = [file EXCEPT ![WritePath(v)] = Stretch(build', 0, 0)]
      PROVE  /\ file' \in [Places -> File] /\ Bygone'
             /\ \A p \in Places : p # WritePath(v) => file'[p].by # build'
  <2>1. file' \in [Places -> File]
    BY <1>2, <1>3, <1>5, <1>6
  <2>2. ASSUME NEW p \in Places
        PROVE  file'[p].by <= build' /\ (p # WritePath(v) => file'[p].by # build')
    <3>1. file'[p] = file[p] \/ (p = WritePath(v) /\ file'[p] = Stretch(build', 0, 0))
      BY <1>2, <1>6
    <3>2. file[p].by <= build /\ file[p].by \in Int
      BY <1>2
    <3> QED
      BY <1>1, <1>2, <1>5, <3>1, <3>2
  <2> QED
    BY <2>1, <2>2 DEF Bygone
<1>7. CASE Refuses(fmt, password, m)
  <2>1. /\ \/ file' = file
           \/ file' = [file EXCEPT ![WritePath(v)] = Stretch(build', 0, 0)]
        /\ answer' = "refused" /\ native' = native /\ ptr' = ptr
    BY <1>7 DEF Create
  <2>2. file' \in [Places -> File] /\ Bygone'
    BY <1>6, <2>1
  <2>3. TypeOK'
    BY <1>1, <1>2, <1>4, <2>1, <2>2 DEF HandleInv, Answers, TypeOK
  <2> QED
    BY <1>1, <2>1, <2>2, <2>3 DEF HandleInv, PointerIsLive, Fresh, Cutting,
       FailedSliceLeavesNothing, CommittedIsComplete
<1>8. CASE ~Refuses(fmt, password, m)
  <2>1. /\ file' = [file EXCEPT ![WritePath(v)] = Stretch(build', 0, 0)]
        /\ native' = [st |-> "writer", split |-> v, sealed |-> Seals(fmt, password, m),
                      asked |-> password, length |-> 0]
        /\ ptr' = TRUE /\ answer' = "ok"
    BY <1>8 DEF Create
  <2>2. /\ file' \in [Places -> File] /\ Bygone'
        /\ \A p \in Places : p # WritePath(v) => file'[p].by # build'
    BY <1>6, <2>1
  <2>3. Seals(fmt, password, m) \in BOOLEAN
    BY DEF Seals
  <2>4. native' \in Native
    BY <2>1, <2>3 DEF Native
  <2>5. TypeOK'
    BY <1>1, <1>2, <1>4, <2>1, <2>2, <2>4 DEF Answers, TypeOK
  <2>6. native'.st = "writer" /\ native'.split = v
    BY <2>1
  <2> QED
    BY <2>1, <2>2, <2>5, <2>6 DEF HandleInv, PointerIsLive, Fresh, Cutting,
       FailedSliceLeavesNothing, CommittedIsComplete
<1> QED
  BY <1>7, <1>8

\* The calls that touch no file.
LEMMA OtherStep ==
  ASSUME HandleInv,
         \/ CreateFails \/ (\E ok \in BOOLEAN : Add(ok)) \/ CommitReader \/ Open \/ Close
         \/ Finished \/ UNCHANGED vars
  PROVE  HandleInv'
<1>1. CASE CreateFails
  <2>1. /\ file' = file /\ native' = native /\ slicer' = slicer /\ ptr' = ptr
        /\ native.st \in {"none", "freed"} /\ answer' = "refused" /\ build' = build + 1
        /\ build < Builds
    BY <1>1 DEF CreateFails
  <2>2. build \in Nat /\ \A p \in Places : file[p].by <= build /\ file[p].by \in Int
    BY Numbers DEF HandleInv, Bygone
  <2>3. build' \in 0..Builds /\ \A p \in Places : file[p].by <= build'
    BY <2>1, <2>2, Bounds
  <2>4. TypeOK' /\ Bygone'
    BY <2>1, <2>3 DEF HandleInv, Bygone, Answers, TypeOK
  <2> QED
    BY <2>1, <2>4 DEF HandleInv, PointerIsLive, Fresh, Cutting, FailedSliceLeavesNothing,
       CommittedIsComplete
<1>2. CASE \E ok \in BOOLEAN : Add(ok)
  <2>1. /\ file' = file /\ native' = native /\ slicer' = slicer /\ ptr' = ptr
        /\ build' = build /\ native.st # "slicing" /\ answer' \in {"ok", "error"}
    BY <1>2 DEF Add
  <2>2. TypeOK' /\ Bygone'
    BY <2>1 DEF HandleInv, Bygone, Answers, TypeOK
  <2> QED
    BY <2>1, <2>2 DEF HandleInv, PointerIsLive, Fresh, Cutting, FailedSliceLeavesNothing,
       CommittedIsComplete
<1>3. CASE CommitReader \/ Close
  <2>1. /\ native' = Freed /\ ptr' = FALSE /\ answer' \in {"error", "ok"} /\ slicer' = Idle
        /\ file' = file /\ build' = build
    BY <1>3 DEF CommitReader, Close, Return
  <2>2. native' \in Native /\ native'.st = "freed"
    BY <2>1 DEF HandleInv, Freed, Native, TypeOK
  <2>3. TypeOK' /\ Bygone'
    BY <2>1, <2>2, SomeFiles DEF HandleInv, Bygone, Answers, TypeOK
  <2> QED
    BY <2>1, <2>2, <2>3 DEF HandleInv, PointerIsLive, Fresh, Cutting, FailedSliceLeavesNothing,
       CommittedIsComplete
<1>4. CASE Open
  <2>1. /\ native.st \in {"none", "freed"} /\ file' = file /\ build' = build /\ slicer' = slicer
        /\ \/ native' = [Unheld EXCEPT !.st = "reader"] /\ ptr' = TRUE /\ answer' = "ok"
           \/ native' = native /\ ptr' = FALSE /\ answer' = "refused"
    BY <1>4 DEF Open
  <2>2. native' \in Native /\ (native' = native \/ native'.st = "reader")
    BY <2>1 DEF HandleInv, Unheld, Native, TypeOK
  <2>3. TypeOK' /\ Bygone'
    BY <2>1, <2>2 DEF HandleInv, Bygone, Answers, TypeOK
  <2>4. PointerIsLive'
    BY <2>1 DEF PointerIsLive, Unheld
  <2> QED
    BY <2>1, <2>2, <2>3, <2>4 DEF HandleInv, Fresh, Cutting, FailedSliceLeavesNothing,
       CommittedIsComplete
<1>5. CASE Finished \/ UNCHANGED vars
  <2>1. UNCHANGED vars
    BY <1>5 DEF Finished
  <2> QED
    BY <2>1 DEF vars, HandleInv, TypeOK, Bygone, PointerIsLive, Fresh, Cutting, Count,
       InThem, FailedSliceLeavesNothing, CommittedIsComplete
<1> QED
  BY <1>1, <1>2, <1>3, <1>4, <1>5

\* Giving up deletes files only.
LEMMA RollbackStep ==
  ASSUME HandleInv, Rollback
  PROVE  HandleInv'
<1>1. /\ native' = Freed /\ ptr' = FALSE /\ answer' \in {"error", "rolled back"}
      /\ slicer' = Idle /\ build' = build /\ file' = RollbackFiles
  BY DEF Rollback, Return
<1>2. file \in [Places -> File] /\ native \in Native /\ build \in 0..Builds /\ build \in Nat
  BY Numbers DEF HandleInv, TypeOK
<1>3. file' \in [Places -> File] /\ \A p \in Places : file'[p] = file[p] \/ file'[p] = Absent
  BY <1>1, <1>2, SomeFiles DEF RollbackFiles
<1>4. native' \in Native /\ native'.st = "freed"
  BY <1>1, <1>2 DEF Freed, Native
<1>5. TypeOK'
  BY <1>1, <1>2, <1>3, <1>4, SomeFiles DEF Answers, TypeOK
<1>6. Bygone'
  <2>1. -1 <= build
    BY <1>2
  <2> QED
    BY <1>1, <1>3, <2>1, SomeFiles DEF HandleInv, Bygone
<1> QED
  BY <1>1, <1>4, <1>5, <1>6 DEF HandleInv, PointerIsLive, Fresh, Cutting,
     FailedSliceLeavesNothing, CommittedIsComplete
---------------------------------------------------------------------------

\* The writer is done, badly or well; in split mode the cutting begins.
LEMMA CommitStep ==
  ASSUME HandleInv, NEW ok \in BOOLEAN, NEW length \in Lengths, CommitWriter(ok, length)
  PROVE  HandleInv'
<1>1. /\ ptr /\ native.st = "writer" /\ build' = build
  BY DEF CommitWriter
<1>2. /\ file \in [Places -> File] /\ native \in Native /\ slicer \in Slicer
      /\ build \in 0..Builds /\ build \in Nat /\ native.split \in Nat
      /\ \A p \in Places : file[p].by <= build /\ file[p].by \in Int
  BY Numbers DEF HandleInv, TypeOK, Bygone
<1>3. \A p \in Places : p # WritePath(native.split) => file[p].by # build
  BY <1>1 DEF HandleInv, Fresh
<1>4. length \in Nat /\ length \in Lengths \cup {0} /\ 0 \in Nat
  BY Bounds
<1>5. Stretch(build, 0, length) \in File /\ Stretch(build, 0, length).by = build
  BY <1>2, <1>4, SomeFiles
<1>6. WritePath(native.split) \in Places /\ Part \in Places
  BY DEF WritePath, Places, Part, Whole
<1>7. CASE ~ok
  <2>1. /\ file' = IF native.split > 0 THEN [file EXCEPT ![Part] = Absent] ELSE file
        /\ native' = Freed /\ ptr' = FALSE /\ answer' = "failed" /\ slicer' = Idle
    BY <1>7 DEF CommitWriter, Return
  <2>2. file' \in [Places -> File]
    BY <1>2, <2>1, SomeFiles
  <2>3. \A p \in Places : file'[p] = file[p] \/ file'[p] = Absent
    BY <1>2, <2>1
  <2>4. native' \in Native /\ native'.st = "freed"
    BY <1>2, <2>1 DEF Freed, Native
  <2>5. TypeOK'
    BY <1>1, <1>2, <2>1, <2>2, <2>4, SomeFiles DEF TypeOK, Answers
  <2>6. Bygone'
    BY <1>1, <1>2, <2>3, SomeFiles DEF Bygone
  <2>7. ASSUME NEW p \in Places \ {Whole} PROVE file'[p].by # build'
    <3>1. CASE native.split > 0
      BY <1>1, <1>2, <1>3, <2>1, <3>1, SomeFiles DEF WritePath
    <3>2. CASE ~(native.split > 0)
      BY <1>1, <1>2, <1>3, <2>1, <3>2 DEF WritePath
    <3> QED
      BY <3>1, <3>2
  <2> QED
    BY <2>1, <2>4, <2>5, <2>6, <2>7 DEF HandleInv, PointerIsLive, Fresh, Cutting,
       FailedSliceLeavesNothing, CommittedIsComplete
<1>8. CASE ok
  <2>1. file' = [file EXCEPT ![WritePath(native.split)] = Stretch(build, 0, length)]
    BY <1>8 DEF CommitWriter
  <2>2. file' \in [Places -> File]
    BY <1>2, <1>5, <1>6, <2>1
  <2>3. Bygone'
    <3> SUFFICES ASSUME NEW p \in Places PROVE file'[p].by <= build
      BY <1>1 DEF Bygone
    <3>1. file'[p] = file[p] \/ file'[p] = Stretch(build, 0, length)
      BY <1>2, <2>1
    <3> QED
      BY <1>2, <1>5, <3>1
  <2>4. CASE native.split = 0
    <3>1. /\ native' = [Freed EXCEPT !.length = length] /\ ptr' = FALSE
          /\ answer' = "committed" /\ slicer' = slicer
      BY <1>8, <2>4 DEF CommitWriter
    <3>2. /\ native' \in Native /\ native'.st = "freed" /\ native'.split = 0
          /\ native'.length = length
      BY <1>2, <1>4, <2>4, <3>1 DEF Freed, Native
    <3>3. TypeOK'
      BY <1>1, <1>2, <2>2, <3>1, <3>2 DEF TypeOK, Answers
    <3>4. file'[Whole] = Stretch(build, 0, length)
      BY <1>2, <1>6, <2>1, <2>4 DEF WritePath
    <3> QED
      BY <1>1, <2>3, <3>1, <3>2, <3>3, <3>4 DEF HandleInv, PointerIsLive, Fresh, Cutting,
         FailedSliceLeavesNothing, CommittedIsComplete
  <2>5. CASE native.split # 0
    <3>1. /\ native' = [native EXCEPT !.st = "slicing", !.length = length]
          /\ slicer' = [Idle EXCEPT !.left = length] /\ ptr' = ptr /\ answer' = answer
          /\ answer = "ok"
      BY <1>8, <2>5 DEF CommitWriter
    <3>2. /\ native' \in Native /\ native'.st = "slicing" /\ native'.split = native.split
          /\ native'.length = length
      BY <1>2, <1>4, <3>1 DEF Native
    <3>3. /\ slicer' \in Slicer /\ slicer'.left = length /\ slicer'.data = 0
          /\ slicer'.index = 1 /\ slicer'.open = FALSE /\ slicer'.made = {}
      BY <1>4, <3>1, SomeFiles DEF Slicer, Idle
    <3>4. TypeOK'
      BY <1>1, <1>2, <2>2, <3>1, <3>2, <3>3 DEF HandleInv, TypeOK
    <3>5. Count' = 0 /\ InThem' = 0
      BY <1>4, <3>2, <3>3 DEF Count, InThem
    <3>6. ASSUME NEW k \in Segments PROVE file'[k].by # build'
      <4>1. k \in Places /\ k # WritePath(native.split)
        BY <1>2, <2>5, Bounds DEF Places, WritePath, Part, Segments
      <4> QED
        BY <1>1, <1>2, <1>3, <2>1, <4>1
    <3>7. Cutting'
      BY <1>2, <2>5, <3>1, <3>2, <3>3, <3>5, <3>6 DEF Cutting
    <3> QED
      BY <1>1, <2>3, <3>1, <3>2, <3>4, <3>7 DEF HandleInv, PointerIsLive, Fresh,
         FailedSliceLeavesNothing, CommittedIsComplete
  <2> QED
    BY <2>4, <2>5
<1> QED
  BY <1>7, <1>8

\* What the steps of the slicer start from.
LEMMA CuttingNow ==
  ASSUME HandleInv, native.st = "slicing"
  PROVE  /\ file \in [Places -> File] /\ native \in Native /\ slicer \in Slicer
         /\ build \in 0..Builds /\ build \in Nat /\ native.split \in Nat \ {0}
         /\ native.length \in Nat /\ slicer.left \in Nat /\ slicer.data \in Nat
         /\ slicer.room \in Nat /\ slicer.index \in 1..(MaxVolumes + 1) /\ Count \in 0..MaxVolumes
         /\ \A p \in Places : file[p].by <= build /\ file[p].by \in Int
         /\ ptr = TRUE /\ answer = "ok" /\ InThem \in Nat /\ MaxVolumes \in Nat
<1>1. /\ native.split \in Nat /\ native.split > 0 /\ slicer.index \in 1..(MaxVolumes + 1)
      /\ MaxVolumes \in Nat
  BY Numbers, Bounds DEF HandleInv, Cutting
<1>2. Count \in 0..MaxVolumes
  BY <1>1 DEF Count
<1> QED
  BY <1>1, <1>2, Numbers DEF HandleInv, TypeOK, Bygone, Cutting, PointerIsLive

\* The slicer returns with an error and takes away what it made.
LEMMA SliceFailsStep ==
  ASSUME HandleInv, native.st = "slicing", SliceFails(file)
  PROVE  HandleInv'
<1>1. /\ file' = [p \in Places |-> IF p = Part \/ p \in slicer.made THEN Absent ELSE file[p]]
      /\ native' = Freed /\ ptr' = FALSE /\ answer' = "failed" /\ slicer' = Idle
      /\ build' = build
  BY DEF SliceFails, Return
<1>2. \A p \in Places : file'[p] = file[p] \/ file'[p] = Absent
  BY <1>1
<1>3. file' \in [Places -> File]
  BY <1>1, CuttingNow, SomeFiles
<1>4. native' \in Native /\ native'.st = "freed"
  BY <1>1, CuttingNow DEF Freed, Native
<1>5. TypeOK'
  BY <1>1, <1>3, <1>4, CuttingNow, SomeFiles DEF TypeOK, Answers
<1>6. Bygone'
  BY <1>1, <1>2, CuttingNow, SomeFiles DEF Bygone
<1>7. ASSUME NEW p \in Places \ {Whole} PROVE file'[p].by # build'
  <2>1. CASE p = Part \/ p \in slicer.made
    BY <1>1, <2>1, CuttingNow, SomeFiles
  <2>2. CASE p # Part /\ p \notin slicer.made
    <3>1. p \in Segments /\ p \notin 1..Count
      BY <2>2 DEF HandleInv, Cutting, Places
    <3>2. p > Count
      BY <3>1, CuttingNow DEF Segments
    <3> QED
      BY <1>1, <2>2, <3>1, <3>2 DEF HandleInv, Cutting
  <2> QED
    BY <2>1, <2>2
<1> QED
  BY <1>1, <1>4, <1>5, <1>6, <1>7 DEF HandleInv, PointerIsLive, Fresh, Cutting,
     FailedSliceLeavesNothing, CommittedIsComplete

LEMMA ReadStep ==
  ASSUME HandleInv, ReadChunk
  PROVE  HandleInv'
<1> DEFINE n == Least(Buffer, slicer.left)
<1>1. /\ native.st = "slicing" /\ slicer.data = 0 /\ slicer.left > 0
      /\ slicer' = [slicer EXCEPT !.data = n, !.left = @ - n]
      /\ UNCHANGED <<file, native, build, ptr, answer>>
  BY DEF ReadChunk
<1>2. n \in Nat /\ n > 0 /\ slicer.left - n \in Nat
  BY <1>1, CuttingNow, Bounds DEF Least
<1> HIDE DEF n
<1>3. /\ slicer' \in Slicer /\ slicer'.left = slicer.left - n /\ slicer'.data = n
      /\ slicer'.index = slicer.index /\ slicer'.open = slicer.open
      /\ slicer'.made = slicer.made /\ slicer'.room = slicer.room
  BY <1>1, <1>2, CuttingNow DEF Slicer
<1>4. Count' = Count /\ InThem' = InThem
  BY <1>1, <1>2, <1>3, CuttingNow DEF Count, InThem
<1>5. Cutting'
  BY <1>1, <1>2, <1>3, <1>4 DEF HandleInv, Cutting
<1>6. TypeOK' /\ Bygone'
  BY <1>1, <1>3 DEF HandleInv, TypeOK, Bygone
<1> QED
  BY <1>1, <1>5, <1>6, CuttingNow DEF HandleInv, PointerIsLive, Fresh,
     FailedSliceLeavesNothing, CommittedIsComplete
\* A product grows by one factor.
LEMMA NextMultiple == \A c, v \in Nat : (c + 1) * v = c * v + v
OBVIOUS

LEMMA OpenSegmentStep ==
  ASSUME HandleInv, OpenSegment
  PROVE  HandleInv'
<1> DEFINE i == slicer.index
           v == native.split
<1>1. /\ native.st = "slicing" /\ slicer.data > 0 /\ (~slicer.open \/ slicer.room = 0)
  BY DEF OpenSegment, NeedsSegment
<1>2. CASE slicer.index > MaxVolumes
  BY <1>1, <1>2, SliceFailsStep DEF OpenSegment
<1>3. CASE ~(slicer.index > MaxVolumes)
  <2>1. /\ file' = [file EXCEPT ![i] = Stretch(build, InThem, InThem)]
        /\ slicer' = [slicer EXCEPT !.open = TRUE, !.made = @ \cup {i}, !.index = @ + 1,
                                    !.room = v]
        /\ UNCHANGED <<native, build, ptr, answer>>
    BY <1>3 DEF OpenSegment, Volume, InThem
  <2>2. i \in 1..MaxVolumes /\ i = Count + 1 /\ Count \in Nat /\ i \in Places /\ i \in Segments
    BY <1>1, <1>3, CuttingNow DEF Count, Places, Segments
  <2>3. Stretch(build, InThem, InThem) \in File /\ Stretch(build, InThem, InThem).by = build
    BY <1>1, CuttingNow, SomeFiles
  <2>4. /\ slicer' \in Slicer /\ slicer'.index = i + 1 /\ slicer'.room = v
        /\ slicer'.open = TRUE /\ slicer'.made = slicer.made \cup {i}
        /\ slicer'.left = slicer.left /\ slicer'.data = slicer.data
    <3>1. i + 1 \in 1..(MaxVolumes + 1) /\ v \in Nat
      BY <1>1, <2>2, CuttingNow
    <3>2. slicer.made \cup {i} \in SUBSET (1..MaxVolumes)
      BY <1>1, <2>2, CuttingNow DEF Slicer
    <3> QED
      BY <1>1, <2>1, <3>1, <3>2, CuttingNow DEF Slicer
  <2>5. Count' = i /\ InThem' = InThem
    BY <2>1, <2>2, <2>4 DEF Count, InThem
  <2>6. file' \in [Places -> File]
    BY <1>1, <2>1, <2>3, CuttingNow
  <2>7. ASSUME NEW p \in Places
        PROVE  file'[p] = IF p = i THEN Stretch(build, InThem, InThem) ELSE file[p]
    BY <1>1, <2>1, <2>7, CuttingNow
  <2>8. Bygone'
    <3> SUFFICES ASSUME NEW p \in Places PROVE file'[p].by <= build
      BY <2>1 DEF Bygone
    <3> QED
      BY <1>1, <2>3, <2>7, CuttingNow
  <2>9. TypeOK'
    BY <2>1, <2>4, <2>6 DEF HandleInv, TypeOK
  <2>10. InThem = Count * v /\ (Count > 0 => file[Count].to = Count * v)
    <3>1. CASE Count = 0
      <4>1. InThem = 0
        BY <1>1, <3>1 DEF HandleInv, Cutting
      <4>2. 0 * v = 0
        BY <1>1, CuttingNow
      <4> QED
        BY <3>1, <4>1, <4>2
    <3>2. CASE Count > 0
      <4>1. slicer.room = Count * v - InThem /\ slicer.room = 0 /\ file[Count].to = InThem
        BY <1>1, <3>2 DEF HandleInv, Cutting
      <4>2. Count * v \in Nat /\ InThem \in Nat
        BY <1>1, <2>2, CuttingNow
      <4> QED
        BY <4>1, <4>2
    <3> QED
      BY <2>2, <3>1, <3>2
  <2>11. v = i * v - InThem
    <3>1. v \in Nat /\ Count * v \in Nat /\ i * v = Count * v + v
      BY <1>1, <2>2, CuttingNow, NextMultiple
    <3> QED
      BY <2>10, <3>1
  <2>12. ASSUME NEW k \in Segments, k > i PROVE file'[k].by # build
    <3>1. k \in Places /\ k # i /\ k > Count
      BY <2>2, <2>12 DEF Places, Segments
    <3> QED
      BY <1>1, <2>7, <3>1 DEF HandleInv, Cutting
  <2>13. ASSUME NEW k \in 1..i
         PROVE  /\ file'[k].by = build /\ file'[k].from = (k - 1) * v
                /\ k < i => file'[k].to = k * v
    <3>1. k \in Places
      BY <1>1, <2>2, CuttingNow DEF Places, Segments
    <3>2. CASE k = i
      <4>1. file'[k] = Stretch(build, InThem, InThem) /\ k - 1 = Count
        BY <2>2, <2>7, <3>1, <3>2
      <4> QED
        BY <2>2, <2>10, <3>2, <4>1 DEF Stretch
    <3>3. CASE k # i
      <4>1. k \in 1..Count /\ file'[k] = file[k] /\ (k = Count \/ k < Count)
        BY <2>2, <2>7, <3>1, <3>3
      <4>2. file[k].by = build /\ file[k].from = (k - 1) * v /\ (k < Count => file[k].to = k * v)
        BY <1>1, <4>1 DEF HandleInv, Cutting
      <4> QED
        BY <2>2, <2>10, <4>1, <4>2
    <3> QED
      BY <3>2, <3>3
  <2>14. file'[i].to = InThem
    BY <2>2, <2>7 DEF Stretch
  <2>15. slicer'.made = 1..i
    <3>1. slicer.made = 1..Count
      BY <1>1 DEF HandleInv, Cutting
    <3>2. 1..i = 1..Count \cup {i}
      BY <2>2
    <3> QED
      BY <2>4, <3>1, <3>2
  <2>16. native.split > 0 /\ answer = "ok" /\ InThem \in Nat /\ i > 0 /\ i - 1 = Count
    BY <1>1, <2>2, CuttingNow
  <2>17. Cutting'
    BY <1>1, <2>1, <2>4, <2>5, <2>10, <2>11, <2>12, <2>13, <2>14, <2>15, <2>16 DEF Cutting
  <2> QED
    BY <1>1, <2>1, <2>8, <2>9, <2>17, CuttingNow DEF HandleInv, PointerIsLive, Fresh,
       FailedSliceLeavesNothing, CommittedIsComplete
<1> QED
  BY <1>2, <1>3

LEMMA WriteSegmentStep ==
  ASSUME HandleInv, WriteSegment
  PROVE  HandleInv'
<1> DEFINE n == Least(slicer.room, slicer.data)
           v == native.split
<1>1. /\ native.st = "slicing" /\ slicer.data > 0 /\ slicer.open /\ slicer.room # 0
      /\ file' = [file EXCEPT ![Count].to = @ + n]
      /\ slicer' = [slicer EXCEPT !.data = @ - n, !.room = @ - n]
      /\ UNCHANGED <<native, build, ptr, answer>>
  BY DEF WriteSegment, NeedsSegment, Count, Volume
<1>2. n \in Nat /\ n > 0 /\ slicer.data - n \in Nat /\ slicer.room - n \in Nat
  BY <1>1, CuttingNow DEF Least
<1> HIDE DEF n
<1>3. Count \in 1..MaxVolumes /\ Count > 0 /\ Count \in Places
  <2>1. Count > 0
    BY <1>1 DEF HandleInv, Cutting
  <2> QED
    BY <1>1, <2>1, CuttingNow DEF Places, Segments
<1>4. /\ slicer' \in Slicer /\ slicer'.data = slicer.data - n /\ slicer'.room = slicer.room - n
      /\ slicer'.index = slicer.index /\ slicer'.open = slicer.open
      /\ slicer'.made = slicer.made /\ slicer'.left = slicer.left
  BY <1>1, <1>2, CuttingNow DEF Slicer
<1>5. Count' = Count /\ InThem' = InThem + n
  BY <1>1, <1>2, <1>4, CuttingNow DEF Count, InThem
<1>6. file[Count] \in File /\ file[Count].to = InThem /\ InThem \in Nat
  BY <1>1, <1>3, CuttingNow DEF HandleInv, Cutting
<1>7. file' = [file EXCEPT ![Count] = [file[Count] EXCEPT !.to = InThem + n]]
  BY <1>1, <1>6
<1>8. /\ [file[Count] EXCEPT !.to = InThem + n] \in File
      /\ [file[Count] EXCEPT !.to = InThem + n].by = file[Count].by
      /\ [file[Count] EXCEPT !.to = InThem + n].from = file[Count].from
      /\ [file[Count] EXCEPT !.to = InThem + n].to = InThem + n
  BY <1>2, <1>6 DEF File
<1>9. /\ file' \in [Places -> File]
      /\ \A p \in Places : /\ file'[p].by = file[p].by /\ file'[p].from = file[p].from
                           /\ p # Count => file'[p].to = file[p].to
      /\ file'[Count].to = InThem + n
  BY <1>1, <1>3, <1>7, <1>8, CuttingNow
<1>10. TypeOK' /\ Bygone'
  BY <1>1, <1>4, <1>9 DEF HandleInv, TypeOK, Bygone
<1>11. /\ slicer.room - n = Count * v - (InThem + n)
       /\ InThem + n > (Count - 1) * v
  <2>1. /\ slicer.room = Count * v - InThem /\ InThem >= (Count - 1) * v
    <3>1. /\ slicer.room = Count * v - InThem
          /\ InThem > (Count - 1) * v \/ InThem = (Count - 1) * v
      BY <1>1, <1>3 DEF HandleInv, Cutting
    <3>2. (Count - 1) * v \in Int /\ InThem \in Int
      BY <1>1, <1>3, CuttingNow
    <3> QED
      BY <3>1, <3>2
  <2>2. Count * v \in Int /\ (Count - 1) * v \in Int /\ InThem \in Int
    BY <1>1, <1>3, CuttingNow
  <2> QED
    BY <1>2, <2>1, <2>2
<1>12. \A k \in Segments : k > Count => file'[k].by # build
  <2>1. \A k \in Segments : k \in Places
    BY DEF Places
  <2> QED
    BY <1>1, <1>9, <2>1 DEF HandleInv, Cutting
<1>13. ASSUME NEW k \in 1..Count
       PROVE  /\ file'[k].by = build /\ file'[k].from = (k - 1) * v
              /\ k < Count => file'[k].to = k * v
  <2>1. k \in Places
    BY <1>3, <1>1, CuttingNow DEF Places, Segments
  <2>2. k < Count => k # Count
    BY <1>3
  <2> QED
    BY <1>1, <1>9, <2>1, <2>2 DEF HandleInv, Cutting
<1>14. /\ native.split > 0 /\ answer = "ok" /\ InThem + n \in Nat
       /\ slicer.made = 1..Count /\ (slicer.open <=> Count > 0)
  BY <1>1, <1>2, CuttingNow DEF HandleInv, Cutting
<1>15. Cutting'
  BY <1>1, <1>3, <1>4, <1>5, <1>9, <1>11, <1>12, <1>13, <1>14 DEF Cutting
<1> QED
  BY <1>1, <1>10, <1>15, CuttingNow DEF HandleInv, PointerIsLive, Fresh,
     FailedSliceLeavesNothing, CommittedIsComplete

LEMMA SliceDoneStep ==
  ASSUME HandleInv, SliceDone
  PROVE  HandleInv'
<1> DEFINE v == native.split
           n == IF Count = 0 THEN 1 ELSE Count
<1>1. /\ native.st = "slicing" /\ slicer.data = 0 /\ slicer.left = 0
      /\ file' = [file EXCEPT ![Part] = Absent,
                              ![1] = IF slicer.made = {} THEN Stretch(build, 0, 0) ELSE @]
      /\ native' = Freed /\ ptr' = FALSE /\ answer' = "committed" /\ slicer' = Idle
      /\ build' = build
  BY DEF SliceDone, Return, Volume
<1>2. 1 \in Places /\ Part \in Places /\ Part # 1 /\ Part \notin Segments
  BY <1>1, CuttingNow DEF Places, Part, Segments
<1>3. Stretch(build, 0, 0) \in File /\ Stretch(build, 0, 0).by = build
  BY <1>1, CuttingNow, SomeFiles
<1>4. InThem = native.length /\ slicer.made = 1..Count /\ Count \in 0..MaxVolumes
  <2>1. InThem = native.length
    BY <1>1, CuttingNow DEF InThem
  <2>2. slicer.made = 1..Count /\ Count \in 0..MaxVolumes
    BY <1>1, CuttingNow DEF HandleInv, Cutting
  <2> QED
    BY <2>1, <2>2
<1>5. slicer.made = {} <=> Count = 0
  BY <1>4
<1>6. ASSUME NEW p \in Places
      PROVE  file'[p] = IF p = Part THEN Absent
                        ELSE IF p = 1 /\ Count = 0 THEN Stretch(build, 0, 0) ELSE file[p]
  BY <1>1, <1>2, <1>5, <1>6, CuttingNow
<1>7. file' \in [Places -> File]
  <2>1. \A p \in Places : file'[p] \in File
    BY <1>1, <1>3, <1>6, CuttingNow, SomeFiles
  <2> QED
    BY <1>1, <2>1, CuttingNow
<1>8. /\ native' \in Native /\ native'.st = "freed" /\ native'.split = v
      /\ native'.length = native.length
  BY <1>1, CuttingNow DEF Freed, Native
<1>9. TypeOK'
  BY <1>1, <1>7, <1>8, CuttingNow, SomeFiles DEF TypeOK, Answers
<1>10. Bygone'
  <2> SUFFICES ASSUME NEW p \in Places PROVE file'[p].by <= build
    BY <1>1 DEF Bygone
  <2> QED
    BY <1>1, <1>3, <1>6, CuttingNow, SomeFiles
<1>11. /\ n \in 1..MaxVolumes
       /\ \A k \in 1..(MaxVolumes + 1) : k \in Segments /\ k \in Places /\ k # Part
  BY <1>1, <1>4, CuttingNow, Bounds DEF Places, Segments, Part
<1>12. file'[Part].by # build
  BY <1>1, <1>2, <1>6, CuttingNow, SomeFiles
<1>13. /\ \A k \in 1..n : /\ file'[k].by = build /\ file'[k].from = (k - 1) * v
                          /\ k < n => file'[k].to = k * v
       /\ file'[n].to = native.length /\ native.length <= n * v
       /\ file'[n].from < native.length \/ (n = 1 /\ native.length = 0)
       /\ \A k \in (n + 1)..(MaxVolumes + 1) : file'[k].by # build
  <2>1. CASE Count = 0
    <3>1. n = 1 /\ file'[1] = Stretch(build, 0, 0) /\ native.length = 0
      BY <1>1, <1>2, <1>4, <1>6, <2>1 DEF HandleInv, Cutting
    <3>2. file'[1].by = build /\ file'[1].from = 0 /\ file'[1].to = 0 /\ (1 - 1) * v = 0
      BY <1>1, <3>1, CuttingNow DEF Stretch
    <3>3. ASSUME NEW k \in 2..(MaxVolumes + 1) PROVE file'[k].by # build
      <4>1. k \in Segments /\ k \in Places /\ k # Part /\ k # 1 /\ k > Count
        BY <1>1, <1>11, <2>1, CuttingNow
      <4> QED
        BY <1>1, <1>6, <4>1 DEF HandleInv, Cutting
    <3>4. 0 <= 1 * v
      BY <1>1, CuttingNow
    <3> QED
      BY <3>1, <3>2, <3>3, <3>4
  <2>2. CASE Count # 0
    <3>1. n = Count /\ Count > 0 /\ Count \in 1..MaxVolumes
      BY <1>4, <2>2, <1>1, CuttingNow
    <3>2. \A k \in 1..(MaxVolumes + 1) : file'[k] = file[k]
      BY <1>6, <1>11, <2>2
    <3>3. /\ \A k \in 1..Count : /\ file[k].by = build /\ file[k].from = (k - 1) * v
                                 /\ k < Count => file[k].to = k * v
          /\ file[Count].to = InThem /\ slicer.room = Count * v - InThem
          /\ InThem > (Count - 1) * v \/ (InThem = (Count - 1) * v /\ slicer.data > 0)
          /\ \A k \in Segments : k > Count => file[k].by # build
      BY <1>1, <3>1 DEF HandleInv, Cutting
    <3>4. InThem > (Count - 1) * v
      BY <1>1, <3>3
    <3>5. InThem <= Count * v
      <4>1. slicer.room \in Nat /\ InThem \in Int /\ Count * v \in Int
        BY <1>1, <3>1, CuttingNow
      <4> QED
        BY <3>3, <4>1
    <3>6. Count \in 1..Count /\ \A k \in 1..Count : k \in 1..(MaxVolumes + 1)
      BY <1>1, <3>1, CuttingNow
    <3>7. file[Count].from = (Count - 1) * v /\ (Count - 1) * v \in Int /\ InThem \in Int
      BY <1>1, <3>1, <3>3, <3>6, CuttingNow
    <3>8. \A k \in (Count + 1)..(MaxVolumes + 1) :
             k \in 1..(MaxVolumes + 1) /\ k \in Segments /\ k > Count
      BY <1>1, <3>1, CuttingNow DEF Segments
    <3> QED
      BY <1>4, <3>1, <3>2, <3>3, <3>4, <3>5, <3>6, <3>7, <3>8
  <2> QED
    BY <2>1, <2>2
<1>14. CommittedIsComplete'
  <2>1. native'.split # 0
    BY <1>1, <1>8, CuttingNow
  <2> QED
    BY <1>1, <1>8, <1>11, <1>12, <1>13, <2>1 DEF CommittedIsComplete, Volume
<1> QED
  BY <1>1, <1>8, <1>9, <1>10, <1>14 DEF HandleInv, PointerIsLive, Fresh, Cutting,
     FailedSliceLeavesNothing

---------------------------------------------------------------------------

LEMMA HandleStep == HandleInv /\ [Next]_vars => HandleInv'
<1> SUFFICES ASSUME HandleInv, [Next]_vars PROVE HandleInv'
  OBVIOUS
<1>1. CASE SliceError
  BY <1>1, SliceFailsStep DEF SliceError
<1> QED
  BY <1>1, CreateStep, OtherStep, RollbackStep, CommitStep, ReadStep, OpenSegmentStep,
     WriteSegmentStep, SliceDoneStep DEF Next

\* What is true of every reachable state of the handle, its files and the
\* slicer (archive.rs, ffi/create.rs, ArchiveBuilder.cs).
THEOREM HandleInvariant == Spec => []HandleInv
BY InitHandle, HandleStep, PTL DEF Spec

\* Every variable has its type, segment numbers beyond the limit included.
THEOREM HandleTypes == Spec => []TypeOK
<1>1. HandleInv => TypeOK
  BY DEF HandleInv
<1> QED
  BY HandleInvariant, <1>1, PTL

\* The managed pointer is set exactly while the native archive lives
\* (ffi/create.rs:250,264, ArchiveBuilder.cs:198-200).
THEOREM PointerTheorem == Spec => []PointerIsLive
<1>1. HandleInv => PointerIsLive
  BY DEF HandleInv
<1> QED
  BY HandleInvariant, <1>1, PTL

\* A cutting that fails leaves no segment and no temporary file of its
\* build, wherever it fails (archive.rs:1055-1078).
THEOREM NothingIsLeft == Spec => []FailedSliceLeavesNothing
<1>1. HandleInv => FailedSliceLeavesNothing
  BY DEF HandleInv
<1> QED
  BY HandleInvariant, <1>1, PTL

\* Put together, the segments of a committed archive are the archive, for
\* every length, volume size and buffer (archive.rs:1084-1140).
THEOREM CommitIsComplete == Spec => []CommittedIsComplete
<1>1. HandleInv => CommittedIsComplete
  BY DEF HandleInv
<1> QED
  BY HandleInvariant, <1>1, PTL

\* No call on a read handle changes a file (archive.rs:418-430).
THEOREM OpenedIsSpared == Spec => ReaderSparesFiles
<1>1. [Next]_vars => [native.st = "reader" => UNCHANGED file]_vars
  <2> SUFFICES ASSUME Next, native.st = "reader" PROVE UNCHANGED file
    OBVIOUS
  <2>1. CASE Rollback
    BY <2>1 DEF Rollback, RollbackFiles
  <2> QED
    BY <2>1 DEF Next, Create, CreateFails, Add, CommitWriter, ReadChunk, OpenSegment,
       WriteSegment, SliceError, SliceDone, CommitReader, Open, Close, Finished, vars
<1> QED
  BY <1>1, PTL DEF Spec, ReaderSparesFiles

-----------------------------------------------------------------------------
(* The volumes                                                             *)

O(files) == Reader!Origins(files)

\* A set of numbers has a smallest member.
LEMMA Smallest ==
  ASSUME NEW T, T \subseteq Nat, T # {}
  PROVE  \E n \in T : \A m \in T : n <= m
<1>1. PICK n \in T : \A m \in T : ~(<<m, n>> \in OpToRel(<, Nat))
  BY NatLessThanWellFounded, WFMin
<1>2. \A m \in T : ~(m < n)
  BY <1>1 DEF OpToRel
<1>3. n \in Int /\ \A m \in T : m \in Int
  OBVIOUS
<1> QED
  BY <1>2, <1>3

\* The sums of the lengths exist, up to any volume.
LEMMA SumsExist ==
  ASSUME NEW files, NEW n \in Nat
  PROVE  \E f : f = [i \in 0..n |-> IF i = 0 THEN 0 ELSE f[i - 1] + Len(files[i])]
<1> DEFINE Sums(f, m) == f = [i \in 0..m |-> IF i = 0 THEN 0 ELSE f[i - 1] + Len(files[i])]
           T == {m \in Nat : ~\E f : Sums(f, m)}
<1> SUFFICES T = {}
  OBVIOUS
<1> SUFFICES ASSUME T # {} PROVE FALSE
  OBVIOUS
<1>1. PICK m \in T : \A k \in T : m <= k
  BY Smallest
<1>2. m # 0
  <2> DEFINE f == [i \in 0..0 |-> 0]
  <2>1. Sums(f, 0)
    OBVIOUS
  <2> QED
    BY <1>1, <2>1
<1>3. m - 1 \in Nat /\ m - 1 \notin T
  <2> HIDE DEF T
  <2>1. T \subseteq Nat
    BY DEF T
  <2>2. m \in Nat /\ m - 1 \in Nat
    BY <1>1, <1>2, <2>1
  <2>3. ~(m <= m - 1)
    BY <2>2
  <2> QED
    BY <1>1, <2>2, <2>3
<1>4. PICK g : Sums(g, m - 1)
  BY <1>3
<1> DEFINE f == [i \in 0..m |-> IF i = m THEN g[m - 1] + Len(files[m]) ELSE g[i]]
<1>5. \A i \in 0..m : f[i] = IF i = 0 THEN 0 ELSE f[i - 1] + Len(files[i])
  <2> TAKE i \in 0..m
  <2>1. CASE i = m
    BY <1>2, <1>3, <2>1
  <2>2. CASE i # m
    <3>1. i \in 0..(m - 1)
      BY <1>3, <2>2
    <3>2. g[i] = IF i = 0 THEN 0 ELSE g[i - 1] + Len(files[i])
      BY <1>4, <3>1
    <3>3. i # 0 => i - 1 \in 0..m /\ i - 1 # m
      BY <3>1, <1>3
    <3> QED
      BY <2>2, <3>2, <3>3
  <2> QED
    BY <2>1, <2>2
<1>6. Sums(f, m)
  BY <1>5
<1> QED
  BY <1>1, <1>6

\* Where the volumes begin.
LEMMA OriginsAre ==
  ASSUME NEW files \in Seq(Seq(Nat))
  PROVE  /\ DOMAIN O(files) = 0..Len(files) /\ O(files)[0] = 0
         /\ \A i \in 1..Len(files) : O(files)[i] = O(files)[i - 1] + Len(files[i])
         /\ \A i \in 0..Len(files) : O(files)[i] \in Nat
<1> DEFINE n == Len(files)
           Sums(f) == f = [i \in 0..n |-> IF i = 0 THEN 0 ELSE f[i - 1] + Len(files[i])]
           f == O(files)
<1>0. n \in Nat
  OBVIOUS
<1>1. \E g : Sums(g)
  BY <1>0, SumsExist
<1>2. f = CHOOSE g : Sums(g)
  BY DEF O, Reader!Origins
<1>3. Sums(f)
  BY <1>1, <1>2
<1> HIDE DEF f
<1>4. /\ DOMAIN f = 0..n
      /\ \A i \in 0..n : f[i] = IF i = 0 THEN 0 ELSE f[i - 1] + Len(files[i])
  BY <1>3
<1>5. f[0] = 0 /\ \A i \in 1..n : f[i] = f[i - 1] + Len(files[i])
  BY <1>0, <1>4
<1> DEFINE T == {i \in 0..n : f[i] \notin Nat}
<1>6. T = {}
  <2> SUFFICES ASSUME T # {} PROVE FALSE
    OBVIOUS
  <2>0. T \subseteq Nat
    OBVIOUS
  <2>1. PICK m \in T : \A k \in T : m <= k
    BY <2>0, Smallest
  <2>2. m # 0 /\ m \in 1..n
    BY <1>5, <2>1
  <2>3. f[m - 1] \in Nat
    BY <2>1, <2>2
  <2>4. Len(files[m]) \in Nat
    BY <2>2
  <2> QED
    BY <1>5, <2>1, <2>2, <2>3, <2>4
<1> QED
  BY <1>4, <1>5, <1>6 DEF f

\* Volumes begin in their order.
LEMMA OriginsClimb ==
  ASSUME NEW files \in Seq(Seq(Nat)), NEW i \in 0..Len(files), NEW j \in i..Len(files)
  PROVE  O(files)[i] <= O(files)[j]
<1> DEFINE f == O(files)
           T == {k \in i..Len(files) : ~(f[i] <= f[k])}
<1>0. Len(files) \in Nat /\ i \in Nat /\ T \subseteq Nat
  OBVIOUS
<1>1. /\ \A k \in 1..Len(files) : f[k] = f[k - 1] + Len(files[k]) /\ Len(files[k]) \in Nat
      /\ \A k \in 0..Len(files) : f[k] \in Nat
  BY OriginsAre
<1> HIDE DEF f
<1>2. T = {}
  <2> SUFFICES ASSUME T # {} PROVE FALSE
    OBVIOUS
  <2>1. PICK m \in T : \A k \in T : m <= k
    BY <1>0, Smallest
  <2>2. m \in i..Len(files) /\ ~(f[i] <= f[m])
    BY <2>1
  <2>3. m # i
    BY <1>1, <2>2
  <2>4. m - 1 \in i..Len(files) /\ m - 1 \notin T /\ m \in 1..Len(files)
    <3>1. m - 1 \in i..Len(files) /\ m \in 1..Len(files) /\ ~(m <= m - 1)
      BY <1>0, <2>2, <2>3
    <3> QED
      BY <2>1, <3>1
  <2>5. f[i] <= f[m - 1]
    BY <2>4
  <2>6. f[m] = f[m - 1] + Len(files[m]) /\ Len(files[m]) \in Nat
    BY <1>1, <2>4
  <2>7. f[i] \in Nat /\ f[m - 1] \in Nat
    BY <1>0, <1>1, <2>4
  <2> QED
    BY <2>2, <2>5, <2>6, <2>7
<1> QED
  BY <1>2 DEF f

\* Each position lies in one volume.
LEMMA LiesInOne ==
  ASSUME NEW files \in Seq(Seq(Nat)), NEW p \in 1..O(files)[Len(files)]
  PROVE  /\ \E i \in 1..Len(files) : O(files)[i - 1] < p /\ p <= O(files)[i]
         /\ \A i, j \in 1..Len(files) :
              /\ O(files)[i - 1] < p /\ p <= O(files)[i]
              /\ O(files)[j - 1] < p /\ p <= O(files)[j]
              => i = j
<1> DEFINE f == O(files)
           n == Len(files)
           T == {k \in 0..n : p <= f[k]}
<1>1. n \in Nat /\ f[0] = 0 /\ \A k \in 0..n : f[k] \in Nat
  BY OriginsAre
<1>2. \A i \in 0..n : \A j \in i..n : f[i] <= f[j]
  BY OriginsClimb
<1> HIDE DEF f
<1>3. p \in Nat /\ p >= 1
  BY <1>1 DEF f
<1>4. \E i \in 1..n : f[i - 1] < p /\ p <= f[i]
  <2>1. n \in T /\ T \subseteq Nat
    BY <1>1 DEF f
  <2>2. PICK m \in T : \A k \in T : m <= k
    BY <2>1, Smallest
  <2>3. m \in 1..n /\ p <= f[m]
    BY <1>1, <1>3, <2>2
  <2>4. m - 1 \in 0..n /\ ~(m <= m - 1)
    BY <1>1, <2>3
  <2>5. ~(p <= f[m - 1])
    BY <2>2, <2>4
  <2>6. f[m - 1] \in Nat
    BY <1>1, <2>4
  <2>7. f[m - 1] < p
    BY <1>3, <2>5, <2>6
  <2> QED
    BY <2>3, <2>7
<1>5. ASSUME NEW i \in 1..n, NEW j \in 1..n, f[i - 1] < p, p <= f[i], f[j - 1] < p, p <= f[j]
      PROVE  ~(i < j)
  <2> SUFFICES ASSUME i < j PROVE FALSE
    OBVIOUS
  <2>1. i \in 0..n /\ j - 1 \in i..n /\ j - 1 \in 0..n
    BY <1>1
  <2>2. f[i] <= f[j - 1]
    BY <1>2, <2>1
  <2>3. f[i] \in Nat /\ f[j - 1] \in Nat
    BY <1>1, <2>1
  <2>4. f[j - 1] < p /\ p <= f[i]
    BY <1>5
  <2> QED
    BY <1>3, <2>2, <2>3, <2>4
<1>6. \A i, j \in 1..n : f[i - 1] < p /\ p <= f[i] /\ f[j - 1] < p /\ p <= f[j] => i = j
  <2> TAKE i, j \in 1..n
  <2> HAVE f[i - 1] < p /\ p <= f[i] /\ f[j - 1] < p /\ p <= f[j]
  <2>1. ~(i < j) /\ ~(j < i)
    BY <1>5
  <2> QED
    BY <1>1, <2>1
<1> QED
  BY <1>4, <1>6 DEF f

-----------------------------------------------------------------------------

\* The stream of some files with a patched tail; Stream is that of vols.
Joined(files, from) ==
  [p \in 1..O(files)[Len(files)] |->
     LET i == CHOOSE j \in 1..Len(files) : O(files)[j - 1] < p /\ p <= O(files)[j]
     IN  files[i][p - O(files)[i - 1]] + (IF p > from THEN Patched ELSE 0)]

\* Stream is the volumes joined, before a step and after it.
LEMMA StreamIsJoined == Reader!Stream = Joined(vols, patch) /\ Reader!Stream' = Joined(vols', patch')
BY DEF Reader!Stream, Joined, O, Reader!Total, Reader!Origin

\* What the stream of some files is: as long as they are together, and byte q
\* of file i stands q behind the origin of i.
LEMMA StreamIs ==
  ASSUME NEW files \in Seq(Seq(Nat)), NEW from \in Nat
  PROVE  /\ Joined(files, from) \in Seq(Nat)
         /\ Len(Joined(files, from)) = O(files)[Len(files)]
         /\ \A i \in 1..Len(files) : \A q \in 1..Len(files[i]) :
              /\ O(files)[i - 1] + q \in 1..O(files)[Len(files)]
              /\ Joined(files, from)[O(files)[i - 1] + q] =
                   files[i][q] + (IF O(files)[i - 1] + q > from THEN Patched ELSE 0)
<1> DEFINE f == O(files)
           n == Len(files)
           s == Joined(files, from)
           In(i, p) == f[i - 1] < p /\ p <= f[i]
           Place(p) == CHOOSE i \in 1..n : In(i, p)
<1>1. /\ n \in Nat /\ f[0] = 0 /\ \A k \in 0..n : f[k] \in Nat
      /\ \A k \in 1..n : f[k] = f[k - 1] + Len(files[k]) /\ files[k] \in Seq(Nat)
  BY OriginsAre
<1>2. \A i \in 0..n : \A j \in i..n : f[i] <= f[j]
  BY OriginsClimb
<1>3. \A p \in 1..f[n] : /\ \E i \in 1..n : In(i, p)
                         /\ \A i, j \in 1..n : In(i, p) /\ In(j, p) => i = j
  BY LiesInOne
<1>4. s = [p \in 1..f[n] |-> files[Place(p)][p - f[Place(p) - 1]]
                                + (IF p > from THEN Patched ELSE 0)]
  BY DEF Joined
<1>5. \A p \in 1..f[n] : Place(p) \in 1..n /\ In(Place(p), p)
  BY <1>3
<1>6. \A p \in 1..f[n] : \A i \in 1..n : In(i, p) => Place(p) = i
  BY <1>3, <1>5
<1>7. \A i \in 1..n, p \in 1..f[n] :
        In(i, p) => p - f[i - 1] \in 1..Len(files[i]) /\ files[i][p - f[i - 1]] \in Nat
  <2> TAKE i \in 1..n, p \in 1..f[n]
  <2> HAVE In(i, p)
  <2>1. f[i - 1] \in Nat /\ f[i] = f[i - 1] + Len(files[i]) /\ files[i] \in Seq(Nat) /\ p \in Nat
    BY <1>1
  <2>2. p - f[i - 1] \in 1..Len(files[i])
    BY <2>1
  <2> QED
    BY <2>1, <2>2
<1> HIDE DEF Place, f, s
<1>8. \A p \in 1..f[n] : s[p] \in Nat
  <2> TAKE p \in 1..f[n]
  <2>1. files[Place(p)][p - f[Place(p) - 1]] \in Nat
    BY <1>5, <1>7
  <2>2. s[p] = files[Place(p)][p - f[Place(p) - 1]] + (IF p > from THEN Patched ELSE 0)
    BY <1>4
  <2>3. (IF p > from THEN Patched ELSE 0) \in Nat
    BY ReaderAssumption
  <2> QED
    BY <2>1, <2>2, <2>3
<1>9. f[n] \in Nat
  BY <1>1
<1>10. s \in Seq(Nat) /\ Len(s) = f[n]
  <2>1. DOMAIN s = 1..f[n] /\ s \in [1..f[n] -> Nat]
    BY <1>4, <1>8
  <2> QED
    BY <1>9, <2>1
<1>11. ASSUME NEW i \in 1..n, NEW q \in 1..Len(files[i])
       PROVE  /\ f[i - 1] + q \in 1..f[n]
              /\ s[f[i - 1] + q] = files[i][q] + (IF f[i - 1] + q > from THEN Patched ELSE 0)
  <2> DEFINE p == f[i - 1] + q
  <2>1. f[i - 1] \in Nat /\ f[i] = f[i - 1] + Len(files[i]) /\ files[i] \in Seq(Nat)
        /\ f[i] <= f[n] /\ q \in Nat
    BY <1>1, <1>2
  <2>2. p \in 1..f[n] /\ In(i, p) /\ p - f[i - 1] = q
    BY <1>9, <2>1
  <2>3. Place(p) = i
    BY <1>6, <2>2
  <2> QED
    BY <1>4, <2>2, <2>3
<1> QED
  BY <1>10, <1>11 DEF f, s

-----------------------------------------------------------------------------
(* The reader of the volumes reads as one file.                            *)

\* The files stand where the reader believes, and no volume is empty: at an
\* empty one the search of `locate` may stop and the read gives nothing.
ReaderInv ==
  /\ vols \in Seq(Seq(Nat)) /\ \A i \in DOMAIN vols : vols[i] # <<>>
  /\ patch \in Nat /\ pos \in 0..Reader!Total
  /\ cursor = kernel

\* The length of the stream, before a step and after it.
LEMMA TotalIs == Reader!Total = O(vols)[Len(vols)] /\ Reader!Total' = O(vols')[Len(vols')]
BY DEF Reader!Total, Reader!Origin, O

\* A distance within a volume, from the beginning of the stream.
LEMMA Further == \A a, b, c \in Nat : a + (b + c) = (a + b) + c
OBVIOUS

\* What is read from one volume is what the stream has there.
LEMMA RawReads ==
  ASSUME ReaderInv, NEW want \in Nat, Reader!ReadRaw(want)
  PROVE  /\ ReaderInv' /\ pos' \in Nat /\ pos < pos' /\ pos' <= Reader!Total /\ pos' - pos <= want
         /\ got' = Reader!Given(want, SubSeq(Reader!Stream, pos + 1, pos'))
<1> DEFINE f == O(vols)
           most == Reader!Fewer(patch - pos, want)
           s == Joined(vols, patch)
<1>1. /\ vols \in Seq(Seq(Nat)) /\ patch \in Nat /\ pos \in Nat /\ cursor = kernel
      /\ vols' = vols /\ patch' = patch /\ want > 0 /\ pos < f[Len(vols)] /\ pos < patch
      /\ Len(vols) \in Nat
  <2>1. pos \in 0..f[Len(vols)]
    BY TotalIs DEF ReaderInv
  <2> QED
    BY <2>1, TotalIs DEF ReaderInv, Reader!ReadRaw
<1>2. most \in Nat /\ 0 < most /\ most <= want /\ pos + most <= patch
  BY <1>1 DEF Reader!Fewer
<1>3. /\ f[0] = 0 /\ \A k \in 0..Len(vols) : f[k] \in Nat
      /\ \A k \in 1..Len(vols) : f[k] = f[k - 1] + Len(vols[k]) /\ vols[k] \in Seq(Nat)
      /\ \A k \in 1..Len(vols) : Len(vols[k]) \in Nat /\ Len(vols[k]) > 0
  <2>1. \A k \in 1..Len(vols) : vols[k] \in Seq(Nat) /\ vols[k] # <<>>
    BY <1>1 DEF ReaderInv
  <2>2. \A k \in 1..Len(vols) : Len(vols[k]) \in Nat /\ Len(vols[k]) > 0
    BY <2>1
  <2> QED
    BY <1>1, <2>1, <2>2, OriginsAre
<1>4. /\ s \in Seq(Nat) /\ Len(s) = f[Len(vols)] /\ f[Len(vols)] \in Nat
      /\ \A i \in 1..Len(vols) : \A q \in 1..Len(vols[i]) :
           /\ f[i - 1] + q \in 1..f[Len(vols)]
           /\ s[f[i - 1] + q] = vols[i][q] + (IF f[i - 1] + q > patch THEN Patched ELSE 0)
  <2>1. f[Len(vols)] \in Nat
    BY <1>1, <1>3
  <2>2. s \in Seq(Nat) /\ Len(s) = f[Len(vols)]
    BY <1>1, StreamIs
  <2> QED
    BY <1>1, <2>1, <2>2, StreamIs
<1>5. Reader!RawRead(pos, most, want)
  BY DEF Reader!ReadRaw
<1> HIDE DEF f, s, most
<1>6. PICK place \in Reader!Locate(pos) :
        LET i == place[1]
            off == place[2]
            start == IF cursor[i] = off THEN kernel[i] ELSE off
            cap == Reader!Fewer(Len(vols[i]) - off, most)
        IN  \E n \in (IF cap = 0 THEN 0 ELSE 1)..cap :
              /\ got' = Reader!Given(want, SubSeq(vols[i], start + 1, start + n))
              /\ kernel' = [kernel EXCEPT ![i] = start + n]
              /\ cursor' = [cursor EXCEPT ![i] = off + n]
              /\ vpos' = pos + n
              /\ pos' = pos + n
  BY <1>5 DEF Reader!RawRead
<1> DEFINE i == place[1]
           off == place[2]
           cap == Reader!Fewer(Len(vols[i]) - off, most)
<1>7. i \in 1..Len(vols) /\ off = pos - f[i - 1] /\ f[i - 1] <= pos /\ pos < f[i]
  <2>1. \/ \E k \in 1..Len(vols) : f[k - 1] = pos /\ place = <<k, 0>>
        \/ \E k \in 1..Len(vols) : f[k - 1] < pos /\ pos < f[k] /\ place = <<k, pos - f[k - 1]>>
    BY DEF Reader!Locate, Reader!Origin, O, f
  <2>2. ASSUME NEW k \in 1..Len(vols), f[k - 1] = pos, place = <<k, 0>>
        PROVE  i \in 1..Len(vols) /\ off = pos - f[i - 1] /\ f[i - 1] <= pos /\ pos < f[i]
    <3>1. f[k] = pos + Len(vols[k]) /\ Len(vols[k]) \in Nat /\ Len(vols[k]) > 0
      BY <1>3, <2>2
    <3>2. pos < f[k] /\ pos - f[k - 1] = 0 /\ f[k - 1] <= pos
      BY <1>1, <2>2, <3>1
    <3> QED
      BY <2>2, <3>2
  <2>3. ASSUME NEW k \in 1..Len(vols), f[k - 1] < pos, pos < f[k], place = <<k, pos - f[k - 1]>>
        PROVE  i \in 1..Len(vols) /\ off = pos - f[i - 1] /\ f[i - 1] <= pos /\ pos < f[i]
    <3>1. f[k - 1] \in Nat
      BY <1>1, <1>3
    <3>2. f[k - 1] <= pos
      BY <1>1, <2>3, <3>1
    <3> QED
      BY <2>3, <3>2
  <2> QED
    BY <2>1, <2>2, <2>3
<1> HIDE DEF i, off
<1>8. /\ off \in Nat /\ f[i - 1] \in Nat /\ vols[i] \in Seq(Nat) /\ f[i] = f[i - 1] + Len(vols[i])
      /\ Len(vols[i]) \in Nat /\ f[i - 1] + off = pos /\ off < Len(vols[i])
  <2>1. i - 1 \in 0..Len(vols) /\ i \in 1..Len(vols)
    BY <1>1, <1>7
  <2>2. f[i - 1] \in Nat /\ vols[i] \in Seq(Nat) /\ f[i] = f[i - 1] + Len(vols[i])
        /\ Len(vols[i]) \in Nat
    BY <1>3, <2>1
  <2> QED
    BY <1>1, <1>7, <2>2
<1>9. cap \in Nat /\ cap > 0 /\ cap <= most /\ off + cap <= Len(vols[i])
  BY <1>2, <1>8 DEF Reader!Fewer
<1> HIDE DEF cap
<1>10. PICK n \in 1..cap : /\ got' = Reader!Given(want, SubSeq(vols[i], off + 1, off + n))
                           /\ kernel' = [kernel EXCEPT ![i] = off + n]
                           /\ cursor' = [cursor EXCEPT ![i] = off + n]
                           /\ pos' = pos + n
  <2>1. (IF cursor[i] = off THEN kernel[i] ELSE off) = off
    BY <1>1
  <2>2. cap # 0
    BY <1>9
  <2> QED
    BY <1>6, <2>1, <2>2 DEF i, off, cap
<1>11. n \in Nat /\ 0 < n /\ n <= most /\ off + n <= Len(vols[i])
  <2>1. n \in Nat /\ 0 < n /\ n <= cap
    BY <1>9, <1>10
  <2> QED
    BY <1>2, <1>8, <1>9, <2>1
<1>12. pos + n <= f[Len(vols)] /\ pos + n <= patch
  <2>1. off + n \in 1..Len(vols[i])
    BY <1>8, <1>11
  <2>2. f[i - 1] + (off + n) \in 1..f[Len(vols)]
    BY <1>4, <1>7, <2>1
  <2>3. f[i - 1] + (off + n) = pos + n
    <3>1. f[i - 1] + (off + n) = (f[i - 1] + off) + n
      BY <1>8, <1>11, Further
    <3> QED
      BY <1>8, <3>1
  <2>4. pos + n <= f[Len(vols)]
    BY <1>4, <2>2, <2>3
  <2>5. pos + n <= patch
    BY <1>1, <1>2, <1>11
  <2> QED
    BY <2>4, <2>5
<1>13. SubSeq(vols[i], off + 1, off + n) = SubSeq(s, pos + 1, pos + n)
  <2> DEFINE a == SubSeq(vols[i], off + 1, off + n)
             b == SubSeq(s, pos + 1, pos + n)
  <2>1. a = [q \in 1..n |-> vols[i][off + q]]
    BY <1>8, <1>11
  <2>2. b = [q \in 1..n |-> s[pos + q]]
    BY <1>1, <1>4, <1>11, <1>12
  <2>3. ASSUME NEW q \in 1..n PROVE vols[i][off + q] = s[pos + q]
    <3>1. off + q \in 1..Len(vols[i]) /\ f[i - 1] + (off + q) = pos + q /\ ~(pos + q > patch)
      <4>1. q \in Nat /\ 1 <= q /\ q <= n
        BY <1>11
      <4>2. off + q \in 1..Len(vols[i]) /\ pos + q <= patch
        BY <1>1, <1>8, <1>11, <1>12, <4>1
      <4>3. f[i - 1] + (off + q) = pos + q
        <5>1. f[i - 1] + (off + q) = (f[i - 1] + off) + q
          BY <1>8, <4>1, Further
        <5> QED
          BY <1>8, <5>1
      <4> QED
        BY <1>1, <4>1, <4>2, <4>3
    <3>2. s[pos + q] = vols[i][off + q] + 0
      BY <1>4, <1>7, <3>1
    <3>3. vols[i][off + q] \in Nat
      BY <1>8, <3>1
    <3> QED
      BY <3>2, <3>3
  <2> HIDE DEF a, b
  <2>4. a = b
    BY <2>1, <2>2, <2>3
  <2> QED
    BY <2>4 DEF a, b
<1>14. Reader!Total' = Reader!Total /\ Reader!Total = f[Len(vols)]
  BY <1>1, TotalIs DEF f
<1>15. pos' \in Nat /\ pos < pos' /\ pos' <= Reader!Total /\ pos' - pos <= want
  BY <1>1, <1>2, <1>4, <1>10, <1>11, <1>12, <1>14
<1>16. ReaderInv'
  BY <1>1, <1>4, <1>10, <1>14, <1>15 DEF ReaderInv
<1>17. got' = Reader!Given(want, SubSeq(Reader!Stream, pos + 1, pos'))
  BY <1>10, <1>13, StreamIsJoined DEF s
<1> QED
  BY <1>15, <1>16, <1>17

\* Each call is a read or a seek of the one file.
LEMMA ReaderStep ==
  ASSUME ReaderInv, Reader!ReadOrSeek
  PROVE  ReaderInv' /\ (Reader!File!Read \/ Reader!File!Seek)
<1>1. /\ vols \in Seq(Seq(Nat)) /\ patch \in Nat /\ pos \in 0..Reader!Total
      /\ Reader!Total \in Nat /\ Len(Reader!Stream) = Reader!Total /\ Reader!Stream \in Seq(Nat)
  <2>1. vols \in Seq(Seq(Nat)) /\ patch \in Nat /\ pos \in 0..Reader!Total
    BY DEF ReaderInv
  <2> QED
    BY <2>1, OriginsAre, StreamIs, TotalIs, StreamIsJoined
<1>2. vols' = vols /\ patch' = patch
  BY DEF Reader!ReadOrSeek, Reader!ReadNothing, Reader!ReadRaw, Reader!ReadPatched, Reader!SeekTo
<1>3. Reader!Stream' = Reader!Stream /\ Reader!Total' = Reader!Total
  BY <1>2, StreamIsJoined, TotalIs
<1>4. ASSUME NEW want \in Wants, pos' \in pos..Reader!Total, pos' - pos <= want,
             pos' = pos => want = 0 \/ pos = Reader!Total,
             got' = Reader!Given(want, SubSeq(Reader!Stream, pos + 1, pos')),
             cursor' = kernel'
      PROVE  ReaderInv' /\ Reader!File!Read
  <2>1. ReaderInv'
    <3>1. pos' \in 0..Reader!Total'
      BY <1>1, <1>3, <1>4
    <3> QED
      BY <1>2, <1>4, <3>1 DEF ReaderInv
  <2>2. Reader!File!Read
    BY <1>1, <1>3, <1>4 DEF Reader!File!Read, Reader!File!Given, Reader!Given
  <2> QED
    BY <2>1, <2>2
<1>5. ASSUME NEW want \in Wants, Reader!ReadNothing(want)
      PROVE  ReaderInv' /\ Reader!File!Read
  <2>1. pos' = pos /\ cursor' = kernel' /\ got' = Reader!Given(want, <<>>)
        /\ (want = 0 \/ pos >= Reader!Total)
    BY <1>5 DEF Reader!ReadNothing, ReaderInv
  <2>2. SubSeq(Reader!Stream, pos + 1, pos) = <<>>
    BY <1>1
  <2>3. want \in Nat
    BY ReaderAssumption
  <2>4. pos' \in pos..Reader!Total /\ pos' - pos <= want /\ (want = 0 \/ pos = Reader!Total)
    BY <1>1, <2>1, <2>3
  <2> QED
    BY <1>4, <2>1, <2>2, <2>4
<1>6. ASSUME NEW want \in Wants, Reader!ReadRaw(want)
      PROVE  ReaderInv' /\ Reader!File!Read
  <2>1. want \in Nat
    BY ReaderAssumption
  <2>2. /\ ReaderInv' /\ pos' \in Nat /\ pos < pos' /\ pos' <= Reader!Total /\ pos' - pos <= want
        /\ got' = Reader!Given(want, SubSeq(Reader!Stream, pos + 1, pos'))
    BY <1>6, <2>1, RawReads
  <2>3. pos' \in pos..Reader!Total /\ pos' # pos
    BY <1>1, <2>2
  <2> QED
    BY <1>4, <2>2, <2>3 DEF ReaderInv
<1>7. ASSUME NEW want \in Wants, Reader!ReadPatched(want)
      PROVE  ReaderInv' /\ Reader!File!Read
  <2> DEFINE n == Reader!Fewer(Reader!Total - pos, want)
  <2>1. want > 0 /\ pos < Reader!Total /\ pos' = pos + n /\ cursor' = kernel'
        /\ got' = Reader!Given(want, SubSeq(Reader!Stream, pos + 1, pos + n))
    BY <1>7 DEF Reader!ReadPatched, ReaderInv
  <2>2. want \in Nat
    BY ReaderAssumption
  <2>3. n \in Nat /\ n > 0 /\ n <= want /\ pos + n <= Reader!Total
    BY <1>1, <2>1, <2>2 DEF Reader!Fewer
  <2> HIDE DEF n
  <2>4. pos' \in pos..Reader!Total /\ pos' - pos <= want /\ pos' # pos
    BY <1>1, <2>1, <2>2, <2>3
  <2> QED
    BY <1>4, <2>1, <2>4
<1>8. ASSUME NEW target \in -1..(Reader!Total + 1), Reader!SeekTo(target)
      PROVE  ReaderInv' /\ Reader!File!Seek
  <2>1. pos' = (IF target < 0 THEN pos ELSE Reader!Fewer(target, Reader!Total))
        /\ got' = Reader!Nothing /\ cursor' = kernel'
    BY <1>8 DEF Reader!SeekTo, ReaderInv
  <2>2. pos' \in 0..Reader!Total
    BY <1>1, <2>1 DEF Reader!Fewer
  <2>3. ReaderInv'
    BY <1>2, <1>3, <2>1, <2>2 DEF ReaderInv
  <2>4. Reader!File!Seek
    BY <1>1, <1>3, <2>1, <2>2 DEF Reader!File!Seek, Reader!File!Nothing, Reader!File!Given,
       Reader!Nothing, Reader!Given
  <2> QED
    BY <2>3, <2>4
<1> QED
  BY <1>5, <1>6, <1>7, <1>8 DEF Reader!ReadOrSeek

-----------------------------------------------------------------------------
(* What the commits leave, and the reader, together.                       *)

\* A place is empty or holds a stretch of some build.
Marked == \A p \in Places : file[p] = Absent \/ file[p].by >= 0

\* No segment is empty but the one that is being written: there is something
\* to cut, since a real archive always carries headers (archive.rs:1131-1133).
Filled ==
  /\ \A k \in Segments : \/ file[k] = Absent \/ file[k].from < file[k].to
                         \/ native.st = "slicing" /\ k = Count
  /\ native.st = "slicing" => native.length > 0

SegmentInv == HandleInv /\ Marked /\ Filled

\* The files of an older archive are no empty segments either.
LEMMA InitSegments == Init => SegmentInv
<1> SUFFICES ASSUME Init PROVE Marked /\ Filled
  BY InitHandle DEF SegmentInv
<1>1. PICK old \in OldVolumes, whole \in BOOLEAN :
        file = [p \in Places |->
                 IF p \in 1..old THEN Stretch(0, p - 1, p)
                 ELSE IF p = Whole /\ whole THEN Stretch(0, 0, 1) ELSE Absent]
  BY DEF Init
<1>2. native.st = "none"
  BY DEF Init, Unheld
<1>3. \A p \in Places : \/ p \in 1..old /\ file[p] = Stretch(0, p - 1, p)
                        \/ p = Whole /\ file[p] = Stretch(0, 0, 1)
                        \/ file[p] = Absent
  BY <1>1
<1>4. \A p \in 1..old : p - 1 < p
  BY Bounds
<1>5. \A p \in Segments : p \in Places /\ p # Whole
  BY Bounds DEF Segments, Places, Whole
<1>6. \A m, n : Stretch(0, m, n).by = 0 /\ Stretch(0, m, n).from = m /\ Stretch(0, m, n).to = n
  BY DEF Stretch
<1>7. Marked
  <2> SUFFICES ASSUME NEW p \in Places PROVE file[p] = Absent \/ file[p].by = 0
    BY DEF Marked
  <2> QED
    BY <1>3, <1>6
<1>8. Filled
  <2> SUFFICES ASSUME NEW k \in Segments PROVE file[k] = Absent \/ file[k].from < file[k].to
    BY <1>2 DEF Filled
  <2> QED
    BY <1>3, <1>4, <1>5, <1>6
<1> QED
  BY <1>7, <1>8

\* The steps that leave the segments alone, or make some of them absent.
LEMMA SegmentsLeft ==
  ASSUME SegmentInv,
         \A k \in Segments : file'[k] = file[k] \/ file'[k] = Absent,
         \A p \in Places : file'[p] = file[p] \/ file'[p] = Absent \/ file'[p].by >= 0,
         \/ /\ native'.st # "slicing"
            /\ native.st = "slicing" /\ Count \in Segments => file'[Count] = Absent
         \/ /\ native.st = native'.st /\ native'.length = native.length
            /\ slicer'.index = slicer.index
         \/ native.st # "slicing" /\ native'.length > 0
  PROVE  Marked' /\ Filled'
<1>1. Marked /\ Filled
  BY DEF SegmentInv
<1>2. Marked'
  BY <1>1 DEF Marked
<1>3. \A k \in Segments : \/ file'[k] = Absent \/ file'[k].from < file'[k].to
                          \/ native'.st = "slicing" /\ k = slicer'.index - 1
  BY <1>1 DEF Filled, Count
<1>4. native'.st = "slicing" => native'.length > 0
  BY <1>1 DEF Filled
<1> QED
  BY <1>2, <1>3, <1>4 DEF Filled, Count

\* No step leaves an empty segment behind.
LEMMA SegmentStep ==
  ASSUME 0 \notin Lengths, SegmentInv, [Next]_vars
  PROVE  SegmentInv'
<1> SUFFICES Marked' /\ Filled'
  BY HandleStep DEF SegmentInv
<1>0. /\ file \in [Places -> File] /\ native \in Native /\ slicer \in Slicer /\ build \in Nat
      /\ Cutting /\ Marked /\ Filled /\ HandleInv
      /\ \A k \in Segments : k \in Places /\ k # Whole /\ k # Part
      /\ Part \in Places /\ Whole \in Places
  <2>1. \A k \in Segments : k \in Places /\ k # Whole /\ k # Part
    BY Bounds DEF Segments, Places, Whole, Part
  <2> QED
    BY <2>1, Numbers DEF SegmentInv, HandleInv, TypeOK, Places
<1>1. \A b, m, n : Stretch(b, m, n).by = b /\ Stretch(b, m, n).from = m /\ Stretch(b, m, n).to = n
  BY DEF Stretch
<1>2. CASE UNCHANGED vars
  BY <1>2, SegmentsLeft DEF vars
<1>3. ASSUME NEW fmt \in Formats, NEW password \in BOOLEAN, NEW method \in Methods,
             NEW v \in VolumeSizes, Create(fmt, password, method, v)
      PROVE  Marked' /\ Filled'
  <2>1. /\ build' = build + 1 /\ native.st # "slicing"
        /\ native' = native \/ native'.st = "writer"
        /\ \/ file' = file
           \/ \E p \in {Part, Whole} : file' = [file EXCEPT ![p] = Stretch(build', 0, 0)]
    BY <1>3 DEF Create, WritePath
  <2>2. native'.st # "slicing"
    BY <2>1
  <2>3. build' >= 0
    BY <1>0, <2>1
  <2>4. /\ \A k \in Segments : file'[k] = file[k]
        /\ \A p \in Places : file'[p] = file[p] \/ file'[p].by >= 0
    BY <1>0, <1>1, <2>1, <2>3
  <2> QED
    BY <2>1, <2>2, <2>4, SegmentsLeft
<1>4. ASSUME NEW ok \in BOOLEAN, NEW length \in Lengths, CommitWriter(ok, length)
      PROVE  Marked' /\ Filled'
  <2>1. /\ native.st = "writer"
        /\ \/ file' = file
           \/ \E p \in {Part, Whole} : \/ file' = [file EXCEPT ![p] = Absent]
                                       \/ file' = [file EXCEPT ![p] = Stretch(build, 0, length)]
        /\ native'.st = "freed" \/ native'.length = length
    <3>1. [native EXCEPT !.st = "freed"].st = "freed"
          /\ [native EXCEPT !.st = "slicing", !.length = length].length = length
          /\ [[native EXCEPT !.st = "freed"] EXCEPT !.length = length].length = length
      BY <1>0 DEF Native
    <3> QED
      BY <1>4, <3>1 DEF CommitWriter, Return, Freed, WritePath
  <2>2. length > 0
    BY Bounds
  <2>3. build >= 0
    BY <1>0
  <2>4. /\ \A k \in Segments : file'[k] = file[k]
        /\ \A p \in Places : file'[p] = file[p] \/ file'[p] = Absent \/ file'[p].by >= 0
    BY <1>0, <1>1, <2>1, <2>3
  <2>5. \/ native'.st # "slicing"
        \/ native.st # "slicing" /\ native'.length > 0
    BY <2>1, <2>2
  <2> QED
    BY <2>1, <2>4, <2>5, SegmentsLeft
<1>5. ASSUME native.st = "slicing", SliceFails(file)
      PROVE  Marked' /\ Filled'
  <2>1. /\ file' = [p \in Places |-> IF p = Part \/ p \in slicer.made THEN Absent ELSE file[p]]
        /\ native'.st = "freed"
    BY <1>0, <1>5 DEF SliceFails, Return, Freed, Native
  <2>2. /\ slicer.made = 1..Count
        /\ \A k \in Segments : k = Count => k \in 1..Count
    BY <1>0, <1>5 DEF Cutting, Segments
  <2>3. /\ \A p \in Places : file'[p] = file[p] \/ file'[p] = Absent
        /\ Count \in Segments => file'[Count] = Absent
    BY <1>0, <2>1, <2>2
  <2> QED
    BY <1>0, <2>1, <2>3, SegmentsLeft
<1>6. CASE ReadChunk
  <2>1. file' = file /\ native' = native /\ slicer'.index = slicer.index
    BY <1>0, <1>6 DEF ReadChunk, Slicer
  <2> QED
    BY <2>1, SegmentsLeft
<1>7. ASSUME OpenSegment, ~(slicer.index > MaxVolumes)
      PROVE  Marked' /\ Filled'
  <2> DEFINE i == slicer.index
             done == native.length - slicer.left - slicer.data
  <2>1. /\ native.st = "slicing" /\ native' = native
        /\ file' = [file EXCEPT ![i] = Stretch(build, done, done)]
        /\ slicer' = [slicer EXCEPT !.open = TRUE, !.made = @ \cup {slicer.index},
                                    !.index = @ + 1, !.room = native.split]
    BY <1>7 DEF OpenSegment, Volume
  <2>2. i \in Nat /\ i >= 1 /\ i \in Segments /\ slicer'.index = i + 1
    BY <1>0, <2>1, Numbers DEF HandleInv, Segments, Slicer
  <2> HIDE DEF i, done
  <2>3. \A p \in Places : p # i => file'[p] = file[p]
    BY <2>1, <1>0
  <2>4. file'[i].by = build /\ build >= 0
    BY <1>0, <1>1, <2>1, <2>2
  <2>5. Marked'
    BY <1>0, <2>3, <2>4 DEF Marked
  <2>6. Cutting' /\ native'.split > 0 /\ native'.split \in Nat /\ native'.st = "slicing"
    <3>1. HandleInv'
      BY HandleStep, <1>0
    <3> QED
      BY <1>0, <2>1, <3>1, Numbers DEF HandleInv, Cutting
  <2>7. ASSUME NEW k \in 1..(i - 1)
        PROVE  file'[k].from < file'[k].to
    <3>1. k \in 1..(slicer'.index - 1) /\ k < slicer'.index - 1 /\ k \in Nat
      BY <2>2
    <3>2. file'[k].from = (k - 1) * native'.split /\ file'[k].to = k * native'.split
      BY <2>6, <3>1 DEF Cutting, Count
    <3>3. k - 1 \in Nat /\ (k - 1 + 1) * native'.split = (k - 1) * native'.split + native'.split
      BY <2>6, <3>1, NextMultiple
    <3>4. k - 1 + 1 = k /\ (k - 1) * native'.split \in Nat
      BY <2>6, <3>1, <3>3
    <3> QED
      BY <2>6, <3>2, <3>3, <3>4
  <2>8. ASSUME NEW k \in Segments, k # i
        PROVE  file'[k] = Absent \/ file'[k].from < file'[k].to
    <3>1. k \in Nat /\ k >= 1
      BY Bounds DEF Segments
    <3>2. CASE k < i
      BY <2>2, <2>7, <3>1, <3>2
    <3>3. CASE k > i
      <4>1. k # Count
        BY <2>2, <3>1, <3>3 DEF Count, i
      <4> QED
        BY <1>0, <2>3, <2>8, <4>1 DEF Filled
    <3> QED
      BY <2>2, <2>8, <3>1, <3>2, <3>3
  <2>9. i = slicer'.index - 1
    BY <2>2
  <2> QED
    BY <1>0, <2>1, <2>5, <2>8, <2>9 DEF Filled, Count
<1>8. CASE WriteSegment
  <2>1. /\ native.st = "slicing" /\ native' = native
        /\ \E n : file' = [file EXCEPT ![Count].to = @ + n]
        /\ slicer'.index = slicer.index
    BY <1>0, <1>8 DEF WriteSegment, Volume, Count, Slicer
  <2>2. /\ \A p \in Places : p # Count => file'[p] = file[p]
        /\ \A p \in Places : file'[p].by = file[p].by
    BY <1>0, <2>1 DEF File
  <2>3. Count \in Places => file[Count].by = build
    <3>1. slicer.index \in Nat /\ Count = slicer.index - 1
      BY <1>0, Numbers DEF HandleInv, Count
    <3>2. Count > 0
      <4>1. slicer.open
        BY <1>8 DEF WriteSegment, NeedsSegment
      <4> QED
        BY <1>0, <2>1, <4>1 DEF Cutting
    <3>3. Count \in 1..Count
      BY <3>1, <3>2
    <3> QED
      BY <1>0, <2>1, <3>3 DEF Cutting
  <2>4. Marked'
    BY <1>0, <2>2, <2>3 DEF Marked
  <2> QED
    BY <1>0, <2>1, <2>2, <2>4 DEF Filled, Count
<1>9. CASE SliceDone
  <2>1. /\ native.st = "slicing" /\ slicer.data = 0 /\ slicer.left = 0 /\ native'.st = "freed"
        /\ file' = [file EXCEPT ![Part] = Absent,
                                ![1] = IF slicer.made = {} THEN Stretch(build, 0, 0) ELSE @]
    BY <1>0, <1>9 DEF SliceDone, Return, Freed, Native, Volume
  <2>2. native.length \in Nat /\ native.length > 0 /\ slicer.index \in Nat /\ native.split \in Nat
    BY <1>0, <2>1, Numbers DEF Filled, HandleInv
  <2>3. InThem = native.length
    BY <2>1, <2>2 DEF InThem
  <2>4. Count \in Nat /\ Count > 0 /\ slicer.made = 1..Count
    <3>1. slicer.index \in 1..(MaxVolumes + 1) /\ Count = slicer.index - 1
      BY <1>0, Numbers DEF HandleInv, Count
    <3>2. Count \in Nat
      BY <3>1, Bounds
    <3>3. Count # 0
      BY <1>0, <2>1, <2>2, <2>3 DEF Cutting
    <3>4. slicer.made = 1..Count
      BY <1>0, <2>1 DEF Cutting
    <3> QED
      BY <3>2, <3>3, <3>4
  <2>5. \A p \in Places : file'[p] = IF p = Part THEN Absent ELSE file[p]
    <3>1. 1 \in slicer.made
      BY <2>4
    <3>2. 1 # Part
      BY DEF Part
    <3>3. slicer.made # {}
      BY <3>1
    <3>4. file' = [file EXCEPT ![Part] = Absent, ![1] = @]
      BY <2>1, <3>3
    <3> QED
      BY <1>0, <3>2, <3>4
  <2>6. file[Count].from < file[Count].to
    <3>1. Count \in 1..Count
      BY <2>4
    <3>2. file[Count].from = (Count - 1) * native.split /\ file[Count].to = InThem
          /\ InThem > (Count - 1) * native.split
      BY <1>0, <2>1, <2>4, <3>1 DEF Cutting
    <3>3. Count - 1 \in Nat
      BY <2>4
    <3>4. (Count - 1) * native.split \in Nat
      BY <2>2, <3>3
    <3> QED
      BY <2>2, <2>3, <3>2, <3>4
  <2>7. \A k \in Segments : file'[k] = file[k] /\ (file[k] = Absent \/ file[k].from < file[k].to)
    BY <1>0, <2>5, <2>6 DEF Filled
  <2>8. Marked'
    BY <1>0, <2>5 DEF Marked
  <2> QED
    BY <2>1, <2>7, <2>8 DEF Filled
<1>10. CASE Rollback
  <2>1. native.st # "slicing" /\ native'.st = "freed"
    BY <1>0, <1>10 DEF Rollback, Return, Freed, Native
  <2>2. \A p \in Places : file'[p] = file[p] \/ file'[p] = Absent
    BY <1>0, <1>10 DEF Rollback, RollbackFiles
  <2> QED
    BY <1>0, <2>1, <2>2, SegmentsLeft
<1>11. ASSUME file' = file, native.st # "slicing", native'.st # "slicing"
       PROVE  Marked' /\ Filled'
  BY <1>11, SegmentsLeft
<1>12. CASE CommitReader \/ Open \/ Close \/ CreateFails
  <2>1. native.st # "slicing" /\ native'.st # "slicing" /\ file' = file
    BY <1>0, <1>12 DEF CommitReader, Open, Close, CreateFails, Return, Freed, Native, Unheld
  <2> QED
    BY <1>11, <2>1
<1>13. ASSUME NEW ok \in BOOLEAN, Add(ok)
       PROVE  Marked' /\ Filled'
  BY <1>13, SegmentsLeft DEF Add
<1>14. CASE OpenSegment /\ slicer.index > MaxVolumes
  BY <1>5, <1>14 DEF OpenSegment
<1>15. CASE SliceError
  BY <1>5, <1>15 DEF SliceError
<1> QED
  BY <1>2, <1>3, <1>4, <1>6, <1>7, <1>8, <1>9, <1>10, <1>12, <1>13, <1>14, <1>15
     DEF Next, Finished

\* What a commit leaves for the reader: files, and none of them empty.
LEMMA FoundIsFilled ==
  ASSUME SegmentInv, answer = "committed"
  PROVE  Found \in Seq(Seq(Nat)) /\ \A k \in DOMAIN Found : Found[k] # <<>>
<1> DEFINE T == {k \in Segments : k = MaxVolumes + 1 \/ file[k] = Absent}
<1>1. /\ MaxVolumes \in Nat /\ MaxVolumes > 0 /\ Segments \subseteq Nat /\ T \subseteq Nat
      /\ \A k \in Segments : k \in Places
  BY Bounds DEF Segments, Places
<1>2. file \in [Places -> File] /\ native.st # "slicing" /\ Marked /\ Filled
  BY DEF SegmentInv, HandleInv, TypeOK, Cutting
<1>3. MaxVolumes + 1 \in T
  BY <1>1 DEF Segments
<1>4. PICK g \in T : \A k \in T : g <= k
  BY <1>1, <1>3, Smallest
<1>5. g \in 1..(MaxVolumes + 1)
  BY DEF Segments
<1>6. Run = 1..(g - 1)
  <2>1. ASSUME NEW k \in 1..(g - 1)
        PROVE  k \in 1..MaxVolumes /\ file[k] # Absent
    <3>1. k \in 1..MaxVolumes /\ k \in Segments /\ ~(g <= k)
      BY <1>1, <1>5 DEF Segments
    <3> QED
      BY <1>4, <3>1
  <2>2. ASSUME NEW k \in 1..(g - 1), NEW i \in 1..k
        PROVE  file[i] # Absent
    <3>1. i \in 1..(g - 1)
      BY <1>5
    <3> QED
      BY <2>1, <3>1
  <2>3. ASSUME NEW k \in Run
        PROVE  k \in 1..(g - 1)
    <3>1. k \in 1..MaxVolumes /\ \A i \in 1..k : file[i] # Absent
      BY DEF Run, Volume
    <3>2. ASSUME g <= k PROVE FALSE
      <4>1. g \in 1..k /\ g # MaxVolumes + 1
        BY <1>1, <1>5, <3>1, <3>2
      <4> QED
        BY <3>1, <4>1, <1>4
    <3> QED
      BY <1>5, <3>1, <3>2
  <2> QED
    BY <2>1, <2>2, <2>3 DEF Run, Volume
<1>7. Cardinality(Run) = g - 1 /\ g - 1 \in Nat
  <2>1. g - 1 \in Nat /\ 1 \in Int /\ g - 1 \in Int
    BY <1>5
  <2>2. Cardinality(1..(g - 1)) = IF 1 > g - 1 THEN 0 ELSE (g - 1) - 1 + 1
    BY <2>1, FS_Interval
  <2> QED
    BY <1>6, <2>1, <2>2
<1>8. Found = [k \in 1..(g - 1) |-> Bytes(file[k])]
  BY <1>7 DEF Found, Volume
<1>9. ASSUME NEW k \in 1..(g - 1)
      PROVE  Bytes(file[k]) \in Seq(Nat) /\ Bytes(file[k]) # <<>>
  <2>1. k \in Segments /\ k \in Places /\ k \notin T /\ file[k] # Absent
    <3>1. k \in Segments /\ ~(g <= k)
      BY <1>1, <1>5 DEF Segments
    <3> QED
      BY <1>1, <1>4, <3>1
  <2>2. /\ file[k].by \in Int /\ file[k].by >= 0
        /\ file[k].from \in Nat /\ file[k].to \in Nat /\ file[k].from < file[k].to
    <3>1. file[k] \in File
      BY <1>2, <2>1
    <3>2. file[k].by \in -1..Builds /\ file[k].from \in Nat /\ file[k].to \in Nat
      BY <3>1 DEF File
    <3>3. file[k].by >= 0 /\ file[k].from < file[k].to
      BY <1>2, <2>1 DEF Marked, Filled
    <3> QED
      BY <3>2, <3>3, Bounds
  <2> DEFINE b == file[k].by
             from == file[k].from
             to == file[k].to
  <2>3. b \in Nat /\ from \in Nat /\ to \in Nat /\ from < to
    BY <2>2
  <2>4. Bytes(file[k]) = [i \in 1..(to - from) |-> 10 * b + from + i]
    BY DEF Bytes
  <2> HIDE DEF b, from, to
  <2>5. to - from \in Nat /\ to - from > 0
    BY <2>3
  <2>6. \A i \in 1..(to - from) : 10 * b + from + i \in Nat
    BY <2>3
  <2>7. Bytes(file[k]) \in Seq(Nat) /\ Len(Bytes(file[k])) = to - from
    BY <2>4, <2>5, <2>6
  <2> QED
    BY <2>5, <2>7
<1>10. Found \in Seq(Seq(Nat)) /\ DOMAIN Found = 1..(g - 1)
  BY <1>7, <1>8, <1>9
<1> QED
  BY <1>8, <1>9, <1>10

-----------------------------------------------------------------------------
(* The handle and the reader together.                                     *)

SplitInv == SegmentInv /\ ReaderInv

\* With nothing open the stream is empty.
LEMMA NothingOpen == Joined(<<>>, 0) = <<>>
<1>1. <<>> \in Seq(Seq(Nat)) /\ 0 \in Nat /\ Len(<<>>) = 0
  OBVIOUS
<1>2. O(<<>>)[0] = 0
  BY <1>1, OriginsAre
<1>3. Joined(<<>>, 0) \in Seq(Nat) /\ Len(Joined(<<>>, 0)) = 0
  BY <1>1, <1>2, StreamIs
<1> QED
  BY <1>3

\* At the start nothing is open, which is an empty file.
LEMMA InitSplit == InitBoth => SplitInv /\ Reader!File!Init
<1> SUFFICES ASSUME InitBoth PROVE SplitInv /\ Reader!File!Init
  OBVIOUS
<1>1. /\ vols = <<>> /\ patch = 0 /\ pos = 0 /\ cursor = kernel /\ got = Reader!Nothing
      /\ SegmentInv
  BY InitSegments DEF InitBoth, Reader!Closed
<1>2. Reader!Stream = <<>>
  BY <1>1, NothingOpen, StreamIsJoined
<1>3. Reader!Total = 0
  <2>1. <<>> \in Seq(Seq(Nat)) /\ Len(<<>>) = 0
    OBVIOUS
  <2> QED
    BY <1>1, <2>1, OriginsAre, TotalIs
<1>4. ReaderInv
  BY <1>1, <1>3 DEF ReaderInv
<1>5. Reader!File!Init
  BY <1>1, <1>2 DEF Reader!File!Init, Reader!File!Nothing, Reader!File!Given,
     Reader!Nothing, Reader!Given
<1> QED
  BY <1>1, <1>4, <1>5 DEF SplitInv

\* Opening some files, none of them empty, opens the one file that they are.
LEMMA OpenStep ==
  ASSUME NEW files \in Seq(Seq(Nat)), \A i \in DOMAIN files : files[i] # <<>>,
         NEW from \in Nat, Reader!OpenWith(files, from)
  PROVE  ReaderInv' /\ Reader!File!Open
<1>1. /\ vols' = files /\ patch' = from /\ pos' = 0 /\ cursor' = kernel'
      /\ got' = Reader!Nothing
  BY DEF Reader!OpenWith
<1>2. Reader!Stream' \in Seq(Nat)
  BY <1>1, StreamIsJoined, StreamIs
<1>3. 0 \in 0..Reader!Total'
  <2>1. O(files)[Len(files)] \in Nat
    <3>1. Len(files) \in 0..Len(files)
      OBVIOUS
    <3> QED
      BY <3>1, OriginsAre
  <2> QED
    BY <1>1, <2>1, TotalIs
<1>4. ReaderInv'
  BY <1>1, <1>3 DEF ReaderInv
<1>5. Reader!File!Open
  BY <1>1, <1>2 DEF Reader!File!Open, Reader!File!Nothing, Reader!File!Given,
     Reader!Nothing, Reader!Given
<1> QED
  BY <1>4, <1>5

\* Each step of the two is a step of the one file, or none of its business.
LEMMA SplitStep ==
  ASSUME 0 \notin Lengths, SplitInv, [NextBoth]_<<vars, rvars>>
  PROVE  SplitInv' /\ [Reader!File!Next]_<<Reader!Stream, pos, got>>
<1>1. SegmentInv /\ ReaderInv
  BY DEF SplitInv
<1>2. SegmentInv'
  <2>1. [Next]_vars
    BY DEF NextBoth, OpenVolumes, CloseVolumes
  <2> QED
    BY <1>1, <2>1, SegmentStep
<1>3. ASSUME UNCHANGED rvars
      PROVE  ReaderInv' /\ UNCHANGED <<Reader!Stream, pos, got>>
  <2>1. /\ vols' = vols /\ patch' = patch /\ pos' = pos /\ cursor' = cursor
        /\ kernel' = kernel /\ got' = got
    BY <1>3 DEF rvars
  <2>2. Reader!Stream' = Reader!Stream /\ Reader!Total' = Reader!Total
    BY <2>1, StreamIsJoined, TotalIs
  <2> QED
    BY <1>1, <2>1, <2>2 DEF ReaderInv
<1>4. CASE OpenVolumes
  <2>1. PICK from \in 0..Reader!Origins(Found)[Len(Found)] : Reader!OpenWith(Found, from)
    BY <1>4 DEF OpenVolumes
  <2>2. Found \in Seq(Seq(Nat)) /\ \A k \in DOMAIN Found : Found[k] # <<>>
    BY <1>1, <1>4, FoundIsFilled DEF OpenVolumes
  <2>3. from \in Nat
    OBVIOUS
  <2>4. ReaderInv' /\ Reader!File!Open
    BY <2>1, <2>2, <2>3, OpenStep
  <2> QED
    BY <1>2, <2>4 DEF SplitInv, Reader!File!Next
<1>5. CASE CloseVolumes
  <2>1. <<>> \in Seq(Seq(Nat)) /\ (\A i \in DOMAIN <<>> : <<>>[i] # <<>>) /\ 0 \in Nat
    OBVIOUS
  <2>2. ReaderInv' /\ Reader!File!Open
    BY <1>5, <2>1, OpenStep DEF CloseVolumes
  <2> QED
    BY <1>2, <2>2 DEF SplitInv, Reader!File!Next
<1>6. CASE Reader!ReadOrSeek
  BY <1>1, <1>2, <1>6, ReaderStep DEF SplitInv, Reader!File!Next
<1>7. CASE UNCHANGED rvars
  BY <1>2, <1>3, <1>7 DEF SplitInv
<1> QED
  BY <1>4, <1>5, <1>6, <1>7 DEF NextBoth

\* The volumes of a committed archive, opened as one stream, are read and
\* sought as one file with the patched tail over it, for every archive length
\* but 0, volume size, number of volumes and buffer, although a volume is
\* sought only where the cached position differs (multi_volume_reader.rs:150-177,
\* spanned_zip.rs).
THEOREM VolumesReadAsOneFile ==
  ASSUME 0 \notin Lengths
  PROVE  SpecBoth => ReadsAsOneFile
<1>1. InitBoth => SplitInv
  BY InitSplit
<1>2. InitBoth => Reader!File!Init
  BY InitSplit
<1>3. SplitInv /\ [NextBoth]_<<vars, rvars>> => SplitInv'
  BY SplitStep
<1>4. SplitInv /\ [NextBoth]_<<vars, rvars>>
        => [Reader!File!Next]_<<Reader!Stream, pos, got>>
  BY SplitStep
<1> QED
  BY <1>1, <1>2, <1>3, <1>4, PTL DEF SpecBoth, ReadsAsOneFile, Reader!File!Spec

\* The reader does not disturb the handle: what is proved of its
\* specification holds of the two together (archive.rs, spanned_zip.rs).
THEOREM TogetherIsHandle == SpecBoth => Spec
<1>1. InitBoth => Init
  BY DEF InitBoth
<1>2. [NextBoth]_<<vars, rvars>> => [Next]_vars
  BY DEF NextBoth, OpenVolumes, CloseVolumes
<1> QED
  BY <1>1, <1>2, PTL DEF SpecBoth, Spec
=============================================================================
