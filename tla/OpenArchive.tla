---------------------------- MODULE OpenArchive ----------------------------
(***************************************************************************)
(* Opening one path, several times and by several callers, while the file  *)
(* there is replaced or added to: Archive::open (archive.rs), the          *)
(* dispatcher with its strict attempt, its fallback and the cache of paths *)
(* that needed it (backends/mod.rs, backends/zip.rs), and append_to_zip    *)
(* (append.rs), which another process runs.                                *)
(*                                                                         *)
(* Nobody replaces the archive while the appender has it open for writing, *)
(* and there is one appender.                                              *)
(***************************************************************************)
EXTENDS ArchiveFormats, Integers, Sequences, FiniteSets, SequencesExt

CONSTANTS
  Openers,   \* the probe and the work delegate of one host process
  Names,     \* names the file may have
  Contents,  \* what is at the path: form, health, names
  Puts,      \* what replaces it
  Plans,     \* sequences of entry names an append plans
  MaxPuts    \* how often the file is replaced

EntryNames == STRING
Healths == {"sound", "encrypted", "malformed", "torn", "commented"}

\* No opener is the appender, and a ZIP reader lists no name twice.
ASSUME OpenAssumption ==
  /\ "append" \notin Openers
  /\ Contents \cup Puts \subseteq
       [form : Forms, health : Healths, names : {s \in Seq(EntryNames) : IsInjective(s)}]
  /\ Plans \subseteq Seq(EntryNames)

VARIABLES
  name,      \* the file's name
  file,      \* its content
  cached,    \* fallback_path_cache holds the path
  opener,    \* opener -> where it is, what it detected, what it was given
  append,    \* the call of append_to_zip
  puts,
  spoiled,   \* the file was once no sound ZIP, or was read too slowly
  steady     \* callers whose file has not changed since they began

vars == <<name, file, cached, opener, append, puts, spoiled, steady>>

Broken == {"malformed", "torn", "commented"}

\* The strict parser takes it; a comment hides the record from the check of the tail.
Strict(c) == c.form = ZipFile /\ c.health \notin Broken

\* What the chosen backend makes of the file when it is read.
Reads(backend, c) ==
  IF backend = <<"lenient", "">> THEN c.form = ZipFile /\ c.health \notin {"torn", "encrypted"}
  ELSE IF backend = ZipFile THEN Strict(c)
  ELSE backend = (IF c.form = Tar("v7") THEN Tar("") ELSE c.form)

Spoils(c) == c.form # ZipFile \/ c.health \in Broken

Init ==
  /\ name \in Names /\ file \in Contents /\ cached = FALSE
  /\ opener = [o \in Openers |-> [pc |-> "idle", format |-> Unknown, backend |-> Unknown,
                                  reads |-> FALSE]]
  /\ append = [pc |-> "idle", plan |-> <<>>, existing |-> {}, base |-> <<>>, added |-> <<>>,
               skipped |-> <<>>, health |-> "sound"]
  /\ puts = 0 /\ spoiled = Spoils(file) /\ steady = {}


\* Another program puts something else at the path.
Replace ==
  /\ puts < MaxPuts /\ append.pc # "writing"
  /\ \E c \in Puts \ {file} : file' = c /\ spoiled' = (spoiled \/ Spoils(c))
  /\ puts' = puts + 1 /\ steady' = {}
  /\ UNCHANGED <<name, cached, opener, append>>

---------------------------------------------------------------------------

Goes(o, pc) == opener' = [opener EXCEPT ![o].pc = pc]

Returns(o, backend) ==
  opener' = [opener EXCEPT ![o].pc = "returned", ![o].backend = backend,
                           ![o].reads = Reads(backend, file)]

\* open_inner: the format is detected from one look at the file.
Sniff(o) ==
  /\ opener[o].pc = "idle"
  /\ opener' = [opener EXCEPT ![o] = [pc |-> "sniffed", format |-> Detect(file.form, name),
                                      backend |-> Unknown, reads |-> FALSE]]
  /\ steady' = steady \cup {o}
  /\ UNCHANGED <<name, file, cached, append, puts, spoiled>>

\* open_backend: a path in the cache goes to the fallback whatever its format.
LookUp(o) ==
  /\ opener[o].pc = "sniffed"
  /\ Goes(o, IF cached THEN "fallback" ELSE "strict")
  /\ UNCHANGED <<name, file, cached, append, puts, spoiled, steady>>

\* Mutant of IsRecoverable: what the other parser cannot mend either is retried too.
IsRecoverableAlways(c) == ~Strict(c) \/ c.health = "encrypted"

\* is_recoverable: the file is not what the specification says.
IsRecoverable(c) == ~Strict(c)

OpenStrict(o) ==
  /\ opener[o].pc = "strict"
  /\ LET backend == Backend(opener[o].format, name) IN
     IF backend = ZipFile /\ IsRecoverable(file) THEN Goes(o, "remember") ELSE Returns(o, backend)
  /\ UNCHANGED <<name, file, cached, append, puts, spoiled, steady>>

\* DeadlineReader: the strict parse of any ZIP may take more than its second.
DeadlineExceeded(o) ==
  /\ opener[o].pc = "strict" /\ Backend(opener[o].format, name) = ZipFile
  /\ Goes(o, "remember") /\ spoiled' = TRUE
  /\ UNCHANGED <<name, file, cached, append, puts, steady>>

Remember(o) ==
  /\ opener[o].pc = "remember"
  /\ cached' = TRUE /\ Goes(o, "fallback")
  /\ UNCHANGED <<name, file, append, puts, spoiled, steady>>

\* open_fallback_backend: ZIP only.
OpenFallback(o) ==
  /\ opener[o].pc = "fallback"
  /\ Returns(o, IF opener[o].format \in {ZipFile, Zipx} THEN <<"lenient", "">> ELSE Unknown)
  /\ UNCHANGED <<name, file, cached, append, puts, spoiled, steady>>

Close(o) ==
  /\ opener[o].pc = "returned" /\ Goes(o, "idle")
  /\ steady' = steady \ {o}
  /\ UNCHANGED <<name, file, cached, append, puts, spoiled>>

---------------------------------------------------------------------------

Refused == append' = [append EXCEPT !.pc = "refused"]

\* Only what is detected as ZIP; a .zipx is not.
Confirm ==
  /\ append.pc = "idle"
  /\ IF Detect(file.form, name) = ZipFile THEN append' = [append EXCEPT !.pc = "list"] ELSE Refused
  /\ steady' = steady \cup {"append"}
  /\ UNCHANGED <<name, file, cached, opener, puts, spoiled>>

\* existing_entry_names, in a process whose cache is empty.
ExistingEntryNames ==
  /\ append.pc = "list"
  /\ IF file.form = ZipFile /\ file.health # "torn"
     THEN append' = [append EXCEPT !.pc = "plan", !.existing = ToSet(file.names)]
     ELSE Refused
  /\ UNCHANGED <<name, file, cached, opener, puts, spoiled, steady>>

\* Every input is walked before the archive is opened; a missing one ends the call.
PlanInputs ==
  /\ append.pc = "plan"
  /\ \/ Refused
     \/ \E p \in Plans : append' = [append EXCEPT !.pc = "open", !.plan = p]
  /\ UNCHANGED <<name, file, cached, opener, puts, spoiled, steady>>

\* Mutant of NewAppend: the directory is not read before it is overwritten.
NewAppendForgets(c) == <<>>

\* ZipWriter::new_append keeps the directory it finds.
NewAppend(c) == c.names

OpenForAppend ==
  /\ append.pc = "open"
  /\ IF file.form = ZipFile /\ file.health \notin {"malformed", "torn"}
     THEN append' = [append EXCEPT !.pc = "writing", !.base = NewAppend(file),
                                   !.health = file.health]
     ELSE Refused
  /\ UNCHANGED <<name, file, cached, opener, puts, spoiled, steady>>

\* The new entry's bytes overwrite the directory, until finish writes it again.
Tears == file' = [file EXCEPT !.health = "torn"] /\ spoiled' = TRUE

Changed == steady' = steady \cap {"append"}

SkipExisting ==
  /\ append.pc = "writing" /\ append.plan # <<>> /\ Head(append.plan) \in append.existing
  /\ append' = [append EXCEPT !.plan = Tail(@), !.skipped = Append(@, Head(append.plan))]
  /\ UNCHANGED <<name, file, cached, opener, puts, spoiled, steady>>

\* Two inputs of one name: start_file refuses the second.
Twice(n) == n \in ToSet(append.base) \cup ToSet(append.added)

WriteOne ==
  /\ append.pc = "writing" /\ append.plan # <<>>
  /\ Head(append.plan) \notin append.existing /\ ~Twice(Head(append.plan))
  /\ append' = [append EXCEPT !.plan = Tail(@), !.added = Append(@, Head(append.plan))]
  /\ Tears /\ Changed
  /\ UNCHANGED <<name, cached, opener, puts>>

\* The call fails.  The dropped writer puts a directory at the end if it can,
\* with or without the entry it was writing; a second of one name was not begun.
WriteFails ==
  /\ append.pc = "writing" /\ append.plan # <<>> /\ Head(append.plan) \notin append.existing
  /\ append' = [append EXCEPT !.pc = "failed"]
  /\ \E begun \in {<<>>, <<Head(append.plan)>>}, health \in {append.health, "torn"} :
       /\ begun # <<>> => ~Twice(Head(append.plan))
       /\ file' = [file EXCEPT !.names = append.base \o append.added \o begun,
                               !.health = health]
  /\ spoiled' = (spoiled \/ Spoils(file')) /\ Changed
  /\ UNCHANGED <<name, cached, opener, puts>>

Finish ==
  /\ append.pc = "writing" /\ append.plan = <<>>
  /\ append' = [append EXCEPT !.pc = "done"]
  /\ file' = [file EXCEPT !.names = append.base \o append.added, !.health = append.health]
  /\ Changed
  /\ UNCHANGED <<name, cached, opener, puts, spoiled>>

Next ==
  \/ Replace
  \/ \E o \in Openers : \/ Sniff(o) \/ LookUp(o) \/ OpenStrict(o) \/ DeadlineExceeded(o)
                        \/ Remember(o) \/ OpenFallback(o) \/ Close(o)
  \/ Confirm \/ ExistingEntryNames \/ PlanInputs \/ OpenForAppend
  \/ SkipExisting \/ WriteOne \/ WriteFails \/ Finish

Spec == Init /\ [][Next]_vars

---------------------------------------------------------------------------

Healthy(o) ==
  /\ opener[o].pc = "returned" /\ o \in steady
  /\ Usual(file.form, name) /\ file.health \in {"sound", "encrypted"}

\* The path is read leniently, or not at all, for the rest of the process.
Stuck == spoiled /\ cached

(***************************************************************************)
(* A healthy file under a usual name is read by the backend for what it    *)
(* is, as long as it did not change during the call: a sound ZIP whoever   *)
(* opened the path before and whatever it held then.  Any other format and *)
(* an encrypted ZIP are excepted once the path is in the fallback cache,   *)
(* which takes that the path has held something other than a sound ZIP, or *)
(* that one was read too slowly.  A ZIP with a long comment is not healthy *)
(* here, since the strict parser never finds its directory.                *)
(***************************************************************************)
HealthyIsRead ==
  \A o \in Openers :
    Healthy(o) /\ (Stuck => file.form = ZipFile /\ file.health = "sound") => opener[o].reads

\* Not checked, it does not hold: a 7z, or an encrypted ZIP, at a path that is
\* in the cache is refused (fallback_path_cache has the path and nothing else).
ReplacedIsRead == \A o \in Openers : Healthy(o) => opener[o].reads

(***************************************************************************)
(* An append that reported success found no name in what it kept that it   *)
(* then added, wrote none twice, and had found what it says it skipped,    *)
(* also when the file was replaced between its look and its writing.  When *)
(* it was not, nor after the call, the file lists what was there, in its   *)
(* order, then what was added, and the appender looked at all of it; an    *)
(* opener that came in between changes nothing.                            *)
(***************************************************************************)
AppendedIsListed ==
  append.pc = "done" =>
    /\ IsInjective(append.base \o append.added)
    /\ ToSet(append.added) \cap append.existing = {}
    /\ ToSet(append.skipped) \subseteq append.existing
    /\ "append" \in steady =>
         /\ file.names = append.base \o append.added
         /\ append.existing = ToSet(append.base)
=============================================================================
