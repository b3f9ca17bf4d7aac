----------------------------- MODULE PlainFile -----------------------------
(***************************************************************************)
(* What a reader of one file promises (std::io::Read and Seek): reads give *)
(* the next bytes, at least one unless the end is reached or none is asked *)
(* for, and a seek moves the position within the file.  The reader over    *)
(* several volumes implements it.                                          *)
(***************************************************************************)
EXTENDS Naturals, Sequences

CONSTANT Wants    \* sizes of the buffers that are read into

VARIABLES
  content,   \* the bytes
  at,        \* bytes before the position
  got        \* what the last call asked for and was given

Given(want, bytes) == [asked |-> want, bytes |-> bytes]
Nothing == Given(0, <<>>)

Init == content = <<>> /\ at = 0 /\ got = Nothing

Open ==
  /\ content' \in Seq(Nat)
  /\ at' = 0
  /\ got' = Nothing

Read ==
  \E want \in Wants :
    /\ at' \in at..Len(content) /\ at' - at <= want
    /\ at' = at => want = 0 \/ at = Len(content)
    /\ got' = Given(want, SubSeq(content, at + 1, at'))
    /\ UNCHANGED content

Seek ==
  /\ at' \in 0..Len(content)
  /\ got' = Nothing
  /\ UNCHANGED content

Next == Open \/ Read \/ Seek

Spec == Init /\ [][Next]_<<content, at, got>>
=============================================================================
