--------------------------- MODULE MCZipRoundTrip ---------------------------
(* A small instance of ZipRoundTrip for TLC.                               *)
EXTENDS ZipRoundTrip

Byte(x) == [t |-> "byte", bytes |-> <<x>>, last |-> FALSE]
Bytes(n) == [k \in 1..n |-> Byte(k)]
A(name, dir, n, stat, rate, known, probed, day) ==
  [name |-> name, directory |-> dir, data |-> Bytes(n), stat |-> stat, rate |-> rate,
   known |-> known, probed |-> probed, day |-> day, sec |-> 86399]

\* A directory; a file that shrinks when deflated and one whose size is past
\* the 32-bit limit; one that would grow; one that grew after it was stat'ed;
\* an empty one.  The days are 29 February 2000, 1 March 2100, the first and
\* the last a DOS date can name, one before them and one of today.
MCFiles == { A("dir", TRUE, 0, 0, 1, FALSE, FALSE, 11016),
             A("text", FALSE, 4, 4, 3, FALSE, FALSE, 47541),
             A("big", FALSE, 9, 9, 2, FALSE, FALSE, 3652),
             A("random", FALSE, 2, 2, 1, FALSE, TRUE, 50402),
             A("log", FALSE, 9, 7, 1, FALSE, FALSE, 2000),
             A("empty", FALSE, 0, 0, 1, TRUE, FALSE, 20513) }

\* They are files the proofs are about.
ASSUME \A e \in MCFiles : Fits(e)
ASSUME 6 * MaxEntries <= ScanCells /\ \A e \in MCFiles : Len(e.data) <= HardCap
=============================================================================
