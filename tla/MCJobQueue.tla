----------------------------- MODULE MCJobQueue -----------------------------
(* Small instances of JobQueue for TLC.                                    *)
EXTENDS JobQueue, TLC

CONSTANTS j1, j2, j3, g1
MCJobs1 == {j1}
MCJobs3 == {j1, j2, j3}
=============================================================================
