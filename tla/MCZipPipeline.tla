--------------------------- MODULE MCZipPipeline ---------------------------
(* Small instances of ZipPipeline for TLC.                                 *)
EXTENDS ZipPipeline

CONSTANTS w1, w2
MCWorkers == {w1, w2}

MCSmallSize3 == <<2, 1, 1>>
MCLargeOne == <<2>>
=============================================================================
