--------------------------- MODULE MCSplitArchive ---------------------------
(* Small instances of SplitArchive for TLC.                                *)
EXTENDS SplitArchive, TLC
=============================================================================
