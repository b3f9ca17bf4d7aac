--------------------------- MODULE MCOutputNames ---------------------------
(* Three jobs of every mixture of kinds that want one name.                *)
EXTENDS OutputNames, TLC

Symmetry == Permutations(Tasks)
============================================================================
