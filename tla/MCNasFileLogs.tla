--------------------------- MODULE MCNasFileLogs ---------------------------
(* Constants for model checking NasFileLogs.                                *)
EXTENDS NasFileLogs

(* Every other line opens a multi-line record; the third is filtered.       *)
MCHeaders == {l \in Lines : l % 2 = 0}
MCNormal  == {3} \cap Lines
=============================================================================
