-------------------------- MODULE MCDatasetUploads --------------------------
(* An instance of DatasetUploads for TLC: a session of two files, then      *)
(* another one of a single file, for the same dataset.                      *)
EXTENDS DatasetUploads
CONSTANTS s1, s2, a, b
MCFilesOf == [s \in Sessions |-> IF s = s1 THEN {a, b} ELSE {a}]
=============================================================================
