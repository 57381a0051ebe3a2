--------------------------- MODULE MCDirectoryData ---------------------------
(* Model-checking module for DirectoryData: entries of 2 and 3 cells.      *)
EXTENDS DirectoryData

MCNames == 1 .. 3
MCEntrySize == [e \in MCNames |-> IF e = 3 THEN 3 ELSE 2]
=============================================================================
