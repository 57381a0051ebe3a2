---------------------------- MODULE MCFileData ----------------------------
(* Model-checking module for FileData: two byte values tell the places of  *)
(* a write apart.                                                          *)
EXTENDS FileData

MCBytes == 0 .. 1
=============================================================================
