--------------------------- MODULE MCDirectoryCache ---------------------------
(* Model-checking module for DirectoryCache.                               *)
EXTENDS DirectoryCache
=============================================================================
