--------------------------- MODULE MCHandlerLocks ---------------------------
(* Model-checking module for HandlerLocks: a file in the root, a directory *)
(* with a file.                                                            *)
EXTENDS HandlerLocks, TLC

MCDirPaths  == {<<>>, <<"d">>, <<"e">>}
MCFilePaths == {<<"f">>, <<"d", "g">>}

Symmetry == Permutations(Threads)
=============================================================================
