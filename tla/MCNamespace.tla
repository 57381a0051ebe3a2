---------------------------- MODULE MCNamespace ----------------------------
(* Model-checking module for Namespace: one directory next to two files in *)
(* the root, one file name in the directory; two directories with two file *)
(* names each where directories are renamed.  Uuids are interchangeable.   *)
EXTENDS Namespace, TLC

MCDirPaths  == {<<>>, <<"d">>}
MCFilePaths == {<<"f">>, <<"g">>, <<"d", "f">>}

MCTwoDirPaths  == {<<>>, <<"d">>, <<"e">>}
MCFourFilePaths == {<<"d", "f">>, <<"d", "g">>, <<"e", "f">>, <<"e", "g">>}

Symmetry == Permutations(Ids)
=============================================================================
