------------------------------ MODULE FileTree ------------------------------
(***************************************************************************)
(* What the namespace of nmfs promises: a tree of files and directories    *)
(* that changes by whole operations only.  Caching, eviction, write-back   *)
(* and clean remounts are invisible.                                       *)
(***************************************************************************)
EXTENDS Sequences, SequencesExt, FiniteSets

CONSTANTS
  Paths,   \* the paths that may be used, without the root
  Ids      \* identities of files and directories

Root == <<>>
Parent(p) == Front(p)
Kinds == {"file", "dir"}

VARIABLE tree  \* path -> [kind, id], for the paths that exist

Init == tree = << >>

IsDir(p) == p = Root \/ (p \in DOMAIN tree /\ tree[p].kind = "dir")
Children(p) == {q \in DOMAIN tree : Parent(q) = p}
Below(p) == {q \in DOMAIN tree : IsPrefix(p, q)}

\* create and mkdir: a new object under a name that was free.
Make(p, kind) ==
  /\ p \notin DOMAIN tree /\ IsDir(Parent(p))
  /\ \E i \in Ids \ {tree[q].id : q \in DOMAIN tree} :
       tree' = [q \in DOMAIN tree \cup {p} |->
                  IF q = p THEN [kind |-> kind, id |-> i] ELSE tree[q]]

\* unlink of a file, rmdir of an empty directory.
Delete(p) ==
  /\ p \in DOMAIN tree /\ Children(p) = {}
  /\ tree' = [q \in DOMAIN tree \ {p} |-> tree[q]]

\* rename: everything at and below p appears below q, with its identity; what q
\* named is replaced, and may not be a directory with children.
Rename(p, q) ==
  /\ p \in DOMAIN tree /\ IsDir(Parent(q)) /\ p # q /\ ~IsPrefix(p, q)
  /\ q \in DOMAIN tree => tree[q].kind = tree[p].kind /\ Children(q) = {}
  /\ LET moved(r) == q \o SubSeq(r, Len(p) + 1, Len(r))
         origin(r) == p \o SubSeq(r, Len(q) + 1, Len(r))
         new == {moved(r) : r \in Below(p)}
     IN tree' = [r \in ((DOMAIN tree \ Below(p)) \ {q}) \cup new |->
                   IF r \in new THEN tree[origin(r)] ELSE tree[r]]

Next ==
  \E p \in Paths :
    \/ \E kind \in Kinds : Make(p, kind)
    \/ Delete(p)
    \/ \E q \in Paths : Rename(p, q)

Spec == Init /\ [][Next]_tree

=============================================================================
