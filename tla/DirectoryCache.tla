--------------------------- MODULE DirectoryCache ---------------------------
(***************************************************************************)
(* The life of ONE directory's two cached objects: its metadata in         *)
(* cache_store::cache and the directory in directory_cache, which keeps a  *)
(* reference to the metadata; open_count, the pointers the kernel keeps in *)
(* file_info->fh between opendir and releasedir, the two caching policies, *)
(* and the worker's two sweeps, which evaluate keep_cache without a lock   *)
(* and erase under one.  A handler is one action: this is one handler      *)
(* thread, with steps of the worker and the clock between its calls.       *)
(***************************************************************************)
EXTENDS Integers, FiniteSets

CONSTANTS
  Fds,       \* directory handles the kernel may have open at once
  CountMod,  \* 2^w of the size_t open_count, scaled down
  MaxOpens,  \* bound: calls that open the directory or its metadata
  Policies   \* caching policies the program may be built with

ASSUME FdsAssumption == IsFiniteSet(Fds)
ASSUME PoliciesAssumption ==
  Policies \subseteq {"hold_closed_cache_for", "evict_on_last_close"}
\* size_t is wider than any number of calls.
ASSUME CountModAssumption ==
  MaxOpens \in Nat /\ CountMod \in Nat /\ CountMod > 2 * MaxOpens + 2 + Cardinality(Fds)

VARIABLES
  policy,    \* the policy of this build
  exists,    \* the directory exists
  metadata,  \* cache has an entry for the path
  directory, \* directory_cache has one
  count,     \* open_count
  expired,   \* more than valid_duration since last_close
  handles,   \* handles that point to the cached directory
  stale,     \* handles that point to a destroyed one
  worker,    \* where the worker is in its round of sweeps
  undefined, \* a destroyed object or string was used
  opens,     \* ghost: calls that open the directory or its metadata
  surplus,   \* ghost: references without a handle, less handles without one
  raced      \* ghost: the worker's round was raced (RacedByOpen, Expire)

vars == <<policy, exists, metadata, directory, count, expired, handles, stale,
          worker, undefined, opens, surplus, raced>>

Init ==
  /\ policy \in Policies
  /\ exists \in BOOLEAN
  /\ metadata = FALSE /\ directory = FALSE /\ count = 0 /\ expired = FALSE
  /\ handles = {} /\ stale = {} /\ worker = "idle" /\ undefined = FALSE
  /\ opens = 0 /\ surplus = 0 /\ raced = FALSE

-----------------------------------------------------------------------------
(* The caching policies.                                                   *)

\* Mutant: the time never runs out.
RecentForever == policy = "hold_closed_cache_for"

Recent == policy = "hold_closed_cache_for" /\ ~expired

\* Mutant: a single reference counts as closed.
KeepsOneAsClosed(n, recent) == n > 1 \/ recent

\* keep_cache, with open_count n.
Keeps(n, recent) == n > 0 \/ recent

IsValid == policy = "evict_on_last_close" \/ count > 0 \/ ~expired

\* Nothing undefined happened, and the directory's reference leads to its metadata.
Alive == ~undefined /\ (directory => metadata)

\* Mutant: open_count as a signed number.
PlusSigned(n) == count + n

Plus(n) == (count + n + CountMod) % CountMod

-----------------------------------------------------------------------------
(* open_directory and the directory_open_context.                          *)

\* What open_directory finds, and what it adds to open_count: the cached directory,
\* counted here and in the context; one that has to be read again with its
\* metadata in the cache, which nobody counts; or one to be loaded.
Found ==
  IF directory /\ IsValid THEN "cached" ELSE IF metadata THEN "reread" ELSE "loaded"

Added == CASE Found = "cached" -> 2 [] Found = "reread" -> 0 [] Found = "loaded" -> 1

\* A directory that is not valid any more is destroyed before it is read again.
Orphaned == IF Found = "cached" THEN {} ELSE handles

CanOpen ==
  /\ exists /\ Alive /\ opens < MaxOpens
  /\ opens' = opens + 1

\* The entry a sweep decided to erase is erased by a handler: the path the worker goes
\* on to look up is the key of that entry.
Forestall(directoryGone, metadataGone) ==
  worker' = IF \/ worker = "dropDirectory" /\ directoryGone
               \/ worker = "dropMetadata" /\ metadataGone
              THEN "lost" ELSE worker

\* The directory is opened: after the worker looked at its metadata, or anywhere in the
\* round, in a way that leaves it with the count of a closed one.
RacedByOpen(closed) ==
  raced' = (raced \/ worker = "dropMetadata" \/ (closed /\ worker # "idle"))

\* A context is destroyed that leaves n references, s of them nobody's, and the handles
\* live; what the policy does not keep is erased, the directory first.
Close(n, s, live, dead, replaced) ==
  LET kept == Keeps(n, policy = "hold_closed_cache_for")
  IN  /\ count' = (IF kept THEN n ELSE 0) /\ surplus' = (IF kept THEN s ELSE 0)
      /\ metadata' = kept /\ directory' = kept /\ expired' = FALSE
      /\ handles' = (IF kept THEN live ELSE {})
      /\ stale' = stale \cup dead \cup (IF kept THEN {} ELSE live)
      /\ Forestall(replaced \/ ~kept, ~kept)

\* open_directory by a handler that destroys its context at the end: getattr, a
\* lookup in the directory, a change of its entries.  If the policy evicts, the
\* second drop_if_policy_requires is given a path that is the key of the entry the
\* first one erased, unless the directory was cached.
Use ==
  /\ CanOpen
  /\ Close(Plus(Added - 1), surplus + Added - 1 + Cardinality(Orphaned),
           handles \ Orphaned, Orphaned, Found # "cached")
  /\ RacedByOpen(FALSE)
  /\ undefined' = (~metadata' /\ Found # "cached")
  /\ UNCHANGED <<policy, exists>>

\* opendir hands the pointer to the kernel.
OpenDir(d) ==
  /\ CanOpen /\ d \notin handles \cup stale
  /\ count' = Plus(Added)
  /\ surplus' = surplus + Added - 1 + Cardinality(Orphaned)
  /\ metadata' = TRUE /\ directory' = TRUE
  /\ handles' = (handles \ Orphaned) \cup {d}
  /\ stale' = stale \cup Orphaned
  /\ expired' = (expired /\ metadata)
  /\ Forestall(Found # "cached", FALSE)
  /\ RacedByOpen(count' = 0)
  /\ UNCHANGED <<policy, exists, undefined>>

\* readdir and releasedir with a handle whose directory is gone; readdir with another
\* one counts nothing and changes nothing.
UseStale(d) ==
  /\ ~undefined /\ d \in stale
  /\ undefined' = TRUE
  /\ UNCHANGED <<policy, exists, metadata, directory, count, expired, handles, stale,
                 worker, opens, surplus, raced>>

\* Mutant: releasedir forgets the handle's reference.
ReleaseUncounted(d) ==
  /\ Alive /\ d \in handles
  /\ handles' = handles \ {d}
  /\ expired' = FALSE
  /\ UNCHANGED <<policy, exists, metadata, directory, count, stale, worker, undefined,
                 opens, surplus, raced>>

\* releasedir destroys a context made from the handle; the path is the kernel's.
ReleaseDir(d) ==
  /\ Alive /\ d \in handles
  /\ Close(Plus(-1), surplus, handles \ {d}, {}, FALSE)
  /\ UNCHANGED <<policy, exists, undefined, opens, raced>>

\* create_directory: one reference each from the constructor, the context of create
\* and the context of the directory, of which the last is counted down.
Mkdir ==
  /\ ~exists /\ ~metadata /\ Alive /\ opens < MaxOpens
  /\ exists' = TRUE /\ metadata' = TRUE /\ directory' = TRUE
  /\ count' = 2 /\ surplus' = 2 /\ expired' = FALSE
  /\ opens' = opens + 1
  /\ UNCHANGED <<policy, handles, stale, worker, undefined, raced>>

\* rmdir erases both entries, whoever has the directory open; the path it looks up
\* after the first is the key it erased, unless the directory was cached.
Rmdir ==
  /\ CanOpen
  /\ exists' = FALSE /\ metadata' = FALSE /\ directory' = FALSE
  /\ count' = 0 /\ surplus' = 0 /\ expired' = FALSE
  /\ handles' = {} /\ stale' = stale \cup handles
  /\ Forestall(TRUE, TRUE)
  /\ undefined' = (Found # "cached")
  /\ UNCHANGED <<policy, raced>>

\* chmod and chown open the cached metadata alone; its context counts up and down,
\* and drops the metadata alone.
SetAttr ==
  /\ metadata /\ ~undefined /\ opens < MaxOpens
  /\ opens' = opens + 1
  /\ LET kept == Keeps(count, policy = "hold_closed_cache_for")
     IN  /\ metadata' = kept
         /\ surplus' = IF kept THEN surplus ELSE 0
         /\ Forestall(FALSE, ~kept)
  /\ expired' = FALSE
  /\ UNCHANGED <<policy, exists, directory, count, handles, stale, undefined, raced>>

-----------------------------------------------------------------------------
(* Time, the worker, unmount.                                              *)

\* The metadata's time runs out.
Expire ==
  /\ metadata /\ ~expired /\ ~undefined
  /\ expired' = TRUE
  /\ raced' = (raced \/ worker # "idle")
  /\ UNCHANGED <<policy, exists, metadata, directory, count, handles, stale, worker,
                 undefined, opens, surplus>>

\* try_drop_directories asks for keep_cache, without a lock.
LookAtDirectory ==
  /\ worker = "idle" /\ Alive
  /\ worker' = IF directory /\ ~Keeps(count, Recent) THEN "dropDirectory" ELSE "between"
  /\ raced' = FALSE
  /\ UNCHANGED <<policy, exists, metadata, directory, count, expired, handles, stale,
                 undefined, opens, surplus>>

\* It erases the directory under the map's mutex, and does not ask again.
DropDirectory ==
  /\ worker = "dropDirectory" /\ ~undefined
  /\ worker' = "between"
  /\ directory' = FALSE
  /\ handles' = {} /\ stale' = stale \cup handles
  /\ surplus' = surplus + Cardinality(handles)
  /\ UNCHANGED <<policy, exists, metadata, count, expired, undefined, opens, raced>>

\* Mutant: the second sweep looks at the time only.
LookAtTime ==
  /\ worker = "between" /\ ~undefined
  /\ worker' = IF metadata /\ ~Recent THEN "dropMetadata" ELSE "idle"
  /\ UNCHANGED <<policy, exists, metadata, directory, count, expired, handles, stale,
                 undefined, opens, surplus, raced>>

\* try_drop_regular_files, which sweeps every metadata, asks for keep_cache.
LookAtMetadata ==
  /\ worker = "between" /\ ~undefined
  /\ worker' = IF metadata /\ ~Keeps(count, Recent) THEN "dropMetadata" ELSE "idle"
  /\ UNCHANGED <<policy, exists, metadata, directory, count, expired, handles, stale,
                 undefined, opens, surplus, raced>>

\* It erases the metadata, whoever refers to it by now.
DropMetadata ==
  /\ worker = "dropMetadata" /\ ~undefined
  /\ worker' = "idle"
  /\ metadata' = FALSE /\ count' = 0 /\ expired' = FALSE /\ surplus' = 0
  /\ UNCHANGED <<policy, exists, directory, handles, stale, undefined, opens, raced>>

\* The sweep goes on with the path of an entry that a handler erased.
DropLost ==
  /\ worker = "lost" /\ ~undefined
  /\ undefined' = TRUE
  /\ UNCHANGED <<policy, exists, metadata, directory, count, expired, handles, stale,
                 worker, opens, surplus, raced>>

\* The next look at a directory whose metadata is gone: keep_cache of the next sweep,
\* is_valid of open_directory, or the context of a handle.
UseDestroyed ==
  /\ ~undefined /\ directory /\ ~metadata
  /\ undefined' = TRUE
  /\ UNCHANGED <<policy, exists, metadata, directory, count, expired, handles, stale,
                 worker, opens, surplus, raced>>

Worker ==
  \/ LookAtDirectory \/ DropDirectory \/ LookAtMetadata \/ DropMetadata
  \/ DropLost \/ UseDestroyed

\* destroy, when the kernel has released every handle, joins the worker after its
\* round; and a new mount.
Remount ==
  /\ Alive /\ handles \cup stale = {} /\ worker = "idle"
  /\ metadata' = FALSE /\ directory' = FALSE /\ count' = 0 /\ expired' = FALSE
  /\ surplus' = 0
  /\ UNCHANGED <<policy, exists, handles, stale, worker, undefined, opens, raced>>

\* Once undefined behaviour happened nothing more is said of the process.
Next ==
  \/ Use \/ Mkdir \/ Rmdir \/ SetAttr
  \/ \E d \in Fds : OpenDir(d) \/ ReleaseDir(d) \/ UseStale(d)
  \/ Expire \/ Worker \/ Remount
  \/ undefined /\ UNCHANGED vars

\* The worker loops, the clock advances.
Fairness == WF_vars(Worker) /\ SF_vars(Expire)

Spec == Init /\ [][Next]_vars
FairSpec == Spec /\ Fairness

-----------------------------------------------------------------------------
(* Properties.  They speak of the process as long as nothing undefined happened. *)

TypeOK ==
  /\ policy \in Policies
  /\ exists \in BOOLEAN /\ metadata \in BOOLEAN /\ directory \in BOOLEAN /\ expired \in BOOLEAN
  /\ worker \in {"idle", "dropDirectory", "between", "dropMetadata", "lost"}
  /\ undefined \in BOOLEAN /\ raced \in BOOLEAN
  /\ count \in 0..(CountMod - 1)
  /\ handles \in SUBSET Fds /\ stale \in SUBSET (Fds \ handles)
  /\ opens \in 0..MaxOpens /\ surplus \in Int

\* open_count is what the handles and the references nobody counts down add up to, or,
\* when an uncounted re-read makes that negative, wraps around.
CountExact ==
  ~undefined /\ metadata
    => LET n == surplus + Cardinality(handles)
       IN  count = (IF n >= 0 THEN n ELSE n + CountMod)

\* A sweep never decides to drop a directory with a handle whose re-reads were all
\* counted, and such a directory is destroyed by rmdir, or by a sweep that decided
\* before an open that counted; in no other way.
HandlesStay ==
  [][/\ worker = "idle" /\ worker' = "dropDirectory" => handles = {} \/ surplus < 0
     /\ (\E d \in handles : d \in stale') =>
          \/ ~exists'
          \/ surplus < 0
          \/ worker = "dropDirectory" /\ worker' = "between" /\ count > 0]_vars

\* The metadata a cached directory refers to is there, unless, within one round of the
\* worker, its time ran out, opendir left it with the count of a closed one, or any
\* handler opened the directory between keep_cache and the erase of its metadata.
DirectoryKeepsMetadata == directory /\ ~undefined => metadata \/ raced

\* A directory nobody refers to leaves both maps, or is opened again, or something
\* undefined happened.
IdleIsDropped ==
  (metadata /\ count = 0) ~> ((~metadata /\ ~directory) \/ count > 0 \/ undefined)

=============================================================================
