----------------------------- MODULE WriteBack -----------------------------
(***************************************************************************)
(* How what handlers change gets to the backend: the background worker of  *)
(* cache_store with its try_flush, its sweeps and the mutexes of the two   *)
(* maps, the handlers that change, insert and erase entries next to it,    *)
(* the destruction of super_object and cache_store at unmount, and a crash.*)
(* An object is a regular file's metadata, in the map "cache", or a        *)
(* directory with its metadata, in "directory_cache".                      *)
(*                                                                         *)
(* The worker's flush holds the map's mutex and not the object's, so its   *)
(* steps on one object -- serialise, put, dirty = false -- are apart.      *)
(***************************************************************************)
EXTENDS Naturals, FiniteSets

CONSTANTS
  Files,          \* regular files
  Dirs,           \* directories
  FailThreshold,  \* fail_threshold: 5 in the code
  MaxChanges,     \* bound: changes of one object
  None            \* no record, no object

Objects == Files \cup Dirs
Maps == {"cache", "directory_cache"}
MapOf(o) == IF o \in Files THEN "cache" ELSE "directory_cache"

ASSUME ObjectsAssumption == IsFiniteSet(Objects) /\ Files \cap Dirs = {} /\ None \notin Objects
ASSUME BoundsAssumption ==
  FailThreshold \in Nat \ {0} /\ MaxChanges \in Nat /\ None \notin Nat

VARIABLES
  exists,     \* objects an entry leads to
  cached,     \* objects in their map
  value,      \* version of each object's contents: fields, or files and fields
  dirty,      \* metadata.dirty
  entries,    \* directory.dirty
  idle,       \* cached objects keep_cache would not keep
  record,     \* backend: the version on it, None without a record
  handler,    \* the handler that inserts or erases: what, of what, in the section?
  worker,     \* where background_worker_main is: [at, map], the map its step is about
  todo,       \* what the worker's iteration has still to visit
  current,    \* the object it is flushing
  buffer,     \* what it serialised
  fails,      \* try_flush's fail counts
  stop,       \* stop_background_worker, "garbage" before it is initialised
  process,    \* none, starting, mounted, flushing, joining
  torn,       \* objects destroy's flush_all has still to visit
  undefined,  \* the worker erased an entry of the map flush_all iterates over
  late        \* ghost: changed or removed while the worker flushed it

vars == <<exists, cached, value, dirty, entries, idle, record, handler, worker, todo,
          current, buffer, fails, stop, process, torn, undefined, late>>

contents == <<exists, value, record, late>>
flags    == <<dirty, entries>>
flushing == <<todo, current, buffer>>
shutdown == <<stop, process, torn, undefined>>

At(place, m) == [at |-> place, map |-> m]
Outside(place) == At(place, None)

NoHandler == [do |-> "none", what |-> None, inside |-> FALSE]

Init ==
  /\ exists = {} /\ cached = {} /\ dirty = {} /\ entries = {} /\ idle = {} /\ late = {}
  /\ value = [o \in Objects |-> 0] /\ record = [o \in Objects |-> None]
  /\ handler = NoHandler
  /\ worker = Outside("none") /\ todo = {} /\ current = None /\ buffer = 0
  /\ fails = [m \in Maps |-> 0]
  /\ stop = "garbage" /\ process = "none" /\ torn = {} /\ undefined = FALSE

\* Where the worker goes after a flush of map m, done or given up.
After(m) == At(IF m = "cache" THEN "try" ELSE "sweep", "directory_cache")

-----------------------------------------------------------------------------
(* Mount: the worker is constructed before stop_background_worker.         *)

Mount ==
  /\ process = "none"
  /\ process' = "starting" /\ worker' = Outside("loop") /\ stop' = "garbage"
  /\ UNCHANGED <<cached, contents, flags, idle, handler, flushing, fails, torn, undefined>>

Initialise ==
  /\ process = "starting"
  /\ process' = "mounted" /\ stop' = "no"
  /\ UNCHANGED <<cached, contents, flags, idle, handler, worker, flushing, fails, torn, undefined>>

-----------------------------------------------------------------------------
(* Handlers.  One handler at a time is inside the section of a map, the    *)
(* others wait for the same mutex.                                         *)

\* mkdir and rmdir lock both mutexes, which scoped_lock takes together.
Needs(h) == IF h.what \in Files \/ h.do = "open" THEN {MapOf(h.what)} ELSE Maps
HandlerHolds(m) == handler.inside /\ m \in Needs(handler)

\* The worker serialised o and will still put it or mark it clean.
InFlight(o) == current = o

Late(o) == late' = IF InFlight(o) THEN late \cup {o} ELSE late

\* write, truncate, chmod and chown of a file; chmod and chown of a directory.
\* They hold the metadata mutex, and find the object in its map.
Change(o) ==
  /\ process = "mounted" /\ o \in cached /\ handler.what # o /\ value[o] < MaxChanges
  /\ value' = [value EXCEPT ![o] = @ + 1]
  /\ dirty' = dirty \cup {o}
  /\ idle' = idle \ {o}
  /\ Late(o)
  /\ UNCHANGED <<exists, cached, entries, record, handler, worker, flushing, fails, shutdown>>

\* add_file, remove_file and move_entry leave the metadata of the directory alone.
ChangeEntries(o) ==
  /\ process = "mounted" /\ o \in Dirs \cap cached /\ handler.what # o /\ value[o] < MaxChanges
  /\ value' = [value EXCEPT ![o] = @ + 1]
  /\ entries' = entries \cup {o}
  /\ idle' = idle \ {o}
  /\ Late(o)
  /\ UNCHANGED <<exists, cached, dirty, record, handler, worker, flushing, fails, shutdown>>

Begin(what, o) ==
  /\ process = "mounted" /\ handler = NoHandler
  /\ handler' = [do |-> what, what |-> o, inside |-> FALSE]

\* create and mkdir of something that is neither cached nor on the backend; open of
\* something that is on the backend.
BeginCreate(o) ==
  /\ o \notin exists \cup cached /\ record[o] = None
  /\ Begin("create", o)
  /\ UNCHANGED <<cached, contents, flags, idle, worker, flushing, fails, shutdown>>

BeginOpen(o) ==
  /\ o \in exists \ cached /\ record[o] # None
  /\ Begin("open", o)
  /\ UNCHANGED <<cached, contents, flags, idle, worker, flushing, fails, shutdown>>

\* Mutant: the record is removed and the metadata stays valid and dirty.
BeginRemoveDirty(o) ==
  /\ o \in cached
  /\ Begin("remove", o)
  /\ exists' = exists \ {o}
  /\ record' = [record EXCEPT ![o] = None]
  /\ idle' = idle \ {o}
  /\ Late(o)
  /\ UNCHANGED <<cached, value, dirty, entries, worker, flushing, fails, shutdown>>

\* remove and remove_directory: the record goes at once, without the map's mutex.
BeginRemove(o) ==
  /\ o \in cached
  /\ Begin("remove", o)
  /\ exists' = exists \ {o}
  /\ record' = [record EXCEPT ![o] = None]
  /\ dirty' = dirty \ {o} /\ entries' = entries \ {o}
  /\ idle' = idle \ {o}
  /\ Late(o)
  /\ UNCHANGED <<cached, value, worker, flushing, fails, shutdown>>

\* unique_lock(cache_mutex) or (directory_cache_mutex).
Enter ==
  /\ handler # NoHandler /\ ~handler.inside /\ ~(worker.at = "flush" /\ worker.map \in Needs(handler))
  /\ handler' = [handler EXCEPT !.inside = TRUE]
  /\ UNCHANGED <<cached, contents, flags, idle, worker, flushing, fails, shutdown>>

\* The emplace or the erase, and the unlock.
Leave ==
  /\ handler.inside
  /\ handler' = NoHandler
  /\ LET o == handler.what IN
     \/ /\ handler.do = "create"
        /\ exists' = exists \cup {o}
        /\ cached' = cached \cup {o} /\ dirty' = dirty \cup {o}
        /\ entries' = entries \cup (Dirs \cap {o})
        /\ value' = [value EXCEPT ![o] = 0]
        /\ late' = late \ {o}
     \/ /\ handler.do = "open"
        /\ cached' = cached \cup {o}
        /\ value' = [value EXCEPT ![o] = record[o]]
        /\ UNCHANGED <<exists, flags, late>>
     \/ /\ handler.do = "remove"
        /\ cached' = cached \ {o}
        /\ UNCHANGED <<exists, flags, value, late>>
  /\ UNCHANGED <<idle, record, worker, flushing, fails, shutdown>>

\* 30 seconds after the last close, of an object that has no surplus reference.
Expire(o) ==
  /\ process \in {"mounted", "flushing"} /\ o \in cached \ idle /\ handler.what # o
  /\ idle' = idle \cup {o}
  /\ UNCHANGED <<cached, contents, flags, handler, worker, flushing, fails, shutdown>>

-----------------------------------------------------------------------------
(* background_worker_main.                                                 *)

\* while (!stop_background_worker), which may be read before it has a value.
WorkerLoop ==
  /\ worker.at = "loop"
  /\ \/ stop \in {"no", "garbage"} /\ worker' = At("try", "cache")
     \/ stop \in {"yes", "garbage"} /\ worker' = Outside("ended")
  /\ UNCHANGED <<cached, contents, flags, idle, handler, flushing, fails, shutdown>>

\* An iteration visits the objects that are in the map when it starts.
GoTo(w) ==
  /\ worker' = w
  /\ todo' = IF w.at \in {"flush", "sweep"} THEN {o \in cached : MapOf(o) = w.map} ELSE {}

BeginFlush(m) == GoTo(At("flush", m)) /\ fails' = [fails EXCEPT ![m] = 0]

\* Mutant: try_flush never waits.
GiveUpAlways(m) ==
  /\ fails' = [fails EXCEPT ![m] = IF @ + 1 >= FailThreshold THEN 0 ELSE @ + 1]
  /\ GoTo(After(m))

\* Mutant: the failures are counted and nothing else.
GiveUpCounting(m) ==
  /\ fails' = [fails EXCEPT ![m] = @ + 1]
  /\ GoTo(After(m))

\* The lock was not had: after fail_threshold times in a row it is waited for.
GiveUp(m) ==
  /\ fails' = [fails EXCEPT ![m] = IF @ + 1 >= FailThreshold THEN @ ELSE @ + 1]
  /\ GoTo(IF fails[m] + 1 >= FailThreshold THEN At("wait", m) ELSE After(m))

\* shared_lock(mutex, try_to_lock).
TryFlush(m) ==
  /\ worker = At("try", m)
  /\ IF HandlerHolds(m) THEN GiveUp(m) ELSE BeginFlush(m)
  /\ UNCHANGED <<cached, contents, flags, idle, handler, current, buffer, shutdown>>

WaitFlush(m) ==
  /\ worker = At("wait", m) /\ ~HandlerHolds(m)
  /\ BeginFlush(m)
  /\ UNCHANGED <<cached, contents, flags, idle, handler, current, buffer, shutdown>>

\* flush_regular_files and flush_directories look at metadata.dirty.
Serialise(o) ==
  /\ worker.at = "flush" /\ current = None /\ o \in todo
  /\ IF o \in dirty
       THEN /\ current' = o /\ buffer' = value[o] /\ late' = late \ {o}
            /\ UNCHANGED todo
       ELSE todo' = todo \ {o} /\ UNCHANGED <<current, buffer, late>>
  /\ UNCHANGED <<exists, cached, value, record, flags, idle, handler, worker, fails, shutdown>>

\* The put, then dirty = false; a removal may come before either.
PutRecord ==
  /\ current # None /\ current \in todo
  /\ record' = [record EXCEPT ![current] = buffer]
  /\ todo' = todo \ {current}
  /\ UNCHANGED <<exists, cached, value, late, flags, idle, handler, worker, current, buffer, fails, shutdown>>

MarkClean ==
  /\ current # None /\ current \notin todo
  /\ dirty' = dirty \ {current} /\ entries' = entries \ {current}
  /\ current' = None /\ buffer' = 0
  /\ UNCHANGED <<cached, contents, idle, handler, worker, todo, fails, shutdown>>

FlushEnd ==
  /\ worker.at = "flush" /\ todo = {} /\ current = None
  /\ GoTo(After(worker.map))
  /\ UNCHANGED <<cached, contents, flags, idle, handler, current, buffer, fails, shutdown>>

\* Mutant: ~directory looks at metadata.dirty only, as flush_directories does.
WrittenIfDirty(S) == [o \in Objects |-> IF o \in S \cap dirty THEN value[o] ELSE record[o]]

\* What the destructors of an object write.
Written(S) ==
  [o \in Objects |-> IF o \in S \cap (dirty \cup entries) THEN value[o] ELSE record[o]]

\* try_drop_directories and try_drop_regular_files: an entry that keep_cache does
\* not keep is erased under the map's mutex.
Drop(o) ==
  /\ worker = At("sweep", MapOf(o)) /\ o \in todo
  /\ o \in cached \cap idle /\ ~HandlerHolds(MapOf(o))
  /\ todo' = todo \ {o}
  /\ record' = Written({o})
  /\ cached' = cached \ {o} /\ idle' = idle \ {o}
  /\ dirty' = dirty \ {o} /\ entries' = entries \ {o}
  /\ undefined' = (undefined \/ process = "flushing")
  /\ UNCHANGED <<exists, value, late, handler, worker, current, buffer, fails, stop, process, torn>>

Keep(o) ==
  /\ worker = At("sweep", MapOf(o)) /\ o \in todo /\ o \notin cached \cap idle
  /\ todo' = todo \ {o}
  /\ UNCHANGED <<cached, contents, flags, idle, handler, worker, current, buffer, fails, shutdown>>

SweepEnd ==
  /\ worker.at = "sweep" /\ todo = {}
  /\ GoTo(IF worker.map = "directory_cache" THEN At("sweep", "cache") ELSE Outside("loop"))
  /\ UNCHANGED <<cached, contents, flags, idle, handler, current, buffer, fails, shutdown>>

-----------------------------------------------------------------------------
(* destroy: ~super_object, ~cache_store and the maps.                      *)

Destroy ==
  /\ process = "mounted" /\ handler = NoHandler
  /\ process' = "flushing" /\ torn' = cached
  /\ UNCHANGED <<cached, contents, flags, idle, handler, worker, flushing, fails, stop, undefined>>

\* flush_all, which takes no mutex.
FlushAll(o) ==
  /\ process = "flushing" /\ o \in torn
  /\ torn' = torn \ {o}
  /\ IF o \in dirty
       THEN /\ record' = [record EXCEPT ![o] = value[o]]
            /\ dirty' = dirty \ {o} /\ entries' = entries \ {o}
       ELSE UNCHANGED <<record, flags>>
  /\ UNCHANGED <<exists, cached, value, late, idle, handler, worker, flushing, fails,
                 stop, process, undefined>>

\* Mutant: the worker is joined without being told to stop.
StopForgotten ==
  /\ process = "flushing" /\ torn = {}
  /\ process' = "joining"
  /\ UNCHANGED <<cached, contents, flags, idle, handler, worker, flushing, fails,
                 stop, torn, undefined>>

Stop ==
  /\ process = "flushing" /\ torn = {}
  /\ process' = "joining" /\ stop' = "yes"
  /\ UNCHANGED <<cached, contents, flags, idle, handler, worker, flushing, fails, torn, undefined>>

\* join returned; the maps are destroyed, directory_cache first.
Join ==
  /\ process = "joining" /\ worker.at = "ended"
  /\ record' = Written(cached)
  /\ cached' = {} /\ dirty' = {} /\ entries' = {} /\ idle' = {}
  /\ process' = "none" /\ worker' = Outside("none") /\ stop' = "garbage"
  /\ fails' = [m \in Maps |-> 0]
  /\ UNCHANGED <<exists, value, late, handler, flushing, torn, undefined>>

-----------------------------------------------------------------------------
Handler ==
  \/ \E o \in Objects :
       \/ Change(o) \/ ChangeEntries(o)
       \/ BeginCreate(o) \/ BeginOpen(o) \/ BeginRemove(o)
  \/ Enter \/ Leave

FlushStep ==
  \/ \E m \in Maps : TryFlush(m)
  \/ \E o \in Objects : Serialise(o)
  \/ PutRecord \/ MarkClean \/ FlushEnd

Worker ==
  \/ WorkerLoop \/ FlushStep \/ SweepEnd
  \/ \E m \in Maps : WaitFlush(m)
  \/ \E o \in Objects : Drop(o) \/ Keep(o)

Main == Mount \/ Initialise \/ Destroy \/ Stop \/ Join \/ \E o \in Objects : FlushAll(o)

\* Once undefined behaviour happened nothing more is said of the process.
Next ==
  \/ ~undefined /\ (Handler \/ Worker \/ Main \/ \E o \in Objects : Expire(o))
  \/ undefined /\ UNCHANGED vars

\* Threads are scheduled; a mutex that is free again and again is taken.  The
\* kernel need not call destroy.
Fairness ==
  /\ SF_vars(~undefined /\ Worker)
  /\ SF_vars(~undefined /\ Enter) /\ WF_vars(~undefined /\ Leave)
  /\ WF_vars(~undefined /\ (Initialise \/ Stop \/ Join \/ \E o \in Objects : FlushAll(o)))

Spec == Init /\ [][Next]_vars
FairSpec == Spec /\ Fairness

-----------------------------------------------------------------------------
(* Properties.                                                             *)

\* Every variable has its type.
TypeOK ==
  /\ exists \subseteq Objects /\ cached \subseteq Objects /\ idle \subseteq cached
  /\ dirty \subseteq Objects /\ entries \subseteq Dirs /\ late \subseteq Objects
  /\ value \in [Objects -> 0 .. MaxChanges]
  /\ record \in [Objects -> 0 .. MaxChanges \cup {None}]
  /\ handler \in [do : {"none", "create", "open", "remove"}, what : Objects \cup {None},
                   inside : BOOLEAN]
  /\ worker \in [at : {"none", "loop", "ended"}, map : {None}]
               \cup [at : {"try", "wait", "flush", "sweep"}, map : Maps]
  /\ todo \subseteq Objects /\ torn \subseteq Objects
  /\ current \in Objects \cup {None} /\ buffer \in 0 .. MaxChanges
  /\ fails \in [Maps -> 0 .. FailThreshold]
  /\ stop \in {"garbage", "no", "yes"} /\ undefined \in BOOLEAN
  /\ process \in {"none", "starting", "mounted", "flushing", "joining"}

\* What an object holds is on the backend when nothing marks it to be written, and
\* also when it is not cached, after every sweep, unmount and reload; unless it was
\* changed between the worker's look at it and 'dirty = false'
\* (custom/metadata.impl.hpp:35-45, directory.impl.hpp:98-112).
CleanIsWritten ==
  ~undefined =>
    \A o \in exists \ (dirty \cup entries \cup late) : record[o] = value[o]

\* A removed object leaves no record behind, whether the removal ran next to a
\* flush, a sweep or an unmount; unless it came between the worker's look at the
\* object and its put (cache_store.impl.hpp:96-111, 212-231, 340-363).
RemovedIsGone == \A o \in Objects \ (exists \cup late) : record[o] = None

\* Metadata marked dirty is written however handlers keep the mutexes of the maps
\* busy, because try_flush waits after fail_threshold failures; unless the worker
\* read a stop_background_worker that had no value yet, or the entry is removed
\* (cache_store.impl.hpp:307-338, cache_store.hpp:66-67).
DirtyIsWritten ==
  \A o \in Objects : o \in cached \cap dirty ~> o \notin dirty \/ worker.at = "ended" \/ undefined

\* Once the kernel calls destroy the process ends: nothing the worker waits for is
\* held by the thread that joins it (cache_store.impl.hpp:19-22, 307-338).
UnmountEnds == process = "flushing" ~> process = "none" \/ undefined

=============================================================================
