--------------------------- MODULE WriteBackProofs ---------------------------
(***************************************************************************)
(* Theorems about WriteBack, for any files and directories, any number of  *)
(* changes and any threshold of try_flush.                                 *)
(***************************************************************************)
EXTENDS WriteBack, TLAPS

\* The worker flushes the map whose mutex it holds, and no handler is in its section;
\* it runs in a mounted process only.
Locked ==
  /\ handler.inside => ~(worker.at = "flush" /\ worker.map \in Needs(handler))
  /\ current # None => worker = At("flush", MapOf(current))
  /\ worker.at = "flush" => \A o \in todo : MapOf(o) = worker.map
  /\ process = "none" => worker.at = "none"

\* What the worker has serialised, and after the put what the backend has, is what the
\* object holds, unless the object was changed or removed since.
InFlightIsCurrent ==
  current # None /\ current \notin late =>
    /\ current \in exists
    /\ buffer = value[current]
    /\ current \notin todo => record[current] = buffer

\* Only what exists and is cached is marked to be written.
MarkedIsCached == dirty \cup entries \subseteq exists \cap cached

\* A handler that inserts found a record, one that erases has left no entry and no mark.
HandlerKnows ==
  /\ handler.do # "none" => handler.what \in Objects
  /\ handler.do = "open" => record[handler.what] # None
  /\ handler.do = "remove" => handler.what \notin exists \cup idle

UnmarkedIsWritten ==
  \A o \in exists \ (dirty \cup entries \cup late) : record[o] = value[o]

Ind ==
  /\ TypeOK /\ Locked /\ InFlightIsCurrent /\ MarkedIsCached /\ HandlerKnows
  /\ UnmarkedIsWritten /\ RemovedIsGone

LEMMA Constants ==
  /\ Objects = Files \cup Dirs /\ None \notin Objects /\ None \notin Nat
  /\ MaxChanges \in Nat /\ FailThreshold \in Nat /\ FailThreshold > 0
  BY ObjectsAssumption, BoundsAssumption DEF Objects

LEMMA MapType == ASSUME NEW o PROVE MapOf(o) \in Maps
  BY DEF MapOf, Maps

LEMMA NeedsMap == ASSUME NEW h PROVE MapOf(h.what) \in Needs(h)
  BY MapType DEF Needs

LEMMA Initially == Init => Ind
<1> SUFFICES ASSUME Init PROVE Ind
  OBVIOUS
<1> USE Constants DEF Init
<1>a. worker \in [at : {"none", "loop", "ended"}, map : {None}]
  BY DEF Outside, At
<1>b. handler \in [do : {"none", "create", "open", "remove"}, what : Objects \cup {None},
                   inside : BOOLEAN]
  BY DEF NoHandler
<1>c. fails \in [Maps -> 0 .. FailThreshold]
  BY SMT
<1>d. value \in [Objects -> 0 .. MaxChanges] /\ record \in [Objects -> 0 .. MaxChanges \cup {None}]
  BY SMT
<1>e. /\ current \in Objects \cup {None} /\ buffer \in 0 .. MaxChanges
      /\ stop \in {"garbage", "no", "yes"}
      /\ process \in {"none", "starting", "mounted", "flushing", "joining"}
  OBVIOUS
<1>f. undefined \in BOOLEAN
  OBVIOUS
<1>1. TypeOK
  BY <1>a, <1>b, <1>c, <1>d, <1>e, <1>f, Zenon DEF TypeOK
<1>2. Locked /\ InFlightIsCurrent /\ MarkedIsCached
  BY DEF Locked, InFlightIsCurrent, MarkedIsCached, NoHandler, Outside, At
<1>3. HandlerKnows /\ UnmarkedIsWritten /\ RemovedIsGone
  BY DEF HandlerKnows, UnmarkedIsWritten, RemovedIsGone, NoHandler
<1> QED BY <1>1, <1>2, <1>3 DEF Ind

LEMMA ChangeStep ==
  ASSUME Ind, NEW o \in Objects, Change(o) PROVE Ind'
<1> USE Constants DEF Change, Ind
<1>1. TypeOK'
  BY DEF TypeOK, Late, InFlight, flushing, shutdown
<1>2. Locked'
  BY DEF Locked, flushing, shutdown, Needs
<1>3. InFlightIsCurrent'
  BY DEF InFlightIsCurrent, Late, InFlight, flushing, TypeOK
<1>4. MarkedIsCached' /\ HandlerKnows'
  BY DEF MarkedIsCached, HandlerKnows, NoHandler, TypeOK
<1>5. UnmarkedIsWritten' /\ RemovedIsGone'
  BY DEF UnmarkedIsWritten, RemovedIsGone, Late, TypeOK
<1> QED BY <1>1, <1>2, <1>3, <1>4, <1>5

LEMMA ChangeEntriesStep ==
  ASSUME Ind, NEW o \in Objects, ChangeEntries(o) PROVE Ind'
<1> USE Constants DEF ChangeEntries, Ind
<1>1. TypeOK'
  BY DEF TypeOK, Late, InFlight, flushing, shutdown
<1>2. Locked'
  BY DEF Locked, flushing, shutdown, Needs
<1>3. InFlightIsCurrent'
  BY DEF InFlightIsCurrent, Late, InFlight, flushing, TypeOK
<1>4. MarkedIsCached' /\ HandlerKnows'
  BY DEF MarkedIsCached, HandlerKnows, NoHandler, TypeOK
<1>5. UnmarkedIsWritten' /\ RemovedIsGone'
  BY DEF UnmarkedIsWritten, RemovedIsGone, Late, TypeOK
<1> QED BY <1>1, <1>2, <1>3, <1>4, <1>5

LEMMA BeginStep ==
  ASSUME Ind, NEW o \in Objects, BeginCreate(o) \/ BeginOpen(o) PROVE Ind'
<1> USE Constants DEF BeginCreate, BeginOpen, Begin, Ind
<1>a. handler' \in [do : {"none", "create", "open", "remove"}, what : Objects \cup {None},
                    inside : BOOLEAN]
  <2>1. CASE BeginCreate(o)
    BY <2>1
  <2>2. CASE BeginOpen(o)
    BY <2>2
  <2> QED BY <2>1, <2>2
<1>1. TypeOK'
  BY <1>a DEF TypeOK, contents, flags, flushing, shutdown
<1>2. Locked'
  BY DEF Locked, flushing, shutdown
<1>3. InFlightIsCurrent' /\ MarkedIsCached'
  BY DEF InFlightIsCurrent, MarkedIsCached, contents, flags, flushing
<1>4. HandlerKnows'
  BY DEF HandlerKnows, contents
<1>5. UnmarkedIsWritten' /\ RemovedIsGone'
  BY DEF UnmarkedIsWritten, RemovedIsGone, contents, flags
<1> QED BY <1>1, <1>2, <1>3, <1>4, <1>5

\* A removal in the middle of a flush makes the object late.
LEMMA BeginRemoveStep ==
  ASSUME Ind, NEW o \in Objects, BeginRemove(o) PROVE Ind'
<1> USE Constants DEF BeginRemove, Begin, Ind
<1>1. TypeOK'
  BY DEF TypeOK, Late, InFlight, flushing, shutdown
<1>2. Locked'
  BY DEF Locked, flushing, shutdown
<1>3. InFlightIsCurrent'
  BY DEF InFlightIsCurrent, Late, InFlight, flushing, TypeOK
<1>4. MarkedIsCached' /\ HandlerKnows'
  BY DEF MarkedIsCached, HandlerKnows, TypeOK
<1>5. UnmarkedIsWritten' /\ RemovedIsGone'
  BY DEF UnmarkedIsWritten, RemovedIsGone, Late, TypeOK
<1> QED BY <1>1, <1>2, <1>3, <1>4, <1>5

LEMMA EnterStep == ASSUME Ind, Enter PROVE Ind'
<1> USE Constants DEF Enter, Ind
<1>1. TypeOK'
  BY DEF TypeOK, contents, flags, flushing, shutdown
<1>2. Needs(handler') = Needs(handler)
  BY DEF Needs, TypeOK
<1>3. Locked'
  BY <1>2 DEF Locked, flushing, shutdown
<1>4. HandlerKnows'
  BY DEF HandlerKnows, TypeOK, contents
<1>5. InFlightIsCurrent' /\ MarkedIsCached' /\ UnmarkedIsWritten' /\ RemovedIsGone'
  BY DEF InFlightIsCurrent, MarkedIsCached, UnmarkedIsWritten, RemovedIsGone,
     contents, flags, flushing
<1> QED BY <1>1, <1>3, <1>4, <1>5

\* The worker flushes nothing of a map whose mutex the handler holds.
LEMMA LeaveStep == ASSUME Ind, Leave PROVE Ind'
<1> DEFINE o == handler.what
<1> USE Constants DEF Leave, Ind
<1>1. o \in Objects /\ handler.do \in {"create", "open", "remove"}
  BY DEF HandlerKnows
<1>2. current # o
  BY <1>1, NeedsMap, Constants DEF Locked, At
<1>3. TypeOK'
  BY <1>1 DEF TypeOK, NoHandler, HandlerKnows, flags, flushing, shutdown
<1>4. Locked'
  BY DEF Locked, NoHandler, flushing, shutdown
<1>5. InFlightIsCurrent'
  BY <1>1, <1>2 DEF InFlightIsCurrent, TypeOK, flags, flushing
<1>6. MarkedIsCached'
  BY <1>1 DEF MarkedIsCached, HandlerKnows, TypeOK, flags
<1>7. HandlerKnows'
  BY DEF HandlerKnows, NoHandler
<1>8. UnmarkedIsWritten' /\ RemovedIsGone'
  BY <1>1 DEF UnmarkedIsWritten, RemovedIsGone, HandlerKnows, TypeOK, flags
<1> QED BY <1>3, <1>4, <1>5, <1>6, <1>7, <1>8

\* Steps that move a thread, and touch no object.
LEMMA MountStep == ASSUME Ind, Mount PROVE Ind'
<1> USE Constants DEF Mount, Outside, At, Ind
<1>1. TypeOK'
  BY DEF TypeOK, contents, flags, flushing, shutdown
<1>2. Locked' /\ InFlightIsCurrent'
  BY DEF Locked, InFlightIsCurrent, contents, flushing, shutdown, TypeOK
<1>3. MarkedIsCached' /\ HandlerKnows'
  BY DEF MarkedIsCached, HandlerKnows, contents, flags
<1>4. UnmarkedIsWritten' /\ RemovedIsGone'
  BY DEF UnmarkedIsWritten, RemovedIsGone, contents, flags
<1> QED BY <1>1, <1>2, <1>3, <1>4

LEMMA InitialiseStep == ASSUME Ind, Initialise PROVE Ind'
<1> USE Constants DEF Initialise, Ind
<1>1. TypeOK'
  BY DEF TypeOK, contents, flags, flushing, shutdown
<1>2. Locked' /\ InFlightIsCurrent'
  BY DEF Locked, InFlightIsCurrent, contents, flushing, shutdown
<1>3. MarkedIsCached' /\ HandlerKnows'
  BY DEF MarkedIsCached, HandlerKnows, contents, flags
<1>4. UnmarkedIsWritten' /\ RemovedIsGone'
  BY DEF UnmarkedIsWritten, RemovedIsGone, contents, flags
<1> QED BY <1>1, <1>2, <1>3, <1>4

LEMMA ExpireStep == ASSUME Ind, NEW o \in Objects, Expire(o) PROVE Ind'
<1> USE Constants DEF Expire, Ind
<1>1. TypeOK'
  BY DEF TypeOK, contents, flags, flushing, shutdown
<1>2. Locked' /\ InFlightIsCurrent'
  BY DEF Locked, InFlightIsCurrent, contents, flushing, shutdown
<1>3. MarkedIsCached' /\ HandlerKnows'
  BY DEF MarkedIsCached, HandlerKnows, contents, flags
<1>4. UnmarkedIsWritten' /\ RemovedIsGone'
  BY DEF UnmarkedIsWritten, RemovedIsGone, contents, flags
<1> QED BY <1>1, <1>2, <1>3, <1>4

LEMMA LoopStep == ASSUME Ind, WorkerLoop PROVE Ind'
<1> USE Constants DEF WorkerLoop, Outside, At, Ind
<1>1. TypeOK'
  BY DEF TypeOK, contents, flags, flushing, shutdown, Maps
<1>2. Locked' /\ InFlightIsCurrent'
  BY DEF Locked, InFlightIsCurrent, contents, flushing, shutdown, TypeOK
<1>3. MarkedIsCached' /\ HandlerKnows'
  BY DEF MarkedIsCached, HandlerKnows, contents, flags
<1>4. UnmarkedIsWritten' /\ RemovedIsGone'
  BY DEF UnmarkedIsWritten, RemovedIsGone, contents, flags
<1> QED BY <1>1, <1>2, <1>3, <1>4

LEMMA KeepStep == ASSUME Ind, NEW o \in Objects, Keep(o) PROVE Ind'
<1> USE Constants DEF Keep, At, Ind
<1>1. TypeOK'
  BY DEF TypeOK, contents, flags, flushing, shutdown
<1>2. Locked' /\ InFlightIsCurrent'
  BY DEF Locked, InFlightIsCurrent, contents, flushing, shutdown
<1>3. MarkedIsCached' /\ HandlerKnows'
  BY DEF MarkedIsCached, HandlerKnows, contents, flags
<1>4. UnmarkedIsWritten' /\ RemovedIsGone'
  BY DEF UnmarkedIsWritten, RemovedIsGone, contents, flags
<1> QED BY <1>1, <1>2, <1>3, <1>4

LEMMA SweepEndStep == ASSUME Ind, SweepEnd PROVE Ind'
<1> USE Constants DEF SweepEnd, GoTo, Outside, At, Ind
<1>1. TypeOK'
  BY DEF TypeOK, contents, flags, flushing, shutdown, Maps
<1>2. Locked' /\ InFlightIsCurrent'
  BY DEF Locked, InFlightIsCurrent, contents, flushing, shutdown, TypeOK
<1>3. MarkedIsCached' /\ HandlerKnows'
  BY DEF MarkedIsCached, HandlerKnows, contents, flags
<1>4. UnmarkedIsWritten' /\ RemovedIsGone'
  BY DEF UnmarkedIsWritten, RemovedIsGone, contents, flags
<1> QED BY <1>1, <1>2, <1>3, <1>4

LEMMA DestroyStep == ASSUME Ind, Destroy PROVE Ind'
<1> USE Constants DEF Destroy, Ind
<1>1. TypeOK'
  BY DEF TypeOK, contents, flags, flushing, shutdown
<1>2. Locked' /\ InFlightIsCurrent'
  BY DEF Locked, InFlightIsCurrent, contents, flushing, shutdown
<1>3. MarkedIsCached' /\ HandlerKnows'
  BY DEF MarkedIsCached, HandlerKnows, contents, flags
<1>4. UnmarkedIsWritten' /\ RemovedIsGone'
  BY DEF UnmarkedIsWritten, RemovedIsGone, contents, flags
<1> QED BY <1>1, <1>2, <1>3, <1>4

LEMMA StopStep == ASSUME Ind, Stop PROVE Ind'
<1> USE Constants DEF Stop, Ind
<1>1. TypeOK'
  BY DEF TypeOK, contents, flags, flushing, shutdown
<1>2. Locked' /\ InFlightIsCurrent'
  BY DEF Locked, InFlightIsCurrent, contents, flushing, shutdown
<1>3. MarkedIsCached' /\ HandlerKnows'
  BY DEF MarkedIsCached, HandlerKnows, contents, flags
<1>4. UnmarkedIsWritten' /\ RemovedIsGone'
  BY DEF UnmarkedIsWritten, RemovedIsGone, contents, flags
<1> QED BY <1>1, <1>2, <1>3, <1>4

\* A flush of a map begins, or is given up, when no object is in flight.
LEMMA GoToStep ==
  ASSUME Ind, NEW m \in Maps, worker.at \notin {"flush", "none"},
         \/ GoTo(At("flush", m)) /\ ~HandlerHolds(m)
         \/ GoTo(At("wait", m))
         \/ GoTo(After(m)),
         fails' \in [Maps -> 0 .. FailThreshold],
         UNCHANGED <<cached, contents, flags, idle, handler, current, buffer, shutdown>>
  PROVE  Ind'
<1> USE Constants DEF Ind, GoTo, At, After
<1>1. TypeOK'
  BY DEF TypeOK, contents, flags, shutdown, Maps
<1>2. current = None
  BY DEF Locked
<1>3. Locked'
  BY <1>2 DEF Locked, HandlerHolds, shutdown
<1>4. InFlightIsCurrent'
  BY <1>2 DEF InFlightIsCurrent
<1>5. MarkedIsCached' /\ HandlerKnows'
  BY DEF MarkedIsCached, HandlerKnows, contents, flags
<1>6. UnmarkedIsWritten' /\ RemovedIsGone'
  BY DEF UnmarkedIsWritten, RemovedIsGone, contents, flags
<1> QED BY <1>1, <1>3, <1>4, <1>5, <1>6

LEMMA TryFlushStep == ASSUME Ind, NEW m \in Maps, TryFlush(m) PROVE Ind'
<1>1. worker.at \notin {"flush", "none"}
  BY DEF TryFlush, At
<1>2. fails' \in [Maps -> 0 .. FailThreshold]
  BY Constants DEF Ind, TypeOK, TryFlush, GiveUp, BeginFlush
<1>3. \/ GoTo(At("flush", m)) /\ ~HandlerHolds(m)
      \/ GoTo(At("wait", m))
      \/ GoTo(After(m))
  BY DEF TryFlush, GiveUp, BeginFlush
<1> QED
  BY <1>1, <1>2, <1>3, GoToStep DEF TryFlush

LEMMA WaitFlushStep == ASSUME Ind, NEW m \in Maps, WaitFlush(m) PROVE Ind'
<1>1. worker.at \notin {"flush", "none"}
  BY DEF WaitFlush, At
<1>2. fails' \in [Maps -> 0 .. FailThreshold]
  BY Constants DEF Ind, TypeOK, WaitFlush, BeginFlush
<1> QED
  BY <1>1, <1>2, GoToStep DEF WaitFlush, BeginFlush

\* The three steps of the worker on one object.
LEMMA SerialiseStep == ASSUME Ind, NEW o \in Objects, Serialise(o) PROVE Ind'
<1> USE Constants DEF Serialise, Ind
<1>1. TypeOK'
  BY DEF TypeOK, flags, shutdown
<1>2. Locked'
  BY DEF Locked, TypeOK, At, Maps, shutdown
<1>3. InFlightIsCurrent'
  BY DEF InFlightIsCurrent, MarkedIsCached
<1>4. MarkedIsCached' /\ HandlerKnows'
  BY DEF MarkedIsCached, HandlerKnows, flags
<1>5. UnmarkedIsWritten' /\ RemovedIsGone'
  BY DEF UnmarkedIsWritten, RemovedIsGone, MarkedIsCached, flags
<1> QED BY <1>1, <1>2, <1>3, <1>4, <1>5

LEMMA PutRecordStep == ASSUME Ind, PutRecord PROVE Ind'
<1> USE Constants DEF PutRecord, Ind
<1>1. TypeOK'
  BY DEF TypeOK, flags, shutdown
<1>2. Locked'
  BY DEF Locked, shutdown
<1>3. InFlightIsCurrent'
  BY DEF InFlightIsCurrent, TypeOK
<1>4. MarkedIsCached' /\ HandlerKnows'
  BY DEF MarkedIsCached, HandlerKnows, TypeOK, flags
<1>5. UnmarkedIsWritten' /\ RemovedIsGone'
  BY DEF UnmarkedIsWritten, RemovedIsGone, InFlightIsCurrent, TypeOK, flags
<1> QED BY <1>1, <1>2, <1>3, <1>4, <1>5

LEMMA MarkCleanStep == ASSUME Ind, MarkClean PROVE Ind'
<1> USE Constants DEF MarkClean, Ind
<1>1. TypeOK'
  BY DEF TypeOK, contents, shutdown
<1>2. Locked' /\ InFlightIsCurrent'
  BY DEF Locked, InFlightIsCurrent, shutdown
<1>3. MarkedIsCached' /\ HandlerKnows'
  BY DEF MarkedIsCached, HandlerKnows, contents
<1>4. UnmarkedIsWritten' /\ RemovedIsGone'
  BY DEF UnmarkedIsWritten, RemovedIsGone, InFlightIsCurrent, contents
<1> QED BY <1>1, <1>2, <1>3, <1>4

LEMMA FlushEndStep == ASSUME Ind, FlushEnd PROVE Ind'
<1> USE Constants DEF FlushEnd, GoTo, After, At, Ind
<1>1. TypeOK'
  BY DEF TypeOK, contents, flags, shutdown, Maps
<1>2. Locked' /\ InFlightIsCurrent'
  BY DEF Locked, InFlightIsCurrent, shutdown
<1>3. MarkedIsCached' /\ HandlerKnows'
  BY DEF MarkedIsCached, HandlerKnows, contents, flags
<1>4. UnmarkedIsWritten' /\ RemovedIsGone'
  BY DEF UnmarkedIsWritten, RemovedIsGone, contents, flags
<1> QED BY <1>1, <1>2, <1>3, <1>4

\* Destructors write what is marked.
LEMMA DropStep == ASSUME Ind, NEW o \in Objects, Drop(o) PROVE Ind'
<1> USE Constants DEF Drop, Written, At, Ind
<1>1. current = None
  BY DEF Locked
<1>2. TypeOK'
  BY DEF TypeOK
<1>3. Locked' /\ InFlightIsCurrent'
  BY <1>1 DEF Locked, InFlightIsCurrent
<1>4. MarkedIsCached' /\ HandlerKnows'
  BY DEF MarkedIsCached, HandlerKnows, TypeOK
<1>5. UnmarkedIsWritten' /\ RemovedIsGone'
  BY DEF UnmarkedIsWritten, RemovedIsGone, MarkedIsCached, TypeOK
<1> QED BY <1>2, <1>3, <1>4, <1>5

LEMMA FlushAllStep == ASSUME Ind, NEW o \in Objects, FlushAll(o) PROVE Ind'
<1> USE Constants DEF FlushAll, Ind
<1>1. TypeOK'
  BY DEF TypeOK, flags, flushing
<1>2. Locked'
  BY DEF Locked, flushing
<1>3. InFlightIsCurrent'
  BY DEF InFlightIsCurrent, TypeOK, flushing
<1>4. MarkedIsCached' /\ HandlerKnows'
  BY DEF MarkedIsCached, HandlerKnows, TypeOK, flags
<1>5. UnmarkedIsWritten' /\ RemovedIsGone'
  BY DEF UnmarkedIsWritten, RemovedIsGone, MarkedIsCached, TypeOK, flags
<1> QED BY <1>1, <1>2, <1>3, <1>4, <1>5

LEMMA JoinStep == ASSUME Ind, Join PROVE Ind'
<1> USE Constants DEF Join, Written, Outside, At, Ind
<1>1. current = None
  BY DEF Locked
<1>2. TypeOK'
  BY DEF TypeOK, flushing
<1>3. Locked' /\ InFlightIsCurrent'
  BY <1>1 DEF Locked, InFlightIsCurrent, flushing
<1>4. MarkedIsCached' /\ HandlerKnows'
  BY DEF MarkedIsCached, HandlerKnows, TypeOK
<1>5. UnmarkedIsWritten' /\ RemovedIsGone'
  BY DEF UnmarkedIsWritten, RemovedIsGone, MarkedIsCached, TypeOK
<1> QED BY <1>2, <1>3, <1>4, <1>5

LEMMA Stutters == ASSUME Ind, UNCHANGED vars PROVE Ind'
  BY DEF Ind, TypeOK, Locked, InFlightIsCurrent, MarkedIsCached, HandlerKnows,
     UnmarkedIsWritten, RemovedIsGone, Needs, vars, contents, flags, flushing, shutdown

LEMMA Inductive == Ind /\ [Next]_vars => Ind'
<1> SUFFICES ASSUME Ind, [Next]_vars PROVE Ind'
  OBVIOUS
<1>1. CASE Handler
  BY <1>1, ChangeStep, ChangeEntriesStep, BeginStep, BeginRemoveStep, EnterStep, LeaveStep DEF Handler
<1>2. CASE Worker
  BY <1>2, LoopStep, TryFlushStep, WaitFlushStep, SerialiseStep, PutRecordStep, MarkCleanStep,
     FlushEndStep, DropStep, KeepStep, SweepEndStep DEF Worker, FlushStep
<1>3. CASE Main
  BY <1>3, MountStep, InitialiseStep, DestroyStep, FlushAllStep, StopStep, JoinStep DEF Main
<1>4. CASE \E o \in Objects : Expire(o)
  BY <1>4, ExpireStep
<1>5. CASE UNCHANGED vars
  BY <1>5, Stutters
<1> QED BY <1>1, <1>2, <1>3, <1>4, <1>5 DEF Next

LEMMA Invariant == Spec => []Ind
  BY Initially, Inductive, PTL DEF Spec

-----------------------------------------------------------------------------
(* The theorems.                                                           *)

\* The variables of WriteBack keep their types.
THEOREM TypeCorrect == Spec => []TypeOK
<1>1. Ind => TypeOK
  BY DEF Ind
<1> QED BY <1>1, Invariant, PTL

\* What is not marked to be written is on the backend, whatever flush, sweep, removal,
\* reload and unmount ran next to each other, unless it was changed in the flush itself
\* (custom/metadata.impl.hpp:35-45).
THEOREM CleanIsAlwaysWritten == Spec => []CleanIsWritten
<1>1. Ind => CleanIsWritten
  BY DEF Ind, UnmarkedIsWritten, CleanIsWritten
<1> QED BY <1>1, Invariant, PTL

\* No flush, sweep or unmount brings the record of a removed object back, unless the
\* removal came into the flush itself (cache_store.impl.hpp:96-111, 212-231).
THEOREM RemovedStaysGone == Spec => []RemovedIsGone
<1>1. Ind => RemovedIsGone
  BY DEF Ind
<1> QED BY <1>1, Invariant, PTL

=============================================================================
