-------------------------- MODULE OpenCountProofs --------------------------
(***************************************************************************)
(* Theorems about OpenCount, for any number of handles and any width of    *)
(* open_count.  Type correctness holds for any handler threads and         *)
(* operations; the validity of handles for the single handler thread of    *)
(* "-s", next to the worker; the exactness of open_count for that thread,  *)
(* and for any number of threads whose operations exclude each other.      *)
(***************************************************************************)
EXTENDS OpenCount, FiniteSetTheorems, TLAPS

\* TypeOK, with the surplus bounded by the failures that can lower it.
TypeInv == TypeOK /\ leaked \in -failures .. 1

\* The Boolean variables apart: the provers treat them separately.
Flags ==
  /\ exists \in BOOLEAN /\ cached \in BOOLEAN /\ expired \in BOOLEAN
  /\ fault \in BOOLEAN /\ moved \in BOOLEAN

LEMMA CountModIsPos == CountMod \in Nat /\ CountMod > 1
<1>1. Cardinality(Fds) \in Nat /\ Cardinality(Threads) \in Nat
  BY FS_CardinalityType, FdsAssumption, ThreadsAssumption
<1> QED
  BY <1>1, CountModAssumption

LEMMA TypeInvInit == Init => TypeInv
<1>1. Init => Flags
  BY Zenon DEF Init, Flags
<1> QED
  BY <1>1, CountModIsPos, FailuresAssumption DEF Init, Flags, TypeInv, TypeOK

LEMMA FlagsStep == Flags /\ [Next]_vars => Flags'
<1> SUFFICES ASSUME Flags, [Next]_vars PROVE Flags'
  OBVIOUS
<1> USE DEF Flags, object, ghosts
<1>1. ASSUME NEW t \in Threads, Begin(t) PROVE Flags'
  BY <1>1, Zenon DEF Begin, BeginOpen, BeginCreate, BeginPath, BeginHandle, Find,
                     Emplace
<1>2. ASSUME NEW t \in Threads, Continue(t) PROVE Flags'
  <2>1. CASE CheckValid(t) \/ Acquire(t) \/ CreateDone(t) \/ HandleDone(t)
             \/ CloseBegin(t) \/ Policy(t) \/ DropNothing(t)
    BY <2>1, Zenon DEF CheckValid, Acquire, CreateDone, HandleDone, CloseBegin,
                       Policy, DropNothing
  <2>2. CASE Load(t) \/ Increment(t) \/ HandleFail(t) \/ Decrement(t)
    BY <2>2, Zenon DEF Load, Emplace, Increment, HandleFail, Decrement
  <2>3. CASE DropEntry(t) \/ UnlinkErase(t) \/ Move(t) \/ UnlinkRemove(t)
             \/ UseAfterFree(t)
    BY <2>3, Zenon DEF DropEntry, UnlinkErase, UnlinkRemove, Move, EraseEntry,
                       Destroy, UseAfterFree
  <2> QED
    BY <1>2, <2>1, <2>2, <2>3 DEF Continue
<1>3. ASSUME Worker \/ Expire \/ UNCHANGED vars PROVE Flags'
  BY <1>3, Zenon DEF Worker, WorkerCheck, WorkerDrop, WorkerUseAfterFree, Expire,
                     vars
<1> QED
  BY <1>1, <1>2, <1>3 DEF Next

\* A step of a handler keeps the types: the pieces the actions are built from
\* do, whatever the thread and the place.
LEMMA TypeInvStep == TypeInv /\ [Next]_vars => TypeInv'
<1> SUFFICES ASSUME TypeInv, [Next]_vars PROVE TypeInv'
  OBVIOUS
<1>0. Flags'
  BY FlagsStep DEF Flags, TypeInv, TypeOK
<1> USE <1>0, CountModIsPos, FailuresAssumption
    DEF Flags, TypeInv, TypeOK, PathOps, HandleOps
<1>1. ASSUME NEW t \in Threads, NEW d \in Fds, BeginOpen(t, d) PROVE TypeInv'
  BY <1>1 DEF BeginOpen, Find, MayStart, Start, Goto, object, locks, ghosts
<1>2. ASSUME NEW t \in Threads, NEW d \in Fds, BeginCreate(t, d) PROVE TypeInv'
  BY <1>2 DEF BeginCreate, MayStart, Start, Goto, Emplace, object, locks, ghosts
<1>3. ASSUME NEW t \in Threads, NEW o \in PathOps, BeginPath(t, o) PROVE TypeInv'
  BY <1>3 DEF BeginPath, Find, MayStart, Start, Goto, object, locks, ghosts
<1>4. ASSUME NEW t \in Threads, NEW o \in HandleOps, NEW d \in Fds, BeginHandle(t, o, d)
      PROVE  TypeInv'
  BY <1>4 DEF BeginHandle, MayStart, Start, Goto, object, locks, ghosts
<1>5. ASSUME NEW t \in Threads, CheckValid(t) PROVE TypeInv'
  BY <1>5 DEF CheckValid, Goto, object, locks, ghosts
<1>6. ASSUME NEW t \in Threads, Load(t) PROVE TypeInv'
  BY <1>6 DEF Load, Emplace, Goto, object, locks, ghosts
<1>7. ASSUME NEW t \in Threads, Acquire(t) PROVE TypeInv'
  BY <1>7 DEF Acquire, Lock, Goto, object, ghosts
<1>8. ASSUME NEW t \in Threads, Increment(t) PROVE TypeInv'
  <2>1. (tmp[t] + 1) % CountMod \in 0 .. CountMod - 1
    OBVIOUS
  <2>2. fd' \in [Fds -> {"closed", "opening", "live", "stale"}]
    BY <1>8 DEF Increment
  <2> QED
    BY <1>8, <2>1, <2>2 DEF Increment, Return, Forget, Goto, locks, ghosts
<1>9. ASSUME NEW t \in Threads, CreateDone(t) PROVE TypeInv'
  <2>1. fd' \in [Fds -> {"closed", "opening", "live", "stale"}]
    BY <1>9 DEF CreateDone
  <2> QED
    BY <1>9, <2>1 DEF CreateDone, Unlock, Return, Forget, Goto, object, ghosts
<1>10. ASSUME NEW t \in Threads, HandleDone(t) PROVE TypeInv'
  BY <1>10 DEF HandleDone, Unlock, Return, Forget, Goto, object, ghosts
<1>11. ASSUME NEW t \in Threads, HandleFail(t) PROVE TypeInv'
  BY <1>11 DEF HandleFail, Goto, locks
<1>12. ASSUME NEW t \in Threads, CloseBegin(t) PROVE TypeInv'
  BY <1>12 DEF CloseBegin, Goto, object, locks, ghosts
<1>13. ASSUME NEW t \in Threads, Decrement(t) PROVE TypeInv'
  <2>1. (tmp[t] + CountMod - 1) % CountMod \in 0 .. CountMod - 1
    OBVIOUS
  <2> QED
    BY <1>13, <2>1 DEF Decrement, Unlock, Goto, ghosts
<1>14. ASSUME NEW t \in Threads, Policy(t) PROVE TypeInv'
  BY <1>14 DEF Policy, Return, Forget, Goto, object, locks, ghosts
<1>15. ASSUME NEW t \in Threads, EraseEntry(t), Return(t),
              UNCHANGED <<exists, fault, ghosts>>
       PROVE  TypeInv'
  BY <1>15 DEF EraseEntry, Destroy, Stale, Return, Goto, ghosts
<1>16. ASSUME NEW t \in Threads, DropNothing(t) PROVE TypeInv'
  BY <1>16 DEF DropNothing, Return, Forget, Goto, object, locks, ghosts
<1>17. ASSUME NEW t \in Threads, UnlinkRemove(t) PROVE TypeInv'
  BY <1>17 DEF UnlinkRemove, Unlock, Goto, object, ghosts
<1>18. ASSUME NEW t \in Threads, Move(t) PROVE TypeInv'
  BY <1>18 DEF Move, Destroy, Stale, Return, Goto
<1>19. ASSUME NEW t \in Threads, UseAfterFree(t) PROVE TypeInv'
  BY <1>19 DEF UseAfterFree, object, locks, ghosts
<1>20. ASSUME Worker PROVE TypeInv'
  BY <1>20 DEF Worker, WorkerCheck, WorkerDrop, WorkerUseAfterFree, Stale,
               object, locks, ghosts
<1>21. ASSUME Expire PROVE TypeInv'
  BY <1>21 DEF Expire, locks, ghosts
<1>22. ASSUME UNCHANGED vars PROVE TypeInv'
  BY <1>22 DEF vars
<1>23. ASSUME NEW t \in Threads, Begin(t) PROVE TypeInv'
  BY <1>23, <1>1, <1>2, <1>3, <1>4 DEF Begin
<1>24. ASSUME NEW t \in Threads, Continue(t) PROVE TypeInv'
  BY <1>24, <1>5, <1>6, <1>7, <1>8, <1>9, <1>10, <1>11, <1>12, <1>13, <1>14,
     <1>15, <1>16, <1>17, <1>18, <1>19 DEF Continue, DropEntry, UnlinkErase
<1> QED
  BY <1>20, <1>21, <1>22, <1>23, <1>24 DEF Next

\* Whatever handlers and worker do, every variable keeps its type: open_count
\* stays a size_t and the surplus never exceeds the one of the constructor.
THEOREM TypeCorrect == Spec => []TypeOK
<1>1. TypeInv => TypeOK
  BY DEF TypeInv
<1> QED
  BY <1>1, TypeInvInit, TypeInvStep, PTL DEF Spec

-----------------------------------------------------------------------------
(* One handler thread.                                                     *)

SingleHandler == \A t, u \in Threads : t = u

Undisturbed == failures = 0 /\ ~moved

\* Where a handler can be in each operation, and what it points to there.
PlaceOK(t) ==
  /\ pc[t] # "drop"
  /\ pc[t] = "idle" <=> op[t] = "none"
  /\ pc[t] \in {"idle", "miss"} => ref[t] = "none"
  /\ pc[t] \notin {"idle", "miss"} => ref[t] = "live" /\ cached
  /\ pc[t] \in {"found", "miss", "inc"} => op[t] \in PathOps
  /\ pc[t] \in {"dec", "policy"} => op[t] \in {"stat", "setattr", "release"}
  /\ pc[t] \in {"inc", "dec"} => tmp[t] = count
  /\ pc[t] = "erase" => op[t] = "unlink"
  /\ pc[t] = "use" => op[t] # "open"
  /\ op[t] \in {"open", "create"} => hnd[t] \in Fds /\ fd[hnd[t]] = "opening"
  /\ op[t] = "unlink" => \A d \in Fds : fd[d] # "live"
  /\ ref[t] # "stale"

\* The strengthening: an undisturbed file's object has its surplus reference,
\* is counted exactly, and is therefore never evictable.
Pinned ==
  /\ ~fault /\ wref = "none"
  /\ \A d \in Fds : fd[d] # "stale" /\ (fd[d] = "live" => cached)
  /\ cached => leaked = 1
  /\ cached => count = Cardinality(LiveFds) + Cardinality(Holders) + 1
  /\ \A t \in Threads : PlaceOK(t)

Ind == TypeInv /\ (Undisturbed => Pinned)

-----------------------------------------------------------------------------
(* With one handler t, Pinned speaks of t alone.                           *)

Counted(t) == ref[t] = "live" /\ HoldsReference(t)

PinnedFor(t) ==
  /\ ~fault /\ wref = "none"
  /\ \A d \in Fds : fd[d] # "stale" /\ (fd[d] = "live" => cached)
  /\ cached => leaked = 1
  /\ cached => count = Cardinality(LiveFds) + (IF Counted(t) THEN 1 ELSE 0) + 1
  /\ PlaceOK(t)

LEMMA OneHolder ==
  ASSUME SingleHandler, NEW t \in Threads
  PROVE  /\ Cardinality(Holders) = IF Counted(t) THEN 1 ELSE 0
         /\ Cardinality(Holders)' = IF Counted(t)' THEN 1 ELSE 0
<1>1. Holders = (IF Counted(t) THEN {t} ELSE {})
  BY DEF SingleHandler, Holders, Counted
<1>2. Holders' = (IF Counted(t)' THEN {t} ELSE {})
  BY DEF SingleHandler, Holders, Counted
<1>3. Cardinality({t}) = 1 /\ Cardinality({}) = 0
  BY FS_Singleton, FS_EmptySet
<1> QED
  BY <1>1, <1>2, <1>3

LEMMA OneThread ==
  ASSUME SingleHandler, NEW t \in Threads
  PROVE  (Pinned <=> PinnedFor(t)) /\ (Pinned' <=> PinnedFor(t)')
<1>1. (\A u \in Threads : PlaceOK(u)) <=> PlaceOK(t)
  BY Zenon DEF SingleHandler
<1>2. (\A u \in Threads : PlaceOK(u))' <=> PlaceOK(t)'
  BY Zenon DEF SingleHandler
<1> QED
  BY <1>1, <1>2, OneHolder, Zenon DEF Pinned, PinnedFor

\* The handles that point to the object: how many, and how a step that opens or
\* closes one changes that.
LEMMA LiveFdsCount ==
  /\ Cardinality(LiveFds) \in 0 .. Cardinality(Fds)
  /\ Cardinality(Fds) \in Nat
<1>1. LiveFds \in SUBSET Fds
  BY DEF LiveFds
<1> QED
  BY <1>1, FS_Subset, FS_CardinalityType, FdsAssumption

LEMMA LiveFdsOpened ==
  ASSUME fd \in [Fds -> {"closed", "opening", "live", "stale"}],
         NEW d \in Fds, fd[d] # "live", fd' = [fd EXCEPT ![d] = "live"]
  PROVE  Cardinality(LiveFds)' = Cardinality(LiveFds) + 1
<1>1. LiveFds' = LiveFds \cup {d} /\ d \notin LiveFds /\ LiveFds \in SUBSET Fds
  BY DEF LiveFds
<1> QED
  BY <1>1, FS_Subset, FS_AddElement, FdsAssumption

LEMMA LiveFdsClosed ==
  ASSUME fd \in [Fds -> {"closed", "opening", "live", "stale"}],
         NEW d \in Fds, fd[d] = "live", fd' = [fd EXCEPT ![d] = "closed"]
  PROVE  Cardinality(LiveFds)' = Cardinality(LiveFds) - 1
<1>1. LiveFds' = LiveFds \ {d} /\ d \in LiveFds /\ LiveFds \in SUBSET Fds
  BY DEF LiveFds
<1> QED
  BY <1>1, FS_Subset, FS_RemoveElement, FdsAssumption

LEMMA LiveFdsSame ==
  ASSUME \A d \in Fds : fd'[d] = "live" <=> fd[d] = "live"
  PROVE  Cardinality(LiveFds)' = Cardinality(LiveFds)
<1>1. LiveFds' = LiveFds
  BY DEF LiveFds
<1> QED
  BY <1>1

LEMMA NoLiveFds ==
  ASSUME \A d \in Fds : fd[d] # "live"
  PROVE  Cardinality(LiveFds) = 0
<1>1. LiveFds = {}
  BY DEF LiveFds
<1> QED
  BY <1>1, FS_EmptySet

LEMMA ThreadsCount == \A t \in Threads : Cardinality(Threads) \in Nat \ {0}
<1>1. \A t \in Threads : Threads # {}
  OBVIOUS
<1> QED
  BY <1>1, FS_EmptySet, FS_CardinalityType, ThreadsAssumption

-----------------------------------------------------------------------------
(* The inductive step.                                                     *)

\* A disturbed file stays disturbed.
LEMMA DisturbedStays == TypeInv /\ [Next]_vars /\ Undisturbed' => Undisturbed
<1> SUFFICES ASSUME TypeInv, [Next]_vars
             PROVE  (moved => moved') /\ (failures' # 0 \/ failures = 0)
  BY DEF Undisturbed
<1>1. ASSUME NEW t \in Threads, Begin(t)
      PROVE  UNCHANGED <<moved, failures>>
  BY <1>1 DEF Begin, BeginOpen, BeginCreate, BeginPath, BeginHandle, Find, ghosts
<1>2. ASSUME NEW t \in Threads, Continue(t)
      PROVE  (moved => moved') /\ failures' \in {failures, failures + 1}
  BY <1>2 DEF Continue, CheckValid, Load, Acquire, Increment, CreateDone, HandleDone,
              HandleFail, CloseBegin, Decrement, Policy, DropEntry, DropNothing,
              UnlinkRemove, UnlinkErase, Move, UseAfterFree, ghosts
<1>3. ASSUME Worker \/ Expire \/ UNCHANGED vars
      PROVE  UNCHANGED <<moved, failures>>
  BY <1>3 DEF Worker, WorkerCheck, WorkerDrop, WorkerUseAfterFree, Expire, ghosts, vars
<1>4. failures \in Nat
  BY FailuresAssumption DEF TypeInv, TypeOK
<1> QED
  BY <1>1, <1>2, <1>3, <1>4 DEF Next

\* The handler's steps that begin an operation.
LEMMA BeginPinned ==
  ASSUME SingleHandler, TypeInv, NEW t \in Threads, PinnedFor(t), Begin(t)
  PROVE  PinnedFor(t)'
<1> USE DEF TypeInv, TypeOK, PathOps, HandleOps
<1>1. ASSUME NEW d \in Fds, BeginOpen(t, d) PROVE PinnedFor(t)'
  <2>1. Cardinality(LiveFds)' = Cardinality(LiveFds)
    BY <1>1, LiveFdsSame DEF BeginOpen
  <2> QED
    BY <1>1, <2>1 DEF BeginOpen, Find, MayStart, Start, Goto, object, locks, ghosts,
                      PinnedFor, PlaceOK, Counted, HoldsReference
<1>2. ASSUME NEW d \in Fds, BeginCreate(t, d) PROVE PinnedFor(t)'
  <2>1. Cardinality(LiveFds)' = Cardinality(LiveFds)
    BY <1>2, LiveFdsSame DEF BeginCreate
  <2>2. Cardinality(LiveFds) = 0
    BY <1>2, NoLiveFds DEF BeginCreate, PinnedFor
  <2> QED
    BY <1>2, <2>1, <2>2 DEF BeginCreate, MayStart, Start, Goto, Emplace, locks, ghosts,
                      PinnedFor, PlaceOK, Counted, HoldsReference
<1>3. ASSUME NEW o \in PathOps, BeginPath(t, o) PROVE PinnedFor(t)'
  <2>1. Cardinality(LiveFds)' = Cardinality(LiveFds)
    BY <1>3, LiveFdsSame DEF BeginPath
  <2> QED
    BY <1>3, <2>1 DEF BeginPath, Find, MayStart, Start, Goto, object, locks, ghosts,
                      PinnedFor, PlaceOK, Counted, HoldsReference
<1>4. ASSUME NEW o \in HandleOps, NEW d \in Fds, BeginHandle(t, o, d)
      PROVE  PinnedFor(t)'
  <2>1. CASE o = "release"
    <3>1. fd[d] = "live"
      BY <1>4 DEF BeginHandle, PinnedFor
    <3>2. Cardinality(LiveFds)' = Cardinality(LiveFds) - 1
      BY <1>4, <2>1, <3>1, LiveFdsClosed DEF BeginHandle
    <3>3. Counted(t)' /\ ~Counted(t)
      BY <1>4, <2>1, <3>1 DEF BeginHandle, MayStart, Start, Goto, Counted,
                              HoldsReference, PinnedFor, PlaceOK
    <3> QED
      BY <1>4, <2>1, <3>1, <3>2, <3>3, LiveFdsCount
         DEF BeginHandle, MayStart, Start, Goto, object, locks, ghosts, PinnedFor, PlaceOK
  <2>2. CASE o # "release"
    <3>1. Cardinality(LiveFds)' = Cardinality(LiveFds)
      BY <1>4, <2>2, LiveFdsSame DEF BeginHandle
    <3>2. ~Counted(t)' /\ ~Counted(t)
      BY <1>4, <2>2 DEF BeginHandle, MayStart, Start, Goto, Counted,
                              HoldsReference, PinnedFor, PlaceOK
    <3> QED
      BY <1>4, <2>2, <3>1, <3>2
         DEF BeginHandle, MayStart, Start, Goto, object, locks, ghosts, PinnedFor, PlaceOK
  <2> QED
    BY <2>1, <2>2
<1> QED
  BY <1>1, <1>2, <1>3, <1>4 DEF Begin

\* The handler's later steps.
LEMMA ContinuePinned ==
  ASSUME SingleHandler, TypeInv, NEW t \in Threads, PinnedFor(t), Continue(t),
         Undisturbed'
  PROVE  PinnedFor(t)'
<1> USE DEF TypeInv, TypeOK, PathOps, HandleOps
<1>0. /\ Cardinality(LiveFds) \in 0 .. Cardinality(Fds) /\ Cardinality(Fds) \in Nat
      /\ CountMod \in Nat /\ CountMod > Cardinality(Fds) + 2
  BY LiveFdsCount, ThreadsCount, CountModAssumption
<1>1. CASE UNCHANGED fd
  <2>1. Cardinality(LiveFds)' = Cardinality(LiveFds)
    BY <1>1, LiveFdsSame
  <2>2. CASE CheckValid(t)
    BY <1>1, <2>1, <2>2 DEF CheckValid, Goto, object, locks, ghosts,
                            PinnedFor, PlaceOK, Counted, HoldsReference
  <2>3. CASE Load(t)
    <3>1. ~Counted(t)' /\ ~Counted(t)
      BY <2>3 DEF Load, Goto, Counted, HoldsReference, PinnedFor, PlaceOK
    <3>2. cached' /\ leaked' = 1 /\ count' = Cardinality(LiveFds)' + 1
      <4>1. CASE cached
        BY <1>0, <2>1, <2>3, <3>1, <4>1 DEF Load, object, PinnedFor
      <4>2. CASE ~cached
        <5>1. Cardinality(LiveFds) = 0
          BY <4>2, NoLiveFds DEF PinnedFor
        <5> QED
          BY <2>1, <2>3, <4>2, <5>1 DEF Load, Emplace
      <4> QED
        BY <4>1, <4>2
    <3>3. PlaceOK(t)'
      BY <1>1, <2>3, <3>2 DEF Load, Goto, PinnedFor, PlaceOK
    <3> QED
      BY <1>0, <1>1, <2>1, <2>3, <3>1, <3>2, <3>3 DEF Load, PinnedFor
  <2>4. CASE Acquire(t)
    BY <1>1, <2>1, <2>4 DEF Acquire, Goto, object, ghosts,
                            PinnedFor, PlaceOK, Counted, HoldsReference
  <2>5. CASE Increment(t)
    <3>1. op[t] # "open" /\ op[t] # "none"
      <4>1. op[t] = "open" => fd'[hnd[t]] # fd[hnd[t]]
        BY <2>5 DEF Increment, PinnedFor, PlaceOK
      <4> QED
        BY <1>1, <2>5, <4>1 DEF Increment, PinnedFor, PlaceOK
    <3>2. cached /\ ~Counted(t) /\ tmp[t] = count
      BY <2>5 DEF Increment, PinnedFor, PlaceOK, Counted, HoldsReference
    <3>3. count' = Cardinality(LiveFds) + 2
      <4>1. count = Cardinality(LiveFds) + 1
        BY <1>0, <3>2 DEF PinnedFor
      <4> QED
        BY <1>0, <2>5, <3>2, <4>1 DEF Increment
    <3>4. pc'[t] = "use" /\ UNCHANGED <<op, ref, hnd, tmp>>
      BY <2>5, <3>1 DEF Increment, Goto
    <3>5. Counted(t)'
      BY <2>5, <3>1, <3>4 DEF Increment, PinnedFor, PlaceOK, Counted, HoldsReference
    <3>6. PlaceOK(t)'
      BY <1>1, <2>5, <3>1, <3>2, <3>4 DEF Increment, PinnedFor, PlaceOK
    <3> QED
      BY <1>0, <1>1, <2>1, <2>5, <3>3, <3>5, <3>6 DEF Increment, PinnedFor
  <2>6. CASE HandleDone(t)
    BY <1>1, <2>1, <2>6 DEF HandleDone, Return, Forget, Goto, object, ghosts,
                            PinnedFor, PlaceOK, Counted, HoldsReference
  <2>7. CASE CloseBegin(t)
    BY <1>1, <2>1, <2>7 DEF CloseBegin, Goto, object, ghosts,
                            PinnedFor, PlaceOK, Counted, HoldsReference
  <2>8. CASE Decrement(t)
    <3>1. cached /\ Counted(t) /\ tmp[t] = count
      BY <2>8 DEF Decrement, PinnedFor, PlaceOK, Counted, HoldsReference
    <3>2. count' = Cardinality(LiveFds) + 1
      <4>1. count = Cardinality(LiveFds) + 2
        BY <1>0, <3>1 DEF PinnedFor
      <4> QED
        BY <1>0, <2>8, <3>1, <4>1 DEF Decrement
    <3>3. ~Counted(t)'
      BY <2>8 DEF Decrement, Goto, PinnedFor, PlaceOK, Counted, HoldsReference
    <3>4. PlaceOK(t)'
      BY <1>1, <2>8 DEF Decrement, Goto, PinnedFor, PlaceOK
    <3> QED
      BY <1>0, <1>1, <2>1, <2>8, <3>2, <3>3, <3>4 DEF Decrement, PinnedFor, ghosts
  <2>9. CASE Policy(t)
    <3>1. count > 0
      BY <1>0, <2>9 DEF Policy, PinnedFor, PlaceOK
    <3> QED
      BY <1>1, <2>1, <2>9, <3>1 DEF Policy, KeepCache, Return, Forget, Goto, object,
                            ghosts, PinnedFor, PlaceOK, Counted, HoldsReference
  <2>10. CASE UnlinkRemove(t)
    BY <1>1, <2>1, <2>10 DEF UnlinkRemove, Goto, object, ghosts,
                            PinnedFor, PlaceOK, Counted, HoldsReference
  <2>11. ~(DropEntry(t) \/ DropNothing(t) \/ Move(t) \/ HandleFail(t) \/ UseAfterFree(t))
    BY DEF DropEntry, DropNothing, Move, HandleFail, UseAfterFree, PinnedFor, PlaceOK,
           Undisturbed
  <2>12. CASE UnlinkErase(t)
    <3>1. ~cached' /\ ref'[t] = "none"
      BY <2>12 DEF UnlinkErase, EraseEntry, Destroy
    <3> QED
      BY <1>1, <2>1, <2>12, <3>1 DEF UnlinkErase, EraseEntry, Destroy, Return, Goto,
                                 Stale, PinnedFor, PlaceOK
  <2>13. CASE CreateDone(t)
    BY <1>1, <2>13 DEF CreateDone, PinnedFor, PlaceOK
  <2> QED
    BY <2>2, <2>3, <2>4, <2>5, <2>6, <2>7, <2>8, <2>9, <2>10, <2>11, <2>12, <2>13
       DEF Continue, Continue
<1>2. CASE fd' # fd
  <2>1. CASE Increment(t)
    <3>1. /\ op[t] = "open" /\ fd' = [fd EXCEPT ![hnd[t]] = "live"]
          /\ hnd[t] \in Fds /\ fd[hnd[t]] = "opening" /\ cached
      BY <1>2, <2>1 DEF Increment, PinnedFor, PlaceOK
    <3>2. Cardinality(LiveFds)' = Cardinality(LiveFds) + 1
      BY <3>1, LiveFdsOpened
    <3>3. ~Counted(t) /\ tmp[t] = count
      BY <2>1, <3>1 DEF Increment, PinnedFor, PlaceOK, Counted, HoldsReference
    <3>4. count' = Cardinality(LiveFds) + 2
      <4>1. count = Cardinality(LiveFds) + 1
        BY <1>0, <3>1, <3>3 DEF PinnedFor
      <4> QED
        BY <1>0, <2>1, <3>3, <4>1 DEF Increment
    <3>5. pc'[t] = "idle" /\ op'[t] = "none" /\ ref'[t] = "none"
      BY <2>1, <3>1 DEF Increment, Return, Forget, Goto
    <3>6. PlaceOK(t)' /\ ~Counted(t)'
      BY <3>5 DEF PlaceOK, Counted
    <3> QED
      BY <1>0, <2>1, <3>1, <3>2, <3>4, <3>6 DEF Increment, PinnedFor
  <2>2. CASE CreateDone(t)
    <3>1. /\ fd' = [fd EXCEPT ![hnd[t]] = "live"]
          /\ hnd[t] \in Fds /\ fd[hnd[t]] = "opening" /\ cached
      BY <2>2 DEF CreateDone, PinnedFor, PlaceOK
    <3>2. Cardinality(LiveFds)' = Cardinality(LiveFds) + 1
      BY <3>1, LiveFdsOpened
    <3>3. Counted(t) /\ ~Counted(t)'
      BY <2>2 DEF CreateDone, Return, Forget, Counted, HoldsReference
    <3> QED
      BY <1>0, <2>2, <3>1, <3>2, <3>3 DEF CreateDone, Return, Forget, Goto, object,
                                      ghosts, PinnedFor, PlaceOK
  <2>3. CASE UnlinkErase(t)
    <3>1. ~cached' /\ ref'[t] = "none" /\ wref' = "none"
      BY <2>3 DEF UnlinkErase, EraseEntry, Destroy, Stale, PinnedFor
    <3>2. \A d \in Fds : fd[d] # "live"
      BY <2>3 DEF UnlinkErase, PinnedFor, PlaceOK
    <3> QED
      BY <2>3, <3>1, <3>2 DEF UnlinkErase, EraseEntry, Destroy, Return, Goto,
                                 Stale, PinnedFor, PlaceOK
  <2>4. ~(DropEntry(t) \/ DropNothing(t) \/ Move(t) \/ HandleFail(t) \/ UseAfterFree(t))
    BY DEF DropEntry, DropNothing, Move, HandleFail, UseAfterFree, PinnedFor, PlaceOK,
           Undisturbed
  <2> QED
    BY <1>2, <2>1, <2>2, <2>3, <2>4
       DEF Continue, CheckValid, Load, Acquire, HandleDone, CloseBegin, Decrement,
           Policy, UnlinkRemove
<1> QED
  BY <1>1, <1>2

LEMMA IndInit == Init => Ind
<1> SUFFICES ASSUME Init PROVE Pinned
  BY TypeInvInit DEF Ind
<1> QED
  BY Zenon DEF Init, Pinned, PlaceOK

\* The worker finds nothing to evict: open_count is never 0.
LEMMA WorkerPinned ==
  ASSUME TypeInv, Pinned, Worker
  PROVE  FALSE
<1>1. cached => count > 0
  <2>1. Cardinality(LiveFds) \in Nat
    BY LiveFdsCount
  <2>2. Cardinality(Holders) \in Nat
    <3>1. Holders \in SUBSET Threads
      BY DEF Holders
    <3> QED
      BY <3>1, FS_Subset, FS_CardinalityType, ThreadsAssumption
  <2> QED
    BY <2>1, <2>2 DEF Pinned
<1> QED
  BY <1>1 DEF Worker, WorkerCheck, WorkerDrop, WorkerUseAfterFree, KeepCache, Pinned

LEMMA IndStep == SingleHandler /\ Ind /\ [Next]_vars => Ind'
<1> SUFFICES ASSUME SingleHandler, TypeInv, Undisturbed => Pinned, [Next]_vars,
                    Undisturbed'
             PROVE  Pinned'
  BY TypeInvStep DEF Ind
<1>1. Pinned
  BY DisturbedStays
<1>2. ASSUME NEW t \in Threads, Begin(t) PROVE Pinned'
  BY <1>1, <1>2, OneThread, BeginPinned
<1>3. ASSUME NEW t \in Threads, Continue(t) PROVE Pinned'
  BY <1>1, <1>3, OneThread, ContinuePinned
<1>4. ASSUME Worker PROVE Pinned'
  BY <1>1, <1>4, WorkerPinned
<1>5. ASSUME Expire \/ UNCHANGED vars PROVE Pinned'
  BY <1>1, <1>5 DEF Expire, vars, locks, ghosts, Pinned, PlaceOK, LiveFds, Holders,
                    HoldsReference
<1> QED
  BY <1>2, <1>3, <1>4, <1>5 DEF Next

LEMMA IndInvariant == ASSUME SingleHandler PROVE Spec => []Ind
  BY IndInit, IndStep, PTL DEF Spec

\* With one handler thread, while no handle operation failed and the file was
\* not renamed, no handle ever dangles and no destroyed object is used: the
\* worker's unsynchronised keep_cache is harmless there, for any number of
\* handles and any width of open_count.
THEOREM HandlesAlwaysValid == ASSUME SingleHandler PROVE Spec => []HandlesValid
<1>1. Ind => HandlesValid
  BY DEF Ind, Undisturbed, Pinned, HandlesValid
<1> QED
  BY <1>1, IndInvariant, PTL

\* Under the same condition nothing but an unlink takes the entry out of the
\* cache: neither the policy of a closing handler nor the worker ever does.
THEOREM EvictedByUnlinkOnly == ASSUME SingleHandler PROVE Spec => OnlyUnlinkErases
<1>1. Ind /\ [Next]_vars =>
        [cached /\ ~cached' /\ failures = 0 /\ ~moved
           => \E t \in Threads : op[t] = "unlink"]_vars
  <2> SUFFICES ASSUME Ind, Next, cached, ~cached', Undisturbed
               PROVE  \E t \in Threads : op[t] = "unlink"
    BY DEF Undisturbed
  <2>1. TypeInv /\ Pinned
    BY DEF Ind
  <2>2. ~Worker /\ ~Expire /\ ~UNCHANGED vars
    BY <2>1, WorkerPinned DEF Expire, vars
  <2>3. PICK t \in Threads : Begin(t) \/ Continue(t)
    BY <2>2 DEF Next
  <2>4. ~Begin(t)
    BY DEF Begin, BeginOpen, BeginCreate, BeginPath, BeginHandle, Find, Emplace, object
  <2>5. UnlinkErase(t)
    BY <2>1, <2>3, <2>4
       DEF Continue, CheckValid, Load, Emplace, Acquire, Increment, CreateDone,
           HandleDone, HandleFail, CloseBegin, Decrement, Policy, DropEntry,
           DropNothing, UnlinkRemove, Move, UseAfterFree, object, Pinned, PlaceOK
  <2> QED
    BY <2>1, <2>5 DEF UnlinkErase, Pinned, PlaceOK
<1> QED
  BY <1>1, IndInvariant, PTL DEF Spec, OnlyUnlinkErases

-----------------------------------------------------------------------------
(* The exactness of open_count, through failures, renames and evictions.   *)

\* t is between the read and the write half of its open_count++ or open_count--;
\* t has the open_context of the object.
Updating(t) == ref[t] = "live" /\ pc[t] \in {"inc", "dec"}
Inside(t)   == ref[t] = "live" /\ pc[t] \in {"inc", "use", "dec"}

\* Operations that update open_count only while no other one does: create, unlink
\* and rename run alone, setattr and write hold the mutex exclusively, and a read
\* counts only when it fails.
SerialOps ==
  /\ Ops \subseteq {"create", "setattr", "unlink", "rename", "read", "write"}
  /\ "read" \in Ops => MaxFailures <= 1

\* Where a handler can be, what it points to and which lock it has there, whatever
\* failed and whatever was evicted.
Placed(t) ==
  /\ pc[t] # "idle" => op[t] \in Ops
  /\ pc[t] \in {"found", "miss", "inc"} => op[t] \in PathOps
  /\ pc[t] = "dec" => op[t] \in {"stat", "setattr", "release", "read", "write"}
  /\ pc[t] = "dec" /\ op[t] \in {"read", "write"} => failures # 0
  /\ ref[t] = "live" => cached
  /\ Inside(t) /\ op[t] \in ExclusiveOps => writer = t
  /\ Inside(t) /\ op[t] \in SharedOps => t \in readers
  /\ pc[t] # "idle" /\ op[t] \in {"open", "create"}
       => hnd[t] \in Fds /\ fd[hnd[t]] = "opening"

\* What libfuse and the kernel exclude: handlers next to an isolated one, and two
\* handlers that open the same handle.
Apart(t, u) ==
  t # u /\ pc[t] # "idle" /\ pc[u] # "idle" =>
    /\ op[t] \notin TreeLockedOps
    /\ op[t] \in {"open", "create"} /\ op[u] \in {"open", "create"} => hnd[t] # hnd[u]

\* The strengthening that needs nothing of the operations ...
Orderly ==
  /\ \A t \in Threads : Placed(t)
  /\ \A t, u \in Threads : Apart(t, u)
  /\ \A d \in Fds : fd[d] = "live" => cached
  /\ writer # NoThread => readers = {}

\* ... and the one that does: one handler at a time updates open_count, from the
\* value it still has.
OneUpdater ==
  /\ \A t \in Threads : Updating(t) => tmp[t] = count
  /\ \A t, u \in Threads : Updating(t) /\ Updating(u) => t = u

Exact == TypeInv /\ Orderly /\ OneUpdater /\ CountExact

-----------------------------------------------------------------------------
(* Arithmetic of a size_t, and how a step changes the number of holders.   *)

LEMMA SmallMultiple ==
  ASSUME NEW m \in Nat, m > 0, NEW q \in Int, -m < q * m, q * m < m
  PROVE  q = 0
<1>1. CASE q >= 1
  BY <1>1
<1>2. CASE q <= -1
  BY <1>2
<1> QED
  BY <1>1, <1>2

LEMMA ModUnique ==
  ASSUME NEW m \in Nat, m > 0, NEW n \in Int, NEW k \in Int,
         NEW r \in 0 .. m - 1, n = k * m + r
  PROVE  n % m = r
<1> DEFINE d == n \div m
           s == n % m
<1>1. d \in Int /\ s \in 0 .. m - 1 /\ n = m * d + s
  OBVIOUS
<1>2. (k - d) * m = s - r
  BY <1>1
<1> HIDE DEF d, s
<1>3. k - d = 0
  BY <1>1, <1>2, SmallMultiple
<1>4. s = r
  BY <1>1, <1>2, <1>3
<1> QED
  BY <1>4 DEF s

\* Counting up and down modulo m follows counting in the integers.
LEMMA ModUpDown ==
  ASSUME NEW m \in Nat, m > 1, NEW n \in Int
  PROVE  /\ ((n % m) + 1) % m = (n + 1) % m
         /\ ((n % m) + m - 1) % m = (n - 1) % m
<1> DEFINE d == n \div m
           s == n % m
<1>1. d \in Int /\ s \in 0 .. m - 1 /\ n = d * m + s
  OBVIOUS
<1>2. n % m = s
  OBVIOUS
<1> HIDE DEF d, s
<1>3. (s + 1) % m = (n + 1) % m
  <2>1. CASE s + 1 < m
    <3>1. n + 1 = d * m + (s + 1) /\ s + 1 = 0 * m + (s + 1) /\ s + 1 \in 0 .. m - 1
      BY <1>1, <2>1
    <3>2. (n + 1) % m = s + 1
      BY <1>1, <3>1, ModUnique
    <3>3. (s + 1) % m = s + 1
      BY <1>1, <3>1, ModUnique
    <3> QED
      BY <3>2, <3>3
  <2>2. CASE s + 1 = m
    <3>1. n + 1 = (d + 1) * m + 0 /\ s + 1 = 1 * m + 0 /\ 0 \in 0 .. m - 1
      BY <1>1, <2>2
    <3>2. (n + 1) % m = 0
      BY <1>1, <3>1, ModUnique
    <3>3. (s + 1) % m = 0
      BY <1>1, <3>1, ModUnique
    <3> QED
      BY <3>2, <3>3
  <2> QED
    BY <1>1, <2>1, <2>2
<1>4. (s + m - 1) % m = (n - 1) % m
  <2>1. CASE s > 0
    <3>1. n - 1 = d * m + (s - 1) /\ s + m - 1 = 1 * m + (s - 1) /\ s - 1 \in 0 .. m - 1
      BY <1>1, <2>1
    <3>2. (n - 1) % m = s - 1
      BY <1>1, <3>1, ModUnique
    <3>3. (s + m - 1) % m = s - 1
      BY <1>1, <3>1, ModUnique
    <3> QED
      BY <3>2, <3>3
  <2>2. CASE s = 0
    <3>1. /\ n - 1 = (d - 1) * m + (m - 1)
          /\ s + m - 1 = 0 * m + (m - 1) /\ m - 1 \in 0 .. m - 1
      BY <1>1, <2>2
    <3>2. (n - 1) % m = m - 1
      BY <1>1, <3>1, ModUnique
    <3>3. (s + m - 1) % m = m - 1
      BY <1>1, <3>1, ModUnique
    <3> QED
      BY <3>2, <3>3
  <2> QED
    BY <1>1, <2>1, <2>2
<1> QED
  BY <1>2, <1>3, <1>4

\* What CountExact says open_count counts.
Total == Cardinality(LiveFds) + Cardinality(Holders) + leaked

LEMMA TotalIsInt == TypeInv => Total \in Int /\ Cardinality(Holders) \in Nat
<1>1. Holders \in SUBSET Threads
  BY DEF Holders
<1>2. Cardinality(Holders) \in Nat
  BY <1>1, FS_Subset, FS_CardinalityType, ThreadsAssumption
<1>3. TypeInv => leaked \in Int
  BY FailuresAssumption DEF TypeInv, TypeOK
<1> QED
  BY <1>2, <1>3, LiveFdsCount DEF Total

\* A step that moves t alone changes the holders by t.
LEMMA HoldersStep ==
  ASSUME NEW t \in Threads, \A u \in Threads \ {t} : Counted(u)' <=> Counted(u)
  PROVE  Cardinality(Holders)'
           = Cardinality(Holders) + (IF Counted(t)' THEN 1 ELSE 0)
                                  - (IF Counted(t) THEN 1 ELSE 0)
<1> DEFINE Others == {u \in Threads \ {t} : Counted(u)}
<1>1. Others \in SUBSET Threads /\ t \notin Others
  OBVIOUS
<1>2. IsFiniteSet(Others) /\ Cardinality(Others) \in Nat
  BY <1>1, FS_Subset, FS_CardinalityType, ThreadsAssumption
<1>3. Cardinality(Others \cup {t}) = Cardinality(Others) + 1
  BY <1>1, <1>2, FS_AddElement
<1>4. Holders = IF Counted(t) THEN Others \cup {t} ELSE Others
  BY DEF Holders, Counted
<1>5. Holders' = IF Counted(t)' THEN Others \cup {t} ELSE Others
  BY DEF Holders, Counted
<1> HIDE DEF Others
<1>6. Cardinality(Holders) = Cardinality(Others) + (IF Counted(t) THEN 1 ELSE 0)
  BY <1>2, <1>3, <1>4
<1>7. Cardinality(Holders)' = Cardinality(Others) + (IF Counted(t)' THEN 1 ELSE 0)
  BY <1>2, <1>3, <1>5
<1> QED
  BY <1>2, <1>6, <1>7

\* No reference to the object, no holder.
LEMMA NoHolders ==
  ASSUME \A t \in Threads : ref[t] # "live"
  PROVE  Cardinality(Holders) = 0
<1>1. Holders = {}
  BY DEF Holders
<1> QED
  BY <1>1, FS_EmptySet

-----------------------------------------------------------------------------
(* The handlers stay orderly, whatever the operations.                     *)

\* After a step that leaves nothing pointing to the object the locks do not matter.
LEMMA OrderlyDestroyed ==
  ASSUME TypeInv, Orderly, NEW t \in Threads, Destroy(t), Return(t),
         failures' = failures
  PROVE  Orderly' /\ \A u \in Threads : ref'[u] # "live"
<1> USE DEF TypeInv, TypeOK
<1>1. /\ \A u \in Threads : ref'[u] # "live"
      /\ \A d \in Fds : fd'[d] # "live" /\ (fd[d] = "opening" => fd'[d] = "opening")
  BY DEF Destroy, Stale
<1>2. pc'[t] = "idle" /\ \A u \in Threads \ {t} :
        pc'[u] = pc[u] /\ op'[u] = op[u] /\ hnd'[u] = hnd[u]
  BY DEF Return, Goto
<1>3. ASSUME NEW u \in Threads PROVE Placed(u)'
  BY <1>1, <1>2 DEF Orderly, Placed, Inside
<1>4. ASSUME NEW u \in Threads, NEW v \in Threads PROVE Apart(u, v)'
  BY <1>2 DEF Orderly, Apart
<1> QED
  BY <1>1, <1>3, <1>4 DEF Orderly, Destroy

LEMMA OrderlyBegin ==
  ASSUME TypeInv, Orderly, NEW t \in Threads, Begin(t)
  PROVE  Orderly'
<1> USE DEF TypeInv, TypeOK, Goto, Start, MayStart, object, locks, ghosts, PathOps,
            HandleOps
<1> SUFFICES ASSUME NEW u \in Threads, NEW v \in Threads
             PROVE  /\ Placed(u)' /\ Apart(u, v)'
                    /\ \A d \in Fds : fd'[d] = "live" => cached'
                    /\ writer' # NoThread => readers' = {}
  BY Zenon DEF Orderly
<1>0. /\ Placed(t) /\ Placed(u) /\ Apart(u, v) /\ Apart(v, u)
      /\ \A d \in Fds : fd[d] = "live" => cached
      /\ writer # NoThread => readers = {}
  BY Zenon DEF Orderly
<1>1. ASSUME NEW d \in Fds, BeginOpen(t, d)
      PROVE  /\ Placed(u)' /\ Apart(u, v)'
             /\ \A e \in Fds : fd'[e] = "live" => cached'
             /\ writer' # NoThread => readers' = {}
  <2>1. Placed(u)'
    BY <1>0, <1>1 DEF BeginOpen, Find, Placed, Inside, ExclusiveOps, SharedOps
  <2>2. Apart(u, v)'
    <3>1. \A x \in Threads : pc[x] # "idle" /\ op[x] \in {"open", "create"}
            => hnd[x] # d
      BY <1>1 DEF BeginOpen, Orderly, Placed
    <3> QED
      BY <1>0, <1>1, <3>1 DEF BeginOpen, Find, Apart, TreeLockedOps
  <2> QED
    BY <1>0, <1>1, <2>1, <2>2 DEF BeginOpen, Find
<1>2. ASSUME NEW d \in Fds, BeginCreate(t, d)
      PROVE  /\ Placed(u)' /\ Apart(u, v)'
             /\ \A e \in Fds : fd'[e] = "live" => cached'
             /\ writer' # NoThread => readers' = {}
  <2>1. Placed(u)'
    BY <1>0, <1>2 DEF BeginCreate, Emplace, Placed, Inside, ExclusiveOps, SharedOps
  <2>2. Apart(u, v)'
    <3>1. \A x \in Threads : pc[x] # "idle" /\ op[x] \in {"open", "create"}
            => hnd[x] # d
      BY <1>2 DEF BeginCreate, Orderly, Placed
    <3> QED
      BY <1>0, <1>2, <3>1 DEF BeginCreate, Apart, TreeLockedOps
  <2> QED
    BY <1>0, <1>2, <2>1, <2>2 DEF BeginCreate, Emplace
<1>3. ASSUME NEW o \in PathOps, BeginPath(t, o)
      PROVE  /\ Placed(u)' /\ Apart(u, v)'
             /\ \A e \in Fds : fd'[e] = "live" => cached'
             /\ writer' # NoThread => readers' = {}
  <2>1. Placed(u)'
    BY <1>0, <1>3 DEF BeginPath, Find, Placed, Inside, ExclusiveOps, SharedOps
  <2>2. Apart(u, v)'
    BY <1>0, <1>3 DEF BeginPath, Find, Apart, TreeLockedOps
  <2> QED
    BY <1>0, <1>3, <2>1, <2>2 DEF BeginPath, Find
<1>4. ASSUME NEW o \in HandleOps, NEW d \in Fds, BeginHandle(t, o, d)
      PROVE  /\ Placed(u)' /\ Apart(u, v)'
             /\ \A e \in Fds : fd'[e] = "live" => cached'
             /\ writer' # NoThread => readers' = {}
  <2>1. Placed(u)'
    BY <1>0, <1>4 DEF BeginHandle, Placed, Inside, ExclusiveOps, SharedOps
  <2>2. Apart(u, v)'
    BY <1>0, <1>4 DEF BeginHandle, Apart, TreeLockedOps
  <2> QED
    BY <1>0, <1>4, <2>1, <2>2 DEF BeginHandle
<1> QED
  BY <1>1, <1>2, <1>3, <1>4 DEF Begin

LEMMA OrderlyContinue ==
  ASSUME TypeInv, Orderly, NEW t \in Threads, Continue(t)
  PROVE  Orderly'
<1> USE DEF TypeInv, TypeOK, Goto, object, locks, ghosts, PathOps, HandleOps
<1>a. CASE DropEntry(t) \/ UnlinkErase(t) \/ Move(t)
  BY <1>a, OrderlyDestroyed DEF DropEntry, UnlinkErase, EraseEntry, Move
<1> SUFFICES ASSUME ~(DropEntry(t) \/ UnlinkErase(t) \/ Move(t)),
                    NEW u \in Threads, NEW v \in Threads
             PROVE  /\ Placed(u)' /\ Apart(u, v)'
                    /\ \A d \in Fds : fd'[d] = "live" => cached'
                    /\ writer' # NoThread => readers' = {}
  BY <1>a, Zenon DEF Orderly
<1>0. /\ Placed(t) /\ Placed(u) /\ Apart(u, v) /\ Apart(v, u) /\ Apart(t, u) /\ Apart(u, t)
      /\ \A d \in Fds : fd[d] = "live" => cached
      /\ writer # NoThread => readers = {}
  BY Zenon DEF Orderly
<1>1. CASE CheckValid(t)
  BY <1>0, <1>1 DEF CheckValid, Placed, Inside, Apart
<1>2. CASE Load(t)
  BY <1>0, <1>2 DEF Load, Emplace, Placed, Inside, Apart
<1>3. CASE Acquire(t)
  BY <1>0, <1>3, ThreadsAssumption
     DEF Acquire, CanLock, Lock, Placed, Inside, Apart, ExclusiveOps, SharedOps
<1>4. CASE Increment(t)
  BY <1>0, <1>4 DEF Increment, Return, Forget, Placed, Inside, Apart
<1>5. CASE CreateDone(t)
  BY <1>0, <1>5 DEF CreateDone, Unlock, Return, Forget, Placed, Inside, Apart
<1>6. CASE HandleDone(t)
  BY <1>0, <1>6 DEF HandleDone, Unlock, Return, Forget, Placed, Inside, Apart
<1>7. CASE HandleFail(t)
  BY <1>0, <1>7, FailuresAssumption DEF HandleFail, Placed, Inside, Apart
<1>8. CASE CloseBegin(t)
  BY <1>0, <1>8 DEF CloseBegin, Placed, Inside, Apart
<1>9. CASE Decrement(t)
  BY <1>0, <1>9 DEF Decrement, Unlock, Placed, Inside, Apart
<1>10. CASE Policy(t)
  BY <1>0, <1>10 DEF Policy, Return, Forget, Placed, Inside, Apart
<1>11. CASE DropNothing(t)
  BY <1>0, <1>11 DEF DropNothing, Return, Forget, Placed, Inside, Apart
<1>12. CASE UnlinkRemove(t)
  BY <1>0, <1>12 DEF UnlinkRemove, Unlock, Placed, Inside, Apart
<1>13. CASE UseAfterFree(t)
  BY <1>0, <1>13 DEF UseAfterFree, Placed, Inside, Apart
<1> QED
  BY <1>1, <1>2, <1>3, <1>4, <1>5, <1>6, <1>7, <1>8, <1>9, <1>10, <1>11, <1>12, <1>13
     DEF Continue

LEMMA OrderlyStep == TypeInv /\ Orderly /\ [Next]_vars => Orderly'
<1> SUFFICES ASSUME TypeInv, Orderly, [Next]_vars PROVE Orderly'
  OBVIOUS
<1> USE DEF TypeInv, TypeOK, object, locks, ghosts
<1>1. CASE WorkerDrop
  <2>1. /\ \A u \in Threads : ref'[u] # "live"
        /\ \A d \in Fds : fd'[d] # "live" /\ (fd[d] = "opening" => fd'[d] = "opening")
    BY <1>1 DEF WorkerDrop, Stale
  <2>2. ASSUME NEW u \in Threads PROVE Placed(u)'
    BY <1>1, <2>1 DEF WorkerDrop, Orderly, Placed, Inside
  <2>3. ASSUME NEW u \in Threads, NEW v \in Threads PROVE Apart(u, v)'
    BY <1>1 DEF WorkerDrop, Orderly, Apart
  <2> QED
    BY <1>1, <2>1, <2>2, <2>3 DEF WorkerDrop, Orderly
<1>2. CASE WorkerCheck \/ WorkerUseAfterFree \/ Expire \/ UNCHANGED vars
  BY <1>2 DEF WorkerCheck, WorkerUseAfterFree, Expire, vars, Orderly, Placed, Inside,
              Apart
<1> QED
  BY <1>1, <1>2, OrderlyBegin, OrderlyContinue DEF Next, Worker

LEMMA OrderlyInit == Init => Orderly
  BY DEF Init, Orderly, Placed, Inside, Apart

-----------------------------------------------------------------------------
(* One handler at a time updates open_count.                               *)

\* A handler that starts to update open_count finds no other doing so: one thread
\* is alone, and the serial operations exclude each other by libfuse's path lock
\* or by the metadata mutex.
LEMMA NoOtherUpdater ==
  ASSUME SingleHandler \/ SerialOps, TypeInv, Orderly,
         NEW t \in Threads, NEW u \in Threads, t # u, Updating(u)
  PROVE  /\ Acquire(t) => op[t] \notin PathOps
         /\ ~CloseBegin(t) /\ ~HandleFail(t)
<1>1. SerialOps
  BY DEF SingleHandler
<1>2. Placed(t) /\ Placed(u) /\ Apart(t, u) /\ Apart(u, t) /\ (writer # NoThread => readers = {})
  BY Zenon DEF Orderly
<1>3. pc[u] \in {"inc", "dec"} /\ op[u] \in Ops /\ Inside(u) /\ u # NoThread
  BY <1>2, ThreadsAssumption DEF Updating, Placed, Inside
<1>4. SUFFICES ASSUME pc[t] # "idle" PROVE
         /\ Acquire(t) => op[t] \notin PathOps
         /\ ~CloseBegin(t) /\ ~HandleFail(t)
  BY DEF Acquire, CloseBegin, HandleFail
<1>5. op[t] \in {"setattr", "read", "write"} /\ op[u] \in {"setattr", "read", "write"}
  BY <1>1, <1>2, <1>3, <1>4 DEF Apart, SerialOps, TreeLockedOps, Placed
<1>6. /\ op[u] \in {"setattr", "write"} => writer = u
      /\ op[u] = "read" => u \in readers /\ pc[u] = "dec" /\ failures # 0
  BY <1>2, <1>3, <1>5 DEF Placed, ExclusiveOps, SharedOps, PathOps
<1>7. Acquire(t) => op[t] \notin PathOps
  BY <1>3, <1>5, <1>6 DEF Acquire, CanLock, ExclusiveOps, PathOps
<1>8. ~CloseBegin(t)
  <2> SUFFICES ASSUME CloseBegin(t) PROVE FALSE
    OBVIOUS
  <2>1. op[t] = "setattr" /\ Inside(t)
    BY <1>5 DEF CloseBegin, Inside
  <2>2. writer = t /\ readers = {}
    BY <1>2, <2>1, ThreadsAssumption DEF Placed, ExclusiveOps
  <2> QED
    BY <1>5, <1>6, <2>2
<1>9. ~HandleFail(t)
  <2> SUFFICES ASSUME HandleFail(t) PROVE FALSE
    OBVIOUS
  <2>1. op[t] \in {"read", "write"} /\ Inside(t) /\ failures < MaxFailures
    BY DEF HandleFail, Inside
  <2>2. CASE op[t] = "write"
    <3>1. writer = t /\ readers = {}
      BY <1>2, <2>1, <2>2, ThreadsAssumption DEF Placed, ExclusiveOps
    <3> QED
      BY <1>5, <1>6, <3>1
  <2>3. CASE op[t] = "read"
    <3>1. t \in readers /\ writer = NoThread
      BY <1>2, <2>1, <2>3 DEF Placed, SharedOps
    <3>2. op[u] = "read" /\ failures # 0
      BY <1>3, <1>5, <1>6, <3>1
    <3>3. MaxFailures <= 1
      BY <1>1, <1>3, <3>2 DEF SerialOps
    <3> QED
      BY <2>1, <3>2, <3>3, FailuresAssumption DEF TypeInv, TypeOK
  <2> QED
    BY <2>1, <2>2, <2>3
<1> QED
  BY <1>7, <1>8, <1>9

\* open_count follows Total, up or down.
LEMMA CountUp ==
  ASSUME TypeInv, CountExact, cached, Total' = Total + 1,
         count' = (count + 1) % CountMod
  PROVE  CountExact'
<1>1. count = Total % CountMod
  BY DEF CountExact, Total
<1>2. count' = (Total + 1) % CountMod
  BY <1>1, TotalIsInt, CountModIsPos, ModUpDown
<1> QED
  BY <1>2 DEF CountExact, Total

LEMMA CountDown ==
  ASSUME TypeInv, CountExact, cached, Total' = Total - 1,
         count' = (count + CountMod - 1) % CountMod
  PROVE  CountExact'
<1>1. count = Total % CountMod
  BY DEF CountExact, Total
<1>2. count' = (Total - 1) % CountMod
  BY <1>1, TotalIsInt, CountModIsPos, ModUpDown
<1> QED
  BY <1>2 DEF CountExact, Total

LEMMA CountSame ==
  ASSUME CountExact, cached' = cached, Total' = Total, count' = count
  PROVE  CountExact'
  BY DEF CountExact, Total

\* A destroyed or a fresh object.
LEMMA CountFresh ==
  ASSUME \A d \in Fds : fd'[d] # "live", \A u \in Threads : ~Counted(u)',
         count' = leaked', leaked' \in 0 .. 1
  PROVE  CountExact'
<1>1. LiveFds' = {} /\ Holders' = {}
  BY DEF LiveFds, Holders, Counted
<1>2. Cardinality(LiveFds)' = 0 /\ Cardinality(Holders)' = 0
  BY <1>1, FS_EmptySet
<1>3. 0 % CountMod = 0 /\ 1 % CountMod = 1
  <2>1. 0 = 0 * CountMod + 0 /\ 1 = 0 * CountMod + 1
    BY CountModIsPos
  <2> QED
    BY <2>1, CountModIsPos, ModUnique
<1> QED
  BY <1>2, <1>3 DEF CountExact

\* A step of t that leaves the other handlers and open_count where they are, and
\* after which t updates nothing it did not update before.
LEMMA OneUpdaterKept ==
  ASSUME OneUpdater, NEW t \in Threads, count' = count,
         \A u \in Threads \ {t} : Updating(u)' => Updating(u) /\ tmp'[u] = tmp[u],
         Updating(t)' => Updating(t) /\ tmp'[t] = tmp[t]
  PROVE  OneUpdater'
  BY DEF OneUpdater

\* A step after which t is the only one that updates, or nobody does.
LEMMA OneUpdaterOnly ==
  ASSUME NEW t \in Threads, \A u \in Threads \ {t} : ~Updating(u)',
         Updating(t)' => tmp'[t] = count'
  PROVE  OneUpdater'
  BY DEF OneUpdater

LEMMA ExactBegin ==
  ASSUME Exact, NEW t \in Threads, Begin(t)
  PROVE  OneUpdater' /\ CountExact'
<1> USE DEF Exact, TypeInv, TypeOK, Goto, Start, MayStart, object, locks, ghosts,
            PathOps, HandleOps
<1>1. ASSUME NEW d \in Fds, BeginOpen(t, d) PROVE OneUpdater' /\ CountExact'
  <2>1. OneUpdater'
    BY <1>1, OneUpdaterKept DEF BeginOpen, Find, Updating
  <2>2. Cardinality(LiveFds)' = Cardinality(LiveFds)
    BY <1>1, LiveFdsSame DEF BeginOpen
  <2>3. \A u \in Threads : Counted(u)' <=> Counted(u)
    BY <1>1 DEF BeginOpen, Find, Counted, HoldsReference
  <2>4. Total' = Total
    BY <1>1, <2>2, <2>3, HoldersStep, TotalIsInt DEF BeginOpen, Find, Total
  <2> QED
    BY <1>1, <2>1, <2>4, CountSame DEF BeginOpen, Find
<1>2. ASSUME NEW d \in Fds, BeginCreate(t, d) PROVE OneUpdater' /\ CountExact'
  <2>1. (\A e \in Fds : fd'[e] # "live") /\ \A u \in Threads \ {t} : ref'[u] # "live"
    BY <1>2 DEF BeginCreate, Orderly, Placed
  <2>2. OneUpdater'
    BY <1>2, <2>1, OneUpdaterOnly DEF BeginCreate, Updating
  <2>3. \A u \in Threads : ~Counted(u)'
    BY <1>2, <2>1 DEF BeginCreate, Counted, HoldsReference
  <2> QED
    BY <1>2, <2>1, <2>2, <2>3, CountFresh DEF BeginCreate, Emplace
<1>3. ASSUME NEW o \in PathOps, BeginPath(t, o) PROVE OneUpdater' /\ CountExact'
  <2>1. OneUpdater'
    BY <1>3, OneUpdaterKept DEF BeginPath, Find, Updating
  <2>2. Cardinality(LiveFds)' = Cardinality(LiveFds)
    BY <1>3, LiveFdsSame DEF BeginPath
  <2>3. \A u \in Threads : Counted(u)' <=> Counted(u)
    BY <1>3 DEF BeginPath, Find, Counted, HoldsReference
  <2>4. Total' = Total
    BY <1>3, <2>2, <2>3, HoldersStep, TotalIsInt DEF BeginPath, Find, Total
  <2> QED
    BY <1>3, <2>1, <2>4, CountSame DEF BeginPath, Find
<1>4. ASSUME NEW o \in HandleOps, NEW d \in Fds, BeginHandle(t, o, d)
      PROVE  OneUpdater' /\ CountExact'
  <2>1. OneUpdater'
    BY <1>4, OneUpdaterKept DEF BeginHandle, Updating
  <2>2. \A u \in Threads \ {t} : Counted(u)' <=> Counted(u)
    BY <1>4 DEF BeginHandle, Counted, HoldsReference
  <2>3. ~Counted(t) /\ (Counted(t)' <=> o = "release" /\ fd[d] = "live")
    BY <1>4 DEF BeginHandle, Counted, HoldsReference
  <2>4. Cardinality(LiveFds)' = Cardinality(LiveFds)
                                  - (IF o = "release" /\ fd[d] = "live" THEN 1 ELSE 0)
    <3>1. CASE o = "release" /\ fd[d] = "live"
      BY <1>4, <3>1, LiveFdsClosed DEF BeginHandle
    <3>2. CASE ~(o = "release" /\ fd[d] = "live")
      BY <1>4, <3>2, LiveFdsSame, LiveFdsCount DEF BeginHandle
    <3> QED
      BY <3>1, <3>2
  <2>5. Cardinality(Holders)' = Cardinality(Holders)
                                  + (IF o = "release" /\ fd[d] = "live" THEN 1 ELSE 0)
    BY <2>2, <2>3, HoldersStep, TotalIsInt
  <2>6. leaked' = leaked /\ leaked \in Int
    BY <1>4, FailuresAssumption DEF BeginHandle
  <2>7. Total' = Total
    BY <2>4, <2>5, <2>6, LiveFdsCount, TotalIsInt DEF Total
  <2> QED
    BY <1>4, <2>1, <2>7, CountSame DEF BeginHandle
<1> QED
  BY <1>1, <1>2, <1>3, <1>4 DEF Begin

\* The steps of a handler that keep its open_context's place in the count: none
\* of them writes open_count, and Total stays.
LEMMA ExactQuiet ==
  ASSUME Exact, SingleHandler \/ SerialOps, NEW t \in Threads,
         \/ CheckValid(t) \/ Acquire(t) \/ CreateDone(t) \/ HandleDone(t)
         \/ HandleFail(t) \/ CloseBegin(t) \/ Policy(t) \/ DropNothing(t)
         \/ UnlinkRemove(t) \/ UseAfterFree(t)
  PROVE  OneUpdater' /\ CountExact'
<1> USE DEF Exact, TypeInv, TypeOK, Goto, object, locks, ghosts, PathOps, HandleOps
<1>0. Placed(t)
  BY Zenon DEF Orderly
<1>1. count' = count /\ cached' = cached
  BY DEF CheckValid, Acquire, CreateDone, HandleDone, HandleFail, CloseBegin, Policy,
         DropNothing, UnlinkRemove, UseAfterFree
<1>2. \A u \in Threads \ {t} :
        pc'[u] = pc[u] /\ op'[u] = op[u] /\ ref'[u] = ref[u] /\ tmp'[u] = tmp[u]
  BY DEF CheckValid, Acquire, CreateDone, HandleDone, HandleFail, CloseBegin, Policy,
         DropNothing, UnlinkRemove, UseAfterFree, Return, Forget
<1>3. \A u \in Threads \ {t} : Counted(u)' <=> Counted(u)
  BY <1>2 DEF Counted, HoldsReference
<1>4. OneUpdater'
  <2>1. CASE (Acquire(t) /\ op[t] \in PathOps) \/ CloseBegin(t) \/ HandleFail(t)
    <3>1. \A u \in Threads \ {t} : ~Updating(u)'
      BY <1>2, <2>1, NoOtherUpdater DEF Updating
    <3>2. tmp'[t] = count'
      BY <2>1 DEF Acquire, CloseBegin, HandleFail
    <3> QED
      BY <3>1, <3>2, OneUpdaterOnly
  <2>2. CASE ~((Acquire(t) /\ op[t] \in PathOps) \/ CloseBegin(t) \/ HandleFail(t))
    <3>1. Updating(t)' => Updating(t) /\ tmp'[t] = tmp[t]
      BY <2>2 DEF CheckValid, Acquire, CreateDone, HandleDone, Policy, DropNothing,
                  UnlinkRemove, UseAfterFree, Return, Forget, Updating
    <3> QED
      BY <1>1, <1>2, <3>1, OneUpdaterKept DEF Updating
  <2> QED
    BY <2>1, <2>2
<1>5. Total' = Total
  <2>1. CASE CreateDone(t)
    <3>1. /\ hnd[t] \in Fds /\ fd[hnd[t]] = "opening"
          /\ fd' = [fd EXCEPT ![hnd[t]] = "live"]
      BY <1>0, <2>1 DEF CreateDone, Placed
    <3>2. Cardinality(LiveFds)' = Cardinality(LiveFds) + 1
      BY <3>1, LiveFdsOpened
    <3>3. Counted(t) /\ ~Counted(t)'
      BY <2>1 DEF CreateDone, Return, Forget, Counted, HoldsReference
    <3>4. Cardinality(Holders)' = Cardinality(Holders) - 1
      BY <1>3, <3>3, HoldersStep, TotalIsInt
    <3>5. leaked' = leaked /\ leaked \in Int
      BY <2>1, FailuresAssumption DEF CreateDone
    <3> QED
      BY <3>2, <3>4, <3>5, LiveFdsCount, TotalIsInt DEF Total
  <2>2. CASE HandleFail(t)
    <3>1. Cardinality(LiveFds)' = Cardinality(LiveFds)
      BY <2>2, LiveFdsSame DEF HandleFail
    <3>2. ~Counted(t) /\ Counted(t)'
      BY <2>2 DEF HandleFail, Counted, HoldsReference
    <3>3. Cardinality(Holders)' = Cardinality(Holders) + 1
      BY <1>3, <3>2, HoldersStep, TotalIsInt
    <3>4. leaked' = leaked - 1 /\ leaked \in Int
      BY <2>2, FailuresAssumption DEF HandleFail
    <3> QED
      BY <3>1, <3>3, <3>4, LiveFdsCount, TotalIsInt DEF Total
  <2>3. CASE ~CreateDone(t) /\ ~HandleFail(t)
    <3>1. UNCHANGED <<fd, leaked>>
      BY <2>3 DEF CheckValid, Acquire, HandleDone, CloseBegin, Policy, DropNothing,
                  UnlinkRemove, UseAfterFree
    <3>2. Cardinality(LiveFds)' = Cardinality(LiveFds)
      BY <3>1, LiveFdsSame
    <3>3. Counted(t)' <=> Counted(t)
      BY <1>0, <2>3 DEF CheckValid, Acquire, HandleDone, CloseBegin, Policy,
                  DropNothing, UnlinkRemove, UseAfterFree, Return, Forget, Counted,
                  HoldsReference, Placed
    <3>4. Cardinality(Holders)' = Cardinality(Holders)
      BY <1>3, <3>3, HoldersStep, TotalIsInt
    <3> QED
      BY <3>1, <3>2, <3>4 DEF Total
  <2> QED
    BY <2>1, <2>2, <2>3
<1> QED
  BY <1>1, <1>4, <1>5, CountSame

LEMMA ExactContinue ==
  ASSUME Exact, SingleHandler \/ SerialOps, NEW t \in Threads, Continue(t)
  PROVE  OneUpdater' /\ CountExact'
<1> USE DEF Exact, TypeInv, TypeOK, Goto, object, locks, ghosts, PathOps, HandleOps
<1>a. Placed(t)
  BY Zenon DEF Orderly
<1>0. Placed(t) /\ leaked \in Int
  BY <1>a, FailuresAssumption
<1>1. CASE Load(t)
  <2>1. \A u \in Threads \ {t} : ref'[u] = ref[u] /\ pc'[u] = pc[u] /\ op'[u] = op[u]
    BY <1>1 DEF Load
  <2>2. ~Counted(t)' /\ ~Counted(t)
    BY <1>0, <1>1 DEF Load, Counted, HoldsReference, Placed
  <2>3. CASE cached
    <3>1. UNCHANGED <<cached, count, leaked, fd>>
      BY <1>1, <2>3 DEF Load
    <3>2. OneUpdater'
      BY <1>1, <3>1, OneUpdaterKept DEF Load, Updating
    <3>3. \A u \in Threads \ {t} : Counted(u)' <=> Counted(u)
      BY <2>1 DEF Counted, HoldsReference
    <3>4. Cardinality(Holders)' = Cardinality(Holders)
      BY <2>2, <3>3, HoldersStep, TotalIsInt
    <3>5. Total' = Total
      BY <3>1, <3>4, LiveFdsSame DEF Total
    <3> QED
      BY <3>1, <3>2, <3>5, CountSame
  <2>4. CASE ~cached
    <3>1. (\A e \in Fds : fd'[e] # "live") /\ \A u \in Threads \ {t} : ref'[u] # "live"
      BY <1>1, <2>1, <2>4 DEF Load, Orderly, Placed
    <3>2. OneUpdater'
      BY <1>1, <3>1, OneUpdaterOnly DEF Load, Updating
    <3>3. \A u \in Threads : ~Counted(u)'
      BY <2>2, <3>1 DEF Counted
    <3> QED
      BY <1>1, <2>4, <3>1, <3>2, <3>3, CountFresh DEF Load, Emplace
  <2> QED
    BY <2>3, <2>4
<1>2. CASE Increment(t)
  <2>1. cached /\ tmp[t] = count /\ ~Counted(t) /\ \A u \in Threads \ {t} : ~Updating(u)
    BY <1>0, <1>2 DEF Increment, Placed, OneUpdater, Updating, Counted, HoldsReference
  <2>2. \A u \in Threads \ {t} : ref'[u] = ref[u] /\ pc'[u] = pc[u] /\ op'[u] = op[u]
    BY <1>2 DEF Increment, Return, Forget
  <2>3. \A u \in Threads \ {t} : Counted(u)' <=> Counted(u)
    BY <2>2 DEF Counted, HoldsReference
  <2>4. OneUpdater'
    BY <1>2, <2>1, <2>2, OneUpdaterOnly DEF Increment, Return, Forget, Updating
  <2>5. Total' = Total + 1
    <3>1. CASE op[t] = "open"
      <4>1. /\ hnd[t] \in Fds /\ fd[hnd[t]] = "opening"
            /\ fd' = [fd EXCEPT ![hnd[t]] = "live"]
        BY <1>0, <1>2, <3>1 DEF Increment, Placed
      <4>2. Cardinality(LiveFds)' = Cardinality(LiveFds) + 1
        BY <4>1, LiveFdsOpened
      <4>3. ~Counted(t)'
        BY <1>2, <3>1 DEF Increment, Forget, Counted
      <4>4. Cardinality(Holders)' = Cardinality(Holders)
        BY <2>1, <2>3, <4>3, HoldersStep, TotalIsInt
      <4> QED
        BY <1>0, <1>2, <4>2, <4>4, LiveFdsCount, TotalIsInt DEF Increment, Total
    <3>2. CASE op[t] # "open"
      <4>1. Cardinality(LiveFds)' = Cardinality(LiveFds)
        BY <1>2, <3>2, LiveFdsSame DEF Increment
      <4>2. Counted(t)'
        BY <1>0, <1>2, <3>2 DEF Increment, Placed, Counted, HoldsReference
      <4>3. Cardinality(Holders)' = Cardinality(Holders) + 1
        BY <2>1, <2>3, <4>2, HoldersStep, TotalIsInt
      <4> QED
        BY <1>0, <1>2, <4>1, <4>3, LiveFdsCount, TotalIsInt DEF Increment, Total
    <3> QED
      BY <3>1, <3>2
  <2>6. count' = (count + 1) % CountMod
    BY <1>2, <2>1 DEF Increment
  <2> QED
    BY <2>1, <2>4, <2>5, <2>6, CountUp
<1>3. CASE Decrement(t)
  <2>1. cached /\ tmp[t] = count /\ Counted(t) /\ \A u \in Threads \ {t} : ~Updating(u)
    BY <1>0, <1>3 DEF Decrement, Placed, OneUpdater, Updating, Counted, HoldsReference
  <2>2. \A u \in Threads \ {t} : Counted(u)' <=> Counted(u)
    BY <1>3 DEF Decrement, Counted, HoldsReference
  <2>3. OneUpdater'
    BY <1>3, <2>1, OneUpdaterOnly DEF Decrement, Updating
  <2>4. ~Counted(t)'
    BY <1>3 DEF Decrement, Counted, HoldsReference
  <2>5. Cardinality(Holders)' = Cardinality(Holders) - 1
    BY <2>1, <2>2, <2>4, HoldersStep, TotalIsInt
  <2>6. Cardinality(LiveFds)' = Cardinality(LiveFds) /\ leaked' = leaked
    BY <1>3, LiveFdsSame DEF Decrement
  <2>7. Total' = Total - 1
    BY <1>0, <2>5, <2>6, LiveFdsCount, TotalIsInt DEF Total
  <2>8. count' = (count + CountMod - 1) % CountMod
    BY <1>3, <2>1 DEF Decrement
  <2> QED
    BY <2>1, <2>3, <2>7, <2>8, CountDown
<1>4. CASE DropEntry(t) \/ UnlinkErase(t) \/ Move(t)
  <2>1. count' = 0 /\ leaked' = 0 /\ \A u \in Threads : ref'[u] # "live"
    BY <1>4 DEF DropEntry, UnlinkErase, EraseEntry, Move, Destroy, Stale
  <2>2. \A d \in Fds : fd'[d] # "live"
    BY <1>4 DEF DropEntry, UnlinkErase, EraseEntry, Move, Destroy, Stale
  <2>3. OneUpdater' /\ \A u \in Threads : ~Counted(u)'
    BY <2>1 DEF OneUpdater, Updating, Counted
  <2> QED
    BY <2>1, <2>2, <2>3, CountFresh
<1> QED
  BY <1>1, <1>2, <1>3, <1>4, ExactQuiet DEF Continue

LEMMA ExactStep ==
  (SingleHandler \/ SerialOps) /\ Exact /\ [Next]_vars => Exact'
<1> SUFFICES ASSUME SingleHandler \/ SerialOps, Exact, [Next]_vars
             PROVE  OneUpdater' /\ CountExact'
  BY TypeInvStep, OrderlyStep DEF Exact
<1>1. CASE WorkerDrop
  <2>1. count' = 0 /\ leaked' = 0 /\ \A u \in Threads : ref'[u] # "live"
    BY <1>1 DEF WorkerDrop, Stale, Exact, TypeInv, TypeOK
  <2>2. \A d \in Fds : fd'[d] # "live"
    BY <1>1 DEF WorkerDrop, Stale, Exact, TypeInv, TypeOK
  <2>3. OneUpdater' /\ \A u \in Threads : ~Counted(u)'
    BY <2>1 DEF OneUpdater, Updating, Counted
  <2> QED
    BY <2>1, <2>2, <2>3, CountFresh
<1>2. CASE WorkerCheck \/ WorkerUseAfterFree \/ Expire \/ UNCHANGED vars
  <2>1. UNCHANGED <<cached, count, leaked, pc, op, ref, tmp, fd>>
    BY <1>2 DEF WorkerCheck, WorkerUseAfterFree, Expire, vars, object
  <2> QED
    BY <2>1 DEF Exact, OneUpdater, Updating, CountExact, LiveFds, Holders, HoldsReference
<1> QED
  BY <1>1, <1>2, ExactBegin, ExactContinue DEF Next, Worker

LEMMA ExactInit == Init => Exact
<1>1. Init => OneUpdater /\ CountExact
  BY Zenon DEF Init, OneUpdater, Updating, CountExact
<1> QED
  BY <1>1, TypeInvInit, OrderlyInit DEF Exact

\* With the one handler thread of "-s", or with any number of threads whose
\* operations exclude each other, open_count is at every moment the open handles,
\* the handlers using the object and the surplus that the constructor, and the
\* failures so far, have left, modulo the width of size_t: no update is ever lost,
\* whatever failed, was renamed, unlinked or evicted before.
THEOREM CountIsExact ==
  ASSUME SingleHandler \/ SerialOps
  PROVE  Spec => []CountExact
<1>1. Exact => CountExact
  BY DEF Exact
<1> QED
  BY <1>1, ExactInit, ExactStep, PTL DEF Spec

=============================================================================
