--------------------------- MODULE UmmuApi_proofs ---------------------------
(***************************************************************************)
(* Proofs about UmmuApi, for any number of threads, tids and segments, with *)
(* forks and with exits that wait for the other threads.                   *)
(*                                                                         *)
(* A thread inside a call owns what its program counter says: ctx_mutex in *)
(* InCtx, the mapt_mutex of its object in InMapt.  Between looking its     *)
(* object up and releasing it, the map still has the object under the same *)
(* tid (InUse): whoever removes it from the map holds both mutexes.  An    *)
(* object that is not in the map is known to one thread only (Private).    *)
(***************************************************************************)
EXTENDS UmmuApi, TLAPS

ArgsGiven ==
    \A t \in Threads : pc[t] \notin {"idle", "exit", "gone"} =>
        op[t] \in Ops /\ tid[t] \in Tids /\ seg[t] \in Segs

DeadIdle ==
    /\ \A t \in Threads : t \notin alive => pc[t] = "idle"
    /\ \A t \in Threads : pc[t] \in {"exit", "gone"} => alive = {t}

CtxExists ==
    \A t \in Threads : pc[t] \notin {"idle", "gone"} => g_ummu_ctx

CtxOwner == \A t \in Threads : pc[t] \in InCtx <=> ctx_mutex = t

MaptOwner ==
    \A t \in Threads : pc[t] \in InMapt =>
        mapt_info[t] \in heap /\ mapt_mutex[mapt_info[t]] = t

MaptHeld ==
    \A k \in Tids : mapt_map[k] # NULL /\ mapt_mutex[mapt_map[k]] # NULL =>
        /\ pc[mapt_mutex[mapt_map[k]]] \in InMapt
        /\ mapt_info[mapt_mutex[mapt_map[k]]] = mapt_map[k]

\* Where a thread uses an object that it found in the map.
Found == (InMapt \ {"unlock_del"}) \cup {"lock_mapt"}

InUse ==
    \A t \in Threads : pc[t] \in Found =>
        mapt_info[t] \in Objs /\ mapt_map[tid[t]] = mapt_info[t]

Private ==
    \A t \in Threads : pc[t] \in {"unlock_del", "destroy", "insert"} =>
        /\ mapt_info[t] \in heap
        /\ \A k \in Tids : mapt_map[k] # mapt_info[t]
        /\ pc[t] = "insert" => mapt_mutex[mapt_info[t]] = NULL

\* A tid that is being allocated or put back is not in the map.
Unmapped ==
    \A t \in Threads :
        /\ pc[t] \in {"unlock_del", "destroy", "put_tid", "create", "insert"} =>
              mapt_map[tid[t]] = NULL
        /\ pc[t] \in {"create", "insert"} => tid[t] \in ktids

\* A call that has changed the table goes to update.
Ahead(t) == pc[t] = "update" \/ (pc[t] = "unlock_ctx" /\ ret[t] = 0)

Decided ==
    \A t \in Threads : pc[t] = "table" \/ Ahead(t) =>
        (seg[t] \in record[mapt_info[t]] <=> op[t] = "ungrant")

\* By how much the table of an object is ahead of its record,
AheadBy ==
    \A t \in Threads : Ahead(t) => \A s \in Segs :
        /\ s = seg[t] => (s \in table[mapt_info[t]] <=> op[t] = "grant")
        /\ s # seg[t] => (s \in table[mapt_info[t]] <=> s \in record[mapt_info[t]])
\* and that it is only in the middle of a call that holds its mutex.
AheadInCall ==
    \A o \in heap :
        \/ table[o] = record[o]
        \/ /\ mapt_mutex[o] \in Threads /\ Ahead(mapt_mutex[o])
           /\ mapt_info[mapt_mutex[o]] = o

LockInv == /\ TypeOK /\ ArgsGiven /\ DeadIdle /\ CtxExists /\ CtxOwner /\ MaptOwner
           /\ MaptHeld /\ MapSound /\ InUse /\ Private /\ Unmapped

\* No thread calls exit while others may be inside the library.
QuietExit == ExitAllowed # "any"

\* Every proof below looks through these abbreviations.
USE NullAssumption, ModeAssumption
    DEF args, locks, shared, vars, Goto, Return, NoCalls, Finish, Ops, InCtx, InMapt, Found

-----------------------------------------------------------------------------
(* The invariant of the locks.                                             *)

\* A step of the system is a step of one thread.
Acts(t) == Call(t) \/ (t \in alive /\ Step(t)) \/ Fork(t) \/ ExitClear(t)

LEMMA OneThread == Next => \E t \in Threads : Acts(t)
  BY DEF Next, Step, Acts

\* Types are kept.
LEMMA TypeStep ==
    ASSUME LockInv, NEW t \in Threads, Acts(t)
    PROVE  TypeOK'
<1>1. CASE Call(t)
  BY <1>1 DEF Call, LockInv, TypeOK, ArgsGiven, InUse, Private, Mapped
<1>2. CASE t \in alive /\ LockCtx(t)
  BY <1>2 DEF LockCtx, LockInv, TypeOK, ArgsGiven, InUse, Private, Mapped
<1>3. CASE t \in alive /\ Lookup(t)
  BY <1>3 DEF Lookup, LockInv, TypeOK, ArgsGiven, InUse, Private, Mapped
<1>4. CASE t \in alive /\ LockMapt(t)
  BY <1>4 DEF LockMapt, LockInv, TypeOK, ArgsGiven, InUse, Private, Mapped
<1>5. CASE t \in alive /\ Check(t)
  BY <1>5 DEF Check, LockInv, TypeOK, ArgsGiven, InUse, Private, Mapped
<1>6. CASE t \in alive /\ LockRandom(t)
  BY <1>6 DEF LockRandom, LockInv, TypeOK, ArgsGiven, InUse, Private, Mapped
<1>7. CASE t \in alive /\ GenRandom(t)
  BY <1>7 DEF GenRandom, LockInv, TypeOK, ArgsGiven, InUse, Private, Mapped
<1>8. CASE t \in alive /\ Decide(t)
  BY <1>8 DEF Decide, LockInv, TypeOK, ArgsGiven, InUse, Private, Mapped
<1>9. CASE t \in alive /\ Table(t)
  <2>1. /\ Changed(table[mapt_info[t]], t) \in SUBSET Segs
        /\ Changed(record[mapt_info[t]], t) \in SUBSET Segs
    BY <1>9 DEF LockInv, TypeOK, ArgsGiven, MaptOwner, Changed, Table
  <2>2. QED
    BY <1>9, <2>1 DEF LockInv, TypeOK, Table
<1>10. CASE t \in alive /\ UnlockCtx(t)
  BY <1>10 DEF UnlockCtx, LockInv, TypeOK, ArgsGiven, InUse, Private, Mapped
<1>11. CASE t \in alive /\ Update(t)
  <2>1. /\ Changed(table[mapt_info[t]], t) \in SUBSET Segs
        /\ Changed(record[mapt_info[t]], t) \in SUBSET Segs
    BY <1>11 DEF LockInv, TypeOK, ArgsGiven, MaptOwner, Changed, Update
  <2>2. QED
    BY <1>11, <2>1 DEF LockInv, TypeOK, Update
<1>12. CASE t \in alive /\ Plbi(t)
  BY <1>12 DEF Plbi, LockInv, TypeOK, ArgsGiven, InUse, Private, Mapped
<1>13. CASE t \in alive /\ Error(t)
  BY <1>13 DEF Error, LockInv, TypeOK, ArgsGiven, InUse, Private, Mapped
<1>14. CASE t \in alive /\ UnlockMapt(t)
  BY <1>14 DEF UnlockMapt, LockInv, TypeOK, ArgsGiven, InUse, Private, Mapped
<1>15. CASE t \in alive /\ MapDel(t)
  BY <1>15 DEF MapDel, LockInv, TypeOK, ArgsGiven, InUse, Private, Mapped
<1>16. CASE t \in alive /\ UnlockDel(t)
  BY <1>16 DEF UnlockDel, LockInv, TypeOK, ArgsGiven, InUse, Private, Mapped
<1>17. CASE t \in alive /\ Destroy(t)
  BY <1>17 DEF Destroy, LockInv, TypeOK, ArgsGiven, InUse, Private, Mapped
<1>18. CASE t \in alive /\ PutTid(t)
  BY <1>18 DEF PutTid, LockInv, TypeOK, ArgsGiven, InUse, Private, Mapped
<1>19. CASE t \in alive /\ UnlockLast(t)
  BY <1>19 DEF UnlockLast, LockInv, TypeOK, ArgsGiven, InUse, Private, Mapped
<1>20. CASE t \in alive /\ GetTid(t)
  BY <1>20 DEF GetTid, LockInv, TypeOK, ArgsGiven, InUse, Private, Mapped
<1>21. CASE t \in alive /\ Create(t)
  BY <1>21 DEF Create, LockInv, TypeOK, ArgsGiven, InUse, Private, Mapped
<1>22. CASE t \in alive /\ Insert(t)
  BY <1>22 DEF Insert, LockInv, TypeOK, ArgsGiven, InUse, Private, Mapped
<1>23. CASE t \in alive /\ ExitFree(t)
  BY <1>23 DEF ExitFree, LockInv, TypeOK, ArgsGiven, InUse, Private, Mapped
<1>24. CASE Fork(t)
  BY <1>24 DEF Fork, LockInv, TypeOK, ArgsGiven, InUse, Private, Mapped
<1>25. CASE ExitClear(t)
  BY <1>25 DEF ExitClear, LockInv, TypeOK, ArgsGiven, InUse, Private, Mapped
<1>26. QED
  BY <1>1, <1>2, <1>3, <1>4, <1>5, <1>6, <1>7, <1>8, <1>9, <1>10, <1>11,
     <1>12, <1>13, <1>14, <1>15, <1>16, <1>17, <1>18, <1>19, <1>20, <1>21,
     <1>22, <1>23, <1>24, <1>25 DEF Acts, Step

LEMMA LockInit == Init => LockInv
  BY DEF Init, LockInv, TypeOK, ArgsGiven, DeadIdle, CtxExists, CtxOwner, MaptOwner,
         MaptHeld, MapSound, InUse, Private, Unmapped

\* Every step of a thread keeps the invariant of the locks.
LEMMA LockStepOf ==
    ASSUME LockInv, QuietExit, NEW t \in Threads, Acts(t)
    PROVE  LockInv'
<1>0. TypeOK'
  BY TypeStep
<1>1. CASE Call(t)
  BY <1>0, <1>1 DEF Call, LockInv, QuietExit, Mapped,
         TypeOK, ArgsGiven, DeadIdle, CtxExists, CtxOwner, MaptOwner,
         MaptHeld, MapSound, InUse, Private, Unmapped
<1>2. CASE t \in alive /\ LockCtx(t)
  BY <1>0, <1>2 DEF LockCtx, LockInv, QuietExit, Mapped,
         TypeOK, ArgsGiven, DeadIdle, CtxExists, CtxOwner, MaptOwner,
         MaptHeld, MapSound, InUse, Private, Unmapped
<1>3. CASE t \in alive /\ Lookup(t)
  BY <1>0, <1>3 DEF Lookup, LockInv, QuietExit, Mapped,
         TypeOK, ArgsGiven, DeadIdle, CtxExists, CtxOwner, MaptOwner,
         MaptHeld, MapSound, InUse, Private, Unmapped
<1>4. CASE t \in alive /\ LockMapt(t)
  BY <1>0, <1>4 DEF LockMapt, LockInv, QuietExit, Mapped,
         TypeOK, ArgsGiven, DeadIdle, CtxExists, CtxOwner, MaptOwner,
         MaptHeld, MapSound, InUse, Private, Unmapped
<1>5. CASE t \in alive /\ Check(t)
  BY <1>0, <1>5 DEF Check, LockInv, QuietExit, Mapped,
         TypeOK, ArgsGiven, DeadIdle, CtxExists, CtxOwner, MaptOwner,
         MaptHeld, MapSound, InUse, Private, Unmapped
<1>6. CASE t \in alive /\ LockRandom(t)
  BY <1>0, <1>6 DEF LockRandom, LockInv, QuietExit, Mapped,
         TypeOK, ArgsGiven, DeadIdle, CtxExists, CtxOwner, MaptOwner,
         MaptHeld, MapSound, InUse, Private, Unmapped
<1>7. CASE t \in alive /\ GenRandom(t)
  BY <1>0, <1>7 DEF GenRandom, LockInv, QuietExit, Mapped,
         TypeOK, ArgsGiven, DeadIdle, CtxExists, CtxOwner, MaptOwner,
         MaptHeld, MapSound, InUse, Private, Unmapped
<1>8. CASE t \in alive /\ Decide(t)
  BY <1>0, <1>8 DEF Decide, LockInv, QuietExit, Mapped,
         TypeOK, ArgsGiven, DeadIdle, CtxExists, CtxOwner, MaptOwner,
         MaptHeld, MapSound, InUse, Private, Unmapped
<1>9. CASE t \in alive /\ Table(t)
  BY <1>0, <1>9 DEF Table, LockInv, QuietExit, Mapped,
         TypeOK, ArgsGiven, DeadIdle, CtxExists, CtxOwner, MaptOwner,
         MaptHeld, MapSound, InUse, Private, Unmapped
<1>10. CASE t \in alive /\ UnlockCtx(t)
  BY <1>0, <1>10 DEF UnlockCtx, LockInv, QuietExit, Mapped,
         TypeOK, ArgsGiven, DeadIdle, CtxExists, CtxOwner, MaptOwner,
         MaptHeld, MapSound, InUse, Private, Unmapped
<1>11. CASE t \in alive /\ Update(t)
  BY <1>0, <1>11 DEF Update, LockInv, QuietExit, Mapped,
         TypeOK, ArgsGiven, DeadIdle, CtxExists, CtxOwner, MaptOwner,
         MaptHeld, MapSound, InUse, Private, Unmapped
<1>12. CASE t \in alive /\ Plbi(t)
  BY <1>0, <1>12 DEF Plbi, LockInv, QuietExit, Mapped,
         TypeOK, ArgsGiven, DeadIdle, CtxExists, CtxOwner, MaptOwner,
         MaptHeld, MapSound, InUse, Private, Unmapped
<1>13. CASE t \in alive /\ Error(t)
  BY <1>0, <1>13 DEF Error, LockInv, QuietExit, Mapped,
         TypeOK, ArgsGiven, DeadIdle, CtxExists, CtxOwner, MaptOwner,
         MaptHeld, MapSound, InUse, Private, Unmapped
<1>14. CASE t \in alive /\ UnlockMapt(t)
  BY <1>0, <1>14 DEF UnlockMapt, LockInv, QuietExit, Mapped,
         TypeOK, ArgsGiven, DeadIdle, CtxExists, CtxOwner, MaptOwner,
         MaptHeld, MapSound, InUse, Private, Unmapped
<1>15. CASE t \in alive /\ MapDel(t)
  BY <1>0, <1>15 DEF MapDel, LockInv, QuietExit, Mapped,
         TypeOK, ArgsGiven, DeadIdle, CtxExists, CtxOwner, MaptOwner,
         MaptHeld, MapSound, InUse, Private, Unmapped
<1>16. CASE t \in alive /\ UnlockDel(t)
  BY <1>0, <1>16 DEF UnlockDel, LockInv, QuietExit, Mapped,
         TypeOK, ArgsGiven, DeadIdle, CtxExists, CtxOwner, MaptOwner,
         MaptHeld, MapSound, InUse, Private, Unmapped
<1>17. CASE t \in alive /\ Destroy(t)
  BY <1>0, <1>17 DEF Destroy, LockInv, QuietExit, Mapped,
         TypeOK, ArgsGiven, DeadIdle, CtxExists, CtxOwner, MaptOwner,
         MaptHeld, MapSound, InUse, Private, Unmapped
<1>18. CASE t \in alive /\ PutTid(t)
  BY <1>0, <1>18 DEF PutTid, LockInv, QuietExit, Mapped,
         TypeOK, ArgsGiven, DeadIdle, CtxExists, CtxOwner, MaptOwner,
         MaptHeld, MapSound, InUse, Private, Unmapped
<1>19. CASE t \in alive /\ UnlockLast(t)
  BY <1>0, <1>19 DEF UnlockLast, LockInv, QuietExit, Mapped,
         TypeOK, ArgsGiven, DeadIdle, CtxExists, CtxOwner, MaptOwner,
         MaptHeld, MapSound, InUse, Private, Unmapped
<1>20. CASE t \in alive /\ GetTid(t)
  BY <1>0, <1>20 DEF GetTid, LockInv, QuietExit, Mapped,
         TypeOK, ArgsGiven, DeadIdle, CtxExists, CtxOwner, MaptOwner,
         MaptHeld, MapSound, InUse, Private, Unmapped
<1>21. CASE t \in alive /\ Create(t)
  BY <1>0, <1>21 DEF Create, LockInv, QuietExit, Mapped,
         TypeOK, ArgsGiven, DeadIdle, CtxExists, CtxOwner, MaptOwner,
         MaptHeld, MapSound, InUse, Private, Unmapped
<1>22. CASE t \in alive /\ Insert(t)
  BY <1>0, <1>22 DEF Insert, LockInv, QuietExit, Mapped,
         TypeOK, ArgsGiven, DeadIdle, CtxExists, CtxOwner, MaptOwner,
         MaptHeld, MapSound, InUse, Private, Unmapped
<1>23. CASE t \in alive /\ ExitFree(t)
  BY <1>0, <1>23 DEF ExitFree, LockInv, QuietExit, Mapped,
         TypeOK, ArgsGiven, DeadIdle, CtxExists, CtxOwner, MaptOwner,
         MaptHeld, MapSound, InUse, Private, Unmapped
<1>24. CASE Fork(t)
  BY <1>0, <1>24 DEF Fork, LockInv, QuietExit, Mapped,
         TypeOK, ArgsGiven, DeadIdle, CtxExists, CtxOwner, MaptOwner,
         MaptHeld, MapSound, InUse, Private, Unmapped
<1>25. CASE ExitClear(t)
  BY <1>0, <1>25 DEF ExitClear, LockInv, QuietExit, Mapped,
         TypeOK, ArgsGiven, DeadIdle, CtxExists, CtxOwner, MaptOwner,
         MaptHeld, MapSound, InUse, Private, Unmapped
<1>26. QED
  BY <1>1, <1>2, <1>3, <1>4, <1>5, <1>6, <1>7, <1>8, <1>9, <1>10, <1>11,
     <1>12, <1>13, <1>14, <1>15, <1>16, <1>17, <1>18, <1>19, <1>20, <1>21,
     <1>22, <1>23, <1>24, <1>25 DEF Acts, Step

LEMMA LockStep ==
    ASSUME LockInv, QuietExit, [Next]_vars
    PROVE  LockInv'
<1>1. CASE UNCHANGED vars
  BY <1>1 DEF LockInv, Mapped, TypeOK, ArgsGiven, DeadIdle, CtxExists, CtxOwner, MaptOwner,
         MaptHeld, MapSound, InUse, Private, Unmapped
<1>2. CASE Next
  BY <1>2, OneThread, LockStepOf
<1>3. QED
  BY <1>1, <1>2

LEMMA LockInvariant == ASSUME QuietExit PROVE Spec => []LockInv
  BY LockInit, LockStep, PTL DEF Spec

-----------------------------------------------------------------------------
(* The decision of a call, and the table ahead of the record.              *)

LEMMA DecidedStepOf ==
    ASSUME LockInv, Decided, QuietExit, NEW t \in Threads, Acts(t)
    PROVE  Decided'
<1>0. TypeOK'
  BY TypeStep
<1>1. CASE Call(t)
  BY <1>0, <1>1 DEF Call, Decided, LockInv, QuietExit, Mapped, Ahead,
         TypeOK, ArgsGiven, DeadIdle, CtxExists, CtxOwner, MaptOwner,
         MaptHeld, MapSound, InUse, Private, Unmapped
<1>2. CASE t \in alive /\ LockCtx(t)
  BY <1>0, <1>2 DEF LockCtx, Decided, LockInv, QuietExit, Mapped, Ahead,
         TypeOK, ArgsGiven, DeadIdle, CtxExists, CtxOwner, MaptOwner,
         MaptHeld, MapSound, InUse, Private, Unmapped
<1>3. CASE t \in alive /\ Lookup(t)
  BY <1>0, <1>3 DEF Lookup, Decided, LockInv, QuietExit, Mapped, Ahead,
         TypeOK, ArgsGiven, DeadIdle, CtxExists, CtxOwner, MaptOwner,
         MaptHeld, MapSound, InUse, Private, Unmapped
<1>4. CASE t \in alive /\ LockMapt(t)
  BY <1>0, <1>4 DEF LockMapt, Decided, LockInv, QuietExit, Mapped, Ahead,
         TypeOK, ArgsGiven, DeadIdle, CtxExists, CtxOwner, MaptOwner,
         MaptHeld, MapSound, InUse, Private, Unmapped
<1>5. CASE t \in alive /\ Check(t)
  BY <1>0, <1>5 DEF Check, Decided, LockInv, QuietExit, Mapped, Ahead,
         TypeOK, ArgsGiven, DeadIdle, CtxExists, CtxOwner, MaptOwner,
         MaptHeld, MapSound, InUse, Private, Unmapped
<1>6. CASE t \in alive /\ LockRandom(t)
  BY <1>0, <1>6 DEF LockRandom, Decided, LockInv, QuietExit, Mapped, Ahead,
         TypeOK, ArgsGiven, DeadIdle, CtxExists, CtxOwner, MaptOwner,
         MaptHeld, MapSound, InUse, Private, Unmapped
<1>7. CASE t \in alive /\ GenRandom(t)
  BY <1>0, <1>7 DEF GenRandom, Decided, LockInv, QuietExit, Mapped, Ahead,
         TypeOK, ArgsGiven, DeadIdle, CtxExists, CtxOwner, MaptOwner,
         MaptHeld, MapSound, InUse, Private, Unmapped
<1>8. CASE t \in alive /\ Decide(t)
  BY <1>0, <1>8 DEF Decide, Decided, LockInv, QuietExit, Mapped, Ahead,
         TypeOK, ArgsGiven, DeadIdle, CtxExists, CtxOwner, MaptOwner,
         MaptHeld, MapSound, InUse, Private, Unmapped
<1>9. CASE t \in alive /\ Table(t)
  BY <1>0, <1>9 DEF Table, Decided, LockInv, QuietExit, Mapped, Ahead,
         TypeOK, ArgsGiven, DeadIdle, CtxExists, CtxOwner, MaptOwner,
         MaptHeld, MapSound, InUse, Private, Unmapped
<1>10. CASE t \in alive /\ UnlockCtx(t)
  BY <1>0, <1>10 DEF UnlockCtx, Decided, LockInv, QuietExit, Mapped, Ahead,
         TypeOK, ArgsGiven, DeadIdle, CtxExists, CtxOwner, MaptOwner,
         MaptHeld, MapSound, InUse, Private, Unmapped
<1>11. CASE t \in alive /\ Update(t)
  BY <1>0, <1>11 DEF Update, Decided, LockInv, QuietExit, Mapped, Ahead,
         TypeOK, ArgsGiven, DeadIdle, CtxExists, CtxOwner, MaptOwner,
         MaptHeld, MapSound, InUse, Private, Unmapped
<1>12. CASE t \in alive /\ Plbi(t)
  BY <1>0, <1>12 DEF Plbi, Decided, LockInv, QuietExit, Mapped, Ahead,
         TypeOK, ArgsGiven, DeadIdle, CtxExists, CtxOwner, MaptOwner,
         MaptHeld, MapSound, InUse, Private, Unmapped
<1>13. CASE t \in alive /\ Error(t)
  BY <1>0, <1>13 DEF Error, Decided, LockInv, QuietExit, Mapped, Ahead,
         TypeOK, ArgsGiven, DeadIdle, CtxExists, CtxOwner, MaptOwner,
         MaptHeld, MapSound, InUse, Private, Unmapped
<1>14. CASE t \in alive /\ UnlockMapt(t)
  BY <1>0, <1>14 DEF UnlockMapt, Decided, LockInv, QuietExit, Mapped, Ahead,
         TypeOK, ArgsGiven, DeadIdle, CtxExists, CtxOwner, MaptOwner,
         MaptHeld, MapSound, InUse, Private, Unmapped
<1>15. CASE t \in alive /\ MapDel(t)
  BY <1>0, <1>15 DEF MapDel, Decided, LockInv, QuietExit, Mapped, Ahead,
         TypeOK, ArgsGiven, DeadIdle, CtxExists, CtxOwner, MaptOwner,
         MaptHeld, MapSound, InUse, Private, Unmapped
<1>16. CASE t \in alive /\ UnlockDel(t)
  BY <1>0, <1>16 DEF UnlockDel, Decided, LockInv, QuietExit, Mapped, Ahead,
         TypeOK, ArgsGiven, DeadIdle, CtxExists, CtxOwner, MaptOwner,
         MaptHeld, MapSound, InUse, Private, Unmapped
<1>17. CASE t \in alive /\ Destroy(t)
  BY <1>0, <1>17 DEF Destroy, Decided, LockInv, QuietExit, Mapped, Ahead,
         TypeOK, ArgsGiven, DeadIdle, CtxExists, CtxOwner, MaptOwner,
         MaptHeld, MapSound, InUse, Private, Unmapped
<1>18. CASE t \in alive /\ PutTid(t)
  BY <1>0, <1>18 DEF PutTid, Decided, LockInv, QuietExit, Mapped, Ahead,
         TypeOK, ArgsGiven, DeadIdle, CtxExists, CtxOwner, MaptOwner,
         MaptHeld, MapSound, InUse, Private, Unmapped
<1>19. CASE t \in alive /\ UnlockLast(t)
  BY <1>0, <1>19 DEF UnlockLast, Decided, LockInv, QuietExit, Mapped, Ahead,
         TypeOK, ArgsGiven, DeadIdle, CtxExists, CtxOwner, MaptOwner,
         MaptHeld, MapSound, InUse, Private, Unmapped
<1>20. CASE t \in alive /\ GetTid(t)
  BY <1>0, <1>20 DEF GetTid, Decided, LockInv, QuietExit, Mapped, Ahead,
         TypeOK, ArgsGiven, DeadIdle, CtxExists, CtxOwner, MaptOwner,
         MaptHeld, MapSound, InUse, Private, Unmapped
<1>21. CASE t \in alive /\ Create(t)
  BY <1>0, <1>21 DEF Create, Decided, LockInv, QuietExit, Mapped, Ahead,
         TypeOK, ArgsGiven, DeadIdle, CtxExists, CtxOwner, MaptOwner,
         MaptHeld, MapSound, InUse, Private, Unmapped
<1>22. CASE t \in alive /\ Insert(t)
  BY <1>0, <1>22 DEF Insert, Decided, LockInv, QuietExit, Mapped, Ahead,
         TypeOK, ArgsGiven, DeadIdle, CtxExists, CtxOwner, MaptOwner,
         MaptHeld, MapSound, InUse, Private, Unmapped
<1>23. CASE t \in alive /\ ExitFree(t)
  BY <1>0, <1>23 DEF ExitFree, Decided, LockInv, QuietExit, Mapped, Ahead,
         TypeOK, ArgsGiven, DeadIdle, CtxExists, CtxOwner, MaptOwner,
         MaptHeld, MapSound, InUse, Private, Unmapped
<1>24. CASE Fork(t)
  BY <1>0, <1>24 DEF Fork, Decided, LockInv, QuietExit, Mapped, Ahead,
         TypeOK, ArgsGiven, DeadIdle, CtxExists, CtxOwner, MaptOwner,
         MaptHeld, MapSound, InUse, Private, Unmapped
<1>25. CASE ExitClear(t)
  BY <1>0, <1>25 DEF ExitClear, Decided, LockInv, QuietExit, Mapped, Ahead,
         TypeOK, ArgsGiven, DeadIdle, CtxExists, CtxOwner, MaptOwner,
         MaptHeld, MapSound, InUse, Private, Unmapped
<1>26. QED
  BY <1>1, <1>2, <1>3, <1>4, <1>5, <1>6, <1>7, <1>8, <1>9, <1>10, <1>11,
     <1>12, <1>13, <1>14, <1>15, <1>16, <1>17, <1>18, <1>19, <1>20, <1>21,
     <1>22, <1>23, <1>24, <1>25 DEF Acts, Step

\* Who is ahead stays ahead by the same.
LEMMA AheadByStepOf ==
    ASSUME LockInv, Decided, AheadBy, AheadInCall, ~RecordFails, QuietExit,
           NEW t \in Threads, Acts(t)
    PROVE  AheadBy'
<1>0. TypeOK'
  BY TypeStep
<1>1. CASE Call(t)
  BY <1>0, <1>1 DEF Call, Changed, Decided, AheadBy, LockInv, QuietExit, Mapped, Ahead,
         TypeOK, ArgsGiven, DeadIdle, CtxExists, CtxOwner, MaptOwner,
         MaptHeld, MapSound, InUse, Private, Unmapped
<1>2. CASE t \in alive /\ LockCtx(t)
  BY <1>0, <1>2 DEF LockCtx, Changed, Decided, AheadBy, LockInv, QuietExit, Mapped, Ahead,
         TypeOK, ArgsGiven, DeadIdle, CtxExists, CtxOwner, MaptOwner,
         MaptHeld, MapSound, InUse, Private, Unmapped
<1>3. CASE t \in alive /\ Lookup(t)
  BY <1>0, <1>3 DEF Lookup, Changed, Decided, AheadBy, LockInv, QuietExit, Mapped, Ahead,
         TypeOK, ArgsGiven, DeadIdle, CtxExists, CtxOwner, MaptOwner,
         MaptHeld, MapSound, InUse, Private, Unmapped
<1>4. CASE t \in alive /\ LockMapt(t)
  BY <1>0, <1>4 DEF LockMapt, Changed, Decided, AheadBy, LockInv, QuietExit, Mapped, Ahead,
         TypeOK, ArgsGiven, DeadIdle, CtxExists, CtxOwner, MaptOwner,
         MaptHeld, MapSound, InUse, Private, Unmapped
<1>5. CASE t \in alive /\ Check(t)
  BY <1>0, <1>5 DEF Check, Changed, Decided, AheadBy, LockInv, QuietExit, Mapped, Ahead,
         TypeOK, ArgsGiven, DeadIdle, CtxExists, CtxOwner, MaptOwner,
         MaptHeld, MapSound, InUse, Private, Unmapped
<1>6. CASE t \in alive /\ LockRandom(t)
  BY <1>0, <1>6 DEF LockRandom, Changed, Decided, AheadBy, LockInv, QuietExit, Mapped, Ahead,
         TypeOK, ArgsGiven, DeadIdle, CtxExists, CtxOwner, MaptOwner,
         MaptHeld, MapSound, InUse, Private, Unmapped
<1>7. CASE t \in alive /\ GenRandom(t)
  BY <1>0, <1>7 DEF GenRandom, Changed, Decided, AheadBy, LockInv, QuietExit, Mapped, Ahead,
         TypeOK, ArgsGiven, DeadIdle, CtxExists, CtxOwner, MaptOwner,
         MaptHeld, MapSound, InUse, Private, Unmapped
<1>8. CASE t \in alive /\ Decide(t)
  BY <1>0, <1>8 DEF Decide, Changed, Decided, AheadBy, LockInv, QuietExit, Mapped, Ahead,
         TypeOK, ArgsGiven, DeadIdle, CtxExists, CtxOwner, MaptOwner,
         MaptHeld, MapSound, InUse, Private, Unmapped
<1>9. CASE t \in alive /\ Table(t)
  BY <1>0, <1>9 DEF Table, Changed, Decided, AheadBy, AheadInCall, LockInv, QuietExit, Mapped, Ahead,
         TypeOK, ArgsGiven, DeadIdle, CtxExists, CtxOwner, MaptOwner,
         MaptHeld, MapSound, InUse, Private, Unmapped
<1>10. CASE t \in alive /\ UnlockCtx(t)
  BY <1>0, <1>10 DEF UnlockCtx, Changed, Decided, AheadBy, LockInv, QuietExit, Mapped, Ahead,
         TypeOK, ArgsGiven, DeadIdle, CtxExists, CtxOwner, MaptOwner,
         MaptHeld, MapSound, InUse, Private, Unmapped
<1>11. CASE t \in alive /\ Update(t)
  BY <1>0, <1>11 DEF Update, Changed, Decided, AheadBy, LockInv, QuietExit, Mapped, Ahead,
         TypeOK, ArgsGiven, DeadIdle, CtxExists, CtxOwner, MaptOwner,
         MaptHeld, MapSound, InUse, Private, Unmapped
<1>12. CASE t \in alive /\ Plbi(t)
  BY <1>0, <1>12 DEF Plbi, Changed, Decided, AheadBy, LockInv, QuietExit, Mapped, Ahead,
         TypeOK, ArgsGiven, DeadIdle, CtxExists, CtxOwner, MaptOwner,
         MaptHeld, MapSound, InUse, Private, Unmapped
<1>13. CASE t \in alive /\ Error(t)
  BY <1>0, <1>13 DEF Error, Changed, Decided, AheadBy, LockInv, QuietExit, Mapped, Ahead,
         TypeOK, ArgsGiven, DeadIdle, CtxExists, CtxOwner, MaptOwner,
         MaptHeld, MapSound, InUse, Private, Unmapped
<1>14. CASE t \in alive /\ UnlockMapt(t)
  BY <1>0, <1>14 DEF UnlockMapt, Changed, Decided, AheadBy, LockInv, QuietExit, Mapped, Ahead,
         TypeOK, ArgsGiven, DeadIdle, CtxExists, CtxOwner, MaptOwner,
         MaptHeld, MapSound, InUse, Private, Unmapped
<1>15. CASE t \in alive /\ MapDel(t)
  BY <1>0, <1>15 DEF MapDel, Changed, Decided, AheadBy, LockInv, QuietExit, Mapped, Ahead,
         TypeOK, ArgsGiven, DeadIdle, CtxExists, CtxOwner, MaptOwner,
         MaptHeld, MapSound, InUse, Private, Unmapped
<1>16. CASE t \in alive /\ UnlockDel(t)
  BY <1>0, <1>16 DEF UnlockDel, Changed, Decided, AheadBy, LockInv, QuietExit, Mapped, Ahead,
         TypeOK, ArgsGiven, DeadIdle, CtxExists, CtxOwner, MaptOwner,
         MaptHeld, MapSound, InUse, Private, Unmapped
<1>17. CASE t \in alive /\ Destroy(t)
  BY <1>0, <1>17 DEF Destroy, Changed, Decided, AheadBy, LockInv, QuietExit, Mapped, Ahead,
         TypeOK, ArgsGiven, DeadIdle, CtxExists, CtxOwner, MaptOwner,
         MaptHeld, MapSound, InUse, Private, Unmapped
<1>18. CASE t \in alive /\ PutTid(t)
  BY <1>0, <1>18 DEF PutTid, Changed, Decided, AheadBy, LockInv, QuietExit, Mapped, Ahead,
         TypeOK, ArgsGiven, DeadIdle, CtxExists, CtxOwner, MaptOwner,
         MaptHeld, MapSound, InUse, Private, Unmapped
<1>19. CASE t \in alive /\ UnlockLast(t)
  BY <1>0, <1>19 DEF UnlockLast, Changed, Decided, AheadBy, LockInv, QuietExit, Mapped, Ahead,
         TypeOK, ArgsGiven, DeadIdle, CtxExists, CtxOwner, MaptOwner,
         MaptHeld, MapSound, InUse, Private, Unmapped
<1>20. CASE t \in alive /\ GetTid(t)
  BY <1>0, <1>20 DEF GetTid, Changed, Decided, AheadBy, LockInv, QuietExit, Mapped, Ahead,
         TypeOK, ArgsGiven, DeadIdle, CtxExists, CtxOwner, MaptOwner,
         MaptHeld, MapSound, InUse, Private, Unmapped
<1>21. CASE t \in alive /\ Create(t)
  BY <1>0, <1>21 DEF Create, Changed, Decided, AheadBy, LockInv, QuietExit, Mapped, Ahead,
         TypeOK, ArgsGiven, DeadIdle, CtxExists, CtxOwner, MaptOwner,
         MaptHeld, MapSound, InUse, Private, Unmapped
<1>22. CASE t \in alive /\ Insert(t)
  BY <1>0, <1>22 DEF Insert, Changed, Decided, AheadBy, LockInv, QuietExit, Mapped, Ahead,
         TypeOK, ArgsGiven, DeadIdle, CtxExists, CtxOwner, MaptOwner,
         MaptHeld, MapSound, InUse, Private, Unmapped
<1>23. CASE t \in alive /\ ExitFree(t)
  BY <1>0, <1>23 DEF ExitFree, Changed, Decided, AheadBy, LockInv, QuietExit, Mapped, Ahead,
         TypeOK, ArgsGiven, DeadIdle, CtxExists, CtxOwner, MaptOwner,
         MaptHeld, MapSound, InUse, Private, Unmapped
<1>24. CASE Fork(t)
  BY <1>0, <1>24 DEF Fork, Changed, Decided, AheadBy, LockInv, QuietExit, Mapped, Ahead,
         TypeOK, ArgsGiven, DeadIdle, CtxExists, CtxOwner, MaptOwner,
         MaptHeld, MapSound, InUse, Private, Unmapped
<1>25. CASE ExitClear(t)
  BY <1>0, <1>25 DEF ExitClear, Changed, Decided, AheadBy, LockInv, QuietExit, Mapped, Ahead,
         TypeOK, ArgsGiven, DeadIdle, CtxExists, CtxOwner, MaptOwner,
         MaptHeld, MapSound, InUse, Private, Unmapped
<1>26. QED
  BY <1>1, <1>2, <1>3, <1>4, <1>5, <1>6, <1>7, <1>8, <1>9, <1>10, <1>11,
     <1>12, <1>13, <1>14, <1>15, <1>16, <1>17, <1>18, <1>19, <1>20, <1>21,
     <1>22, <1>23, <1>24, <1>25 DEF Acts, Step

\* Nobody else's table is ahead.
LEMMA AheadInCallStepOf ==
    ASSUME LockInv, Decided, AheadBy, AheadInCall, ~RecordFails, QuietExit,
           NEW t \in Threads, Acts(t)
    PROVE  AheadInCall'
<1>0. TypeOK'
  BY TypeStep
<1>1. CASE Call(t)
  BY <1>0, <1>1 DEF Call, AheadBy, AheadInCall, LockInv, QuietExit, Mapped, Ahead,
         TypeOK, ArgsGiven, DeadIdle, CtxExists, CtxOwner, MaptOwner,
         MaptHeld, MapSound, InUse, Private, Unmapped
<1>2. CASE t \in alive /\ LockCtx(t)
  BY <1>0, <1>2 DEF LockCtx, AheadBy, AheadInCall, LockInv, QuietExit, Mapped, Ahead,
         TypeOK, ArgsGiven, DeadIdle, CtxExists, CtxOwner, MaptOwner,
         MaptHeld, MapSound, InUse, Private, Unmapped
<1>3. CASE t \in alive /\ Lookup(t)
  BY <1>0, <1>3 DEF Lookup, AheadBy, AheadInCall, LockInv, QuietExit, Mapped, Ahead,
         TypeOK, ArgsGiven, DeadIdle, CtxExists, CtxOwner, MaptOwner,
         MaptHeld, MapSound, InUse, Private, Unmapped
<1>4. CASE t \in alive /\ LockMapt(t)
  BY <1>0, <1>4 DEF LockMapt, AheadBy, AheadInCall, LockInv, QuietExit, Mapped, Ahead,
         TypeOK, ArgsGiven, DeadIdle, CtxExists, CtxOwner, MaptOwner,
         MaptHeld, MapSound, InUse, Private, Unmapped
<1>5. CASE t \in alive /\ Check(t)
  BY <1>0, <1>5 DEF Check, AheadBy, AheadInCall, LockInv, QuietExit, Mapped, Ahead,
         TypeOK, ArgsGiven, DeadIdle, CtxExists, CtxOwner, MaptOwner,
         MaptHeld, MapSound, InUse, Private, Unmapped
<1>6. CASE t \in alive /\ LockRandom(t)
  BY <1>0, <1>6 DEF LockRandom, AheadBy, AheadInCall, LockInv, QuietExit, Mapped, Ahead,
         TypeOK, ArgsGiven, DeadIdle, CtxExists, CtxOwner, MaptOwner,
         MaptHeld, MapSound, InUse, Private, Unmapped
<1>7. CASE t \in alive /\ GenRandom(t)
  BY <1>0, <1>7 DEF GenRandom, AheadBy, AheadInCall, LockInv, QuietExit, Mapped, Ahead,
         TypeOK, ArgsGiven, DeadIdle, CtxExists, CtxOwner, MaptOwner,
         MaptHeld, MapSound, InUse, Private, Unmapped
<1>8. CASE t \in alive /\ Decide(t)
  BY <1>0, <1>8 DEF Decide, AheadBy, AheadInCall, LockInv, QuietExit, Mapped, Ahead,
         TypeOK, ArgsGiven, DeadIdle, CtxExists, CtxOwner, MaptOwner,
         MaptHeld, MapSound, InUse, Private, Unmapped
<1>9. CASE t \in alive /\ Table(t)
  BY <1>0, <1>9 DEF Table, AheadBy, AheadInCall, LockInv, QuietExit, Mapped, Ahead,
         TypeOK, ArgsGiven, DeadIdle, CtxExists, CtxOwner, MaptOwner,
         MaptHeld, MapSound, InUse, Private, Unmapped
<1>10. CASE t \in alive /\ UnlockCtx(t)
  BY <1>0, <1>10 DEF UnlockCtx, AheadBy, AheadInCall, LockInv, QuietExit, Mapped, Ahead,
         TypeOK, ArgsGiven, DeadIdle, CtxExists, CtxOwner, MaptOwner,
         MaptHeld, MapSound, InUse, Private, Unmapped
<1>11. CASE t \in alive /\ Update(t)
  <2>1. table[mapt_info[t]] = record'[mapt_info[t]]
    <3>1. /\ pc[t] = "update" /\ mapt_info[t] \in Objs /\ seg[t] \in Segs
          /\ record' = [record EXCEPT ![mapt_info[t]] = Changed(@, t)]
      BY <1>11 DEF Update, LockInv, TypeOK, ArgsGiven, MaptOwner
    <3>2. record'[mapt_info[t]] = Changed(record[mapt_info[t]], t)
      BY <3>1 DEF LockInv, TypeOK
    <3>3. /\ table[mapt_info[t]] \subseteq Segs
          /\ Changed(record[mapt_info[t]], t) \subseteq Segs
      BY <3>1 DEF LockInv, TypeOK, Changed
    <3>4. \A s \in Segs : s \in table[mapt_info[t]] <=> s \in Changed(record[mapt_info[t]], t)
      BY <3>1 DEF AheadBy, Ahead, Changed
    <3>5. QED
      BY <3>2, <3>3, <3>4
  <2>2. QED
    BY <1>11, <2>1, <1>0 DEF Update, AheadInCall, Ahead, LockInv, TypeOK, MaptOwner
<1>12. CASE t \in alive /\ Plbi(t)
  BY <1>0, <1>12 DEF Plbi, AheadBy, AheadInCall, LockInv, QuietExit, Mapped, Ahead,
         TypeOK, ArgsGiven, DeadIdle, CtxExists, CtxOwner, MaptOwner,
         MaptHeld, MapSound, InUse, Private, Unmapped
<1>13. CASE t \in alive /\ Error(t)
  BY <1>0, <1>13 DEF Error, AheadBy, AheadInCall, LockInv, QuietExit, Mapped, Ahead,
         TypeOK, ArgsGiven, DeadIdle, CtxExists, CtxOwner, MaptOwner,
         MaptHeld, MapSound, InUse, Private, Unmapped
<1>14. CASE t \in alive /\ UnlockMapt(t)
  BY <1>0, <1>14 DEF UnlockMapt, AheadBy, AheadInCall, LockInv, QuietExit, Mapped, Ahead,
         TypeOK, ArgsGiven, DeadIdle, CtxExists, CtxOwner, MaptOwner,
         MaptHeld, MapSound, InUse, Private, Unmapped
<1>15. CASE t \in alive /\ MapDel(t)
  BY <1>0, <1>15 DEF MapDel, AheadBy, AheadInCall, LockInv, QuietExit, Mapped, Ahead,
         TypeOK, ArgsGiven, DeadIdle, CtxExists, CtxOwner, MaptOwner,
         MaptHeld, MapSound, InUse, Private, Unmapped
<1>16. CASE t \in alive /\ UnlockDel(t)
  BY <1>0, <1>16 DEF UnlockDel, AheadBy, AheadInCall, LockInv, QuietExit, Mapped, Ahead,
         TypeOK, ArgsGiven, DeadIdle, CtxExists, CtxOwner, MaptOwner,
         MaptHeld, MapSound, InUse, Private, Unmapped
<1>17. CASE t \in alive /\ Destroy(t)
  BY <1>0, <1>17 DEF Destroy, AheadBy, AheadInCall, LockInv, QuietExit, Mapped, Ahead,
         TypeOK, ArgsGiven, DeadIdle, CtxExists, CtxOwner, MaptOwner,
         MaptHeld, MapSound, InUse, Private, Unmapped
<1>18. CASE t \in alive /\ PutTid(t)
  BY <1>0, <1>18 DEF PutTid, AheadBy, AheadInCall, LockInv, QuietExit, Mapped, Ahead,
         TypeOK, ArgsGiven, DeadIdle, CtxExists, CtxOwner, MaptOwner,
         MaptHeld, MapSound, InUse, Private, Unmapped
<1>19. CASE t \in alive /\ UnlockLast(t)
  BY <1>0, <1>19 DEF UnlockLast, AheadBy, AheadInCall, LockInv, QuietExit, Mapped, Ahead,
         TypeOK, ArgsGiven, DeadIdle, CtxExists, CtxOwner, MaptOwner,
         MaptHeld, MapSound, InUse, Private, Unmapped
<1>20. CASE t \in alive /\ GetTid(t)
  BY <1>0, <1>20 DEF GetTid, AheadBy, AheadInCall, LockInv, QuietExit, Mapped, Ahead,
         TypeOK, ArgsGiven, DeadIdle, CtxExists, CtxOwner, MaptOwner,
         MaptHeld, MapSound, InUse, Private, Unmapped
<1>21. CASE t \in alive /\ Create(t)
  <2>1. CASE heap' = heap
    BY <1>21, <2>1, <1>0 DEF Create, AheadInCall, Ahead, LockInv, TypeOK
  <2>2. CASE heap' # heap
    <3>1. PICK o \in Objs \ heap :
             /\ heap' = heap \cup {o} /\ mapt_mutex' = [mapt_mutex EXCEPT ![o] = NULL]
             /\ table' = [table EXCEPT ![o] = {}] /\ record' = [record EXCEPT ![o] = {}]
             /\ mapt_info' = [mapt_info EXCEPT ![t] = o]
      BY <1>21, <2>2 DEF Create
    <3>2. table'[o] = record'[o]
      BY <3>1 DEF LockInv, TypeOK
    <3>3. \A x \in heap : /\ table'[x] = table[x] /\ record'[x] = record[x]
                          /\ mapt_mutex'[x] = mapt_mutex[x]
      BY <3>1 DEF LockInv, TypeOK
    <3>4. ASSUME NEW u \in Threads, Ahead(u)
          PROVE  Ahead(u)' /\ mapt_info'[u] = mapt_info[u]
      <4>1. /\ pc[t] = "create" /\ pc' = [pc EXCEPT ![t] = "insert"] /\ ret' = ret
        BY <1>21, <2>2 DEF Create
      <4>2. u # t
        BY <4>1, <3>4 DEF Ahead
      <4>3. QED
        BY <3>1, <3>4, <4>1, <4>2 DEF Ahead, LockInv, TypeOK
    <3>5. QED
      BY <3>1, <3>2, <3>3, <3>4 DEF AheadInCall
  <2>3. QED
    BY <2>1, <2>2
<1>22. CASE t \in alive /\ Insert(t)
  BY <1>0, <1>22 DEF Insert, AheadBy, AheadInCall, LockInv, QuietExit, Mapped, Ahead,
         TypeOK, ArgsGiven, DeadIdle, CtxExists, CtxOwner, MaptOwner,
         MaptHeld, MapSound, InUse, Private, Unmapped
<1>23. CASE t \in alive /\ ExitFree(t)
  BY <1>0, <1>23 DEF ExitFree, AheadBy, AheadInCall, LockInv, QuietExit, Mapped, Ahead,
         TypeOK, ArgsGiven, DeadIdle, CtxExists, CtxOwner, MaptOwner,
         MaptHeld, MapSound, InUse, Private, Unmapped
<1>24. CASE Fork(t)
  <2>1. \A o \in heap' : o \in heap /\ \A k \in Tids : mapt_map[k] = o => ~g_ummu_ctx
    BY <1>24 DEF Fork, Mapped, LockInv, TypeOK
  <2>2. \A u \in Threads : Ahead(u) =>
           g_ummu_ctx /\ tid[u] \in Tids /\ mapt_map[tid[u]] = mapt_info[u]
    BY DEF Ahead, LockInv, ArgsGiven, CtxExists, InUse
  <2>3. \A o \in heap' : table[o] = record[o]
    BY <2>1, <2>2 DEF AheadInCall
  <2>4. QED
    BY <1>24, <2>3 DEF Fork, AheadInCall
<1>25. CASE ExitClear(t)
  BY <1>0, <1>25 DEF ExitClear, AheadBy, AheadInCall, LockInv, QuietExit, Mapped, Ahead,
         TypeOK, ArgsGiven, DeadIdle, CtxExists, CtxOwner, MaptOwner,
         MaptHeld, MapSound, InUse, Private, Unmapped
<1>26. QED
  BY <1>1, <1>2, <1>3, <1>4, <1>5, <1>6, <1>7, <1>8, <1>9, <1>10, <1>11,
     <1>12, <1>13, <1>14, <1>15, <1>16, <1>17, <1>18, <1>19, <1>20, <1>21,
     <1>22, <1>23, <1>24, <1>25 DEF Acts, Step

\* All of it together, when no record of a segment fails to be allocated.
FullInv == LockInv /\ Decided /\ AheadBy /\ AheadInCall

LEMMA DecidedInvariant ==
    ASSUME QuietExit PROVE Spec => [](LockInv /\ Decided)
<1>1. Init => LockInv /\ Decided
  BY LockInit DEF Init, Decided, Ahead
<1>2. LockInv /\ Decided /\ [Next]_vars => (LockInv /\ Decided)'
  <2>1. CASE UNCHANGED vars
    BY <2>1, LockStep DEF Decided, Ahead
  <2>2. CASE Next
    BY <2>2, OneThread, LockStepOf, DecidedStepOf
  <2>3. QED
    BY <2>1, <2>2
<1>3. QED
  BY <1>1, <1>2, PTL DEF Spec

LEMMA FullInvariant ==
    ASSUME QuietExit, ~RecordFails PROVE Spec => []FullInv
<1>1. Init => FullInv
  BY LockInit DEF Init, FullInv, Decided, Ahead, AheadBy, AheadInCall
<1>2. FullInv /\ [Next]_vars => FullInv'
  <2>1. CASE UNCHANGED vars
    BY <2>1, LockStep DEF FullInv, Decided, Ahead, AheadBy, AheadInCall
  <2>2. CASE Next
    BY <2>2, OneThread, LockStepOf, DecidedStepOf, AheadByStepOf, AheadInCallStepOf DEF FullInv
  <2>3. QED
    BY <2>1, <2>2
<1>3. QED
  BY <1>1, <1>2, PTL DEF Spec

-----------------------------------------------------------------------------
(* The theorems.                                                           *)

\* The types are right for any number of threads, forks and quiet exits.
THEOREM ApiTypeCorrect == ASSUME QuietExit PROVE Spec => []TypeOK
  BY LockInvariant, PTL DEF LockInv

\* No call uses the context or the object of a tid after it was freed: a thread
\* that has found an object holds ctx_mutex or its mapt_mutex until it is done,
\* and ummu_free_tid takes both before the object leaves the map.
THEOREM ObjectsOutliveCalls == ASSUME QuietExit PROVE Spec => []NoUseAfterFree
<1>1. ASSUME LockInv PROVE NoUseAfterFree
  <2>1. \A t \in Threads : pc[t] \in UsesObj => mapt_info[t] \in heap
    <3>1. \A t \in Threads : pc[t] = "lock_mapt" => mapt_info[t] \in heap
      BY <1>1 DEF LockInv, TypeOK, ArgsGiven, InUse, MapSound
    <3>2. QED
      BY <1>1, <3>1 DEF LockInv, UsesObj, MaptOwner, Private
  <2>2. \A t \in Threads : pc[t] \in InCtx \cup {"lock_ctx"} => g_ummu_ctx
    BY <1>1 DEF LockInv, CtxExists
  <2>3. QED
    BY <1>1, <2>1, <2>2 DEF NoUseAfterFree, LockInv, TypeOK
<1>2. QED
  BY <1>1, LockInvariant, PTL

\* ummu_mapt_destroy works on an object that nobody else uses or waits for,
\* although ummu_free_tid has released its mapt_mutex by then.
THEOREM DestroyerIsAlone == ASSUME QuietExit PROVE Spec => []DestroyedAlone
<1>1. LockInv => DestroyedAlone
  BY DEF LockInv, DestroyedAlone, UsesObj, TypeOK, CtxOwner, InUse, Private, ArgsGiven
<1>2. QED
  BY <1>1, LockInvariant, PTL

\* The map gives every tid a live object of its own, and has only tids that the
\* kernel has given out.
THEOREM MapIsSound == ASSUME QuietExit PROVE Spec => []MapSound
  BY LockInvariant, PTL DEF LockInv

\* In the child of a fork no lock of the context or of a tid in its map belongs
\* to a thread that was not copied.
THEOREM NoOrphanLock == ASSUME QuietExit PROVE Spec => []LocksHeldByLiving
<1>1. LockInv => LocksHeldByLiving
  BY DEF LockInv, LocksHeldByLiving, TypeOK, DeadIdle, CtxOwner, MaptHeld, Mapped
<1>2. QED
  BY <1>1, LockInvariant, PTL

\* What ummu_grant_check or ummu_ungrant_check decided under both locks still
\* holds when ummu_update_info runs, after ctx_mutex was released.
THEOREM DecisionIsCurrent == ASSUME QuietExit PROVE Spec => []DecisionStands
<1>1. LockInv /\ Decided => DecisionStands
  BY DEF LockInv, TypeOK, Decided, DecisionStands, Ahead
<1>2. QED
  BY <1>1, DecidedInvariant, PTL

\* If no segment record fails to be allocated, what the device may access
\* through a tid nobody is changing is what its records say.
THEOREM TableIsRecorded ==
    ASSUME QuietExit, ~RecordFails PROVE Spec => []TableMatchesRecord
<1>1. FullInv => TableMatchesRecord
  BY DEF FullInv, AheadInCall, TableMatchesRecord
<1>2. QED
  BY <1>1, FullInvariant, PTL

\* The rule stated beside mapt_mutex is kept: it is locked, or freed with its
\* object, under ctx_mutex, or when no thread is inside a call.
THEOREM MutexOrderKept == ASSUME QuietExit PROVE Spec => MaptMutexUnderCtx
<1> DEFINE Rule ==
      \A o \in Objs :
          \/ mapt_mutex[o] = NULL /\ mapt_mutex'[o] # NULL
          \/ o \in heap \ heap'
          => \/ \E t \in alive : ctx_mutex = t /\ pc'[t] # pc[t]
             \/ \A t \in alive' : pc[t] \notin InCtx \cup InMapt
<1>1. ASSUME LockInv, NEW t \in Threads, Acts(t) PROVE Rule
  <2>1. CASE t \in alive /\ LockMapt(t)
    BY <1>1, <2>1 DEF LockMapt, LockInv, TypeOK, CtxOwner
  <2>2. CASE t \in alive /\ Destroy(t)
    BY <1>1, <2>2 DEF Destroy, LockInv, TypeOK, CtxOwner
  <2>3. CASE t \in alive /\ Create(t)
    BY <1>1, <2>3 DEF Create, LockInv, TypeOK, CtxOwner
  <2>4. CASE Fork(t)
    BY <1>1, <2>4 DEF Fork
  <2>5. CASE ExitClear(t)
    BY <1>1, <2>5 DEF ExitClear, QuietExit
  <2>6. QED
    BY <1>1, <2>1, <2>2, <2>3, <2>4, <2>5 DEF Acts, Step, Call, LockCtx, Lookup, Check,
       LockRandom, GenRandom, Decide, Table, UnlockCtx, Update, Plbi, Error, UnlockMapt,
       MapDel, UnlockDel, PutTid, UnlockLast, GetTid, Insert, ExitFree, LockInv, TypeOK
<1>2. LockInv /\ [Next]_vars => [Rule]_vars
  BY <1>1, OneThread
<1>3. QED
  BY <1>2, LockInvariant, PTL DEF Spec, MaptMutexUnderCtx

-----------------------------------------------------------------------------
(* The calls implement the store of tids.                                  *)

\* An object that is about to enter the map has no segments yet.
FreshRecord == \A t \in Threads : pc[t] = "insert" => record[mapt_info[t]] = {}

LEMMA FreshStepOf ==
    ASSUME LockInv, FreshRecord, NEW t \in Threads, Acts(t)
    PROVE  FreshRecord'
<1>1. CASE t \in alive /\ Update(t)
  <2>1. \A o \in Objs : o # mapt_info[t] => record'[o] = record[o]
    BY <1>1 DEF Update, LockInv, TypeOK
  <2>2. mapt_map[tid[t]] = mapt_info[t] /\ tid[t] \in Tids
    BY <1>1 DEF Update, LockInv, InUse, ArgsGiven
  <2>3. \A u \in Threads : pc'[u] = "insert" => pc[u] = "insert" /\ mapt_info'[u] = mapt_info[u]
    BY <1>1 DEF Update, LockInv, TypeOK
  <2>4. \A u \in Threads : pc[u] = "insert" => mapt_info[u] \in Objs /\ mapt_info[u] # mapt_info[t]
    BY <2>2 DEF LockInv, TypeOK, Private
  <2>5. QED
    BY <2>1, <2>3, <2>4 DEF FreshRecord
<1>2. CASE t \in alive /\ Create(t)
  BY <1>2 DEF Create, FreshRecord, LockInv, TypeOK, Private
<1>3. CASE Fork(t)
  BY <1>3 DEF Fork, FreshRecord
<1>4. CASE ~(t \in alive /\ (Update(t) \/ Create(t))) /\ ~Fork(t)
  BY <1>4 DEF Acts, Step, Call, LockCtx, Lookup, LockMapt, Check, LockRandom, GenRandom, Decide,
     Table, UnlockCtx, Plbi, Error, UnlockMapt, MapDel, UnlockDel, Destroy, PutTid,
     UnlockLast, GetTid, Insert, ExitFree, ExitClear, FreshRecord, LockInv, TypeOK
<1>5. QED
  BY <1>1, <1>2, <1>3, <1>4

\* The store as UmmuApi sees it.
StoreTids == {k \in Tids : mapt_map[k] # NULL}
StoreGranted == [k \in Tids |-> IF mapt_map[k] = NULL THEN {} ELSE record[mapt_map[k]]]

\* Every step of a thread is a call of the store, or leaves the store alone.
LEMMA StoreStepOf ==
    ASSUME LockInv, Decided, FreshRecord, QuietExit, NEW t \in Threads, Acts(t)
    PROVE  Store!Next \/ UNCHANGED <<StoreTids, StoreGranted>>
<1>1. CASE t \in alive /\ Insert(t)
  <2>1. PICK k \in Tids : k = tid[t]
    BY <1>1 DEF Insert, LockInv, ArgsGiven
  <2>2. /\ mapt_map[k] = NULL /\ mapt_info[t] \in Objs
        /\ record[mapt_info[t]] = {} /\ mapt_info[t] # NULL
    BY <1>1, <2>1 DEF Insert, LockInv, TypeOK, Unmapped, Private, FreshRecord
  <2>3. mapt_map' = [mapt_map EXCEPT ![k] = mapt_info[t]] /\ record' = record
    BY <1>1, <2>1, <2>2 DEF Insert
  <2>4. StoreTids' = StoreTids \cup {k} /\ k \notin StoreTids
    BY <2>2, <2>3 DEF LockInv, TypeOK, StoreTids
  <2>5. StoreGranted' = StoreGranted
    BY <2>2, <2>3 DEF LockInv, TypeOK, StoreGranted
  <2>6. Store!allocate(k)
    BY <2>4, <2>5 DEF StoreTids, StoreGranted, Store!allocate
  <2>7. QED
    BY <2>6 DEF Store!Next
<1>2. CASE t \in alive /\ Update(t)
  <2>0. PICK k \in Tids, s \in Segs : k = tid[t] /\ s = seg[t]
    BY <1>2 DEF Update, LockInv, ArgsGiven
  <2> DEFINE o == mapt_info[t]
  <2>1. /\ k \in Tids /\ o \in Objs /\ mapt_map[k] = o /\ o # NULL /\ s \in Segs
        /\ pc[t] = "update" /\ mapt_map' = mapt_map
    BY <1>2, <2>0 DEF Update, LockInv, TypeOK, InUse
  <2>2. \A l \in Tids : l # k => mapt_map[l] # o
    BY <2>1 DEF LockInv, MapSound
  <2>3. s \in record[o] <=> op[t] = "ungrant"
    BY <2>0, <2>1 DEF Decided, Ahead
  <2>4. CASE UNCHANGED record
    BY <2>1, <2>4 DEF StoreTids, StoreGranted
  <2>5. CASE record' = [record EXCEPT ![o] = Changed(@, t)]
    <3>1. /\ record'[o] = Changed(record[o], t)
          /\ \A l \in Tids \ {k} : mapt_map[l] # NULL => record'[mapt_map[l]] = record[mapt_map[l]]
      BY <2>1, <2>2, <2>5 DEF LockInv, TypeOK
    <3>2. StoreGranted' = [StoreGranted EXCEPT ![k] = Changed(record[o], t)]
      BY <2>1, <3>1 DEF StoreGranted
    <3>3. k \in StoreTids /\ StoreTids' = StoreTids /\ StoreGranted[k] = record[o]
      BY <2>1 DEF StoreTids, StoreGranted
    <3>4. CASE op[t] = "grant"
      <4>1. Store!grant(k, s)
        BY <2>0, <2>3, <3>2, <3>3, <3>4 DEF Store!grant, StoreTids, StoreGranted, Changed
      <4>2. QED
        BY <2>1, <4>1 DEF Store!Next
    <3>5. CASE op[t] = "ungrant"
      <4>1. Store!ungrant(k, s)
        BY <2>0, <2>3, <3>2, <3>3, <3>5 DEF Store!ungrant, StoreTids, StoreGranted, Changed
      <4>2. QED
        BY <2>1, <4>1 DEF Store!Next
    <3>6. CASE op[t] \notin {"grant", "ungrant"}
      <4>1. Changed(record[o], t) = record[o]
        BY <2>0, <2>3, <3>6 DEF Changed
      <4>2. QED
        BY <2>1, <3>2, <3>3, <4>1 DEF StoreGranted
    <3>7. QED
      BY <3>4, <3>5, <3>6
  <2>6. QED
    BY <1>2, <2>4, <2>5 DEF Update
<1>3. CASE t \in alive /\ MapDel(t)
  <2>0. PICK k \in Tids : k = tid[t]
    BY <1>3 DEF MapDel, LockInv, ArgsGiven
  <2>1. /\ mapt_map[k] = mapt_info[t] /\ mapt_info[t] \in Objs
        /\ mapt_map' = [mapt_map EXCEPT ![k] = NULL] /\ record' = record
    BY <1>3, <2>0 DEF MapDel, LockInv, InUse
  <2>2. Store!free(k)
    BY <2>1 DEF LockInv, TypeOK, Store!free
  <2>3. QED
    BY <2>1, <2>2 DEF Store!Next
<1>4. CASE t \in alive /\ Create(t)
  <2>1. mapt_map' = mapt_map
    BY <1>4 DEF Create
  <2>2. \A k \in Tids : mapt_map[k] # NULL => record'[mapt_map[k]] = record[mapt_map[k]]
    BY <1>4 DEF Create, LockInv, TypeOK, MapSound
  <2>3. QED
    BY <2>1, <2>2 DEF StoreTids, StoreGranted
<1>5. CASE Fork(t) \/ ExitClear(t)
  <2>1. mapt_map' = [k \in Tids |-> NULL]
    BY <1>5 DEF Fork, ExitClear
  <2>2. Store!reset
    BY <2>1 DEF Store!reset, Store!Nothing
  <2>3. QED
    BY <2>2 DEF Store!Next
<1>6. CASE mapt_map' = mapt_map /\ record' = record
  BY <1>6 DEF StoreTids, StoreGranted
<1>7. QED
  BY <1>1, <1>2, <1>3, <1>4, <1>5, <1>6 DEF Acts, Step, Call, LockCtx, Lookup, LockMapt, Check,
     LockRandom, GenRandom, Decide, Table, UnlockCtx, Plbi, Error, UnlockMapt, UnlockDel,
     Destroy, PutTid, UnlockLast, GetTid, ExitFree

\* The calls of any number of threads, their errors and forks included, look
\* to the callers as if each took effect at once on a store of tids.
THEOREM CallsAreAtomic == ASSUME QuietExit PROVE Spec => Refines
<1> DEFINE Inv == LockInv /\ Decided /\ FreshRecord
<1>1. Init => Inv
  BY LockInit DEF Init, Decided, Ahead, FreshRecord
<1>2. Inv /\ [Next]_vars => Inv'
  <2>1. CASE UNCHANGED vars
    BY <2>1, LockStep DEF Decided, Ahead, FreshRecord
  <2>2. CASE Next
    BY <2>2, OneThread, LockStepOf, DecidedStepOf, FreshStepOf
  <2>3. QED
    BY <2>1, <2>2
<1>3. Init => Store!Init
  BY DEF Init, Store!Init, Store!Nothing
<1>4. Inv /\ [Next]_vars => [Store!Next]_<<StoreTids, StoreGranted>>
  <2>1. CASE UNCHANGED vars
    BY <2>1 DEF StoreTids, StoreGranted
  <2>2. CASE Next
    BY <2>2, OneThread, StoreStepOf
  <2>3. QED
    BY <2>1, <2>2
<1>5. QED
  BY <1>1, <1>2, <1>3, <1>4, PTL DEF Spec, Refines, Store!Spec, StoreTids, StoreGranted

-----------------------------------------------------------------------------
(* Nothing is lost, as long as the process does not fork.                  *)

\* An exit that waits for the other threads finds every object in the map.
NothingLeft ==
    /\ \A t \in Threads : pc[t] \in {"exit", "gone"} => heap = {}
    /\ ~g_ummu_ctx => \E t \in Threads : pc[t] = "gone"

LEMMA ObjectStepOf ==
    ASSUME LockInv, NoObjectLost, ~ForkAllowed, QuietExit, NEW t \in Threads, Acts(t)
    PROVE  NoObjectLost'
<1> USE DEF LockInv, TypeOK, NoObjectLost
<1>1. CASE t \in alive /\ MapDel(t)
  BY <1>1 DEF MapDel, InUse, ArgsGiven
<1>2. CASE t \in alive /\ UnlockDel(t)
  BY <1>2 DEF UnlockDel
<1>3. CASE t \in alive /\ Destroy(t)
  BY <1>3 DEF Destroy
<1>4. CASE t \in alive /\ Create(t)
  BY <1>4 DEF Create
<1>5. CASE t \in alive /\ Insert(t)
  BY <1>5 DEF Insert, ArgsGiven, Unmapped
<1>6. CASE ExitClear(t)
  BY <1>6 DEF ExitClear, QuietExit, Mapped
<1>7. CASE ~(t \in alive /\ (MapDel(t) \/ UnlockDel(t) \/ Destroy(t) \/ Create(t) \/ Insert(t)))
           /\ ~ExitClear(t)
  <2>1. /\ heap' = heap /\ mapt_map' = mapt_map /\ alive' = alive
        /\ pc[t] \notin {"unlock_del", "destroy", "insert"}
        /\ \A u \in Threads : u # t => pc'[u] = pc[u] /\ mapt_info'[u] = mapt_info[u]
    BY <1>7 DEF Acts, Step, Fork, Call, LockCtx, Lookup, LockMapt, Check, LockRandom, GenRandom,
     Decide, Table, UnlockCtx, Update, Plbi, Error, UnlockMapt, PutTid, UnlockLast, GetTid, ExitFree
  <2>2. QED
    BY <2>1
<1>8. QED
  BY <1>1, <1>2, <1>3, <1>4, <1>5, <1>6, <1>7

\* Every object is in the map or in the hands of one call, on every error path
\* of ummu_allocate_tid and ummu_free_tid.
THEOREM ObjectsKept == ASSUME QuietExit, ~ForkAllowed PROVE Spec => []NoObjectLost
<1>1. Init => NoObjectLost
  BY DEF Init, NoObjectLost
<1>2. LockInv /\ NoObjectLost /\ [Next]_vars => NoObjectLost'
  <2>1. CASE UNCHANGED vars
    BY <2>1 DEF NoObjectLost
  <2>2. CASE Next
    BY <2>2, OneThread, ObjectStepOf
  <2>3. QED
    BY <2>1, <2>2
<1>3. QED
  BY <1>1, <1>2, LockInvariant, PTL DEF Spec

LEMMA ExitStepOf ==
    ASSUME LockInv, NoObjectLost, NothingLeft, ~ForkAllowed, QuietExit,
           NEW t \in Threads, Acts(t)
    PROVE  NothingLeft'
<1> USE DEF LockInv, TypeOK, NothingLeft
<1>1. CASE ExitClear(t)
  <2>1. heap \subseteq Mapped
    BY <1>1 DEF ExitClear, QuietExit, NoObjectLost, Mapped
  <2>2. QED
    BY <1>1, <2>1 DEF ExitClear
<1>2. CASE t \in alive /\ ExitFree(t)
  BY <1>2 DEF ExitFree
<1>3. CASE ~ExitClear(t) /\ ~(t \in alive /\ ExitFree(t))
  <2>1. /\ g_ummu_ctx' = g_ummu_ctx /\ t \in alive /\ pc[t] \notin {"exit", "gone"}
        /\ pc'[t] \notin {"exit", "gone"}
        /\ \A u \in Threads : u # t => pc'[u] = pc[u]
    BY <1>3 DEF Acts, Step, Fork, Call, LockCtx, Lookup, LockMapt, Check, LockRandom, GenRandom,
     Decide, Table, UnlockCtx, Update, Plbi, Error, UnlockMapt, PutTid, UnlockLast, GetTid,
     MapDel, UnlockDel, Destroy, Create, Insert
  <2>2. \A u \in Threads : pc[u] \notin {"exit", "gone"}
    BY <2>1 DEF DeadIdle
  <2>3. QED
    BY <2>1, <2>2
<1>4. QED
  BY <1>1, <1>2, <1>3

\* When ummu_uninit has removed the context, no object of a tid is left.
THEOREM ExitLeavesNothing == ASSUME QuietExit, ~ForkAllowed PROVE Spec => []ExitFreesAll
<1>1. Init => NothingLeft
  BY DEF Init, NothingLeft
<1>2. LockInv /\ NoObjectLost /\ NothingLeft /\ [Next]_vars => NothingLeft'
  <2>1. CASE UNCHANGED vars
    BY <2>1 DEF NothingLeft
  <2>2. CASE Next
    BY <2>2, OneThread, ExitStepOf
  <2>3. QED
    BY <2>1, <2>2
<1>3. NothingLeft => ExitFreesAll
  BY DEF NothingLeft, ExitFreesAll
<1>4. QED
  BY <1>1, <1>2, <1>3, LockInvariant, ObjectsKept, PTL DEF Spec
==============================================================================
