------------------------------- MODULE UmmuApi -------------------------------
(***************************************************************************)
(* The five calls of the library made by several threads (ummu_mapt.c), on *)
(* the context (ummu_main.c) and the map of tids (ummu_map.c,              *)
(* ummu_utils.cpp): which lock is held where, who may still use the object *)
(* of a tid, and what fork and exit do to both.                            *)
(*                                                                         *)
(* A step ends before the next lock operation, and wherever ctx_mutex no   *)
(* longer protects it.  Of a tid's contents only what is granted matters:  *)
(* table stands for the nodes the device reads, record for the segment     *)
(* manager.  A segment is granted as a whole or not at all; the two token  *)
(* operations take the same path and change neither.                       *)
(***************************************************************************)
CONSTANTS
    Threads, Tids, Segs,
    Objs,           \* addresses malloc gives to a struct ummu_mapt_info
    NULL,
    RecordFails,    \* the calloc of a segment record may fail
    ForkAllowed,    \* a thread may fork; the behaviour goes on in the child
    ExitAllowed     \* "never"; "quiet": exit after all threads are done with
                    \* the library; "any": exit while others may be in a call

ASSUME NullAssumption == NULL \notin Threads \cup Objs \cup Tids \cup Segs
ASSUME ModeAssumption == /\ RecordFails \in BOOLEAN /\ ForkAllowed \in BOOLEAN
                         /\ ExitAllowed \in {"never", "quiet", "any"}

VARIABLES
    g_ummu_ctx,     \* the context exists
    ctx_mutex,      \* its owner, or NULL
    g_random_mutex, \* its owner, or NULL
    mapt_map,       \* the object of each tid, or NULL
    heap,           \* the objects that are allocated
    mapt_mutex,     \* for each object, its owner or NULL
    table, record,  \* for each object, the segments granted
    ktids,          \* the tids the kernel has given out
    alive,          \* the threads of the process
    pc, op, tid, seg, mapt_info, ret    \* of each thread: where it is, its
                                        \* arguments and its locals

args   == <<op, tid, seg>>
locks  == <<ctx_mutex, g_random_mutex, mapt_mutex>>
shared == <<g_ummu_ctx, mapt_map, heap, table, record, ktids, alive>>
vars   == <<shared, locks, pc, args, mapt_info, ret>>

Ops == {"allocate", "free", "grant", "ungrant"}

Init ==
    /\ g_ummu_ctx = TRUE /\ ctx_mutex = NULL /\ g_random_mutex = NULL
    /\ mapt_map = [k \in Tids |-> NULL] /\ heap = {} /\ ktids = {}
    /\ mapt_mutex = [o \in Objs |-> NULL]
    /\ table = [o \in Objs |-> {}] /\ record = [o \in Objs |-> {}]
    /\ alive = Threads
    /\ pc = [t \in Threads |-> "idle"] /\ op = [t \in Threads |-> NULL]
    /\ tid = [t \in Threads |-> NULL] /\ seg = [t \in Threads |-> NULL]
    /\ mapt_info = [t \in Threads |-> NULL] /\ ret = [t \in Threads |-> 0]

Goto(t, l) == pc' = [pc EXCEPT ![t] = l]

\* The call ends; its arguments and locals are gone.
Return(t) ==
    /\ Goto(t, "idle")
    /\ op' = [op EXCEPT ![t] = NULL] /\ tid' = [tid EXCEPT ![t] = NULL]
    /\ seg' = [seg EXCEPT ![t] = NULL]
    /\ mapt_info' = [mapt_info EXCEPT ![t] = NULL] /\ ret' = [ret EXCEPT ![t] = 0]

-----------------------------------------------------------------------------
(* The common beginning.                                                   *)

\* A call with some arguments; without a context it fails at once.
Call(t) ==
    /\ t \in alive /\ pc[t] = "idle" /\ g_ummu_ctx
    /\ \E o \in Ops, k \in Tids, s \in Segs :
          /\ op' = [op EXCEPT ![t] = o] /\ tid' = [tid EXCEPT ![t] = k]
          /\ seg' = [seg EXCEPT ![t] = s]
    /\ Goto(t, "lock_ctx")
    /\ UNCHANGED <<shared, locks, mapt_info, ret>>

LockCtx(t) ==
    /\ pc[t] = "lock_ctx" /\ ctx_mutex = NULL
    /\ ctx_mutex' = t
    /\ Goto(t, IF op[t] = "allocate" THEN "get_tid" ELSE "lookup")
    /\ UNCHANGED <<shared, g_random_mutex, mapt_mutex, args, mapt_info, ret>>

\* get_mapt_info_by_tid.
LookupUnlocks(t) ==
    /\ pc[t] = "lookup"
    /\ mapt_info' = [mapt_info EXCEPT ![t] = mapt_map[tid[t]]]
    /\ IF mapt_map[tid[t]] = NULL THEN UNCHANGED ctx_mutex ELSE ctx_mutex' = NULL
    /\ Goto(t, IF mapt_map[tid[t]] = NULL THEN "unlock_last" ELSE "lock_mapt")
    /\ UNCHANGED <<shared, g_random_mutex, mapt_mutex, args, ret>>
Lookup(t) ==
    /\ pc[t] = "lookup"
    /\ mapt_info' = [mapt_info EXCEPT ![t] = mapt_map[tid[t]]]
    /\ Goto(t, IF mapt_map[tid[t]] = NULL THEN "unlock_last" ELSE "lock_mapt")
    /\ UNCHANGED <<shared, locks, args, ret>>

LockMapt(t) ==
    /\ pc[t] = "lock_mapt" /\ mapt_mutex[mapt_info[t]] = NULL
    /\ mapt_mutex' = [mapt_mutex EXCEPT ![mapt_info[t]] = t]
    /\ Goto(t, IF op[t] = "free" THEN "map_del" ELSE "check")
    /\ UNCHANGED <<shared, ctx_mutex, g_random_mutex, args, mapt_info, ret>>

-----------------------------------------------------------------------------
(* ummu_grant and ummu_ungrant_data.                                       *)

\* The checks of the arguments; a grant may ask for a generated token.
Check(t) ==
    /\ pc[t] = "check"
    /\ \E l \in {"decide", "error"} \cup (IF op[t] = "grant" THEN {"lock_random"} ELSE {}) :
          Goto(t, l)
    /\ UNCHANGED <<shared, locks, args, mapt_info, ret>>

LockRandom(t) ==
    /\ pc[t] = "lock_random" /\ g_random_mutex = NULL
    /\ g_random_mutex' = t
    /\ Goto(t, "gen_random")
    /\ UNCHANGED <<shared, ctx_mutex, mapt_mutex, args, mapt_info, ret>>

\* ummu_gen_random may fail; the lock is released either way.
GenRandom(t) ==
    /\ pc[t] = "gen_random"
    /\ g_random_mutex' = NULL
    /\ \E l \in {"decide", "error"} : Goto(t, l)
    /\ UNCHANGED <<shared, ctx_mutex, mapt_mutex, args, mapt_info, ret>>

\* ummu_grant_check, ummu_ungrant_check.
Decide(t) ==
    /\ pc[t] = "decide"
    /\ Goto(t, IF seg[t] \in record[mapt_info[t]] <=> op[t] = "ungrant"
               THEN "table" ELSE "error")
    /\ UNCHANGED <<shared, locks, args, mapt_info, ret>>

Changed(s, t) == IF op[t] = "grant" THEN s \cup {seg[t]} ELSE s \ {seg[t]}

\* ummu_grant_imp, ummu_ungrant_imp; a grant that fails undoes what it did.
Table(t) ==
    /\ pc[t] = "table"
    /\ \/ /\ table' = [table EXCEPT ![mapt_info[t]] = Changed(@, t)]
          /\ ret' = [ret EXCEPT ![t] = 0]
       \/ /\ op[t] = "grant" /\ UNCHANGED table
          /\ ret' = [ret EXCEPT ![t] = 1]
    /\ Goto(t, "unlock_ctx")
    /\ UNCHANGED <<g_ummu_ctx, mapt_map, heap, record, ktids, alive, locks, args, mapt_info>>

\* Where a call continues when its record is settled.
Finish(t) == IF op[t] = "ungrant" THEN "plbi" ELSE "unlock_mapt"

UnlockCtxBoth(t) ==
    /\ pc[t] = "unlock_ctx"
    /\ ctx_mutex' = NULL /\ mapt_mutex' = [mapt_mutex EXCEPT ![mapt_info[t]] = NULL]
    /\ Goto(t, IF ret[t] = 0 THEN "update" ELSE Finish(t))
    /\ UNCHANGED <<shared, g_random_mutex, args, mapt_info, ret>>
UnlockCtx(t) ==
    /\ pc[t] = "unlock_ctx"
    /\ ctx_mutex' = NULL
    /\ Goto(t, IF ret[t] = 0 THEN "update" ELSE Finish(t))
    /\ UNCHANGED <<shared, g_random_mutex, mapt_mutex, args, mapt_info, ret>>

\* ummu_update_info, with mapt_mutex only.
Update(t) ==
    /\ pc[t] = "update"
    /\ \/ record' = [record EXCEPT ![mapt_info[t]] = Changed(@, t)]
       \/ RecordFails /\ op[t] = "grant" /\ UNCHANGED record
    /\ Goto(t, Finish(t))
    /\ UNCHANGED <<g_ummu_ctx, mapt_map, heap, table, ktids, alive, locks, args, mapt_info, ret>>

\* The invalidation of an ungrant, on the queues of the tid.
Plbi(t) ==
    /\ pc[t] = "plbi"
    /\ Goto(t, "unlock_mapt")
    /\ UNCHANGED <<shared, locks, args, mapt_info, ret>>

ErrorKeepsMapt(t) ==
    /\ pc[t] = "error"
    /\ ctx_mutex' = NULL
    /\ Return(t)
    /\ UNCHANGED <<shared, g_random_mutex, mapt_mutex>>
\* A refused request releases ctx_mutex first, too.
Error(t) ==
    /\ pc[t] = "error"
    /\ ctx_mutex' = NULL
    /\ Goto(t, "unlock_mapt")
    /\ UNCHANGED <<shared, g_random_mutex, mapt_mutex, args, mapt_info, ret>>

UnlockMapt(t) ==
    /\ pc[t] = "unlock_mapt"
    /\ mapt_mutex' = [mapt_mutex EXCEPT ![mapt_info[t]] = NULL]
    /\ Return(t)
    /\ UNCHANGED <<shared, ctx_mutex, g_random_mutex>>

-----------------------------------------------------------------------------
(* ummu_free_tid and ummu_allocate_tid.                                    *)

MapDelKeepsTid(t) ==
    /\ pc[t] = "map_del"
    /\ Goto(t, "unlock_del")
    /\ UNCHANGED <<shared, locks, args, mapt_info, ret>>
MapDel(t) ==
    /\ pc[t] = "map_del"
    /\ mapt_map' = [mapt_map EXCEPT ![tid[t]] = NULL]
    /\ Goto(t, "unlock_del")
    /\ UNCHANGED <<g_ummu_ctx, heap, table, record, ktids, alive, locks, args, mapt_info, ret>>

UnlockDel(t) ==
    /\ pc[t] = "unlock_del"
    /\ mapt_mutex' = [mapt_mutex EXCEPT ![mapt_info[t]] = NULL]
    /\ Goto(t, "destroy")
    /\ UNCHANGED <<shared, ctx_mutex, g_random_mutex, args, mapt_info, ret>>

\* ummu_mapt_destroy: the table, a last invalidation on the queues, the queues,
\* the mutex and the object itself.
Destroy(t) ==
    /\ pc[t] = "destroy"
    /\ heap' = heap \ {mapt_info[t]}
    /\ Goto(t, "put_tid")
    /\ UNCHANGED <<g_ummu_ctx, mapt_map, table, record, ktids, alive, locks, args, mapt_info, ret>>

\* ummu_put_tid; an error of the ioctl is only logged.
PutTid(t) ==
    /\ pc[t] = "put_tid"
    /\ ktids' \in {ktids, ktids \ {tid[t]}}
    /\ Goto(t, "unlock_last")
    /\ UNCHANGED <<g_ummu_ctx, mapt_map, heap, table, record, alive, locks, args, mapt_info, ret>>

UnlockLast(t) ==
    /\ pc[t] = "unlock_last"
    /\ ctx_mutex' = NULL
    /\ Return(t)
    /\ UNCHANGED <<shared, g_random_mutex, mapt_mutex>>

GetTidRetries(t) ==
    /\ pc[t] = "get_tid"
    /\ \/ \E k \in Tids \ ktids :
             /\ tid' = [tid EXCEPT ![t] = k] /\ ktids' = ktids \cup {k}
             /\ Goto(t, "create")
       \/ UNCHANGED <<tid, ktids, pc>>
    /\ UNCHANGED <<g_ummu_ctx, mapt_map, heap, table, record, alive, locks, op, seg, mapt_info, ret>>
\* ummu_get_tid: the kernel chooses a tid it has not given out, or refuses.
GetTid(t) ==
    /\ pc[t] = "get_tid"
    /\ \/ \E k \in Tids \ ktids :
             /\ tid' = [tid EXCEPT ![t] = k] /\ ktids' = ktids \cup {k}
             /\ Goto(t, "create")
       \/ UNCHANGED <<tid, ktids>> /\ Goto(t, "unlock_last")
    /\ UNCHANGED <<g_ummu_ctx, mapt_map, heap, table, record, alive, locks, op, seg, mapt_info, ret>>

CreateLeaksOnError(t) ==
    /\ pc[t] = "create"
    /\ \/ \E o \in Objs \ heap :
             /\ heap' = heap \cup {o}
             /\ mapt_mutex' = [mapt_mutex EXCEPT ![o] = NULL]
             /\ table' = [table EXCEPT ![o] = {}] /\ record' = [record EXCEPT ![o] = {}]
             /\ mapt_info' = [mapt_info EXCEPT ![t] = o]
             /\ \E l \in {"insert", "put_tid"} : Goto(t, l)
       \/ UNCHANGED <<heap, mapt_mutex, table, record, mapt_info>> /\ Goto(t, "put_tid")
    /\ UNCHANGED <<g_ummu_ctx, mapt_map, ktids, alive, ctx_mutex, g_random_mutex, args, ret>>
CreateKeepsRecord(t) ==
    /\ pc[t] = "create"
    /\ \/ \E o \in Objs \ heap :
             /\ heap' = heap \cup {o}
             /\ mapt_mutex' = [mapt_mutex EXCEPT ![o] = NULL]
             /\ table' = [table EXCEPT ![o] = {}] /\ UNCHANGED record
             /\ mapt_info' = [mapt_info EXCEPT ![t] = o]
             /\ Goto(t, "insert")
       \/ UNCHANGED <<heap, mapt_mutex, table, record, mapt_info>> /\ Goto(t, "put_tid")
    /\ UNCHANGED <<g_ummu_ctx, mapt_map, ktids, alive, ctx_mutex, g_random_mutex, args, ret>>
\* ummu_mapt_create; any of its allocations may fail, and what it had is freed.
Create(t) ==
    /\ pc[t] = "create"
    /\ \/ \E o \in Objs \ heap :
             /\ heap' = heap \cup {o}
             /\ mapt_mutex' = [mapt_mutex EXCEPT ![o] = NULL]
             /\ table' = [table EXCEPT ![o] = {}] /\ record' = [record EXCEPT ![o] = {}]
             /\ mapt_info' = [mapt_info EXCEPT ![t] = o]
             /\ Goto(t, "insert")
       \/ UNCHANGED <<heap, mapt_mutex, table, record, mapt_info>> /\ Goto(t, "put_tid")
    /\ UNCHANGED <<g_ummu_ctx, mapt_map, ktids, alive, ctx_mutex, g_random_mutex, args, ret>>

\* hashmap_insert refuses a key it has; then the new object is destroyed.
Insert(t) ==
    /\ pc[t] = "insert"
    /\ IF mapt_map[tid[t]] = NULL
       THEN mapt_map' = [mapt_map EXCEPT ![tid[t]] = mapt_info[t]] /\ Goto(t, "unlock_last")
       ELSE UNCHANGED mapt_map /\ Goto(t, "destroy")
    /\ UNCHANGED <<g_ummu_ctx, heap, table, record, ktids, alive, locks, args, mapt_info, ret>>

-----------------------------------------------------------------------------
(* Fork and exit.                                                          *)

Mapped == {mapt_map[k] : k \in Tids} \ {NULL}

NoCalls ==
    /\ pc' = [t \in Threads |-> "idle"] /\ op' = [t \in Threads |-> NULL]
    /\ tid' = [t \in Threads |-> NULL] /\ seg' = [t \in Threads |-> NULL]
    /\ mapt_info' = [t \in Threads |-> NULL] /\ ret' = [t \in Threads |-> 0]

ForkKeepsContext(t) ==
    /\ ForkAllowed /\ t \in alive /\ pc[t] = "idle"
    /\ alive' = {t}
    /\ NoCalls
    /\ UNCHANGED <<g_ummu_ctx, mapt_map, heap, table, record, ktids, locks>>
\* The child has the forking thread only and the locks as they were.  Its
\* handler frees the objects of the map, without destroying what they hold,
\* and sets up a new context with a new mutex and an empty map, or none if
\* that fails.
Fork(t) ==
    /\ ForkAllowed /\ t \in alive /\ pc[t] = "idle"
    /\ alive' = {t}
    /\ heap' = IF g_ummu_ctx THEN heap \ Mapped ELSE heap
    /\ mapt_map' = [k \in Tids |-> NULL] /\ ctx_mutex' = NULL
    /\ g_ummu_ctx' \in BOOLEAN
    /\ NoCalls
    /\ UNCHANGED <<table, record, ktids, g_random_mutex, mapt_mutex>>

ExitKeepsTids(t) ==
    /\ t \in alive /\ pc[t] = "idle" /\ g_ummu_ctx
    /\ ExitAllowed = "quiet" /\ \A u \in alive : pc[u] = "idle"
    /\ alive' = {t}
    /\ Goto(t, "exit")
    /\ UNCHANGED <<g_ummu_ctx, mapt_map, heap, table, record, ktids, locks, args, mapt_info, ret>>
\* ummu_uninit, in the thread that calls exit: first every object of the map is
\* destroyed, then the context.  Neither lock is taken.  (Calls that other
\* threads are in when the map is gone fail here; the code may crash.)
ExitClear(t) ==
    /\ t \in alive /\ pc[t] = "idle" /\ g_ummu_ctx
    /\ ExitAllowed # "never"
    /\ ExitAllowed = "quiet" => \A u \in alive : pc[u] = "idle"
    /\ alive' = IF ExitAllowed = "quiet" THEN {t} ELSE alive
    /\ heap' = heap \ Mapped
    /\ mapt_map' = [k \in Tids |-> NULL]
    /\ Goto(t, "exit")
    /\ UNCHANGED <<g_ummu_ctx, table, record, ktids, locks, args, mapt_info, ret>>

ExitFree(t) ==
    /\ pc[t] = "exit"
    /\ g_ummu_ctx' = FALSE
    /\ Goto(t, "gone")
    /\ UNCHANGED <<mapt_map, heap, table, record, ktids, alive, locks, args, mapt_info, ret>>

-----------------------------------------------------------------------------

\* A thread inside a call goes on.
Step(t) ==
    /\ t \in alive
    /\ \/ LockCtx(t) \/ Lookup(t) \/ LockMapt(t) \/ Check(t) \/ LockRandom(t)
       \/ GenRandom(t) \/ Decide(t) \/ Table(t) \/ UnlockCtx(t) \/ Update(t)
       \/ Plbi(t) \/ Error(t) \/ UnlockMapt(t) \/ MapDel(t) \/ UnlockDel(t)
       \/ Destroy(t) \/ PutTid(t) \/ UnlockLast(t) \/ GetTid(t) \/ Create(t)
       \/ Insert(t) \/ ExitFree(t)

Next == \E t \in Threads : Call(t) \/ Step(t) \/ Fork(t) \/ ExitClear(t)

Spec == Init /\ [][Next]_vars
\* The scheduler runs every thread that can go on; a mutex that is free and
\* stays free is taken by who waits for it.
FairSpec == Spec /\ \A t \in Threads : WF_vars(Step(t))

-----------------------------------------------------------------------------
(* Correctness.                                                            *)

\* A thread there holds ctx_mutex.
InCtx == {"lookup", "lock_mapt", "check", "lock_random", "gen_random", "decide",
          "table", "unlock_ctx", "error", "map_del", "unlock_del", "destroy",
          "put_tid", "unlock_last", "get_tid", "create", "insert"}
\* A thread there holds the mapt_mutex of its object.
InMapt == {"check", "lock_random", "gen_random", "decide", "table", "unlock_ctx",
           "error", "update", "plbi", "unlock_mapt", "map_del", "unlock_del"}
\* A thread there uses its object next.
UsesObj == InMapt \cup {"lock_mapt", "destroy", "insert"}

TypeOK ==
    /\ g_ummu_ctx \in BOOLEAN
    /\ ctx_mutex \in Threads \cup {NULL} /\ g_random_mutex \in Threads \cup {NULL}
    /\ mapt_map \in [Tids -> Objs \cup {NULL}] /\ heap \subseteq Objs
    /\ mapt_mutex \in [Objs -> Threads \cup {NULL}]
    /\ table \in [Objs -> SUBSET Segs] /\ record \in [Objs -> SUBSET Segs]
    /\ ktids \subseteq Tids /\ alive \subseteq Threads
    /\ pc \in [Threads -> InCtx \cup InMapt \cup {"idle", "lock_ctx", "exit", "gone"}]
    /\ op \in [Threads -> Ops \cup {NULL}] /\ tid \in [Threads -> Tids \cup {NULL}]
    /\ seg \in [Threads -> Segs \cup {NULL}]
    /\ mapt_info \in [Threads -> Objs \cup {NULL}] /\ ret \in [Threads -> {0, 1}]

\* No call uses the object of a tid, or the context, after it was freed:
\* ctx_mutex is released early, but who still needs the object holds its
\* mapt_mutex, and who waits for that holds ctx_mutex.
NoUseAfterFree ==
    \A t \in alive :
        /\ pc[t] \in UsesObj => mapt_info[t] \in heap
        /\ pc[t] \in InCtx \cup {"lock_ctx"} => g_ummu_ctx

\* ummu_free_tid destroys an object without holding its mapt_mutex; nobody
\* else is using the object or waiting for that mutex then.
DestroyedAlone ==
    \A t, u \in alive :
        t # u /\ pc[t] = "destroy" /\ pc[u] \in UsesObj => mapt_info[u] # mapt_info[t]

\* Every tid of the map has a live object of its own and is still given out by
\* the kernel: it is taken from the map before it is put back, and the kernel
\* may give it out again at once.
MapSound ==
    /\ \A k \in Tids : mapt_map[k] # NULL => mapt_map[k] \in heap /\ k \in ktids
    /\ \A k, l \in Tids : mapt_map[k] = mapt_map[l] /\ mapt_map[k] # NULL => k = l

\* No path of an allocate or a free loses an object: each is in the map or in
\* the hands of the call that creates or destroys it.
NoObjectLost ==
    \A o \in heap : \/ \E k \in Tids : mapt_map[k] = o
                    \/ \E t \in alive : /\ mapt_info[t] = o
                                        /\ pc[t] \in {"unlock_del", "destroy", "insert"}

\* The decision a call made under both locks still holds when it updates the
\* record, after it released ctx_mutex.
DecisionStands ==
    \A t \in alive :
        pc[t] = "update" => (seg[t] \in record[mapt_info[t]] <=> op[t] = "ungrant")

\* Whenever a tid is not in use, what the device may access is what is recorded.
TableMatchesRecord ==
    \A o \in heap : mapt_mutex[o] = NULL => table[o] = record[o]

\* The calls of all threads look as if each took effect at once: a grant when
\* its record is updated, although ctx_mutex is free by then and the tid could
\* be asked to be freed.
Store == INSTANCE TidStore WITH
            tids <- {k \in Tids : mapt_map[k] # NULL},
            granted <- [k \in Tids |->
                          IF mapt_map[k] = NULL THEN {} ELSE record[mapt_map[k]]]
Refines == Store!Spec

\* Whatever locks threads held when one of them forked, in the child the
\* context's and the tids' locks are held by threads that exist.
LocksHeldByLiving ==
    /\ ctx_mutex \in alive \cup {NULL}
    /\ \A o \in Mapped : mapt_mutex[o] \in alive \cup {NULL}

\* Who has ctx_mutex releases it again: no call blocks for ever on the
\* mapt_mutex or g_random_mutex it waits for meanwhile.
CtxReleased == \A t \in Threads : ctx_mutex = t ~> ctx_mutex # t

\* The same for the mapt_mutex of a tid.
MaptReleased == \A t \in Threads, o \in Objs : mapt_mutex[o] = t ~> mapt_mutex[o] # t

\* After exit nothing of the library is left.
ExitFreesAll == ~g_ummu_ctx => heap = {}

\* A mapt_mutex is locked, or freed with its object, by a thread that holds
\* ctx_mutex, unless no thread of the process is inside a call.
MaptMutexUnderCtx ==
    [][\A o \in Objs :
          \/ mapt_mutex[o] = NULL /\ mapt_mutex'[o] # NULL
          \/ o \in heap \ heap'
          => \/ \E t \in alive : ctx_mutex = t /\ pc'[t] # pc[t]
             \/ \A t \in alive' : pc[t] \notin InCtx \cup InMapt]_vars
==============================================================================
