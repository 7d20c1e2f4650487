----------------------------- MODULE Invalidation -----------------------------
(***************************************************************************)
(* From a change of a tid's permissions to the UMMUs that forget the old   *)
(* ones: ummu_plbi_va_cmd, ummu_send_user_all and ummu_send_plbi, which    *)
(* composes one command queue per UMMU, or asks the kernel.                *)
(*                                                                         *)
(* A queue is what CmdFifo says of it, which UmmuQueue implements, with    *)
(* the room for a call added: it is counted from the consumer index that   *)
(* the UMMU shows, which may lag behind what it has executed.  Of the      *)
(* permissions of a segment only their version matters: 0 is no access.    *)
(* Which nodes the range of a command reaches is the subject of MaptTable; *)
(* here it reaches its segment.  There is one caller at a time (UmmuApi).  *)
(***************************************************************************)
EXTENDS Naturals, Sequences

CONSTANTS
    ummu_cnt,       \* the number of UMMUs
    Segs,
    ALL,            \* PLBI_ALL_OP
    PSYNC,
    PlbiNum,        \* 2 if double_plbi
    QLen,           \* commands a queue holds
    MaxVer,         \* bound: versions of a segment's permissions in a tid's life
    KcmdChoices,    \* which values of HW_CAP_KCMD_PLBI occur
    DeviceErrors    \* a UMMU may fail a command and complete it with an error

ASSUME InvAssumption ==
    /\ ummu_cnt \in Nat /\ MaxVer \in Nat /\ QLen \in Nat
    /\ PlbiNum \in {1, 2} /\ QLen >= 2 * PlbiNum
    /\ ALL \notin Segs /\ PSYNC \notin Segs \cup {ALL}
    /\ KcmdChoices \subseteq BOOLEAN /\ KcmdChoices # {}
    /\ DeviceErrors \in BOOLEAN

Ummus == 0 .. ummu_cnt - 1
Cmds  == Segs \cup {ALL}

VARIABLES
    live, kcmd_plbi,    \* the tid exists; it sends its commands by the kernel
    mem, gen,           \* of each segment: its version in memory, the last used
    plb,                \* of each UMMU and segment: the version cached, or 0
    fifo,               \* of each UMMU: the commands it has not executed
    unshown,            \* and how many it has executed and ucmdq_ci does not show
    done,               \* history: the UMMUs whose completion the last call saw
    lost,               \* history: segments whose invalidation did not reach the UMMU
    failed,             \* history: those whose last one the UMMU failed to execute
    pc, cmd, i          \* the caller: where it is, its command, its loop index

tidv == <<live, kcmd_plbi, mem, gen>>
quev == <<fifo, unshown>>
hist == <<lost, failed>>
vars == <<tidv, plb, quev, done, hist, pc, cmd, i>>

Covers(c) == IF c = ALL THEN Segs ELSE {c}
Batch(c)  == [k \in 1 .. 2 * PlbiNum |-> IF k % 2 = 1 THEN c ELSE PSYNC]
NoPlb == [u \in Ummus |-> [s \in Segs |-> 0]]

Init ==
    /\ live = FALSE /\ kcmd_plbi \in KcmdChoices
    /\ mem = [s \in Segs |-> 0] /\ gen = [s \in Segs |-> 0] /\ plb = NoPlb
    /\ fifo = [u \in Ummus |-> <<>>] /\ unshown = [u \in Ummus |-> 0] /\ done = {}
    /\ lost = [u \in Ummus |-> {}] /\ failed = [u \in Ummus |-> {}]
    /\ pc = "idle" /\ cmd = ALL /\ i = 0

-----------------------------------------------------------------------------
(* The calls.                                                              *)

ummu_allocate_tid ==
    /\ ~live /\ live' = TRUE
    /\ kcmd_plbi' \in KcmdChoices
    /\ done' = {}
    /\ UNCHANGED <<mem, gen, plb, quev, hist, pc, cmd, i>>

\* ummu_send_plbi begins with command c.
ummu_send_plbi(c) ==
    /\ pc' = IF kcmd_plbi THEN "kcmd" ELSE "send"
    /\ cmd' = c /\ i' = 0 /\ done' = {}

\* A new segment is granted; nothing is invalidated.
ummu_grant(s) ==
    /\ live /\ pc = "idle" /\ mem[s] = 0 /\ gen[s] < MaxVer
    /\ mem' = [mem EXCEPT ![s] = gen[s] + 1] /\ gen' = [gen EXCEPT ![s] = @ + 1]
    /\ UNCHANGED <<live, kcmd_plbi, plb, quev, done, hist, pc, cmd, i>>

\* A grant that fails half way: some nodes are filled, then cleared again, and
\* the UMMUs are told, since they may have cached them.
GrantPartly(s) ==
    /\ live /\ pc = "idle" /\ mem[s] = 0 /\ gen[s] < MaxVer
    /\ mem' = [mem EXCEPT ![s] = gen[s] + 1] /\ gen' = [gen EXCEPT ![s] = @ + 1]
    /\ pc' = "undo" /\ cmd' = s /\ done' = {}
    /\ UNCHANGED <<live, kcmd_plbi, plb, quev, hist, i>>

GrantUndone ==
    /\ pc = "undo"
    /\ mem' = [mem EXCEPT ![cmd] = 0]
    /\ ummu_send_plbi(cmd)
    /\ UNCHANGED <<live, kcmd_plbi, gen, plb, quev, hist>>

\* A token of a granted segment is added or removed: the nodes first, then the
\* UMMUs are told.
token_update(s) ==
    /\ live /\ pc = "idle" /\ mem[s] # 0 /\ gen[s] < MaxVer
    /\ mem' = [mem EXCEPT ![s] = gen[s] + 1] /\ gen' = [gen EXCEPT ![s] = @ + 1]
    /\ ummu_send_plbi(s)
    /\ UNCHANGED <<live, kcmd_plbi, plb, quev, hist>>

\* The same for the whole segment.
ummu_ungrant(s) ==
    /\ live /\ pc = "idle" /\ mem[s] # 0
    /\ mem' = [mem EXCEPT ![s] = 0]
    /\ ummu_send_plbi(s)
    /\ UNCHANGED <<live, kcmd_plbi, gen, plb, quev, hist>>

\* ummu_free_tid, up to ummu_send_user_all.
ummu_free_tid ==
    /\ live /\ pc = "idle"
    /\ ummu_send_plbi(ALL)
    /\ UNCHANGED <<tidv, plb, quev, hist>>

-----------------------------------------------------------------------------
(* ummu_send_plbi: ummu_send_cmd for each UMMU, whatever it returns, or    *)
(* ummu_kcmd_plbi, whose error is only logged.                             *)

NextUmmu == pc' = "send" /\ i' = i + 1

\* queue_has_space, by the index that UMMU u shows.
HasSpace(u) == Len(fifo[u]) + unshown[u] + 2 * PlbiNum <= QLen

\* There is space in the queue of UMMU i.
SendQueue ==
    /\ pc = "send" /\ i < ummu_cnt /\ HasSpace(i)
    /\ fifo' = [fifo EXCEPT ![i] = @ \o Batch(cmd)]
    /\ pc' = "wait"
    /\ UNCHANGED <<tidv, plb, unshown, done, hist, cmd, i>>

SendFullEndsLoop ==
    /\ pc = "send" /\ i < ummu_cnt /\ ~HasSpace(i)
    /\ lost' = [lost EXCEPT ![i] = @ \cup Covers(cmd)]
    /\ pc' = "send" /\ i' = ummu_cnt
    /\ UNCHANGED <<tidv, plb, quev, done, failed, cmd>>
\* None was seen in all the waits: -ETIMEDOUT, which ummu_send_plbi drops.
SendFull ==
    /\ pc = "send" /\ i < ummu_cnt /\ ~HasSpace(i)
    /\ lost' = [lost EXCEPT ![i] = @ \cup Covers(cmd)]
    /\ NextUmmu
    /\ UNCHANGED <<tidv, plb, quev, done, failed, cmd>>

SendDoneAnyCompletion ==
    /\ pc = "wait"
    /\ done' = done \cup {i}
    /\ NextUmmu
    /\ UNCHANGED <<tidv, plb, quev, hist, cmd>>
\* The completion of the own PSYNC is found, or the polls end.
SendDone ==
    /\ pc = "wait" /\ fifo[i] = <<>>
    /\ done' = done \cup {i}
    /\ NextUmmu
    /\ UNCHANGED <<tidv, plb, quev, hist, cmd>>

SendLate ==
    /\ pc = "wait"
    /\ NextUmmu
    /\ UNCHANGED <<tidv, plb, quev, done, hist, cmd>>

\* After the last UMMU the call returns 0; ummu_queue_destroy goes on.
LoopStopsEarly ==
    /\ pc = "send" /\ i + 1 >= ummu_cnt
    /\ pc' = IF cmd = ALL THEN "unmap" ELSE "idle"
    /\ UNCHANGED <<tidv, plb, quev, done, hist, cmd, i>>
LoopEnds ==
    /\ pc = "send" /\ i = ummu_cnt
    /\ pc' = IF cmd = ALL THEN "unmap" ELSE "idle"
    /\ UNCHANGED <<tidv, plb, quev, done, hist, cmd, i>>

Forget(p, c) == [s \in Segs |-> IF s \in Covers(c) THEN 0 ELSE p[s]]

ummu_kcmd_plbi ==
    /\ pc = "kcmd"
    /\ \/ /\ plb' = [u \in Ummus |-> Forget(plb[u], cmd)]
          /\ lost' = [u \in Ummus |-> lost[u] \ Covers(cmd)]
          /\ failed' = [u \in Ummus |-> failed[u] \ Covers(cmd)]
       \/ /\ lost' = [u \in Ummus |-> lost[u] \cup Covers(cmd)]
          /\ UNCHANGED <<plb, failed>>
    /\ pc' = IF cmd = ALL THEN "unmap" ELSE "idle"
    /\ UNCHANGED <<tidv, quev, done, cmd, i>>

\* The queues are unmapped and the tid goes back to the kernel, which takes the
\* table away and lets no UMMU keep anything of the tid.
ummu_put_tid ==
    /\ pc = "unmap"
    /\ pc' = "idle" /\ live' = FALSE
    /\ mem' = [s \in Segs |-> 0] /\ gen' = [s \in Segs |-> 0] /\ plb' = NoPlb
    /\ fifo' = [u \in Ummus |-> <<>>] /\ unshown' = [u \in Ummus |-> 0]
    /\ lost' = [u \in Ummus |-> {}] /\ failed' = [u \in Ummus |-> {}]
    /\ UNCHANGED <<kcmd_plbi, done, cmd, i>>

-----------------------------------------------------------------------------
(* The UMMUs.                                                              *)

\* An access walks the table and caches what it finds.
DeviceLookup(u, s) ==
    /\ live /\ mem[s] # 0 /\ plb[u][s] = 0
    /\ plb' = [plb EXCEPT ![u][s] = mem[s]]
    /\ UNCHANGED <<tidv, quev, done, hist, pc, cmd, i>>

\* The oldest command is executed; a failed one changes nothing but is
\* completed as well, and ummu_get_cpl_psync takes any status for success.
DeviceExecute(u) ==
    /\ fifo[u] # <<>> /\ fifo' = [fifo EXCEPT ![u] = Tail(@)]
    /\ unshown' = [unshown EXCEPT ![u] = @ + 1]
    /\ \/ /\ Head(fifo[u]) = PSYNC /\ UNCHANGED <<plb, hist>>
       \/ /\ Head(fifo[u]) # PSYNC
          /\ plb' = [plb EXCEPT ![u] = Forget(@, Head(fifo[u]))]
          /\ failed' = [failed EXCEPT ![u] = @ \ Covers(Head(fifo[u]))]
          /\ lost' = [lost EXCEPT ![u] = @ \ Covers(Head(fifo[u]))]
       \/ /\ Head(fifo[u]) # PSYNC /\ DeviceErrors
          /\ failed' = [failed EXCEPT ![u] = @ \cup Covers(Head(fifo[u]))]
          /\ lost' = [lost EXCEPT ![u] = @ \ Covers(Head(fifo[u]))]
          /\ UNCHANGED plb
    /\ UNCHANGED <<tidv, done, pc, cmd, i>>

\* It shows the caller, at some time, how far it is.
DeviceUpdateCi(u) ==
    /\ unshown[u] # 0 /\ unshown' = [unshown EXCEPT ![u] = 0]
    /\ UNCHANGED <<tidv, plb, fifo, done, hist, pc, cmd, i>>

-----------------------------------------------------------------------------

Caller == \/ GrantUndone \/ SendQueue \/ SendFull \/ SendDone \/ SendLate \/ LoopEnds
          \/ ummu_kcmd_plbi \/ ummu_put_tid

Next == \/ ummu_allocate_tid \/ ummu_free_tid
        \/ \E s \in Segs : ummu_grant(s) \/ GrantPartly(s)
                         \/ token_update(s) \/ ummu_ungrant(s)
        \/ Caller
        \/ \E u \in Ummus : \/ DeviceExecute(u) \/ DeviceUpdateCi(u)
                           \/ \E s \in Segs : DeviceLookup(u, s)

Spec == Init /\ [][Next]_vars
\* The calling thread goes on, and every UMMU executes what is queued; it need
\* never show that it has.
FairSpec == /\ Spec /\ WF_vars(Caller)
            /\ \A u \in Ummus : WF_vars(DeviceExecute(u))

-----------------------------------------------------------------------------
(* Correctness.                                                            *)

TypeOK ==
    /\ live \in BOOLEAN /\ kcmd_plbi \in BOOLEAN
    /\ mem \in [Segs -> 0 .. MaxVer] /\ gen \in [Segs -> 0 .. MaxVer]
    /\ plb \in [Ummus -> [Segs -> 0 .. MaxVer]]
    /\ fifo \in [Ummus -> Seq(Cmds \cup {PSYNC})] /\ unshown \in [Ummus -> Nat]
    /\ done \subseteq Ummus
    /\ lost \in [Ummus -> SUBSET Segs] /\ failed \in [Ummus -> SUBSET Segs]
    /\ pc \in {"idle", "send", "wait", "kcmd", "undo", "unmap"}
    /\ cmd \in Cmds /\ i \in 0 .. ummu_cnt
    /\ (pc = "wait" => i < ummu_cnt) /\ (pc = "undo" => cmd \in Segs)

Stale(u, s) == plb[u][s] \notin {0, mem[s]}

\* The current call has yet to tell UMMU u about segment s.
ToBeTold(u, s) ==
    s \in Covers(cmd) /\ (pc = "kcmd" \/ (pc = "send" /\ i <= u) \/ (pc = "wait" /\ i < u))

Queued(u, s) == \E k \in DOMAIN fifo[u] : fifo[u][k] # PSYNC /\ s \in Covers(fifo[u][k])

\* A UMMU works with permissions that are no longer in memory only while the
\* call that changed them goes on, while the invalidation is in its queue, or
\* after the invalidation was refused or failed: no order of grants, ungrants,
\* token changes and late executions leaves anything else behind.
StaleExplained ==
    \A u \in Ummus, s \in Segs :
        Stale(u, s) => ToBeTold(u, s) \/ Queued(u, s) \/ s \in lost[u] \cup failed[u]

\* If a call saw the completion of UMMU u, and u did not fail the command, then
\* u has forgotten what the call changed, earlier lost commands included.
DoneMeansRevoked ==
    live => \A u \in done :
        \A s \in Covers(cmd) : Stale(u, s) => s \in failed[u]

\* Old permissions are forgotten some time after the call, even if it returned
\* without having seen the completions, unless the command was refused or failed.
EventuallyForgotten ==
    \A u \in Ummus, s \in Segs : Stale(u, s) ~> ~Stale(u, s) \/ s \in lost[u] \cup failed[u]

\* When ummu_ungrant has returned 0, no UMMU allows the access any more.
UngrantRevokes ==
    pc = "idle" /\ live => \A u \in Ummus, s \in Segs : ~Stale(u, s)
==============================================================================
