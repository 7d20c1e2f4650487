-------------------------- MODULE Invalidation_proofs --------------------------
(***************************************************************************)
(* Proofs about Invalidation, for any number of UMMUs, segments and        *)
(* versions and for queues of any length.                                  *)
(*                                                                         *)
(* StaleExplained is inductive with the types.  For DoneMeansRevoked, a    *)
(* queue whose call saw its completion is empty and stays so (DoneEmpty),  *)
(* a UMMU that is yet to be told is not in done (NotToldYet), and what was *)
(* lost before is made good by the command that is waited for (MadeGood).  *)
(***************************************************************************)
EXTENDS Invalidation, SequenceTheorems, TLAPS

NotToldYet ==
    \A u \in Ummus : pc = "kcmd" \/ pc = "undo" \/ (pc \in {"send", "wait"} /\ i <= u)
                     => u \notin done

DoneEmpty == \A u \in done : fifo[u] = <<>>

MadeGood ==
    /\ pc = "wait" => \A s \in Covers(cmd) : s \in lost[i] => Queued(i, s)
    /\ live => \A u \in done, s \in Covers(cmd) : s \notin lost[u]

PlbInv  == TypeOK /\ StaleExplained
DoneInv == PlbInv /\ NotToldYet /\ DoneEmpty /\ MadeGood

Calls == \/ ummu_allocate_tid \/ ummu_free_tid
         \/ \E s \in Segs : ummu_grant(s) \/ GrantPartly(s) \/ token_update(s) \/ ummu_ungrant(s)

-----------------------------------------------------------------------------
(* Queues.                                                                 *)

\* The commands of a call are a sequence whose first is the invalidation.
LEMMA BatchIsSeq ==
    ASSUME NEW c \in Cmds
    PROVE  /\ Batch(c) \in Seq(Cmds \cup {PSYNC}) /\ Len(Batch(c)) = 2 * PlbiNum
           /\ Batch(c)[1] = c
<1>1. 2 * PlbiNum \in Nat /\ 1 \in 1 .. 2 * PlbiNum
  BY InvAssumption
<1>2. Batch(c) \in [1 .. 2 * PlbiNum -> Cmds \cup {PSYNC}]
  BY DEF Batch
<1>3. QED
  BY <1>1, <1>2 DEF Batch

\* What Queued says of a queue on its own.
InQueue(q, s) == \E k \in DOMAIN q : q[k] # PSYNC /\ s \in Covers(q[k])

\* Appending a call's commands keeps what is queued and adds what it covers.
LEMMA QueuedAppend ==
    ASSUME NEW q \in Seq(Cmds \cup {PSYNC}), NEW c \in Cmds, NEW s \in Segs,
           InQueue(q, s) \/ s \in Covers(c)
    PROVE  InQueue(q \o Batch(c), s)
<1>1. CASE InQueue(q, s)
  <2>1. PICK k \in 1 .. Len(q) : q[k] # PSYNC /\ s \in Covers(q[k])
    BY <1>1 DEF InQueue
  <2>2. k \in 1 .. Len(q \o Batch(c)) /\ (q \o Batch(c))[k] = q[k]
    BY <2>1, BatchIsSeq, InvAssumption
  <2>3. QED
    BY <2>1, <2>2, BatchIsSeq DEF InQueue
<1>2. CASE s \in Covers(c)
  <2>1. /\ Len(q) + 1 \in 1 .. Len(q \o Batch(c))
        /\ (q \o Batch(c))[Len(q) + 1] = c
    BY BatchIsSeq, InvAssumption
  <2>2. c # PSYNC
    BY InvAssumption DEF Cmds
  <2>3. QED
    BY <1>2, <2>1, <2>2, BatchIsSeq DEF InQueue
<1>3. QED
  BY <1>1, <1>2

\* Executing the oldest command settles what only that one covers.
LEMMA QueuedTail ==
    ASSUME NEW q \in Seq(Cmds \cup {PSYNC}), NEW s \in Segs, q # <<>>, InQueue(q, s)
    PROVE  InQueue(Tail(q), s) \/ (Head(q) # PSYNC /\ s \in Covers(Head(q)))
<1>1. PICK k \in 1 .. Len(q) : q[k] # PSYNC /\ s \in Covers(q[k])
  BY DEF InQueue
<1>2. CASE k = 1
  BY <1>1, <1>2
<1>3. CASE k # 1
  <2>1. k - 1 \in 1 .. Len(Tail(q)) /\ Tail(q)[k - 1] = q[k]
    <3>1. /\ Len(Tail(q)) = Len(q) - 1
          /\ \A j \in 1 .. Len(Tail(q)) : Tail(q)[j] = q[j + 1]
      BY HeadTailProperties
    <3>2. k - 1 \in 1 .. Len(q) - 1 /\ (k - 1) + 1 = k
      BY <1>1, <1>3
    <3>3. QED
      BY <3>1, <3>2
  <2>2. Tail(q) \in Seq(Cmds \cup {PSYNC})
    BY HeadTailProperties
  <2>3. k - 1 \in DOMAIN Tail(q)
    BY <2>1, <2>2
  <2>4. QED
    BY <1>1, <2>1, <2>3 DEF InQueue
<1>4. QED
  BY <1>2, <1>3

LEMMA QueuedIsInQueue == \A u, s : Queued(u, s) <=> InQueue(fifo[u], s)
  BY DEF Queued, InQueue

\* Only the order of the loop index and the number of UMMUs matters.
USE InvAssumption DEF tidv, hist, vars, quev, Cmds, NoPlb, NextUmmu, ummu_send_plbi

-----------------------------------------------------------------------------
(* Types.                                                                  *)

LEMMA CoversType == ASSUME NEW c \in Cmds PROVE Covers(c) \in SUBSET Segs
  BY DEF Covers

LEMMA TypeStep ==
    ASSUME TypeOK, [Next]_vars
    PROVE  TypeOK'
<1>1. CASE UNCHANGED vars
  BY <1>1 DEF TypeOK
<1>2. CASE Calls
  <2>1. CASE ummu_allocate_tid \/ ummu_free_tid
    <3>1. live' \in BOOLEAN /\ kcmd_plbi' \in BOOLEAN
      BY <2>1, Zenon DEF TypeOK, ummu_allocate_tid, ummu_free_tid
    <3>2. mem' = mem /\ gen' = gen /\ plb' = plb /\ fifo' = fifo /\ unshown' = unshown /\ hist' = hist
      BY <2>1 DEF ummu_allocate_tid, ummu_free_tid
    <3>3. /\ pc' \in {"idle", "send", "wait", "kcmd", "undo", "unmap"} /\ cmd' \in Cmds
          /\ done' \subseteq Ummus /\ i' \in 0 .. ummu_cnt
          /\ (pc' = "wait" => i' < ummu_cnt) /\ (pc' = "undo" => cmd' \in Segs)
      BY <2>1 DEF TypeOK, ummu_allocate_tid, ummu_free_tid
    <3>4. QED
      BY <3>1, <3>2, <3>3 DEF TypeOK
  <2>2. ASSUME NEW s \in Segs, ummu_grant(s) \/ GrantPartly(s) \/ token_update(s) \/ ummu_ungrant(s)
        PROVE  TypeOK'
    <3>1. gen[s] < MaxVer => gen[s] + 1 \in 0 .. MaxVer
      BY DEF TypeOK
    <3>2. mem' \in [Segs -> 0 .. MaxVer] /\ gen' \in [Segs -> 0 .. MaxVer]
      <4>1. CASE ummu_ungrant(s)
        BY <4>1 DEF TypeOK, ummu_ungrant
      <4>2. CASE ummu_grant(s) \/ GrantPartly(s) \/ token_update(s)
        <5>1. /\ gen[s] + 1 \in 0 .. MaxVer
              /\ mem' = [mem EXCEPT ![s] = gen[s] + 1] /\ gen' = [gen EXCEPT ![s] = gen[s] + 1]
          BY <3>1, <4>2 DEF ummu_grant, GrantPartly, token_update
        <5>2. QED
          BY <5>1 DEF TypeOK
      <4>3. QED
        BY <2>2, <4>1, <4>2
    <3>3. /\ pc' \in {"idle", "send", "wait", "kcmd", "undo", "unmap"} /\ cmd' \in Cmds
          /\ done' \subseteq Ummus /\ i' \in 0 .. ummu_cnt
          /\ (pc' = "wait" => i' < ummu_cnt) /\ (pc' = "undo" => cmd' \in Segs)
      BY <2>2 DEF TypeOK, ummu_grant, GrantPartly, token_update, ummu_ungrant
    <3>4. QED
      BY <2>2, <3>2, <3>3 DEF TypeOK, ummu_grant, GrantPartly, token_update, ummu_ungrant
  <2>3. QED
    BY <1>2, <2>1, <2>2 DEF Calls
<1>3. CASE GrantUndone
  BY <1>3 DEF TypeOK, GrantUndone
<1>4. CASE SendQueue
  <2>1. fifo[i] \in Seq(Cmds \cup {PSYNC}) /\ i \in Ummus
    BY <1>4 DEF TypeOK, SendQueue, Ummus
  <2>2. fifo[i] \o Batch(cmd) \in Seq(Cmds \cup {PSYNC})
    BY <2>1, BatchIsSeq DEF TypeOK
  <2>3. QED
    BY <1>4, <2>1, <2>2 DEF TypeOK, SendQueue
<1>5. CASE SendFull
  <2>1. i \in Ummus /\ i + 1 \in 0 .. ummu_cnt
    BY <1>5 DEF TypeOK, SendFull, Ummus
  <2>2. lost' \in [Ummus -> SUBSET Segs]
    BY <1>5, <2>1, CoversType DEF TypeOK, SendFull
  <2>3. QED
    BY <1>5, <2>1, <2>2 DEF TypeOK, SendFull
<1>6. CASE SendDone \/ SendLate
  <2>1. i \in Ummus /\ i + 1 \in 0 .. ummu_cnt
    BY <1>6 DEF TypeOK, SendDone, SendLate, Ummus
  <2>2. done' \subseteq Ummus
    BY <1>6, <2>1 DEF TypeOK, SendDone, SendLate
  <2>3. pc' = "send" /\ i' \in 0 .. ummu_cnt /\ cmd' = cmd
    BY <1>6, <2>1 DEF SendDone, SendLate
  <2>4. QED
    BY <1>6, <2>2, <2>3 DEF TypeOK, SendDone, SendLate
<1>7. CASE LoopEnds
  BY <1>7 DEF TypeOK, LoopEnds
<1>8. CASE ummu_kcmd_plbi
  <2>1. \A u \in Ummus : Forget(plb[u], cmd) \in [Segs -> 0 .. MaxVer]
    BY DEF TypeOK, Forget
  <2>2. /\ plb' \in [Ummus -> [Segs -> 0 .. MaxVer]]
        /\ lost' \in [Ummus -> SUBSET Segs] /\ failed' \in [Ummus -> SUBSET Segs]
    BY <1>8, <2>1, CoversType DEF TypeOK, ummu_kcmd_plbi
  <2>3. /\ tidv' = tidv /\ quev' = quev /\ done' = done /\ cmd' = cmd /\ i' = i
        /\ pc' \in {"unmap", "idle"}
    BY <1>8 DEF ummu_kcmd_plbi
  <2>4. QED
    BY <2>2, <2>3 DEF TypeOK
<1>9. CASE ummu_put_tid
  <2>1. fifo' \in [Ummus -> Seq(Cmds \cup {PSYNC})] /\ unshown' \in [Ummus -> Nat]
    BY <1>9 DEF ummu_put_tid
  <2>2. plb' \in [Ummus -> [Segs -> 0 .. MaxVer]] /\ lost' \in [Ummus -> SUBSET Segs]
    BY <1>9 DEF ummu_put_tid
  <2>7. failed' \in [Ummus -> SUBSET Segs]
    BY <1>9 DEF ummu_put_tid
  <2>3. mem' \in [Segs -> 0 .. MaxVer] /\ gen' \in [Segs -> 0 .. MaxVer]
    BY <1>9 DEF ummu_put_tid
  <2>4. live' \in BOOLEAN /\ kcmd_plbi' \in BOOLEAN
    BY <1>9, Zenon DEF TypeOK, ummu_put_tid
  <2>5. /\ pc' = "idle" /\ cmd' = cmd /\ i' = i /\ done' = done
    BY <1>9 DEF ummu_put_tid
  <2>6. QED
    BY <2>1, <2>2, <2>3, <2>4, <2>5, <2>7 DEF TypeOK
<1>10. ASSUME NEW u \in Ummus, NEW s \in Segs, DeviceLookup(u, s) PROVE TypeOK'
  BY <1>10 DEF TypeOK, DeviceLookup
<1>11. ASSUME NEW u \in Ummus, DeviceExecute(u) PROVE TypeOK'
  <2>1. fifo[u] \in Seq(Cmds \cup {PSYNC}) /\ fifo[u] # <<>>
    BY <1>11 DEF TypeOK, DeviceExecute
  <2>2. /\ Tail(fifo[u]) \in Seq(Cmds \cup {PSYNC})
        /\ Head(fifo[u]) \in Cmds \cup {PSYNC}
    BY <2>1, HeadTailProperties
  <2>3. fifo' \in [Ummus -> Seq(Cmds \cup {PSYNC})]
    BY <1>11, <2>2 DEF TypeOK, DeviceExecute
  <2>8. unshown' \in [Ummus -> Nat]
    BY <1>11 DEF TypeOK, DeviceExecute
  <2>4. Forget(plb[u], Head(fifo[u])) \in [Segs -> 0 .. MaxVer]
    BY DEF TypeOK, Forget
  <2>5. plb' \in [Ummus -> [Segs -> 0 .. MaxVer]]
    BY <1>11, <2>4 DEF TypeOK, DeviceExecute
  <2>6. lost' \in [Ummus -> SUBSET Segs] /\ failed' \in [Ummus -> SUBSET Segs]
    <3>1. CASE Head(fifo[u]) = PSYNC
      BY <1>11, <3>1 DEF TypeOK, DeviceExecute
    <3>2. CASE Head(fifo[u]) # PSYNC
      <4>1. Covers(Head(fifo[u])) \in SUBSET Segs
        BY <2>2, <3>2, CoversType
      <4>2. lost' = [lost EXCEPT ![u] = @ \ Covers(Head(fifo[u]))]
        BY <1>11, <3>2 DEF DeviceExecute
      <4>3. \/ failed' = [failed EXCEPT ![u] = @ \ Covers(Head(fifo[u]))]
            \/ failed' = [failed EXCEPT ![u] = @ \cup Covers(Head(fifo[u]))]
        BY <1>11, <3>2 DEF DeviceExecute
      <4>4. /\ lost[u] \in SUBSET Segs /\ lost \in [Ummus -> SUBSET Segs]
            /\ failed[u] \in SUBSET Segs /\ failed \in [Ummus -> SUBSET Segs]
        BY DEF TypeOK
      <4>5. CASE failed' = [failed EXCEPT ![u] = @ \ Covers(Head(fifo[u]))]
        BY <4>2, <4>4, <4>5
      <4>6. CASE failed' = [failed EXCEPT ![u] = @ \cup Covers(Head(fifo[u]))]
        BY <4>1, <4>2, <4>4, <4>6
      <4>7. QED
        BY <4>3, <4>5, <4>6
    <3>3. QED
      BY <3>1, <3>2
  <2>7. QED
    BY <1>11, <2>3, <2>5, <2>6, <2>8 DEF TypeOK, DeviceExecute
<1>12. ASSUME NEW u \in Ummus, DeviceUpdateCi(u) PROVE TypeOK'
  BY <1>12 DEF TypeOK, DeviceUpdateCi
<1>13. QED
  BY <1>1, <1>2, <1>3, <1>4, <1>5, <1>6, <1>7, <1>8, <1>9, <1>10, <1>11, <1>12 DEF Next, Caller, Calls

-----------------------------------------------------------------------------
(* Nothing stale is left behind.                                           *)

\* One UMMU and one segment.
Explained(u, s) ==
    Stale(u, s) => ToBeTold(u, s) \/ Queued(u, s) \/ s \in lost[u] \cup failed[u]

LEMMA ExplainedStep ==
    ASSUME TypeOK, TypeOK', [Next]_vars, NEW u \in Ummus, NEW s \in Segs, Explained(u, s)
    PROVE  Explained(u, s)'
<1> USE DEF Explained
<1>0. u \in Nat /\ u < ummu_cnt /\ i \in Nat /\ i' \in Nat
  BY DEF Ummus, TypeOK
<1>1. CASE UNCHANGED vars
  BY <1>1 DEF Stale, ToBeTold, Queued
<1>2. CASE Calls
  <2>1. plb' = plb /\ hist' = hist /\ (Queued(u, s)' <=> Queued(u, s))
    BY <1>2 DEF Queued, Calls, ummu_allocate_tid, ummu_free_tid, ummu_grant, GrantPartly,
       token_update, ummu_ungrant
  <2>2. CASE ummu_allocate_tid
    BY <2>1, <2>2 DEF Stale, ToBeTold, ummu_allocate_tid
  <2>3. CASE ummu_free_tid
    BY <2>1, <2>3 DEF Stale, ToBeTold, ummu_free_tid
  <2>4. ASSUME NEW r \in Segs, ummu_grant(r) \/ GrantPartly(r)
        PROVE  Explained(u, s)'
    <3>1. pc = "idle" /\ (Stale(u, s)' => Stale(u, s))
      BY <2>1, <2>4 DEF TypeOK, Stale, ummu_grant, GrantPartly
    <3>2. QED
      BY <2>1, <3>1 DEF ToBeTold
  <2>5. ASSUME NEW r \in Segs, token_update(r) \/ ummu_ungrant(r)
        PROVE  Explained(u, s)'
    <3>1. /\ pc = "idle" /\ pc' \in {"kcmd", "send"} /\ i' = 0 /\ cmd' = r
          /\ s # r => mem'[s] = mem[s]
      BY <2>5 DEF TypeOK, token_update, ummu_ungrant
    <3>2. CASE s = r
      BY <1>0, <3>1, <3>2 DEF ToBeTold, Covers
    <3>3. CASE s # r
      BY <2>1, <3>1, <3>3 DEF Stale, ToBeTold
    <3>4. QED
      BY <3>2, <3>3
  <2>6. QED
    BY <1>2, <2>2, <2>3, <2>4, <2>5 DEF Calls
<1>3. CASE GrantUndone
  <2>1. /\ pc = "undo" /\ pc' \in {"kcmd", "send"} /\ i' = 0 /\ cmd' = cmd /\ cmd \in Segs
        /\ s # cmd => mem'[s] = mem[s]
        /\ plb' = plb /\ hist' = hist /\ fifo' = fifo
    BY <1>3 DEF TypeOK, GrantUndone
  <2>2. CASE s = cmd
    BY <1>0, <2>1, <2>2 DEF ToBeTold, Covers
  <2>3. CASE s # cmd
    BY <2>1, <2>3 DEF Stale, ToBeTold, Queued
  <2>4. QED
    BY <2>2, <2>3
<1>4. CASE SendQueue
  <2>1. Stale(u, s)' <=> Stale(u, s)
    BY <1>4 DEF SendQueue, Stale
  <2>2. CASE u = i
    <3>1. fifo'[u] = fifo[u] \o Batch(cmd) /\ fifo[u] \in Seq(Cmds \cup {PSYNC}) /\ hist' = hist
      BY <1>4, <2>2 DEF SendQueue, TypeOK
    <3>2. ToBeTold(u, s) \/ Queued(u, s) => InQueue(fifo'[u], s)
      BY <3>1, QueuedAppend DEF TypeOK, ToBeTold, Queued, InQueue
    <3>3. QED
      BY <2>1, <3>1, <3>2 DEF Queued, InQueue
  <2>3. CASE u # i
    <3>1. fifo'[u] = fifo[u] /\ hist' = hist /\ i' = i /\ cmd' = cmd /\ pc = "send" /\ pc' = "wait"
      BY <1>4, <2>3 DEF SendQueue, TypeOK
    <3>2. ToBeTold(u, s) => ToBeTold(u, s)'
      BY <1>0, <2>3, <3>1 DEF ToBeTold
    <3>3. QED
      BY <2>1, <3>1, <3>2 DEF Queued
  <2>4. QED
    BY <2>2, <2>3
<1>5. CASE SendFull
  <2>1. /\ pc = "send" /\ pc' = "send" /\ i' = i + 1 /\ cmd' = cmd
        /\ plb' = plb /\ mem' = mem /\ fifo' = fifo /\ failed' = failed
        /\ lost'[u] = IF u = i THEN lost[u] \cup Covers(cmd) ELSE lost[u]
    BY <1>5 DEF TypeOK, SendFull
  <2>2. QED
    BY <1>0, <2>1 DEF Stale, ToBeTold, Queued
<1>6. CASE SendDone \/ SendLate
  <2>1. /\ pc = "wait" /\ pc' = "send" /\ i' = i + 1 /\ cmd' = cmd
        /\ plb' = plb /\ mem' = mem /\ fifo' = fifo /\ hist' = hist
    BY <1>6 DEF SendDone, SendLate
  <2>2. QED
    BY <1>0, <2>1 DEF Stale, ToBeTold, Queued
<1>7. CASE LoopEnds
  BY <1>0, <1>7 DEF Stale, ToBeTold, Queued, LoopEnds
<1>8. CASE ummu_kcmd_plbi
  BY <1>8 DEF TypeOK, Stale, ToBeTold, Queued, Forget, ummu_kcmd_plbi
<1>9. CASE ummu_put_tid
  BY <1>9 DEF TypeOK, Stale, ummu_put_tid
<1>10. ASSUME NEW v \in Ummus, NEW r \in Segs, DeviceLookup(v, r) PROVE Explained(u, s)'
  BY <1>10 DEF TypeOK, Stale, ToBeTold, Queued, DeviceLookup
<1>11. ASSUME NEW v \in Ummus, DeviceExecute(v) PROVE Explained(u, s)'
  <2>1. CASE u # v
    BY <1>11, <2>1 DEF TypeOK, Stale, ToBeTold, Queued, DeviceExecute
  <2>2. CASE u = v
    <3>1. /\ fifo[u] \in Seq(Cmds \cup {PSYNC}) /\ fifo[u] # <<>> /\ fifo'[u] = Tail(fifo[u])
          /\ mem' = mem /\ pc' = pc /\ cmd' = cmd /\ i' = i
      BY <1>11, <2>2 DEF TypeOK, DeviceExecute
    <3>2. Queued(u, s) => Queued(u, s)' \/ (Head(fifo[u]) # PSYNC /\ s \in Covers(Head(fifo[u])))
      BY <3>1, QueuedTail DEF Queued, InQueue
    <3>3. ToBeTold(u, s) => ToBeTold(u, s)'
      BY <3>1 DEF ToBeTold
    <3>4. CASE Head(fifo[u]) # PSYNC /\ s \in Covers(Head(fifo[u]))
      BY <1>11, <2>2, <3>4 DEF TypeOK, DeviceExecute, Stale, Forget
    <3>5. CASE ~(Head(fifo[u]) # PSYNC /\ s \in Covers(Head(fifo[u])))
      <4>1. plb'[u][s] = plb[u][s] /\ (s \in lost[u] \cup failed[u] => s \in lost'[u] \cup failed'[u])
        BY <1>11, <2>2, <3>5 DEF TypeOK, DeviceExecute, Forget
      <4>2. QED
        BY <3>1, <3>2, <3>3, <3>5, <4>1 DEF Stale
    <3>6. QED
      BY <3>4, <3>5
  <2>3. QED
    BY <2>1, <2>2
<1>12. ASSUME NEW v \in Ummus, DeviceUpdateCi(v) PROVE Explained(u, s)'
  BY <1>12 DEF Stale, ToBeTold, Queued, DeviceUpdateCi
<1>13. QED
  BY <1>1, <1>2, <1>3, <1>4, <1>5, <1>6, <1>7, <1>8, <1>9, <1>10, <1>11, <1>12 DEF Next, Caller, Calls

LEMMA PlbInvariant == Spec => []PlbInv
<1>1. Init => PlbInv
  <2>1. ASSUME Init PROVE TypeOK
    <3>1. live \in BOOLEAN /\ kcmd_plbi \in BOOLEAN
      BY <2>1, Zenon DEF Init
    <3>2. /\ mem \in [Segs -> 0 .. MaxVer] /\ gen \in [Segs -> 0 .. MaxVer]
          /\ plb \in [Ummus -> [Segs -> 0 .. MaxVer]] /\ lost \in [Ummus -> SUBSET Segs]
          /\ failed \in [Ummus -> SUBSET Segs]
      BY <2>1 DEF Init
    <3>3. fifo \in [Ummus -> Seq(Cmds \cup {PSYNC})] /\ unshown \in [Ummus -> Nat]
      BY <2>1 DEF Init
    <3>4. QED
      BY <2>1, <3>1, <3>2, <3>3 DEF Init, TypeOK
  <2>2. Init => StaleExplained
    BY DEF Init, StaleExplained, Stale
  <2>3. QED
    BY <2>1, <2>2 DEF PlbInv
<1>2. PlbInv /\ [Next]_vars => PlbInv'
  <2>1. SUFFICES ASSUME PlbInv, [Next]_vars PROVE PlbInv'
    OBVIOUS
  <2>2. TypeOK /\ TypeOK' /\ \A u \in Ummus, s \in Segs : Explained(u, s)
    BY <2>1, TypeStep DEF PlbInv, StaleExplained, Explained
  <2>3. \A u \in Ummus, s \in Segs : Explained(u, s)'
    BY <2>1, <2>2, ExplainedStep
  <2>4. QED
    BY <2>2, <2>3 DEF PlbInv, StaleExplained, Explained
<1>3. QED
  BY <1>1, <1>2, PTL DEF Spec

-----------------------------------------------------------------------------
(* A completion that was seen.                                             *)

LEMMA NotToldYetStep ==
    ASSUME TypeOK, NotToldYet, [Next]_vars
    PROVE  NotToldYet'
<1>0. i \in Nat /\ \A u \in Ummus : u \in Nat
  BY DEF TypeOK, Ummus
<1>1. CASE UNCHANGED vars
  BY <1>1 DEF NotToldYet
<1>2. CASE Calls
  BY <1>2 DEF NotToldYet, Calls, ummu_allocate_tid, ummu_free_tid, ummu_grant, GrantPartly,
     token_update, ummu_ungrant
<1>3. CASE GrantUndone
  BY <1>3 DEF NotToldYet, GrantUndone
<1>4. CASE SendQueue \/ LoopEnds
  BY <1>4 DEF NotToldYet, SendQueue, LoopEnds
<1>5. CASE SendFull \/ SendDone \/ SendLate
  <2>1. /\ pc \in {"send", "wait"} /\ pc' = "send" /\ i' = i + 1
        /\ \A u \in Ummus : u # i => (u \in done' <=> u \in done)
    BY <1>5 DEF TypeOK, SendFull, SendDone, SendLate
  <2>2. \A u \in Ummus : i' <= u => i <= u /\ u # i
    BY <1>0, <2>1
  <2>3. QED
    BY <2>1, <2>2 DEF NotToldYet
<1>6. CASE ummu_kcmd_plbi \/ ummu_put_tid
  BY <1>6 DEF NotToldYet, ummu_kcmd_plbi, ummu_put_tid
<1>7. ASSUME NEW u \in Ummus, DeviceExecute(u) \/ DeviceUpdateCi(u) \/ \E s \in Segs : DeviceLookup(u, s)
      PROVE  NotToldYet'
  BY <1>7 DEF NotToldYet, DeviceExecute, DeviceUpdateCi, DeviceLookup
<1>8. QED
  BY <1>1, <1>2, <1>3, <1>4, <1>5, <1>6, <1>7 DEF Next, Caller, Calls

LEMMA DoneEmptyStep ==
    ASSUME TypeOK, NotToldYet, DoneEmpty, [Next]_vars
    PROVE  DoneEmpty'
<1>1. CASE UNCHANGED vars
  BY <1>1 DEF DoneEmpty
<1>2. CASE Calls
  BY <1>2 DEF DoneEmpty, Calls, ummu_allocate_tid, ummu_free_tid, ummu_grant, GrantPartly,
     token_update, ummu_ungrant
<1>3. CASE GrantUndone \/ LoopEnds \/ ummu_kcmd_plbi \/ ummu_put_tid
  BY <1>3 DEF DoneEmpty, TypeOK, GrantUndone, LoopEnds, ummu_kcmd_plbi, ummu_put_tid
<1>4. CASE SendQueue
  <2>1. i \in Ummus /\ i \notin done
    BY <1>4 DEF SendQueue, TypeOK, NotToldYet, Ummus
  <2>2. QED
    BY <1>4, <2>1 DEF DoneEmpty, SendQueue, TypeOK
<1>5. CASE SendFull \/ SendDone \/ SendLate
  BY <1>5 DEF DoneEmpty, TypeOK, SendFull, SendDone, SendLate
<1>6. ASSUME NEW u \in Ummus, DeviceExecute(u) \/ DeviceUpdateCi(u) \/ \E s \in Segs : DeviceLookup(u, s)
      PROVE  DoneEmpty'
  BY <1>6 DEF DoneEmpty, TypeOK, DeviceExecute, DeviceUpdateCi, DeviceLookup
<1>7. QED
  BY <1>1, <1>2, <1>3, <1>4, <1>5, <1>6 DEF Next, Caller, Calls

\* The two halves of MadeGood.
WaitedFor == pc = "wait" => \A s \in Covers(cmd) : s \in lost[i] => Queued(i, s)
NoneLost  == live => \A u \in done, s \in Covers(cmd) : s \notin lost[u]

LEMMA WaitedForStep ==
    ASSUME TypeOK, WaitedFor, [Next]_vars
    PROVE  WaitedFor'
<1>1. CASE UNCHANGED vars
  BY <1>1 DEF WaitedFor, Queued
<1>2. CASE Calls
  BY <1>2 DEF WaitedFor, Queued, Calls, ummu_allocate_tid, ummu_free_tid, ummu_grant,
     GrantPartly, token_update, ummu_ungrant
<1>3. CASE GrantUndone \/ LoopEnds \/ ummu_kcmd_plbi \/ ummu_put_tid \/ SendFull \/ SendDone \/ SendLate
  BY <1>3 DEF WaitedFor, GrantUndone, LoopEnds, ummu_kcmd_plbi, ummu_put_tid, SendFull,
     SendDone, SendLate
<1>4. CASE SendQueue
  <2>1. /\ i \in Ummus /\ fifo[i] \in Seq(Cmds \cup {PSYNC}) /\ cmd \in Cmds
        /\ i' = i /\ cmd' = cmd /\ fifo'[i] = fifo[i] \o Batch(cmd)
    BY <1>4 DEF SendQueue, TypeOK, Ummus
  <2>2. \A s \in Covers(cmd) : s \in Segs /\ InQueue(fifo'[i], s)
    BY <2>1, QueuedAppend, CoversType
  <2>3. QED
    BY <2>1, <2>2 DEF WaitedFor, Queued, InQueue
<1>5. ASSUME NEW u \in Ummus, NEW s \in Segs, DeviceLookup(u, s) PROVE WaitedFor'
  BY <1>5 DEF WaitedFor, Queued, DeviceLookup
<1>6. ASSUME NEW u \in Ummus, DeviceExecute(u) PROVE WaitedFor'
  <2>1. SUFFICES ASSUME pc = "wait", NEW s \in Covers(cmd), s \in lost'[i]
                 PROVE  InQueue(fifo'[i], s)
    BY <1>6 DEF WaitedFor, Queued, InQueue, DeviceExecute
  <2>2. CASE u # i
    <3>1. i \in Ummus
      BY <2>1 DEF TypeOK, Ummus
    <3>2. fifo'[i] = fifo[i] /\ lost'[i] = lost[i]
      BY <1>6, <2>2, <3>1 DEF DeviceExecute, TypeOK
    <3>3. QED
      BY <2>1, <3>2 DEF WaitedFor, Queued, InQueue
  <2>3. CASE u = i
    <3>1. /\ fifo[u] \in Seq(Cmds \cup {PSYNC}) /\ fifo[u] # <<>> /\ fifo'[u] = Tail(fifo[u])
          /\ s \in Segs
      BY <1>6, <2>1, CoversType DEF DeviceExecute, TypeOK
    <3>2. s \in lost[u] /\ ~(Head(fifo[u]) # PSYNC /\ s \in Covers(Head(fifo[u])))
      BY <1>6, <2>1, <2>3 DEF DeviceExecute, TypeOK
    <3>3. InQueue(fifo[u], s)
      BY <2>1, <2>3, <3>2 DEF WaitedFor, Queued, InQueue
    <3>4. QED
      BY <2>3, <3>1, <3>2, <3>3, QueuedTail
  <2>4. QED
    BY <2>2, <2>3
<1>7. ASSUME NEW u \in Ummus, DeviceUpdateCi(u) PROVE WaitedFor'
  BY <1>7 DEF WaitedFor, Queued, DeviceUpdateCi
<1>8. QED
  BY <1>1, <1>2, <1>3, <1>4, <1>5, <1>6, <1>7 DEF Next, Caller, Calls

LEMMA NoneLostStep ==
    ASSUME TypeOK, NotToldYet, DoneEmpty, WaitedFor, NoneLost, [Next]_vars
    PROVE  NoneLost'
<1>1. CASE UNCHANGED vars
  BY <1>1 DEF NoneLost
<1>2. CASE Calls
  BY <1>2 DEF NoneLost, Calls, ummu_allocate_tid, ummu_free_tid, ummu_grant, GrantPartly,
     token_update, ummu_ungrant
<1>3. CASE GrantUndone \/ LoopEnds \/ ummu_put_tid \/ SendQueue \/ SendLate
  BY <1>3 DEF NoneLost, TypeOK, GrantUndone, LoopEnds, ummu_put_tid, SendQueue, SendLate
<1>4. CASE ummu_kcmd_plbi
  <2>1. pc = "kcmd" /\ done' = done
    BY <1>4 DEF ummu_kcmd_plbi
  <2>2. done = {}
    BY <2>1 DEF TypeOK, NotToldYet
  <2>3. QED
    BY <2>1, <2>2 DEF NoneLost
<1>5. CASE SendFull
  <2>1. /\ i \in Ummus /\ i \notin done /\ done' = done /\ cmd' = cmd /\ live' = live
        /\ lost' = [lost EXCEPT ![i] = lost[i] \cup Covers(cmd)]
    BY <1>5 DEF NotToldYet, TypeOK, Ummus, SendFull
  <2>2. \A u \in done : lost'[u] = lost[u]
    BY <2>1 DEF TypeOK
  <2>3. QED
    BY <2>1, <2>2 DEF NoneLost
<1>6. CASE SendDone
  <2>1. pc = "wait" /\ fifo[i] = <<>> /\ lost' = lost /\ cmd' = cmd /\ live' = live
    BY <1>6 DEF SendDone
  <2>2. \A s \in Covers(cmd) : s \notin lost[i]
    BY <2>1 DEF WaitedFor, Queued
  <2>3. QED
    BY <1>6, <2>1, <2>2 DEF NoneLost, TypeOK, SendDone
<1>7. ASSUME NEW u \in Ummus, NEW s \in Segs, DeviceLookup(u, s) PROVE NoneLost'
  BY <1>7 DEF NoneLost, DeviceLookup
<1>8. ASSUME NEW u \in Ummus, DeviceExecute(u) PROVE NoneLost'
  <2>1. \A v \in Ummus : lost'[v] \subseteq lost[v]
    <3>1. lost' = lost \/ lost' = [lost EXCEPT ![u] = lost[u] \ Covers(Head(fifo[u]))]
      BY <1>8 DEF DeviceExecute
    <3>2. lost \in [Ummus -> SUBSET Segs]
      BY DEF TypeOK
    <3>3. QED
      BY <3>1, <3>2
  <2>2. done' = done /\ cmd' = cmd /\ live' = live /\ done \subseteq Ummus
    BY <1>8 DEF TypeOK, DeviceExecute
  <2>3. QED
    BY <2>1, <2>2 DEF NoneLost
<1>9. ASSUME NEW u \in Ummus, DeviceUpdateCi(u) PROVE NoneLost'
  BY <1>9 DEF NoneLost, DeviceUpdateCi
<1>10. QED
  BY <1>1, <1>2, <1>3, <1>4, <1>5, <1>6, <1>7, <1>8, <1>9 DEF Next, Caller, Calls

LEMMA DoneInvariant == Spec => []DoneInv
<1>1. Init => NotToldYet /\ DoneEmpty /\ MadeGood
  BY DEF Init, NotToldYet, DoneEmpty, MadeGood
<1>2. PlbInv /\ NotToldYet /\ DoneEmpty /\ MadeGood /\ [Next]_vars
          => (NotToldYet /\ DoneEmpty /\ MadeGood)'
  BY NotToldYetStep, DoneEmptyStep, WaitedForStep, NoneLostStep
     DEF PlbInv, MadeGood, WaitedFor, NoneLost
<1>3. QED
  BY <1>1, <1>2, PlbInvariant, PTL DEF Spec, DoneInv

-----------------------------------------------------------------------------
(* The theorems.                                                           *)

\* The types are right for any number of UMMUs and queues of any length.
THEOREM InvalidationTypeCorrect == Spec => []TypeOK
  BY PlbInvariant, PTL DEF PlbInv

\* ummu_send_plbi leaves a UMMU with old permissions only where it dropped an
\* error or where the command still waits in that UMMU's queue.
THEOREM NothingElseStale == Spec => []StaleExplained
  BY PlbInvariant, PTL DEF PlbInv

\* Seeing the completion of a call's PSYNC means that the UMMU has forgotten
\* what the call changed, unless it failed that very command.
THEOREM CompletionIsReliable == Spec => []DoneMeansRevoked
<1>1. ASSUME DoneInv PROVE DoneMeansRevoked
  <2>1. SUFFICES ASSUME NEW u \in done, live, NEW s \in Covers(cmd),
                        Stale(u, s)
                 PROVE  s \in failed[u]
    BY DEF DoneMeansRevoked
  <2>2. s \in Segs /\ u \in Ummus /\ u \in Nat /\ i \in Nat
    BY <1>1, CoversType DEF DoneInv, PlbInv, TypeOK, Ummus
  <2>3. ~ToBeTold(u, s)
    BY <1>1, <2>1, <2>2 DEF DoneInv, NotToldYet, ToBeTold
  <2>4. ~Queued(u, s)
    BY <1>1, <2>1 DEF DoneInv, DoneEmpty, Queued
  <2>5. s \notin lost[u]
    BY <1>1, <2>1 DEF DoneInv, MadeGood
  <2>6. QED
    BY <1>1, <2>1, <2>2, <2>3, <2>4, <2>5 DEF DoneInv, PlbInv, StaleExplained
<1>2. QED
  BY <1>1, DoneInvariant, PTL
===============================================================================
