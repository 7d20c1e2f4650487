------------------------------ MODULE UmmuQueue ------------------------------
(***************************************************************************)
(* The command and the completion ring of one UMMU (ummu_queue.c), shared  *)
(* with the device.  Both are addressed by indexes that run through twice  *)
(* the number of entries, the upper half being the wrap bit.               *)
(*                                                                         *)
(* The steps of ummu_send_cmd and ummu_get_cpl_psync that touch shared     *)
(* memory are steps here and interleave with the device, which executes    *)
(* commands at its own pace.  There is one caller: every call holds the    *)
(* mapt_mutex of its tid (module UmmuApi).                                 *)
(***************************************************************************)
EXTENDS Integers, Sequences

CONSTANTS
    QSize,      \* entries of the command ring, 1 << cmd_que_pi_size
    CplSize,    \* entries of the completion ring, 1 << cpl_que_size
    PlbiNum,    \* plbi_num: 2 if double_plbi, else 1
    Cmds,       \* the invalidations: PLBI_VA_OP with its range, PLBI_ALL_OP
    PLBI_ALL,   \* PLBI_ALL_OP
    PSYNC,      \* PSYNC_OP with cqe_en
    NoCmd,      \* the content of a fresh ring
    MAX_WAIT_NOT_FULL_TIMES,    \* 300 in the code
    WAIT_CPLQ_TIMES             \* 4 in the code

\* A call's commands fit in the ring.  The completion ring holds those of a
\* full command ring and of one more call; with pages in equal number it has
\* four times the entries of the command ring.
ASSUME RingAssumption ==
    /\ QSize \in Nat /\ QSize % 2 = 0
    /\ PlbiNum \in {1, 2} /\ QSize >= 2 * PlbiNum
    /\ CplSize \in Nat /\ 2 * CplSize >= QSize + 2 * PlbiNum
ASSUME CmdAssumption == PLBI_ALL \in Cmds /\ PSYNC \notin Cmds
ASSUME TimesAssumption ==
    MAX_WAIT_NOT_FULL_TIMES \in Nat /\ WAIT_CPLQ_TIMES \in Nat \ {0}

VARIABLES
    cmd_entry, ucmdq_pi, ucmdq_ci,  \* the command ring and its control words
    cpl_entry, ucplq_pi, ucplq_ci,  \* the completion ring; an entry is cmdq_ci
    rd,         \* the device's own index of the next command to execute
    pc,         \* where the caller is
    closing,    \* the call comes from ummu_queue_destroy
    cmd, times, pi_wr, idx, pi_sync,    \* the locals of ummu_send_cmd
    pi, ci,                             \* the locals of ummu_get_cpl_psync
    reply       \* how the last ummu_send_cmd ended, see CmdFifo

ring   == <<cmd_entry, ucmdq_pi, ucmdq_ci, cpl_entry, ucplq_pi, ucplq_ci>>
locals == <<cmd, times, pi_wr, idx, pi_sync, pi, ci>>
vars   == <<ring, rd, pc, closing, locals, reply>>

-----------------------------------------------------------------------------
(* Indexes of a ring of n entries: 0 .. 2 * n - 1.                         *)

Index(n) == 0 .. 2 * n - 1
Q_WRAP(i, n) == i >= n
Q_IDX(i, n)  == IF i >= n THEN i - n ELSE i

ummu_update_queue_index(i, n) ==
    IF Q_IDX(i, n) = n - 1 THEN (IF Q_WRAP(i, n) THEN 0 ELSE n) ELSE i + 1

HasSpaceOffByOne(p, c, n, k) ==
    LET space == IF Q_WRAP(p, n) = Q_WRAP(c, n)
                 THEN n - (Q_IDX(p, n) - Q_IDX(c, n))
                 ELSE Q_IDX(c, n) - Q_IDX(p, n)
    IN space + 1 >= k
queue_has_space(p, c, n, k) ==
    LET space == IF Q_WRAP(p, n) = Q_WRAP(c, n)
                 THEN n - (Q_IDX(p, n) - Q_IDX(c, n))
                 ELSE Q_IDX(c, n) - Q_IDX(p, n)
    IN space >= k

\* How many steps lead from index a to index b, and the index k steps after i.
Dist(a, b, n) == IF a <= b THEN b - a ELSE b - a + 2 * n
Plus(i, k, n) == IF i + k >= 2 * n THEN i + k - 2 * n ELSE i + k

-----------------------------------------------------------------------------
(* ummu_send_cmd.                                                          *)

Entries == Cmds \cup {PSYNC, NoCmd}

FreshCmds == [i \in 0 .. QSize - 1 |-> NoCmd]
FreshCpls == [i \in 0 .. CplSize - 1 |-> 0]

Init ==
    /\ cmd_entry = FreshCmds /\ ucmdq_pi = 0 /\ ucmdq_ci = 0 /\ rd = 0
    /\ cpl_entry = FreshCpls /\ ucplq_pi = 0 /\ ucplq_ci = 0
    /\ pc = "idle" /\ closing = FALSE /\ reply = "none"
    /\ cmd = PLBI_ALL /\ times = 0 /\ pi_wr = 0 /\ idx = 0 /\ pi_sync = 0
    /\ pi = 0 /\ ci = 0

\* A call of ummu_send_cmd; destroy is ummu_queue_destroy, which invalidates
\* everything first.
Call(c, destroy) ==
    /\ pc = "idle" /\ ~closing
    /\ pc' = "space" /\ closing' = destroy /\ reply' = "none"
    /\ cmd' = c /\ times' = MAX_WAIT_NOT_FULL_TIMES
    /\ UNCHANGED <<ring, rd, pi_wr, idx, pi_sync, pi, ci>>

ummu_send_cmd == \E c \in Cmds : Call(c, FALSE)
ummu_queue_destroy == Call(PLBI_ALL, TRUE)

Space == queue_has_space(ucmdq_pi, ucmdq_ci, QSize, 2 * PlbiNum)

\* The queue has space: start writing at the producer index.
Reserve ==
    /\ pc = "space" /\ Space
    /\ pc' = "write" /\ pi_wr' = ucmdq_pi /\ idx' = 0
    /\ UNCHANGED <<ring, rd, closing, cmd, times, pi_sync, pi, ci, reply>>

WaitSpaceForEver ==
    /\ pc = "space" /\ ~Space /\ times > 0
    /\ UNCHANGED vars
WaitSpace ==
    /\ pc = "space" /\ ~Space /\ times > 0
    /\ times' = times - 1
    /\ UNCHANGED <<ring, rd, pc, closing, cmd, pi_wr, idx, pi_sync, pi, ci, reply>>

\* -ETIMEDOUT, which ummu_send_plbi ignores.
Full ==
    /\ pc = "space" /\ ~Space /\ times = 0
    /\ pc' = "idle" /\ reply' = "full"
    /\ UNCHANGED <<ring, rd, closing, locals>>

\* One round of the loop: the invalidation, then its PSYNC.
WritePublishesEarly ==
    LET sync == ummu_update_queue_index(pi_wr, QSize)
    IN /\ pc = "write"
       /\ cmd_entry' = [cmd_entry EXCEPT ![Q_IDX(pi_wr, QSize)] = cmd,
                                         ![Q_IDX(sync, QSize)]  = PSYNC]
       /\ pi_sync' = sync
       /\ pi_wr' = ummu_update_queue_index(sync, QSize)
       /\ ucmdq_pi' = pi_wr'
       /\ idx' = idx + 1
       /\ pc' = IF idx + 1 < PlbiNum THEN "write" ELSE "publish"
       /\ UNCHANGED <<ucmdq_ci, cpl_entry, ucplq_pi, ucplq_ci, rd,
                      closing, cmd, times, pi, ci, reply>>
Write ==
    LET sync == ummu_update_queue_index(pi_wr, QSize)
    IN /\ pc = "write"
       /\ cmd_entry' = [cmd_entry EXCEPT ![Q_IDX(pi_wr, QSize)] = cmd,
                                         ![Q_IDX(sync, QSize)]  = PSYNC]
       /\ pi_sync' = sync
       /\ pi_wr' = ummu_update_queue_index(sync, QSize)
       /\ idx' = idx + 1
       /\ pc' = IF idx + 1 < PlbiNum THEN "write" ELSE "publish"
       /\ UNCHANGED <<ucmdq_pi, ucmdq_ci, cpl_entry, ucplq_pi, ucplq_ci, rd,
                      closing, cmd, times, pi, ci, reply>>

\* After the barrier the entries are visible and the producer index moves.
PublishBeforeSync ==
    /\ pc = "publish"
    /\ ucmdq_pi' = pi_sync /\ times' = WAIT_CPLQ_TIMES /\ pc' = "poll"
    /\ UNCHANGED <<cmd_entry, ucmdq_ci, cpl_entry, ucplq_pi, ucplq_ci, rd,
                   closing, cmd, pi_wr, idx, pi_sync, pi, ci, reply>>
Publish ==
    /\ pc = "publish"
    /\ ucmdq_pi' = pi_wr /\ times' = WAIT_CPLQ_TIMES /\ pc' = "poll"
    /\ UNCHANGED <<cmd_entry, ucmdq_ci, cpl_entry, ucplq_pi, ucplq_ci, rd,
                   closing, cmd, pi_wr, idx, pi_sync, pi, ci, reply>>

\* A poll did not find the call's own completion: poll again or give up.
PollFailed ==
    /\ times' = times - 1
    /\ IF times = 1 THEN pc' = "idle" /\ reply' = "late"
                    ELSE pc' = "poll" /\ UNCHANGED reply

-----------------------------------------------------------------------------
(* ummu_get_cpl_psync.                                                     *)

\* Read the indexes; -EINVAL when there is nothing to read.
PollEmpty ==
    /\ pc = "poll" /\ ucplq_pi = ucplq_ci
    /\ PollFailed
    /\ UNCHANGED <<ring, rd, closing, cmd, pi_wr, idx, pi_sync, pi, ci>>

PollRead ==
    /\ pc = "poll" /\ ucplq_pi # ucplq_ci
    /\ pi' = ucplq_pi /\ ci' = ucplq_ci /\ pc' = "scan"
    /\ UNCHANGED <<ring, rd, closing, cmd, times, pi_wr, idx, pi_sync, reply>>

\* One round of the loop over the completions read; the consumer index is
\* written when the loop ends, at the own completion or after the last one.
MatchesSlot(e, p) == Q_IDX(e, QSize) = Q_IDX(p, QSize)
Matches(e, p) == e = p

ScanReleasesOwnOnly ==
    LET e    == cpl_entry[Q_IDX(ci, CplSize)]
        next == ummu_update_queue_index(ci, CplSize)
        own  == Matches(e, pi_sync)
    IN /\ pc = "scan"
       /\ ci' = next
       /\ ucplq_ci' = IF own THEN next ELSE ucplq_ci
       /\ IF own THEN pc' = "idle" /\ reply' = "done" /\ UNCHANGED times
          ELSE IF next = pi THEN PollFailed
          ELSE UNCHANGED <<pc, reply, times>>
       /\ UNCHANGED <<cmd_entry, ucmdq_pi, ucmdq_ci, cpl_entry, ucplq_pi, rd,
                      closing, cmd, pi_wr, idx, pi_sync, pi>>
ScanReleasesAll ==
    LET e    == cpl_entry[Q_IDX(ci, CplSize)]
        next == ummu_update_queue_index(ci, CplSize)
        own  == Matches(e, pi_sync)
    IN /\ pc = "scan"
       /\ ci' = next
       /\ ucplq_ci' = IF own \/ next = pi THEN ucplq_pi ELSE ucplq_ci
       /\ IF own THEN pc' = "idle" /\ reply' = "done" /\ UNCHANGED times
          ELSE IF next = pi THEN PollFailed
          ELSE UNCHANGED <<pc, reply, times>>
       /\ UNCHANGED <<cmd_entry, ucmdq_pi, ucmdq_ci, cpl_entry, ucplq_pi, rd,
                      closing, cmd, pi_wr, idx, pi_sync, pi>>
Scan ==
    LET e    == cpl_entry[Q_IDX(ci, CplSize)]
        next == ummu_update_queue_index(ci, CplSize)
        own  == Matches(e, pi_sync)
    IN /\ pc = "scan"
       /\ ci' = next
       /\ ucplq_ci' = IF own \/ next = pi THEN next ELSE ucplq_ci
       /\ IF own THEN pc' = "idle" /\ reply' = "done" /\ UNCHANGED times
          ELSE IF next = pi THEN PollFailed
          ELSE UNCHANGED <<pc, reply, times>>
       /\ UNCHANGED <<cmd_entry, ucmdq_pi, ucmdq_ci, cpl_entry, ucplq_pi, rd,
                      closing, cmd, pi_wr, idx, pi_sync, pi>>

\* ummu_queue_destroy goes on to unmap the rings; ummu_queue_create maps new ones.
Unmap ==
    /\ pc = "idle" /\ closing
    /\ pc' = "unmapped" /\ closing' = FALSE
    /\ UNCHANGED <<ring, rd, locals, reply>>

ummu_queue_create ==
    /\ pc = "unmapped" /\ pc' = "idle" /\ reply' = "none"
    /\ cmd_entry' = FreshCmds /\ ucmdq_pi' = 0 /\ ucmdq_ci' = 0 /\ rd' = 0
    /\ cpl_entry' = FreshCpls /\ ucplq_pi' = 0 /\ ucplq_ci' = 0
    /\ UNCHANGED <<closing, locals>>

-----------------------------------------------------------------------------
(* The device.                                                             *)

\* It executes the next command.  After a PSYNC it posts a completion with the
\* index of that PSYNC, whether or not the completion ring has room.
DeviceExecute ==
    LET e == cmd_entry[Q_IDX(rd, QSize)]
    IN /\ pc # "unmapped" /\ rd # ucmdq_pi
       /\ rd' = ummu_update_queue_index(rd, QSize)
       /\ IF e = PSYNC
          THEN /\ cpl_entry' = [cpl_entry EXCEPT ![Q_IDX(ucplq_pi, CplSize)] = rd]
               /\ ucplq_pi' = ummu_update_queue_index(ucplq_pi, CplSize)
          ELSE UNCHANGED <<cpl_entry, ucplq_pi>>
       /\ UNCHANGED <<cmd_entry, ucmdq_pi, ucmdq_ci, ucplq_ci, pc, closing, locals, reply>>

\* It shows the caller, at some time, how far it is.
DeviceUpdateCi ==
    /\ pc # "unmapped" /\ ucmdq_ci # rd
    /\ ucmdq_ci' = rd
    /\ UNCHANGED <<cmd_entry, ucmdq_pi, cpl_entry, ucplq_pi, ucplq_ci, rd,
                   pc, closing, locals, reply>>

-----------------------------------------------------------------------------

Caller == \/ Reserve \/ WaitSpace \/ Full \/ Write \/ Publish
          \/ PollEmpty \/ PollRead \/ Scan \/ Unmap
Device == DeviceExecute \/ DeviceUpdateCi
Next == \/ ummu_send_cmd \/ ummu_queue_destroy \/ ummu_queue_create
        \/ Caller \/ Device

Spec == Init /\ [][Next]_vars

\* The thread inside a call goes on; the device may stop for ever.
CallerSpec == Spec /\ WF_vars(Caller)

-----------------------------------------------------------------------------
(* Correctness.                                                            *)

TypeOK ==
    /\ cmd_entry \in [0 .. QSize - 1 -> Entries]
    /\ ucmdq_pi \in Index(QSize) /\ ucmdq_ci \in Index(QSize) /\ rd \in Index(QSize)
    /\ cpl_entry \in [0 .. CplSize - 1 -> Index(QSize)]
    /\ ucplq_pi \in Index(CplSize) /\ ucplq_ci \in Index(CplSize)
    /\ pc \in {"idle", "space", "write", "publish", "poll", "scan", "unmapped"}
    /\ closing \in BOOLEAN
    /\ reply \in {"none", "done", "full", "late"}
    /\ cmd \in Cmds /\ times \in Nat /\ idx \in 0 .. PlbiNum
    /\ pi_wr \in Index(QSize) /\ pi_sync \in Index(QSize)
    /\ pi \in Index(CplSize) /\ ci \in Index(CplSize)

\* The indexes that are between the consumer's a and the producer's b.
Window(a, b, n) == {i \in Index(n) : Dist(a, i, n) < Dist(a, b, n)}

\* The commands the device has yet to execute, oldest first.
Fifo == IF pc = "unmapped" THEN <<>>
        ELSE [k \in 1 .. Dist(rd, ucmdq_pi, QSize) |->
                 cmd_entry[Q_IDX(Plus(rd, k - 1, QSize), QSize)]]

\* The rings implement the queue of CmdFifo: commands appear together, are
\* executed once and in order, and a completion is believed only when the
\* whole call was executed.
Abstract == INSTANCE CmdFifo WITH fifo <- Fifo
Refines == Abstract!Spec

\* ummu_send_cmd never writes over a command that the device has not executed,
\* although it compares 16-bit indexes and sees an old consumer index.
NoCommandOverwritten ==
    [][pc # "unmapped" =>
          \A i \in Window(rd, ucmdq_pi, QSize) :
             cmd_entry'[Q_IDX(i, QSize)] = cmd_entry[Q_IDX(i, QSize)]]_vars

\* Completions of calls that stopped polling pile up unread, but never more
\* than the ring holds, so that the device loses none.
CompletionsFit == Dist(ucplq_ci, ucplq_pi, CplSize) <= CplSize

\* A call that found "its" completion was executed completely: an old
\* completion, left by a call that gave up, is never taken for it.
DoneMeansExecuted == pc = "idle" /\ reply = "done" => rd = ucmdq_pi

\* A call whose commands are executed while it polls can still find its
\* completion, the last one posted: reading old ones does not skip it.
OwnCompletionWaits ==
    pc \in {"poll", "scan"} /\ rd = ucmdq_pi =>
        /\ Dist(IF pc = "scan" THEN ci ELSE ucplq_ci, ucplq_pi, CplSize) > 0
        /\ cpl_entry[Q_IDX(Plus(ucplq_pi, 2 * CplSize - 1, CplSize), CplSize)] = pi_sync

\* Both waits of ummu_send_cmd end, even if the device stopped.
SendReturns == pc \notin {"idle", "unmapped"} ~> pc \in {"idle", "unmapped"}

\* If the device goes on, what was queued is executed, even after the call gave
\* up waiting for it, unless the rings are unmapped first.
QueuedMeansExecuted ==
    WF_vars(DeviceExecute) =>
        \A i \in Index(QSize) :
            pc = "publish" /\ pi_sync = i
                ~> pc = "unmapped" \/ rd = ummu_update_queue_index(i, QSize)
==============================================================================
