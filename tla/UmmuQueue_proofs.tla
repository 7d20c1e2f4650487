-------------------------- MODULE UmmuQueue_proofs ---------------------------
(***************************************************************************)
(* Proofs about UmmuQueue for rings of every size.                         *)
(***************************************************************************)
EXTENDS UmmuQueue, TLAPS, SequenceTheorems

\* The device's index, rounded down to the start of a pair of commands.
PairStart == rd - (rd % 2)

\* Twice the number of PSYNCs the device has yet to execute.
SyncsQueued == Dist(rd, ucmdq_pi, QSize) + (rd % 2)

\* The three command indexes follow each other within one turn of the ring.
CmdWindow ==
    /\ ucmdq_pi % 2 = 0
    /\ Dist(ucmdq_ci, ucmdq_pi, QSize) <= QSize
    /\ Dist(rd, ucmdq_pi, QSize) <= Dist(ucmdq_ci, ucmdq_pi, QSize)

\* The commands not yet executed are invalidations and PSYNCs in turn.
CmdKinds ==
    \A i \in Index(QSize) :
        Dist(rd, i, QSize) < Dist(rd, ucmdq_pi, QSize) =>
            (cmd_entry[Q_IDX(i, QSize)] = PSYNC <=> i % 2 = 1)

\* While a call writes, the space it needs is free, and what it wrote is there.
Writing ==
    pc \in {"write", "publish"} =>
        /\ Dist(ucmdq_ci, ucmdq_pi, QSize) + 2 * PlbiNum <= QSize
        /\ pi_wr = Plus(ucmdq_pi, 2 * idx, QSize)
        /\ IF pc = "write" THEN idx < PlbiNum
           ELSE idx = PlbiNum /\ pi_sync = Plus(pi_wr, 2 * QSize - 1, QSize)
        /\ \A k \in 0 .. 2 * PlbiNum - 1 : k < 2 * idx =>
              cmd_entry[Q_IDX(Plus(ucmdq_pi, k, QSize), QSize)]
                  = IF k % 2 = 0 THEN cmd ELSE PSYNC

\* The completions not yet read are those of the last PSYNCs executed.
CplContents ==
    \A p \in Index(CplSize) :
        /\ 0 < Dist(p, ucplq_pi, CplSize)
        /\ Dist(p, ucplq_pi, CplSize) <= Dist(ucplq_ci, ucplq_pi, CplSize)
        => Dist(cpl_entry[Q_IDX(p, CplSize)], PairStart, QSize)
               = 2 * Dist(p, ucplq_pi, CplSize) - 1

\* How many completions are, or may still become, unread.
CplBudget ==
    2 * Dist(ucplq_ci, ucplq_pi, CplSize) + SyncsQueued
        <= QSize + (IF pc \in {"poll", "scan"} THEN 2 * PlbiNum ELSE 0)

\* While a call polls: its own completion is the last, and not yet read.
Polling ==
    pc \in {"poll", "scan"} =>
        /\ times >= 1
        /\ pi_sync = Plus(ucmdq_pi, 2 * QSize - 1, QSize)
        /\ 2 * Dist(IF pc = "scan" THEN ci ELSE ucplq_ci, ucplq_pi, CplSize)
               + SyncsQueued >= 2

\* While a call scans, it is between the consumer's and the producer's index.
Scanning ==
    pc = "scan" =>
        /\ 0 < Dist(ci, pi, CplSize)
        /\ Dist(ci, pi, CplSize) <= Dist(ci, ucplq_pi, CplSize)
        /\ Dist(ci, ucplq_pi, CplSize) <= Dist(ucplq_ci, ucplq_pi, CplSize)
        /\ 2 * Dist(pi, ucplq_pi, CplSize) + SyncsQueued <= QSize

QInv == /\ TypeOK /\ CmdWindow /\ CmdKinds /\ Writing /\ CplContents
        /\ CplBudget /\ Polling /\ Scanning /\ DoneMeansExecuted

-----------------------------------------------------------------------------
(* Index arithmetic.                                                       *)

\* ummu_update_queue_index moves one step ahead, flipping the wrap bit at the end.
LEMMA NextIndex ==
    ASSUME NEW n \in Nat \ {0}, NEW i \in Index(n)
    PROVE  /\ ummu_update_queue_index(i, n) = Plus(i, 1, n)
           /\ ummu_update_queue_index(i, n) \in Index(n)
BY DEF ummu_update_queue_index, Q_IDX, Q_WRAP, Plus, Index

\* On indexes at most one turn apart, queue_has_space compares with the free space.
LEMMA HasSpaceMeans ==
    ASSUME NEW n \in Nat \ {0}, NEW p \in Index(n), NEW c \in Index(n), NEW k \in Nat,
           Dist(c, p, n) <= n
    PROVE  queue_has_space(p, c, n, k) <=> Dist(c, p, n) + k <= n
BY DEF queue_has_space, Q_IDX, Q_WRAP, Dist, Index

\* Indexes of the same slot are equal or one turn apart.
LEMMA SameSlot ==
    ASSUME NEW n \in Nat \ {0}, NEW i \in Index(n), NEW j \in Index(n),
           Q_IDX(i, n) = Q_IDX(j, n)
    PROVE  i = j \/ Dist(i, j, n) = n
BY DEF Q_IDX, Dist, Index

LEMMA IndexFacts ==
    ASSUME NEW n \in Nat \ {0}, NEW i \in Index(n)
    PROVE  /\ Q_IDX(i, n) \in 0 .. n - 1
           /\ \A j \in Index(n) : Dist(i, j, n) \in 0 .. 2 * n - 1
           /\ \A k \in 0 .. 2 * n : Plus(i, k, n) \in Index(n)
           /\ \A k \in 0 .. 2 * n - 1 : Dist(i, Plus(i, k, n), n) = k
           /\ \A j \in Index(n) : Plus(i, Dist(i, j, n), n) = j
BY DEF Q_IDX, Dist, Plus, Index

LEMMA DistPlus ==
    ASSUME NEW n \in Nat \ {0}, NEW i \in Index(n), NEW j \in Index(n),
           NEW k \in Nat, Dist(i, j, n) + k < 2 * n
    PROVE  Dist(i, Plus(j, k, n), n) = Dist(i, j, n) + k
BY DEF Dist, Plus, Index

\* Indexes and distances keep track of parity.
LEMMA Parity ==
    ASSUME NEW n \in Nat \ {0}, NEW i \in Index(n)
    PROVE  /\ \A k \in 0 .. 2 * n : Plus(i, k, n) % 2 = (i + k) % 2
           /\ \A j \in Index(n) : (i + Dist(i, j, n)) % 2 = j % 2
BY DEF Dist, Plus, Index

LEMMA Distances ==
    ASSUME TypeOK
    PROVE  /\ QSize \in Nat \ {0} /\ CplSize \in Nat \ {0} /\ PlbiNum \in Nat
           /\ rd % 2 \in {0, 1}
           /\ Dist(ucmdq_ci, ucmdq_pi, QSize) \in 0 .. 2 * QSize - 1
           /\ Dist(rd, ucmdq_pi, QSize) \in 0 .. 2 * QSize - 1
           /\ Dist(ucplq_ci, ucplq_pi, CplSize) \in 0 .. 2 * CplSize - 1
           /\ Dist(ci, ucplq_pi, CplSize) \in 0 .. 2 * CplSize - 1
           /\ Dist(ci, pi, CplSize) \in 0 .. 2 * CplSize - 1
           /\ Dist(pi, ucplq_pi, CplSize) \in 0 .. 2 * CplSize - 1
BY RingAssumption DEF TypeOK, Dist, Index

\* The PSYNCs queued are half of the commands queued, rounded up.
LEMMA SyncsBound ==
    ASSUME TypeOK, CmdWindow
    PROVE  SyncsQueued \in Nat /\ SyncsQueued <= QSize
           /\ SyncsQueued <= Dist(ucmdq_ci, ucmdq_pi, QSize) + 1
<1>1. (rd + Dist(rd, ucmdq_pi, QSize)) % 2 = 0
  BY Distances, Parity DEF CmdWindow, TypeOK
<1>2. rd \in Nat
  BY RingAssumption DEF TypeOK, Index
<1> QED BY <1>1, <1>2, Distances, RingAssumption DEF SyncsQueued, CmdWindow

LEMMA QInvInit == Init => QInv
<1> SUFFICES ASSUME Init PROVE QInv
  OBVIOUS
<1> USE RingAssumption, CmdAssumption, TimesAssumption
<1>1. TypeOK
  <2>1. cmd_entry \in [0 .. QSize - 1 -> Entries] /\ cpl_entry \in [0 .. CplSize - 1 -> Index(QSize)]
    BY DEF Init, FreshCmds, FreshCpls, Entries, Index
  <2>2. 0 \in Index(QSize) /\ 0 \in Index(CplSize)
    BY DEF Index
  <2>3. closing \in BOOLEAN
    BY Zenon DEF Init
  <2>4. idx \in 0 .. PlbiNum /\ times \in Nat
    BY DEF Init
  <2> QED BY <2>1, <2>2, <2>3, <2>4 DEF Init, TypeOK
<1>2. CmdWindow /\ CplBudget /\ CmdKinds /\ CplContents
  BY DEF Init, CmdWindow, CplBudget, SyncsQueued, CmdKinds, CplContents, Dist, Index
<1>3. Writing /\ Polling /\ Scanning /\ DoneMeansExecuted
  BY DEF Init, Writing, Polling, Scanning, DoneMeansExecuted
<1> QED BY <1>1, <1>2, <1>3 DEF QInv

LEMMA CallStep ==
    ASSUME QInv, NEW c \in Cmds, NEW d \in BOOLEAN, Call(c, d) PROVE QInv'
<1> USE RingAssumption, CmdAssumption, TimesAssumption DEF QInv, Call, ring, locals
<1>1. TypeOK'
  BY DEF TypeOK
<1>2. (CmdWindow /\ CmdKinds /\ CplContents)'
  BY DEF CmdWindow, CmdKinds, CplContents, PairStart
<1>3. (Writing /\ CplBudget /\ Polling /\ Scanning /\ DoneMeansExecuted)'
  BY DEF Writing, CplBudget, SyncsQueued, Polling, Scanning, DoneMeansExecuted
<1> QED BY <1>1, <1>2, <1>3

LEMMA ReserveStep == ASSUME QInv, Reserve PROVE QInv'
<1> USE RingAssumption, CmdAssumption, TimesAssumption DEF QInv, Reserve, ring, locals
<1>1. TypeOK'
  BY DEF TypeOK
<1>2. (CmdWindow /\ CmdKinds /\ CplContents)'
  BY DEF CmdWindow, CmdKinds, CplContents, PairStart
<1>3. (CplBudget /\ Polling /\ Scanning /\ DoneMeansExecuted)'
  BY DEF CplBudget, SyncsQueued, Polling, Scanning, DoneMeansExecuted
<1>4. Dist(ucmdq_ci, ucmdq_pi, QSize) + 2 * PlbiNum <= QSize
  BY HasSpaceMeans DEF Space, TypeOK, CmdWindow
<1>5. Writing'
  BY <1>4 DEF Writing, Plus, TypeOK, Index
<1> QED BY <1>1, <1>2, <1>3, <1>5

LEMMA WaitStep == ASSUME QInv, WaitSpace \/ Full PROVE QInv'
<1> USE RingAssumption, CmdAssumption, TimesAssumption DEF QInv, WaitSpace, Full, ring, locals
<1>1. TypeOK'
  BY DEF TypeOK
<1>2. (CmdWindow /\ CmdKinds /\ CplContents)'
  BY DEF CmdWindow, CmdKinds, CplContents, PairStart
<1>3. (Writing /\ CplBudget /\ Polling /\ Scanning /\ DoneMeansExecuted)'
  BY DEF Writing, CplBudget, SyncsQueued, Polling, Scanning, DoneMeansExecuted
<1> QED BY <1>1, <1>2, <1>3

\* Writing a call's commands touches neither the commands the device has yet
\* to execute nor those of the call already written.
LEMMA WriteKeeps ==
    ASSUME QInv, Write, NEW i \in Index(QSize),
           \/ Dist(rd, i, QSize) < Dist(rd, ucmdq_pi, QSize)
           \/ \E k \in 0 .. 2 * idx - 1 : i = Plus(ucmdq_pi, k, QSize)
    PROVE  cmd_entry'[Q_IDX(i, QSize)] = cmd_entry[Q_IDX(i, QSize)]
<1> USE RingAssumption DEF QInv
<1> DEFINE sync == ummu_update_queue_index(pi_wr, QSize)
           a == Q_IDX(pi_wr, QSize)
           b == Q_IDX(sync, QSize)
<1>1. sync = Plus(pi_wr, 1, QSize) /\ sync \in Index(QSize)
  BY NextIndex DEF TypeOK
<1>2. cmd_entry' = [cmd_entry EXCEPT ![a] = cmd, ![b] = PSYNC]
  BY DEF Write
<1>3. /\ pi_wr = Plus(ucmdq_pi, 2 * idx, QSize) /\ idx \in 0 .. PlbiNum - 1
      /\ Dist(ucmdq_ci, ucmdq_pi, QSize) + 2 * PlbiNum <= QSize
  BY DEF Writing, TypeOK, Write
<1> HIDE DEF sync, a, b
<1>4. Q_IDX(i, QSize) # a /\ Q_IDX(i, QSize) # b
  <2>1. CASE Dist(rd, i, QSize) < Dist(rd, ucmdq_pi, QSize)
    BY <1>1, <1>3, <2>1 DEF CmdWindow, TypeOK, Dist, Plus, Index, Q_IDX, a, b
  <2>2. CASE \E k \in 0 .. 2 * idx - 1 : i = Plus(ucmdq_pi, k, QSize)
    BY <1>1, <1>3, <2>2 DEF CmdWindow, TypeOK, Dist, Plus, Index, Q_IDX, a, b
  <2> QED BY <2>1, <2>2
<1>5. Q_IDX(i, QSize) \in 0 .. QSize - 1
  BY IndexFacts
<1> QED BY <1>2, <1>4, <1>5 DEF TypeOK

LEMMA WriteStep == ASSUME QInv, Write PROVE QInv'
<1> USE RingAssumption, CmdAssumption, TimesAssumption DEF QInv, Write, ring, locals
<1> DEFINE sync == ummu_update_queue_index(pi_wr, QSize)
           a == Q_IDX(pi_wr, QSize)
           b == Q_IDX(sync, QSize)
<1>1. /\ sync = Plus(pi_wr, 1, QSize) /\ sync \in Index(QSize)
      /\ pi_wr' = Plus(sync, 1, QSize) /\ pi_wr' \in Index(QSize)
  BY NextIndex DEF TypeOK
<1>2. a \in 0 .. QSize - 1 /\ b \in 0 .. QSize - 1 /\ a # b
  BY <1>1 DEF TypeOK, Q_IDX, Plus, Index
<1>3. cmd_entry' = [cmd_entry EXCEPT ![a] = cmd, ![b] = PSYNC]
  OBVIOUS
<1> HIDE DEF a, b, sync
<1>4. TypeOK'
  <2>1. cmd_entry' \in [0 .. QSize - 1 -> Entries]
    BY <1>2, <1>3 DEF TypeOK, Entries
  <2>2. pi_sync' \in Index(QSize) /\ idx' \in 0 .. PlbiNum
    BY <1>1 DEF TypeOK, Writing, sync
  <2> QED BY <1>1, <2>1, <2>2 DEF TypeOK
<1>5. pi_wr = Plus(ucmdq_pi, 2 * idx, QSize) /\ idx \in 0 .. PlbiNum - 1
  BY DEF Writing, TypeOK
<1>6. \A i \in Index(QSize) :
          \/ Dist(rd, i, QSize) < Dist(rd, ucmdq_pi, QSize)
          \/ \E k \in 0 .. 2 * idx - 1 : i = Plus(ucmdq_pi, k, QSize)
          => cmd_entry'[Q_IDX(i, QSize)] = cmd_entry[Q_IDX(i, QSize)]
  BY WriteKeeps
<1>7. (CmdWindow /\ CplContents /\ CplBudget /\ Polling /\ Scanning /\ DoneMeansExecuted)'
  BY DEF CmdWindow, CplContents, PairStart, CplBudget, SyncsQueued, Polling,
         Scanning, DoneMeansExecuted
<1>8. CmdKinds'
  BY <1>6 DEF CmdKinds
<1>9. Writing'
  <2>1. /\ Dist(ucmdq_ci, ucmdq_pi, QSize)' + 2 * PlbiNum <= QSize
        /\ pi_wr' = Plus(ucmdq_pi, 2 * idx', QSize)
        /\ IF pc' = "write" THEN idx' < PlbiNum
           ELSE idx' = PlbiNum /\ pi_sync' = Plus(pi_wr', 2 * QSize - 1, QSize)
    <3>1. Dist(ucmdq_ci, ucmdq_pi, QSize)' + 2 * PlbiNum <= QSize
      BY DEF Writing
    <3>2. pi_wr' = Plus(ucmdq_pi, 2 * idx', QSize)
      BY <1>1, <1>5 DEF TypeOK, Plus, Index
    <3>3. sync = Plus(pi_wr', 2 * QSize - 1, QSize)
      BY <1>1 DEF TypeOK, Plus, Index
    <3> QED BY <1>5, <3>1, <3>2, <3>3 DEF sync
  <2>2. ASSUME NEW k \in 0 .. 2 * PlbiNum - 1, k < 2 * idx'
        PROVE  cmd_entry'[Q_IDX(Plus(ucmdq_pi, k, QSize), QSize)]
                   = IF k % 2 = 0 THEN cmd ELSE PSYNC
    <3>1. CASE k < 2 * idx
      <4>1. k \in 0 .. 2 * idx - 1 /\ Plus(ucmdq_pi, k, QSize) \in Index(QSize)
        BY <1>5, <3>1 DEF TypeOK, Plus, Index
      <4> QED BY <1>6, <3>1, <4>1 DEF Writing
    <3>2. CASE k = 2 * idx
      BY <1>2, <1>3, <1>5, <3>2 DEF a, TypeOK
    <3>3. CASE k = 2 * idx + 1
      <4>1. Plus(ucmdq_pi, k, QSize) = sync
        BY <1>1, <1>5, <3>3 DEF TypeOK, Plus, Index
      <4> QED BY <1>2, <1>3, <1>5, <3>3, <4>1 DEF b, TypeOK
    <3> QED BY <1>5, <2>2, <3>1, <3>2, <3>3
  <2> QED BY <2>1, <2>2 DEF Writing
<1> QED BY <1>4, <1>7, <1>8, <1>9

LEMMA PublishStep == ASSUME QInv, Publish PROVE QInv'
<1> USE RingAssumption, CmdAssumption, TimesAssumption DEF QInv, Publish, ring, locals
<1>1. TypeOK'
  BY DEF TypeOK
<1>2. /\ Dist(ucmdq_ci, ucmdq_pi, QSize) + 2 * PlbiNum <= QSize
      /\ pi_wr = Plus(ucmdq_pi, 2 * PlbiNum, QSize)
      /\ pi_sync = Plus(pi_wr, 2 * QSize - 1, QSize)
      /\ \A k \in 0 .. 2 * PlbiNum - 1 :
            cmd_entry[Q_IDX(Plus(ucmdq_pi, k, QSize), QSize)]
                = IF k % 2 = 0 THEN cmd ELSE PSYNC
  BY DEF Writing, TypeOK
<1>3. /\ Dist(ucmdq_ci, ucmdq_pi', QSize) = Dist(ucmdq_ci, ucmdq_pi, QSize) + 2 * PlbiNum
      /\ Dist(rd, ucmdq_pi', QSize) = Dist(rd, ucmdq_pi, QSize) + 2 * PlbiNum
      /\ ucmdq_pi' % 2 = 0
  BY <1>2 DEF CmdWindow, TypeOK, Dist, Plus, Index
<1>4. (Writing /\ CplContents /\ Scanning /\ DoneMeansExecuted)'
  BY DEF Writing, CplContents, PairStart, Scanning, DoneMeansExecuted
<1>5. CmdWindow'
  BY <1>2, <1>3, Distances DEF CmdWindow
<1>7. SyncsQueued' = SyncsQueued + 2 * PlbiNum /\ SyncsQueued \in Nat
  BY <1>3, Distances, SyncsBound DEF SyncsQueued
<1>8. CplBudget' /\ Polling'
  BY <1>2, <1>7, Distances DEF CplBudget, Polling
<1>6. CmdKinds'
  <2> SUFFICES ASSUME NEW i \in Index(QSize),
                      Dist(rd, i, QSize) < Dist(rd, ucmdq_pi', QSize)
               PROVE  cmd_entry[Q_IDX(i, QSize)] = PSYNC <=> i % 2 = 1
    BY DEF CmdKinds
  <2>1. CASE Dist(rd, i, QSize) < Dist(rd, ucmdq_pi, QSize)
    BY <2>1 DEF CmdKinds
  <2>2. CASE ~(Dist(rd, i, QSize) < Dist(rd, ucmdq_pi, QSize))
    <3> DEFINE k == Dist(rd, i, QSize) - Dist(rd, ucmdq_pi, QSize)
    <3>1. k \in 0 .. 2 * PlbiNum - 1
      BY <1>3, <2>2 DEF TypeOK, Dist, Index
    <3>2. i = Plus(ucmdq_pi, k, QSize)
      BY <1>2, <1>3, <2>2, <3>1 DEF CmdWindow, TypeOK, Dist, Plus, Index
    <3> HIDE DEF k
    <3>4. i % 2 = k % 2
      <4>1. ucmdq_pi \in Nat /\ ucmdq_pi % 2 = 0 /\ k \in 0 .. 2 * QSize
        BY <3>1 DEF CmdWindow, TypeOK, Index
      <4>2. i % 2 = (ucmdq_pi + k) % 2
        BY <3>2, <4>1, Parity, Distances DEF TypeOK
      <4> QED BY <4>1, <4>2
    <3>3. k % 2 \in {0, 1}
      BY <3>1
    <3> QED BY <1>2, <3>1, <3>2, <3>3, <3>4 DEF TypeOK
  <2> QED BY <2>1, <2>2
<1> QED BY <1>1, <1>4, <1>5, <1>6, <1>8

LEMMA PollStep == ASSUME QInv, PollEmpty \/ PollRead PROVE QInv'
<1> USE RingAssumption, CmdAssumption, TimesAssumption
    DEF QInv, PollEmpty, PollRead, PollFailed, ring, locals
<1>1. TypeOK'
  BY DEF TypeOK, Polling
<1>2. (CmdWindow /\ CmdKinds /\ CplContents /\ Writing /\ DoneMeansExecuted)'
  BY DEF CmdWindow, CmdKinds, CplContents, PairStart, Writing, DoneMeansExecuted
<1>3. SyncsQueued <= QSize /\ SyncsQueued' = SyncsQueued /\ SyncsQueued \in Nat
  BY SyncsBound DEF SyncsQueued
<1>4. CASE PollEmpty
  <2>1. Dist(ucplq_ci, ucplq_pi, CplSize) = 0
    BY <1>4, Distances DEF Dist, TypeOK, Index
  <2> QED BY <1>3, <1>4, <2>1, <1>1, <1>2 DEF CplBudget, Polling, Scanning, TypeOK
<1>5. CASE PollRead
  <2>1. /\ Dist(ucplq_ci, ucplq_pi, CplSize) > 0
        /\ Dist(ucplq_pi, ucplq_pi, CplSize) = 0
    BY <1>5, RingAssumption DEF Dist, TypeOK, Index
  <2> QED BY <1>3, <1>5, <2>1, <1>1, <1>2, Distances DEF CplBudget, Polling, Scanning
<1> QED BY <1>4, <1>5

-----------------------------------------------------------------------------
(* The own completion.  s is the index of the call's last PSYNC, p the     *)
(* producer's index after it, r the device's, and e a completion that is   *)
(* the d-th last one.                                                      *)

LEMMA OwnIsLast ==
    ASSUME NEW n \in Nat \ {0}, NEW p \in Index(n), NEW r \in Index(n),
           NEW e \in Index(n), NEW d \in Nat \ {0}, p % 2 = 0,
           Dist(e, r - (r % 2), n) = 2 * d - 1,
           2 * d + Dist(r, p, n) + (r % 2) <= 2 * n,
           e = Plus(p, 2 * n - 1, n)
    PROVE  r = p /\ d = 1
BY DEF Dist, Plus, Index

LEMMA LastIsOwn ==
    ASSUME NEW n \in Nat \ {0}, NEW p \in Index(n), NEW r \in Index(n),
           NEW e \in Index(n), p % 2 = 0,
           Dist(e, r - (r % 2), n) = 1, Dist(r, p, n) + (r % 2) < 2
    PROVE  e = Plus(p, 2 * n - 1, n)
BY DEF Dist, Plus, Index

LEMMA ScanStep == ASSUME QInv, Scan PROVE QInv'
<1> USE RingAssumption, CmdAssumption, TimesAssumption
<1> DEFINE e == cpl_entry[Q_IDX(ci, CplSize)]
           next == ummu_update_queue_index(ci, CplSize)
           d == Dist(ci, ucplq_pi, CplSize)
<1>1. /\ TypeOK /\ CmdWindow /\ CmdKinds /\ Writing /\ CplContents
      /\ CplBudget /\ Polling /\ Scanning /\ DoneMeansExecuted
  BY DEF QInv
<1>2. /\ pc = "scan" /\ ci' = next
      /\ ucplq_ci' = IF e = pi_sync \/ next = pi THEN next ELSE ucplq_ci
      /\ UNCHANGED <<cmd_entry, ucmdq_pi, ucmdq_ci, cpl_entry, ucplq_pi, rd,
                     closing, cmd, pi_wr, idx, pi_sync, pi>>
      /\ \/ e = pi_sync /\ pc' = "idle" /\ reply' = "done" /\ UNCHANGED times
         \/ /\ e # pi_sync /\ next = pi /\ times' = times - 1
            /\ \/ pc' = "idle" /\ reply' = "late"
               \/ times # 1 /\ pc' = "poll" /\ UNCHANGED reply
         \/ e # pi_sync /\ next # pi /\ UNCHANGED <<pc, reply, times>>
  BY DEF Scan, PollFailed, Matches
<1>3. /\ e \in Index(QSize) /\ d \in Nat \ {0}
      /\ d <= Dist(ucplq_ci, ucplq_pi, CplSize)
      /\ Dist(e, PairStart, QSize) = 2 * d - 1
  <2>1. /\ d \in Nat \ {0} /\ d <= Dist(ucplq_ci, ucplq_pi, CplSize)
        /\ ci \in Index(CplSize)
    BY <1>1, <1>2, Distances DEF Scanning, TypeOK
  <2>2. Q_IDX(ci, CplSize) \in 0 .. CplSize - 1
    BY <2>1, IndexFacts, Distances, <1>1
  <2> QED BY <1>1, <2>1, <2>2 DEF CplContents, TypeOK
<1>4. /\ next \in Index(CplSize)
      /\ Dist(next, ucplq_pi, CplSize) = d - 1
      /\ Dist(next, pi, CplSize) = Dist(ci, pi, CplSize) - 1
  <2>1. ci \in Index(CplSize) /\ CplSize \in Nat \ {0} /\ ci # pi
    BY <1>1, <1>2, Distances DEF Scanning, TypeOK, Dist, Index
  <2>2. next = Plus(ci, 1, CplSize) /\ next \in Index(CplSize)
    BY <2>1, NextIndex
  <2> QED BY <1>1, <1>3, <2>1, <2>2 DEF TypeOK, Dist, Plus, Index
<1>5. SyncsQueued' = SyncsQueued /\ SyncsQueued \in Nat /\ PairStart' = PairStart
  BY <1>1, <1>2, SyncsBound DEF SyncsQueued, PairStart
<1>6. 2 * d + SyncsQueued <= 2 * QSize
  BY <1>1, <1>2, <1>3, <1>5, Distances DEF CplBudget
<1> HIDE DEF e, next, d
<1>7. e = pi_sync => rd = ucmdq_pi /\ d = 1
  <2> SUFFICES ASSUME e = pi_sync PROVE rd = ucmdq_pi /\ d = 1
    OBVIOUS
  <2>1. /\ rd \in Index(QSize) /\ ucmdq_pi \in Index(QSize) /\ QSize \in Nat \ {0}
        /\ ucmdq_pi % 2 = 0 /\ e = Plus(ucmdq_pi, 2 * QSize - 1, QSize)
    BY <1>1, <1>2, Distances DEF CmdWindow, Polling, TypeOK
  <2>2. /\ Dist(e, rd - (rd % 2), QSize) = 2 * d - 1
        /\ 2 * d + Dist(rd, ucmdq_pi, QSize) + (rd % 2) <= 2 * QSize
    BY <1>1, <1>3, <1>6, Distances DEF PairStart, SyncsQueued
  <2> QED BY <1>3, <2>1, <2>2, OwnIsLast
<1>8. e # pi_sync => 2 * (d - 1) + SyncsQueued >= 2
  <2>1. d = 1 /\ SyncsQueued < 2 => e = pi_sync
    <3> SUFFICES ASSUME d = 1, SyncsQueued < 2 PROVE e = pi_sync
      OBVIOUS
    <3>1. /\ rd \in Index(QSize) /\ ucmdq_pi \in Index(QSize) /\ QSize \in Nat \ {0}
          /\ ucmdq_pi % 2 = 0 /\ pi_sync = Plus(ucmdq_pi, 2 * QSize - 1, QSize)
      BY <1>1, <1>2, Distances DEF CmdWindow, Polling, TypeOK
    <3>2. /\ Dist(e, rd - (rd % 2), QSize) = 1
          /\ Dist(rd, ucmdq_pi, QSize) + (rd % 2) < 2
      BY <1>3 DEF PairStart, SyncsQueued
    <3> QED BY <1>3, <3>1, <3>2, LastIsOwn
  <2> QED BY <1>3, <1>5, <2>1
<1>9. (CmdWindow /\ CmdKinds)'
  BY <1>1, <1>2 DEF CmdWindow, CmdKinds
<1>10. Writing'
  BY <1>2 DEF Writing
<1>11. TypeOK'
  <2>1. ucplq_ci' \in Index(CplSize) /\ ci' \in Index(CplSize)
    BY <1>1, <1>2, <1>4 DEF TypeOK
  <2>2. times' \in Nat
    BY <1>1, <1>2 DEF TypeOK, Polling
  <2> QED BY <1>1, <1>2, <2>1, <2>2 DEF TypeOK
<1>12. CASE e = pi_sync
  <2>1. Dist(ucplq_ci', ucplq_pi, CplSize) = 0 /\ SyncsQueued = 0
    <3>1. Dist(rd, rd, QSize) = 0 /\ rd % 2 = 0
      BY <1>1, <1>7, <1>12 DEF Dist, TypeOK, Index, CmdWindow
    <3> QED BY <1>2, <1>4, <1>7, <1>12, <3>1 DEF SyncsQueued
  <2>2. CplBudget' /\ CplContents'
    <3>1. CplContents'
      <4>1. \A p \in Index(CplSize) : Dist(p, ucplq_pi, CplSize) \in Int
        BY <1>1, Distances, IndexFacts DEF TypeOK
      <4> QED BY <1>2, <2>1, <4>1 DEF CplContents
    <3> QED BY <1>2, <1>5, <2>1, <3>1, <1>12 DEF CplBudget
  <2>3. (Polling /\ Scanning /\ DoneMeansExecuted)'
    BY <1>2, <1>7, <1>12 DEF Polling, Scanning, DoneMeansExecuted
  <2> QED BY <1>9, <1>10, <1>11, <2>2, <2>3 DEF QInv
<1>13. CASE e # pi_sync /\ next = pi
  <2>1. Dist(ucplq_ci', ucplq_pi, CplSize) = d - 1 /\ d - 1 = Dist(pi, ucplq_pi, CplSize)
    BY <1>2, <1>4, <1>13
  <2>2. CplContents'
    <3>1. \A p \in Index(CplSize) : Dist(p, ucplq_pi, CplSize) \in Int
      BY <1>1, Distances, IndexFacts DEF TypeOK
    <3>2. Dist(ucplq_ci', ucplq_pi, CplSize) <= Dist(ucplq_ci, ucplq_pi, CplSize)
      BY <1>1, <1>3, <2>1, Distances
    <3> QED BY <1>1, <1>2, <1>3, <1>5, <2>1, <3>1, <3>2, Distances DEF CplContents
  <2>3. (CplBudget /\ Polling /\ Scanning)'
    BY <1>1, <1>2, <1>3, <1>5, <1>8, <1>13, <2>1 DEF CplBudget, Polling, Scanning, TypeOK
  <2>4. DoneMeansExecuted'
    BY <1>1, <1>2, <1>13 DEF DoneMeansExecuted
  <2> QED BY <1>9, <1>10, <1>11, <2>2, <2>3, <2>4 DEF QInv
<1>14. CASE e # pi_sync /\ next # pi
  <2>1. /\ pc' = "scan" /\ ucplq_ci' = ucplq_ci /\ ci' = next
        /\ UNCHANGED <<ucplq_pi, ucmdq_pi, cpl_entry, rd, pi, times, pi_sync, reply>>
    BY <1>2, <1>14
  <2>2. Dist(next, pi, CplSize) > 0
    BY <1>1, <1>4, <1>14 DEF Dist, TypeOK, Index
  <2>3. (CplContents /\ CplBudget /\ DoneMeansExecuted)'
    BY <1>1, <1>2, <1>5, <2>1 DEF CplContents, CplBudget, DoneMeansExecuted
  <2>4. Polling' /\ Scanning'
    BY <1>1, <1>2, <1>3, <1>4, <1>5, <1>8, <1>14, <2>1, <2>2, Distances DEF Polling, Scanning, d
  <2> QED BY <1>9, <1>10, <1>11, <2>3, <2>4 DEF QInv
<1> QED BY <1>12, <1>13, <1>14

-----------------------------------------------------------------------------
(* The device, and the life of the rings.                                  *)

LEMMA ExecuteFacts ==
    ASSUME QInv, DeviceExecute
    PROVE  /\ rd' = Plus(rd, 1, QSize) /\ rd' \in Index(QSize)
           /\ Dist(rd, ucmdq_pi, QSize) > 0
           /\ Dist(rd', ucmdq_pi, QSize) = Dist(rd, ucmdq_pi, QSize) - 1
           /\ cmd_entry[Q_IDX(rd, QSize)] = PSYNC <=> rd % 2 = 1
           /\ rd' % 2 = 1 - (rd % 2)
<1> USE RingAssumption
<1>1. TypeOK /\ CmdKinds /\ CmdWindow
  BY DEF QInv
<1>2. rd # ucmdq_pi /\ rd' = ummu_update_queue_index(rd, QSize)
  BY DEF DeviceExecute
<1>3. /\ rd \in Index(QSize) /\ ucmdq_pi \in Index(QSize) /\ QSize \in Nat \ {0}
  BY <1>1, Distances DEF TypeOK
<1>4. rd' = Plus(rd, 1, QSize) /\ rd' \in Index(QSize)
  BY <1>2, <1>3, NextIndex
<1>5. /\ Dist(rd, ucmdq_pi, QSize) > 0 /\ Dist(rd, rd, QSize) = 0
      /\ Dist(rd', ucmdq_pi, QSize) = Dist(rd, ucmdq_pi, QSize) - 1
      /\ rd' % 2 = 1 - (rd % 2)
  BY <1>2, <1>3, <1>4 DEF Dist, Plus, Index
<1> QED BY <1>1, <1>3, <1>4, <1>5 DEF CmdKinds

\* What executing a command leaves alone, whichever command it is.
LEMMA ExecuteFrame ==
    ASSUME QInv, DeviceExecute
    PROVE  (CmdWindow /\ CmdKinds /\ Writing /\ DoneMeansExecuted)'
<1> USE RingAssumption
<1>1. TypeOK /\ CmdKinds /\ CmdWindow /\ Writing /\ DoneMeansExecuted
  BY DEF QInv
<1>2. UNCHANGED <<cmd_entry, ucmdq_pi, ucmdq_ci, pc, closing, locals, reply>> /\ rd # ucmdq_pi
  BY DEF DeviceExecute
<1>3. CmdWindow'
  BY <1>1, <1>2, ExecuteFacts, Distances DEF CmdWindow
<1>4. CmdKinds'
  <2> SUFFICES ASSUME NEW i \in Index(QSize), Dist(rd', i, QSize) < Dist(rd', ucmdq_pi, QSize)
               PROVE  Dist(rd, i, QSize) < Dist(rd, ucmdq_pi, QSize)
    BY <1>1, <1>2 DEF CmdKinds
  <2>1. rd \in Index(QSize) /\ ucmdq_pi \in Index(QSize) /\ QSize \in Nat \ {0}
    BY <1>1, Distances DEF TypeOK
  <2> QED BY <1>2, <2>1, ExecuteFacts DEF Dist, Plus, Index
<1>5. Writing' /\ DoneMeansExecuted'
  BY <1>1, <1>2 DEF Writing, DoneMeansExecuted, locals
<1> QED BY <1>3, <1>4, <1>5

LEMMA ExecutePlbi ==
    ASSUME QInv, DeviceExecute, cmd_entry[Q_IDX(rd, QSize)] # PSYNC PROVE QInv'
<1> USE RingAssumption
<1>1. /\ TypeOK /\ CmdWindow /\ CplContents /\ CplBudget /\ Polling /\ Scanning
      /\ UNCHANGED <<ring, pc, closing, locals, reply>>
  BY DEF QInv, DeviceExecute, ring
<1>2. rd \in Index(QSize) /\ rd % 2 = 0
  BY <1>1, ExecuteFacts, Distances DEF TypeOK
<1>3. PairStart' = PairStart
  BY <1>2, ExecuteFacts DEF PairStart, Plus, Index
<1>4. SyncsQueued' = SyncsQueued
  BY <1>1, <1>2, ExecuteFacts, Distances DEF SyncsQueued, ring
<1>5. TypeOK'
  BY <1>1, ExecuteFacts DEF TypeOK, ring, locals
<1>6. (CplContents /\ CplBudget /\ Polling /\ Scanning)'
  BY <1>1, <1>3, <1>4 DEF CplContents, CplBudget, Polling, Scanning, ring, locals
<1> QED BY <1>5, <1>6, ExecuteFrame DEF QInv

LEMMA ExecutePsync ==
    ASSUME QInv, DeviceExecute, cmd_entry[Q_IDX(rd, QSize)] = PSYNC PROVE QInv'
<1> USE RingAssumption
<1> DEFINE u == Dist(ucplq_ci, ucplq_pi, CplSize)
           a == Q_IDX(ucplq_pi, CplSize)
<1>1. /\ TypeOK /\ CmdWindow /\ CplContents /\ CplBudget /\ Polling /\ Scanning
      /\ UNCHANGED <<cmd_entry, ucmdq_pi, ucmdq_ci, ucplq_ci, pc, closing, locals, reply>>
      /\ cpl_entry' = [cpl_entry EXCEPT ![a] = rd]
      /\ ucplq_pi' = ummu_update_queue_index(ucplq_pi, CplSize)
  BY DEF QInv, DeviceExecute
<1>2. /\ rd \in Index(QSize) /\ ucplq_pi \in Index(CplSize) /\ ucplq_ci \in Index(CplSize)
      /\ ci \in Index(CplSize) /\ pi \in Index(CplSize)
      /\ QSize \in Nat \ {0} /\ CplSize \in Nat \ {0} /\ rd % 2 = 1
  BY <1>1, ExecuteFacts, Distances DEF TypeOK
<1>3. /\ ucplq_pi' = Plus(ucplq_pi, 1, CplSize) /\ ucplq_pi' \in Index(CplSize)
      /\ a \in 0 .. CplSize - 1
  BY <1>1, <1>2, NextIndex, IndexFacts
<1>4. /\ SyncsQueued \in Nat /\ SyncsQueued >= 2 /\ SyncsQueued' = SyncsQueued - 2
  <2>1. SyncsQueued >= 2
    BY <1>1, <1>2, ExecuteFacts, Distances DEF SyncsQueued
  <2> QED BY <1>1, <1>2, <2>1, ExecuteFacts, Distances DEF SyncsQueued
<1>5. u + 1 <= CplSize /\ u + 1 <= QSize /\ u \in Nat
  BY <1>1, <1>4, Distances DEF CplBudget
<1>6. /\ Dist(ucplq_ci, ucplq_pi', CplSize) = u + 1
      /\ \A p \in Index(CplSize) :
            Dist(p, ucplq_pi, CplSize) < 2 * CplSize - 1 =>
                Dist(p, ucplq_pi', CplSize) = Dist(p, ucplq_pi, CplSize) + 1
  <2>1. \A p \in Index(CplSize) :
            Dist(p, ucplq_pi, CplSize) < 2 * CplSize - 1 =>
                Dist(p, ucplq_pi', CplSize) = Dist(p, ucplq_pi, CplSize) + 1
    BY <1>2, <1>3, DistPlus DEF Dist, Plus, Index
  <2> QED BY <1>2, <1>5, <2>1
<1> HIDE DEF u, a
<1>7. TypeOK'
  <2>1. cpl_entry' \in [0 .. CplSize - 1 -> Index(QSize)]
    BY <1>1, <1>2, <1>3 DEF TypeOK
  <2> QED BY <1>1, <1>3, <2>1, ExecuteFacts DEF TypeOK, locals
<1>8. CplContents'
  <2> SUFFICES ASSUME NEW p \in Index(CplSize),
                      0 < Dist(p, ucplq_pi', CplSize),
                      Dist(p, ucplq_pi', CplSize) <= u + 1
               PROVE  Dist(cpl_entry'[Q_IDX(p, CplSize)], PairStart', QSize)
                          = 2 * Dist(p, ucplq_pi', CplSize) - 1
    BY <1>1, <1>6 DEF CplContents
  <2>1. PairStart' = Plus(rd, 1, QSize) /\ PairStart = rd - 1
    BY <1>2, ExecuteFacts DEF PairStart, Plus, Index
  <2>2. CASE p = ucplq_pi
    <3>1. cpl_entry'[Q_IDX(p, CplSize)] = rd
      BY <1>1, <1>3, <2>2 DEF TypeOK, a
    <3>2. Dist(p, ucplq_pi', CplSize) = 1
      BY <1>2, <1>3, <2>2 DEF Dist, Plus, Index
    <3> QED BY <1>2, <2>1, <3>1, <3>2 DEF Dist, Plus, Index
  <2>3. CASE p # ucplq_pi
    <3>1. /\ Dist(p, ucplq_pi, CplSize) = Dist(p, ucplq_pi', CplSize) - 1
          /\ 0 < Dist(p, ucplq_pi, CplSize) /\ Dist(p, ucplq_pi, CplSize) <= u
      BY <1>2, <1>3, <1>5, <2>3 DEF Dist, Plus, Index
    <3>2. Q_IDX(p, CplSize) # a /\ Q_IDX(p, CplSize) \in 0 .. CplSize - 1
      BY <1>2, <1>5, <2>3, <3>1, SameSlot, IndexFacts DEF a
    <3>3. cpl_entry'[Q_IDX(p, CplSize)] = cpl_entry[Q_IDX(p, CplSize)]
      BY <1>1, <1>3, <3>2 DEF TypeOK
    <3> DEFINE v == cpl_entry[Q_IDX(p, CplSize)]
               k == Dist(p, ucplq_pi, CplSize)
    <3>4. Dist(v, rd - 1, QSize) = 2 * k - 1 /\ v \in Index(QSize)
      BY <1>1, <2>1, <3>1, <3>2 DEF CplContents, TypeOK, u
    <3>5. k \in Nat /\ k + 1 <= QSize
      BY <1>2, <1>5, <3>1 DEF Dist, Index
    <3> HIDE DEF v, k
    <3>6. Dist(v, Plus(rd, 1, QSize), QSize) = 2 * k + 1
      BY <1>2, <3>4, <3>5 DEF Dist, Plus, Index
    <3>7. Dist(p, ucplq_pi', CplSize) = k + 1
      BY <1>2, <1>3, <3>1 DEF Dist, Index, k
    <3> QED BY <2>1, <3>3, <3>5, <3>6, <3>7 DEF v
  <2> QED BY <2>2, <2>3
<1>9. CplBudget'
  BY <1>1, <1>4, <1>5, <1>6 DEF CplBudget, u
<1>10. Polling' /\ Scanning'
  <2>1. CASE pc = "poll"
    BY <1>1, <1>4, <1>5, <1>6, <2>1 DEF Polling, Scanning, u, locals
  <2>2. CASE pc = "scan"
    <3>1. /\ Dist(ci, ucplq_pi, CplSize) <= u
          /\ Dist(ci, pi, CplSize) <= Dist(ci, ucplq_pi, CplSize)
      BY <1>1, <2>2 DEF Scanning, u
    <3>2. Dist(pi, ucplq_pi, CplSize) <= u
      BY <1>2, <1>5, <3>1 DEF Dist, Index
    <3>3. /\ Dist(ci, ucplq_pi', CplSize) = Dist(ci, ucplq_pi, CplSize) + 1
          /\ Dist(pi, ucplq_pi', CplSize) = Dist(pi, ucplq_pi, CplSize) + 1
      BY <1>1, <1>2, <1>5, <1>6, <3>1, <3>2, Distances
    <3> QED BY <1>1, <1>4, <1>5, <1>6, <2>2, <3>3, Distances DEF Polling, Scanning, u, locals
  <2>3. CASE pc \notin {"poll", "scan"}
    BY <1>1, <2>3 DEF Polling, Scanning
  <2> QED BY <2>1, <2>2, <2>3
<1> QED BY <1>7, <1>8, <1>9, <1>10, ExecuteFrame DEF QInv

LEMMA UpdateCiStep == ASSUME QInv, DeviceUpdateCi PROVE QInv'
<1> USE RingAssumption DEF QInv, DeviceUpdateCi, locals
<1>1. TypeOK'
  BY DEF TypeOK
<1>2. CmdWindow' /\ Writing'
  BY Distances DEF CmdWindow, Writing
<1>3. (CmdKinds /\ CplContents /\ CplBudget /\ Polling /\ Scanning /\ DoneMeansExecuted)'
  BY DEF CmdKinds, CplContents, PairStart, CplBudget, SyncsQueued, Polling, Scanning,
         DoneMeansExecuted
<1> QED BY <1>1, <1>2, <1>3

LEMMA UnmapStep == ASSUME QInv, Unmap PROVE QInv'
<1> USE RingAssumption DEF QInv, Unmap, ring, locals
<1>1. TypeOK'
  BY DEF TypeOK
<1>2. (CmdWindow /\ CmdKinds /\ CplContents)'
  BY DEF CmdWindow, CmdKinds, CplContents, PairStart
<1>3. (Writing /\ CplBudget /\ Polling /\ Scanning /\ DoneMeansExecuted)'
  BY DEF Writing, CplBudget, SyncsQueued, Polling, Scanning, DoneMeansExecuted
<1> QED BY <1>1, <1>2, <1>3

LEMMA CreateStep == ASSUME QInv, ummu_queue_create PROVE QInv'
<1> USE RingAssumption
<1>1. TypeOK'
  <2>1. /\ cmd_entry' \in [0 .. QSize - 1 -> Entries]
        /\ cpl_entry' \in [0 .. CplSize - 1 -> Index(QSize)]
    BY DEF ummu_queue_create, FreshCmds, FreshCpls, Entries, Index
  <2>2. 0 \in Index(QSize) /\ 0 \in Index(CplSize)
    BY DEF Index
  <2> QED BY <2>1, <2>2 DEF ummu_queue_create, QInv, TypeOK, locals
<1>2. (CmdWindow /\ CplBudget /\ CmdKinds /\ CplContents)'
  BY DEF ummu_queue_create, CmdWindow, CplBudget, SyncsQueued, CmdKinds, CplContents, Dist, Index
<1>3. (Writing /\ Polling /\ Scanning /\ DoneMeansExecuted)'
  BY DEF ummu_queue_create, Writing, Polling, Scanning, DoneMeansExecuted
<1> QED BY <1>1, <1>2, <1>3 DEF QInv

LEMMA StutterStep == ASSUME QInv, UNCHANGED vars PROVE QInv'
BY DEF QInv, vars, ring, locals, TypeOK, CmdWindow, CmdKinds, Writing, CplContents, PairStart,
       CplBudget, SyncsQueued, Polling, Scanning, DoneMeansExecuted

LEMMA QInvNext == ASSUME QInv, [Next]_vars PROVE QInv'
<1>1. CASE ummu_send_cmd \/ ummu_queue_destroy
  BY <1>1, CallStep, CmdAssumption DEF ummu_send_cmd, ummu_queue_destroy
<1>2. CASE Caller
  BY <1>2, ReserveStep, WaitStep, WriteStep, PublishStep, PollStep, ScanStep, UnmapStep DEF Caller
<1>3. CASE Device
  BY <1>3, ExecutePlbi, ExecutePsync, UpdateCiStep DEF Device
<1>4. CASE ummu_queue_create
  BY <1>4, CreateStep
<1>5. CASE UNCHANGED vars
  BY <1>5, StutterStep
<1> QED BY <1>1, <1>2, <1>3, <1>4, <1>5 DEF Next

LEMMA QueueInvariant == Spec => []QInv
BY QInvInit, QInvNext, PTL DEF Spec

-----------------------------------------------------------------------------
(* The properties.                                                         *)

\* Control words, indexes and locals stay in their ranges, for rings of every
\* even size and with single or doubled invalidations.
THEOREM QueueTypeCorrect == Spec => []TypeOK
BY QueueInvariant, PTL DEF QInv

\* A completion ring that holds half a command ring and one call's PSYNCs
\* never overflows, although calls stop polling and leave completions unread.
THEOREM CompletionsNeverLost == Spec => []CompletionsFit
<1>1. QInv => CompletionsFit
  <2> SUFFICES ASSUME QInv PROVE CompletionsFit
    OBVIOUS
  <2>1. TypeOK /\ CmdWindow /\ CplBudget
    BY DEF QInv
  <2> QED BY <2>1, Distances, SyncsBound, RingAssumption DEF CplBudget, CompletionsFit
<1> QED BY <1>1, QueueInvariant, PTL

\* The completion ummu_send_cmd accepts is its own: then the device has
\* executed every command of the queue.
THEOREM NoForeignCompletion == Spec => []DoneMeansExecuted
BY QueueInvariant, PTL DEF QInv

\* Consuming old completions never skips the call's own one.
THEOREM OwnCompletionNotSkipped == Spec => []OwnCompletionWaits
<1>1. QInv => OwnCompletionWaits
  <2> SUFFICES ASSUME QInv, pc \in {"poll", "scan"}, rd = ucmdq_pi
               PROVE  /\ Dist(IF pc = "scan" THEN ci ELSE ucplq_ci, ucplq_pi, CplSize) > 0
                      /\ cpl_entry[Q_IDX(Plus(ucplq_pi, 2 * CplSize - 1, CplSize), CplSize)]
                             = pi_sync
    BY DEF OwnCompletionWaits
  <2> DEFINE p == Plus(ucplq_pi, 2 * CplSize - 1, CplSize)
             c == IF pc = "scan" THEN ci ELSE ucplq_ci
             e == cpl_entry[Q_IDX(p, CplSize)]
  <2>1. TypeOK /\ CmdWindow /\ CplContents /\ Polling /\ Scanning
    BY DEF QInv
  <2>2. /\ rd \in Index(QSize) /\ ucmdq_pi \in Index(QSize) /\ c \in Index(CplSize)
        /\ ucplq_pi \in Index(CplSize) /\ QSize \in Nat \ {0} /\ CplSize \in Nat \ {0}
        /\ rd % 2 = 0
    BY <2>1, Distances DEF TypeOK, CmdWindow
  <2>3. Dist(rd, ucmdq_pi, QSize) = 0 /\ SyncsQueued = 0
    BY <2>2 DEF Dist, SyncsQueued, Index
  <2>4. Dist(c, ucplq_pi, CplSize) > 0
    BY <2>1, <2>2, <2>3 DEF Polling, Dist, Index
  <2>5. Dist(c, ucplq_pi, CplSize) <= Dist(ucplq_ci, ucplq_pi, CplSize)
    BY <2>1, Distances DEF Scanning
  <2>6. p \in Index(CplSize) /\ Dist(p, ucplq_pi, CplSize) = 1
    BY <2>2 DEF Dist, Plus, Index
  <2>7. Q_IDX(p, CplSize) \in 0 .. CplSize - 1
    BY <2>2, <2>6, IndexFacts
  <2> HIDE DEF c, p
  <2>8. Dist(ucplq_ci, ucplq_pi, CplSize) >= 1
    BY <2>1, <2>2, <2>4, <2>5, Distances, IndexFacts
  <2>9. Dist(e, PairStart, QSize) = 1 /\ e \in Index(QSize)
    BY <2>1, <2>6, <2>7, <2>8 DEF CplContents, TypeOK
  <2>10. e = Plus(ucmdq_pi, 2 * QSize - 1, QSize)
    <3>1. Dist(e, rd - (rd % 2), QSize) = 1 /\ Dist(rd, ucmdq_pi, QSize) + (rd % 2) < 2
      BY <2>2, <2>3, <2>9 DEF PairStart
    <3> HIDE DEF e
    <3> QED BY <2>2, <2>9, <3>1, LastIsOwn
  <2> QED BY <2>1, <2>4, <2>10 DEF Polling, c, p
<1> QED BY <1>1, QueueInvariant, PTL

\* No step writes over a command that the device has not executed.
THEOREM CommandsKept == Spec => NoCommandOverwritten
<1> DEFINE Kept == pc # "unmapped" =>
                      \A i \in Window(rd, ucmdq_pi, QSize) :
                         cmd_entry'[Q_IDX(i, QSize)] = cmd_entry[Q_IDX(i, QSize)]
<1>1. QInv /\ [Next]_vars => [Kept]_vars
  <2> SUFFICES ASSUME QInv, Next, pc # "unmapped", NEW i \in Window(rd, ucmdq_pi, QSize)
               PROVE  cmd_entry'[Q_IDX(i, QSize)] = cmd_entry[Q_IDX(i, QSize)]
    OBVIOUS
  <2>1. i \in Index(QSize) /\ Dist(rd, i, QSize) < Dist(rd, ucmdq_pi, QSize)
    BY DEF Window
  <2>2. CASE Write
    BY <2>1, <2>2, WriteKeeps
  <2>3. CASE ~Write
    <3>1. UNCHANGED cmd_entry
      BY <2>3 DEF Next, Caller, Device, ummu_send_cmd, ummu_queue_destroy, ummu_queue_create,
              Call, Reserve, WaitSpace, Full, Publish, PollEmpty, PollRead, Scan, Unmap,
              DeviceExecute, DeviceUpdateCi, ring
    <3> QED BY <3>1
  <2> QED BY <2>2, <2>3
<1> QED BY <1>1, QueueInvariant, PTL DEF Spec, NoCommandOverwritten, Kept

-----------------------------------------------------------------------------
(* The rings implement CmdFifo.                                            *)

\* What a step leaves of the queue when it writes no queued command.
LEMMA FifoSame ==
    ASSUME QInv, UNCHANGED <<rd, ucmdq_pi>>, (pc = "unmapped") <=> (pc' = "unmapped"),
           pc # "unmapped" =>
               \A i \in Window(rd, ucmdq_pi, QSize) :
                   cmd_entry'[Q_IDX(i, QSize)] = cmd_entry[Q_IDX(i, QSize)]
    PROVE  UNCHANGED Fifo
<1>1. CASE pc = "unmapped"
  BY <1>1 DEF Fifo
<1>2. CASE pc # "unmapped"
  <2> DEFINE n == Dist(rd, ucmdq_pi, QSize)
  <2>1. rd \in Index(QSize) /\ QSize \in Nat \ {0} /\ n \in 0 .. 2 * QSize - 1
    BY Distances DEF QInv, TypeOK
  <2>2. \A k \in 1 .. n : Plus(rd, k - 1, QSize) \in Window(rd, ucmdq_pi, QSize)
    <3> TAKE k \in 1 .. n
    <3>1. k - 1 \in 0 .. 2 * QSize - 1 /\ k - 1 \in 0 .. 2 * QSize /\ k - 1 < n
      BY <2>1
    <3>2. Plus(rd, k - 1, QSize) \in Index(QSize) /\ Dist(rd, Plus(rd, k - 1, QSize), QSize) = k - 1
      BY <2>1, <3>1, IndexFacts
    <3> QED BY <3>1, <3>2 DEF Window
  <2>3. \A k \in 1 .. n : cmd_entry'[Q_IDX(Plus(rd, k - 1, QSize), QSize)]
                              = cmd_entry[Q_IDX(Plus(rd, k - 1, QSize), QSize)]
    BY <1>2, <2>2
  <2> QED BY <1>2, <2>3 DEF Fifo
<1> QED BY <1>1, <1>2

LEMMA FifoSeq ==
    ASSUME QInv, pc # "unmapped"
    PROVE  /\ Fifo \in Seq(Entries) /\ Len(Fifo) = Dist(rd, ucmdq_pi, QSize)
           /\ \A k \in 1 .. Dist(rd, ucmdq_pi, QSize) :
                 Fifo[k] = cmd_entry[Q_IDX(Plus(rd, k - 1, QSize), QSize)]
<1> DEFINE n == Dist(rd, ucmdq_pi, QSize)
<1>1. /\ rd \in Index(QSize) /\ QSize \in Nat \ {0} /\ n \in 0 .. 2 * QSize - 1
      /\ cmd_entry \in [0 .. QSize - 1 -> Entries]
  BY Distances DEF QInv, TypeOK
<1>2. \A k \in 1 .. n : cmd_entry[Q_IDX(Plus(rd, k - 1, QSize), QSize)] \in Entries
  <2> TAKE k \in 1 .. n
  <2>1. k - 1 \in 0 .. 2 * QSize
    BY <1>1
  <2>2. Plus(rd, k - 1, QSize) \in Index(QSize)
    BY <1>1, <2>1, IndexFacts
  <2>3. Q_IDX(Plus(rd, k - 1, QSize), QSize) \in 0 .. QSize - 1
    BY <1>1, <2>2, IndexFacts
  <2> QED BY <1>1, <2>3
<1>3. Fifo = [k \in 1 .. n |-> cmd_entry[Q_IDX(Plus(rd, k - 1, QSize), QSize)]]
  BY DEF Fifo
<1> HIDE DEF n
<1> QED BY <1>1, <1>2, <1>3 DEF n

LEMMA ConcatIs ==
    ASSUME NEW S, NEW s \in Seq(S), NEW t \in Seq(S), NEW u \in Seq(S),
           Len(u) = Len(s) + Len(t),
           \A k \in 1 .. Len(s) + Len(t) :
               u[k] = IF k <= Len(s) THEN s[k] ELSE t[k - Len(s)]
    PROVE  u = s \o t
<1>1. /\ s \o t \in Seq(S) /\ Len(s \o t) = Len(s) + Len(t)
      /\ \A k \in 1 .. Len(s) + Len(t) :
            (s \o t)[k] = IF k <= Len(s) THEN s[k] ELSE t[k - Len(s)]
  BY ConcatProperties
<1>2. \A k \in 1 .. Len(u) : u[k] = (s \o t)[k]
  BY <1>1
<1> QED BY <1>1, <1>2, SeqEqual

LEMMA TailIs ==
    ASSUME NEW S, NEW s \in Seq(S), NEW u \in Seq(S), s # <<>>,
           Len(u) = Len(s) - 1, \A k \in 1 .. Len(s) - 1 : u[k] = s[k + 1]
    PROVE  u = Tail(s)
<1>1. /\ Tail(s) \in Seq(S) /\ Len(Tail(s)) = Len(s) - 1
      /\ \A k \in 1 .. Len(Tail(s)) : Tail(s)[k] = s[k + 1]
  BY HeadTailProperties
<1>2. \A k \in 1 .. Len(u) : u[k] = Tail(s)[k]
  BY <1>1
<1> QED BY <1>1, <1>2, SeqEqual

LEMMA FifoEmpty == ASSUME QInv, rd = ucmdq_pi PROVE Fifo = <<>>
<1>1. CASE pc = "unmapped"
  BY <1>1 DEF Fifo
<1>2. CASE pc # "unmapped"
  <2>1. Dist(rd, ucmdq_pi, QSize) = 0
    BY Distances DEF QInv, TypeOK, Dist, Index
  <2> QED BY <1>2, <2>1, FifoSeq, EmptySeq
<1> QED BY <1>1, <1>2

LEMMA PublishQueues == ASSUME QInv, Publish PROVE Abstract!Queue(cmd)
<1> DEFINE n == Dist(rd, ucmdq_pi, QSize)
           B == Abstract!Batch(cmd)
<1>1. QInv' /\ pc # "unmapped" /\ pc' # "unmapped"
  BY PublishStep DEF Publish
<1>2. /\ TypeOK /\ CmdWindow /\ UNCHANGED <<rd, cmd_entry, reply>> /\ ucmdq_pi' = pi_wr
      /\ Dist(ucmdq_ci, ucmdq_pi, QSize) + 2 * PlbiNum <= QSize
      /\ pi_wr = Plus(ucmdq_pi, 2 * PlbiNum, QSize)
      /\ \A k \in 0 .. 2 * PlbiNum - 1 :
            cmd_entry[Q_IDX(Plus(ucmdq_pi, k, QSize), QSize)]
                = IF k % 2 = 0 THEN cmd ELSE PSYNC
  BY RingAssumption DEF Publish, QInv, Writing, TypeOK
<1>3. /\ rd \in Index(QSize) /\ ucmdq_pi \in Index(QSize) /\ QSize \in Nat \ {0}
      /\ n \in 0 .. 2 * QSize - 1 /\ PlbiNum \in {1, 2} /\ cmd \in Cmds
      /\ n + 2 * PlbiNum <= QSize
  BY <1>2, Distances, RingAssumption DEF CmdWindow, TypeOK
<1>4. Dist(rd, ucmdq_pi', QSize) = n + 2 * PlbiNum
  BY <1>2, <1>3, DistPlus
<1>5. /\ Fifo \in Seq(Entries) /\ Len(Fifo) = n
      /\ \A k \in 1 .. n : Fifo[k] = cmd_entry[Q_IDX(Plus(rd, k - 1, QSize), QSize)]
  BY <1>1, FifoSeq
<1>6. /\ Fifo' \in Seq(Entries) /\ Len(Fifo') = n + 2 * PlbiNum
      /\ \A k \in 1 .. n + 2 * PlbiNum :
            Fifo'[k] = cmd_entry[Q_IDX(Plus(rd, k - 1, QSize), QSize)]
  <2>1. (QInv /\ pc # "unmapped" =>
             /\ Fifo \in Seq(Entries) /\ Len(Fifo) = Dist(rd, ucmdq_pi, QSize)
             /\ \A k \in 1 .. Dist(rd, ucmdq_pi, QSize) :
                   Fifo[k] = cmd_entry[Q_IDX(Plus(rd, k - 1, QSize), QSize)])'
    BY FifoSeq, PTL
  <2> QED BY <1>1, <1>2, <1>4, <2>1
<1>7. /\ B \in Seq(Entries) /\ Len(B) = 2 * PlbiNum
      /\ \A k \in 1 .. 2 * PlbiNum : B[k] = IF k % 2 = 1 THEN cmd ELSE PSYNC
  <2>1. B = [k \in 1 .. 2 * PlbiNum |-> IF k % 2 = 1 THEN cmd ELSE PSYNC]
    BY DEF Abstract!Batch
  <2> QED BY <1>3, <2>1 DEF Entries
<1>8. \A k \in n + 1 .. n + 2 * PlbiNum :
          Plus(rd, k - 1, QSize) = Plus(ucmdq_pi, k - n - 1, QSize)
  BY <1>3 DEF Plus, Dist, Index
<1> HIDE DEF n, B
<1>9. \A k \in 1 .. n + 2 * PlbiNum : Fifo'[k] = IF k <= n THEN Fifo[k] ELSE B[k - n]
  <2> TAKE k \in 1 .. n + 2 * PlbiNum
  <2>1. CASE k <= n
    BY <1>3, <1>5, <1>6, <2>1
  <2>2. CASE k > n
    <3>1. k - n - 1 \in 0 .. 2 * PlbiNum - 1 /\ k - n \in 1 .. 2 * PlbiNum
      BY <1>3, <2>2
    <3>2. cmd_entry[Q_IDX(Plus(ucmdq_pi, k - n - 1, QSize), QSize)]
              = IF (k - n - 1) % 2 = 0 THEN cmd ELSE PSYNC
      BY <1>2, <3>1
    <3>3. ((k - n - 1) % 2 = 0) <=> ((k - n) % 2 = 1)
      BY <3>1
    <3> QED BY <1>3, <1>6, <1>7, <1>8, <2>2, <3>1, <3>2, <3>3
  <2> QED BY <1>3, <2>1, <2>2
<1>10. Fifo' = Fifo \o B
  BY <1>5, <1>6, <1>7, <1>9, ConcatIs
<1> QED BY <1>2, <1>10 DEF Abstract!Queue, B

LEMMA ExecuteRemoves == ASSUME QInv, DeviceExecute PROVE Abstract!Execute
<1> DEFINE n == Dist(rd, ucmdq_pi, QSize)
<1>1. /\ QInv' /\ pc # "unmapped" /\ pc' # "unmapped"
      /\ UNCHANGED <<cmd_entry, ucmdq_pi, reply>>
  BY ExecutePlbi, ExecutePsync DEF DeviceExecute
<1>2. /\ rd' = Plus(rd, 1, QSize) /\ n > 0 /\ Dist(rd', ucmdq_pi', QSize) = n - 1
      /\ rd \in Index(QSize) /\ QSize \in Nat \ {0} /\ n \in 0 .. 2 * QSize - 1
  BY <1>1, ExecuteFacts, Distances DEF QInv, TypeOK
<1>3. /\ Fifo \in Seq(Entries) /\ Len(Fifo) = n
      /\ \A k \in 1 .. n : Fifo[k] = cmd_entry[Q_IDX(Plus(rd, k - 1, QSize), QSize)]
  BY <1>1, FifoSeq
<1>4. /\ Fifo' \in Seq(Entries) /\ Len(Fifo') = n - 1
      /\ \A k \in 1 .. n - 1 :
            Fifo'[k] = cmd_entry[Q_IDX(Plus(rd', k - 1, QSize), QSize)]
  <2>1. (QInv /\ pc # "unmapped" =>
             /\ Fifo \in Seq(Entries) /\ Len(Fifo) = Dist(rd, ucmdq_pi, QSize)
             /\ \A k \in 1 .. Dist(rd, ucmdq_pi, QSize) :
                   Fifo[k] = cmd_entry[Q_IDX(Plus(rd, k - 1, QSize), QSize)])'
    BY FifoSeq, PTL
  <2> QED BY <1>1, <1>2, <2>1
<1>5. \A k \in 1 .. n - 1 : Plus(rd', k - 1, QSize) = Plus(rd, k, QSize)
  BY <1>2 DEF Plus, Index
<1> HIDE DEF n
<1>6. Fifo # <<>> /\ Fifo' = Tail(Fifo)
  <2>1. Fifo # <<>>
    BY <1>2, <1>3, EmptySeq
  <2>2. \A k \in 1 .. n - 1 : Fifo'[k] = Fifo[k + 1]
    <3> TAKE k \in 1 .. n - 1
    <3>1. k + 1 \in 1 .. n /\ (k + 1) - 1 = k
      BY <1>2 DEF n
    <3> QED BY <1>3, <1>4, <1>5, <3>1
  <2> QED BY <1>3, <1>4, <2>1, <2>2, TailIs
<1> QED BY <1>1, <1>6 DEF Abstract!Execute

\* The rings of every size implement the abstract queue.
THEOREM QueueImplementsFifo == Spec => Refines
<1>1. Init => Abstract!Init
  <2> SUFFICES ASSUME Init PROVE Abstract!Init
    OBVIOUS
  <2>1. Fifo = <<>>
    BY QInvInit, FifoEmpty DEF Init
  <2> QED BY <2>1 DEF Init, Abstract!Init
<1>2. QInv /\ QInv' /\ [Next]_vars => [Abstract!Next]_(Abstract!vars)
  <2> SUFFICES ASSUME QInv, QInv', [Next]_vars
               PROVE  [Abstract!Next]_(Abstract!vars)
    OBVIOUS
  <2> USE DEF Abstract!vars, Abstract!Next
  <2>1. CASE ummu_send_cmd \/ ummu_queue_destroy
    <3>1. UNCHANGED <<rd, ucmdq_pi, cmd_entry>> /\ pc = "idle" /\ pc' = "space" /\ reply' = "none"
      BY <2>1 DEF ummu_send_cmd, ummu_queue_destroy, Call, ring
    <3> QED BY <3>1, FifoSame DEF Abstract!Begin
  <2>2. CASE ummu_queue_create
    <3>1. reply' = "none" /\ pc = "unmapped" /\ rd' = ucmdq_pi'
      BY <2>2 DEF ummu_queue_create
    <3>2. Fifo = <<>>
      BY <3>1 DEF Fifo
    <3>3. (QInv /\ rd = ucmdq_pi => Fifo = <<>>)'
      BY FifoEmpty, PTL
    <3> QED BY <3>1, <3>2, <3>3 DEF Abstract!Begin
  <2>3. CASE Reserve \/ WaitSpace \/ PollRead \/ DeviceUpdateCi \/ UNCHANGED vars
    <3>1. /\ UNCHANGED <<rd, ucmdq_pi, cmd_entry, reply>>
          /\ (pc = "unmapped") <=> (pc' = "unmapped")
      BY <2>3 DEF Reserve, WaitSpace, PollRead, DeviceUpdateCi, ring, vars, locals
    <3> QED BY <3>1, FifoSame
  <2>4. CASE Full
    <3>1. UNCHANGED <<rd, ucmdq_pi, cmd_entry>> /\ pc = "space" /\ pc' = "idle" /\ reply' = "full"
      BY <2>4 DEF Full, ring
    <3> QED BY <3>1, FifoSame DEF Abstract!GiveUp
  <2>5. CASE Write
    <3>1. /\ UNCHANGED <<rd, ucmdq_pi, reply>> /\ pc = "write" /\ pc' # "unmapped"
      BY <2>5 DEF Write
    <3>2. \A i \in Window(rd, ucmdq_pi, QSize) :
             cmd_entry'[Q_IDX(i, QSize)] = cmd_entry[Q_IDX(i, QSize)]
      BY <2>5, WriteKeeps DEF Window
    <3> QED BY <3>1, <3>2, FifoSame
  <2>6. CASE Publish
    <3>1. cmd \in Cmds
      BY DEF QInv, TypeOK
    <3> QED BY <2>6, <3>1, PublishQueues
  <2>7. CASE PollEmpty
    <3>1. /\ UNCHANGED <<rd, ucmdq_pi, cmd_entry>> /\ pc = "poll" /\ pc' # "unmapped"
          /\ reply' = "late" \/ reply' = reply
      BY <2>7 DEF PollEmpty, PollFailed, ring
    <3> QED BY <3>1, FifoSame DEF Abstract!GiveUp
  <2>8. CASE Scan
    <3>1. /\ UNCHANGED <<rd, ucmdq_pi, cmd_entry>> /\ pc = "scan" /\ pc' # "unmapped"
          /\ reply' = "late" \/ reply' = reply \/ (reply' = "done" /\ pc' = "idle")
      BY <2>8 DEF Scan, PollFailed
    <3>2. UNCHANGED Fifo
      BY <3>1, FifoSame
    <3>3. CASE reply' = "done" /\ pc' = "idle"
      <4>1. rd = ucmdq_pi
        BY <3>1, <3>3 DEF QInv, DoneMeansExecuted
      <4> QED BY <3>2, <3>3, <4>1, FifoEmpty DEF Abstract!Acknowledge
    <3> QED BY <3>1, <3>2, <3>3 DEF Abstract!GiveUp
  <2>9. CASE Unmap
    <3>1. pc' = "unmapped" /\ UNCHANGED reply
      BY <2>9 DEF Unmap
    <3> QED BY <3>1 DEF Fifo, Abstract!Discard
  <2>10. CASE DeviceExecute
    BY <2>10, ExecuteRemoves
  <2> QED BY <2>1, <2>2, <2>3, <2>4, <2>5, <2>6, <2>7, <2>8, <2>9, <2>10 DEF Next, Caller, Device
<1> QED BY <1>1, <1>2, QueueInvariant, PTL DEF Spec, Refines, Abstract!Spec
==============================================================================
