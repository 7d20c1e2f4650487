------------------------------- MODULE CmdFifo -------------------------------
(***************************************************************************)
(* What ummu_send_cmd promises of one UMMU's command queue, without the    *)
(* rings: the commands of a call are queued together or not at all, the    *)
(* device executes each queued command once and in order, and a call knows *)
(* its commands executed only when they are.  Commands that were not       *)
(* executed when the queue is unmapped are lost.                           *)
(***************************************************************************)
EXTENDS Naturals, Sequences

CONSTANTS
    Cmds,       \* the invalidations a call may ask for
    PSYNC,      \* CMD_PSYNC
    PlbiNum     \* how often a call repeats its invalidation: 2 if double_plbi

VARIABLES
    fifo,       \* the commands queued and not yet executed
    reply       \* what the current, or else the last, call knows of its commands

vars == <<fifo, reply>>

Reply == {"none",   \* nothing yet
          "done",   \* executed
          "full",   \* not queued, the queue stayed full
          "late"}   \* queued, not known to be executed

\* The commands of a call that invalidates c.
Batch(c) == [k \in 1 .. 2 * PlbiNum |-> IF k % 2 = 1 THEN c ELSE PSYNC]

Init == fifo = <<>> /\ reply = "none"

\* A call starts, or the queue is mapped anew.
Begin == reply' = "none" /\ UNCHANGED fifo

\* The commands of a call become visible to the device, all at once.
Queue(c) == fifo' = fifo \o Batch(c) /\ UNCHANGED reply

\* The device executes the oldest command.
Execute == fifo # <<>> /\ fifo' = Tail(fifo) /\ UNCHANGED reply

\* The call learns that its commands, the last of the queue, are executed.
Acknowledge == fifo = <<>> /\ reply' = "done" /\ UNCHANGED fifo

GiveUp == reply' \in {"full", "late"} /\ UNCHANGED fifo

\* The queue is unmapped.
Discard == fifo' = <<>> /\ UNCHANGED reply

Next == \/ Begin
        \/ \E c \in Cmds : Queue(c)
        \/ Execute
        \/ Acknowledge
        \/ GiveUp
        \/ Discard

Spec == Init /\ [][Next]_vars
==============================================================================
