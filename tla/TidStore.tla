------------------------------- MODULE TidStore -------------------------------
(***************************************************************************)
(* What the calls of the library promise their callers, without threads,   *)
(* locks and objects: a store of tids, each with the segments granted to   *)
(* it, and calls that take effect at once and one after the other.  A call *)
(* that fails has no effect.                                               *)
(***************************************************************************)
CONSTANTS Tids, Segs

VARIABLES
    tids,       \* the tids that exist
    granted     \* for each tid the segments recorded, none if it does not exist

Nothing == [k \in Tids |-> {}]

Init == tids = {} /\ granted = Nothing

\* A new tid has no segments, whatever an earlier tid of that number had.
allocate(k) == k \notin tids /\ tids' = tids \cup {k} /\ UNCHANGED granted

\* A segment is granted once and ungranted only when it is granted.
grant(k, s) ==
    /\ k \in tids /\ s \notin granted[k]
    /\ granted' = [granted EXCEPT ![k] = @ \cup {s}]
    /\ UNCHANGED tids

ungrant(k, s) ==
    /\ k \in tids /\ s \in granted[k]
    /\ granted' = [granted EXCEPT ![k] = @ \ {s}]
    /\ UNCHANGED tids

free(k) ==
    /\ k \in tids /\ tids' = tids \ {k}
    /\ granted' = [granted EXCEPT ![k] = {}]

\* The process exits, or its child begins, which has no tids.
reset == tids' = {} /\ granted' = Nothing

Next == \/ \E k \in Tids : \/ allocate(k) \/ free(k)
                           \/ \E s \in Segs : grant(k, s) \/ ungrant(k, s)
        \/ reset

Spec == Init /\ [][Next]_<<tids, granted>>
===============================================================================
