------------------------------ MODULE JobLedger ------------------------------
(***************************************************************************)
(* What a batch job promises to the client that consumes its results       *)
(* (docs/API.md, sections 3.2 to 3.5): the results form a log that only    *)
(* grows, with one result for an item, so that a cursor once given stays   *)
(* valid; and a job is completed for good, when every item has a result.   *)
(***************************************************************************)
EXTENDS Naturals, Sequences

CONSTANTS Jobs, Items

VARIABLES
    log,    \* the results of each job, in the order of their cursors
    done    \* the completed jobs

InLog(j) == {log[j][n] : n \in DOMAIN log[j]}

Init ==
    /\ log = [j \in Jobs |-> <<>>]
    /\ done = {}

Deliver(j, i) ==
    /\ i \notin InLog(j)
    /\ log' = [log EXCEPT ![j] = Append(@, i)]

Complete(j) ==
    /\ InLog(j) = Items
    /\ done' = done \union {j}
    /\ UNCHANGED log

Next ==
    \E j \in Jobs \ done :
        Complete(j) \/ \E i \in Items : Deliver(j, i) /\ UNCHANGED done

Spec == Init /\ [][Next]_<<log, done>>

\* The promise about the results alone.
LogSpec == Init /\ [][\E j \in Jobs, i \in Items : Deliver(j, i)]_log
=============================================================================
