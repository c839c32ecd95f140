------------------------------ MODULE LeaseTable ------------------------------
(***************************************************************************)
(* What the proxy pool promises to the tasks that borrow from it: at most  *)
(* PoolSize endpoints take leases, an endpoint has at most MaxUsers, and   *)
(* one that was closed takes no lease again before all of its users are    *)
(* gone and it is bought anew.                                             *)
(***************************************************************************)
EXTENDS Naturals, FiniteSets

CONSTANTS Tasks, Endpoints, NoEndpoint, PoolSize, MaxUsers

VARIABLES
    held,    \* the endpoint each task holds
    open     \* the endpoints that take leases

Users(e) == {t \in Tasks : held[t] = e}
InUse == {e \in Endpoints : Users(e) # {}}

Init ==
    /\ held = [t \in Tasks |-> NoEndpoint]
    /\ open = {}

\* Endpoints are closed at any time, in the course of another step too.
Close == open' \subseteq open

Grant(t, e) ==
    /\ held[t] = NoEndpoint
    /\ e \in open' /\ Cardinality(Users(e)) < MaxUsers
    /\ held' = [held EXCEPT ![t] = e]

Return(t) ==
    /\ held[t] # NoEndpoint
    /\ held' = [held EXCEPT ![t] = NoEndpoint]
    /\ Close

\* The endpoints bought are not among those that are open or still in use.
Buy ==
    /\ (open' \ open) \intersect InUse = {}
    /\ Cardinality(open') <= PoolSize

Next ==
    \/ \E t \in Tasks :
         \/ Return(t)
         \/ \E e \in Endpoints : Grant(t, e) /\ (Close \/ Buy)
    \/ (Close \/ Buy) /\ UNCHANGED held

Spec == Init /\ [][Next]_<<held, open>>
=============================================================================
