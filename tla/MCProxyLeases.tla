---------------------------- MODULE MCProxyLeases ----------------------------
(* Instances of ProxyLeases for TLC *)
EXTENDS ProxyLeases, TLC

CONSTANTS t1, t2, t3

SamePlatform == [t \in Tasks |-> "p"]

\* Tasks that compete for leases and a browser.
Browsing ==
    {p @@ t3 :> {"fallback"} :
        p \in {t1 :> {"plain"} @@ t2 :> {"author"}, t1 :> {"author"} @@ t2 :> {"plain"}}}

\* Douyin collections that compete for leases and the visitors' lock.
Visiting == {t1 :> {"douyin"} @@ t2 :> {"douyin"} @@ t3 :> {}}

BothPlans == Browsing \union Visiting

\* Two tasks with the same role meet one kind of failure.
Transported == INSTANCE ProxyLeases WITH Faults <- {"transport"}

PlansNext == IF plan \in Visiting THEN Transported!Next ELSE Next
PlansSpec == Init /\ [][PlansNext]_vars

\* Browsing has the first two tasks in either role.
LeaseSymmetry == Permutations({t1, t2}) \union Permutations(Endpoints)
=============================================================================
