------------------------------ MODULE ProxyPool ------------------------------
(***************************************************************************)
(* The pool of leased proxy endpoints: AsyncDailiProxyPool                 *)
(* (app/crawlers/proxy_provider.py).  Operators on the pool; the tasks     *)
(* that borrow from it are in ProxyLeases.                                 *)
(*                                                                         *)
(* The pool's condition is never held across an await other than its own   *)
(* wait, so each of its critical sections runs whole: a value of the pool  *)
(* goes in, a value comes out.  Time is kept only as far as the code tells *)
(* it apart: the life an endpoint has left in four classes, a cooldown as  *)
(* being on or over.                                                       *)
(***************************************************************************)
EXTENDS Naturals, FiniteSets

CONSTANTS
    Endpoints,       \* what the supplier has to lease
    Platforms,
    PoolSize,        \* pool_size
    MaxUsers,        \* max_concurrency_per_proxy
    RefillBatch,     \* refill_batch_size
    ErrorLimit       \* transport errors that discard an endpoint (3)

ASSUME PoolAssumption ==
    /\ IsFiniteSet(Endpoints)
    /\ PoolSize \in Nat \ {0} /\ MaxUsers \in Nat \ {0}
    /\ RefillBatch \in Nat \ {0} /\ ErrorLimit \in Nat \ {0}

\* The life left: past expire_at, too short for anything, enough for a request
\* (25 s), enough for a browser (70 s).
Expired == 0
Long == 3
Short == 2
Lives == Expired .. Long
\* What a borrower asks of an endpoint (ProxyRequirements).
Requirements == [platform : Platforms, need : Lives, exclusive : BOOLEAN]

\* A collection that ends well, one that fails in the task itself, is turned
\* away by the platform, or loses the transport (ProxyFailure.kind).
Kinds == {"none", "task", "platform", "transport"}

Pools ==
    [slots : SUBSET Endpoints,              \* endpoints with a slot
     draining : SUBSET Endpoints,           \* ... that take no new lease
     exclusive : SUBSET Endpoints,          \* ... leased for one task alone
     inFlight : [Endpoints -> Nat],
     life : [Endpoints -> Lives],
     cooling : SUBSET Endpoints,            \* cooldown_until not reached
     banned : SUBSET (Endpoints \X Platforms),  \* platform_cooldowns
     errors : [Endpoints -> 0 .. ErrorLimit],
     retired : SUBSET Endpoints,            \* _retired_until not reached
     fetching : BOOLEAN]

EmptyPool ==
    [slots |-> {}, draining |-> {}, exclusive |-> {},
     inFlight |-> [e \in Endpoints |-> 0], life |-> [e \in Endpoints |-> 0],
     cooling |-> {}, banned |-> {}, errors |-> [e \in Endpoints |-> 0],
     retired |-> {}, fetching |-> FALSE]

Active(p) == p.slots \ p.draining

\* The slots in gone leave the pool with all that was known of them.
Dropped(p, gone) ==
    [p EXCEPT !.slots = @ \ gone, !.draining = @ \ gone, !.exclusive = @ \ gone,
              !.cooling = @ \ gone, !.banned = {b \in @ : b[1] \notin gone},
              !.errors = [e \in Endpoints |-> IF e \in gone THEN 0 ELSE @[e]],
              !.life = [e \in Endpoints |-> IF e \in gone THEN 0 ELSE @[e]]]

\* Mutant: an endpoint leaves the pool while tasks use it.
CleanedInUse(p) ==
    LET drains == p.draining \union {e \in p.slots : p.life[e] = Expired}
    IN  Dropped(p, drains)

\* _mark_expired_and_cleanup
Cleaned(p) ==
    LET drains == p.draining \union {e \in p.slots : p.life[e] = Expired}
    IN  Dropped([p EXCEPT !.draining = drains],
                {e \in drains : p.inFlight[e] = 0})

\* Mutant: an endpoint leased for one task alone is given to a second one.
EligibleShared(p, e, req, opt) ==
    opt => /\ p.life[e] >= req.need
           /\ req.exclusive => p.inFlight[e] = 0
           /\ e \notin p.cooling
           /\ <<e, req.platform>> \notin p.banned

Eligible(p, e, req, opt) ==
    opt => /\ p.life[e] >= req.need
           /\ e \notin p.exclusive
           /\ req.exclusive => p.inFlight[e] = 0
           /\ e \notin p.cooling
           /\ <<e, req.platform>> \notin p.banned

Candidates(p, req, opt) ==
    {e \in Active(p) : p.inFlight[e] < MaxUsers /\ Eligible(p, e, req, opt)}

\* The least used endpoint, of those the one that expires first; expiry times
\* of one class may be either way round.
Selected(p, req, opt) ==
    LET c == Candidates(p, req, opt)
        least == {e \in c : \A f \in c : p.inFlight[e] <= p.inFlight[f]}
    IN  {e \in least : \A f \in least : p.life[e] <= p.life[f]}

Leased(p, e, req, opt) ==
    [p EXCEPT !.inFlight[e] = @ + 1,
              !.exclusive = IF ~opt THEN @
                            ELSE IF req.exclusive THEN @ \union {e} ELSE @ \ {e}]

Retiring(p, e, opt) ==
    [p EXCEPT !.draining = @ \union {e},
              !.retired = IF opt THEN @ \union {e} ELSE @]

\* A full pool without a lease for this task gives up one idle endpoint.
Replaced(p, req, opt) ==
    LET idle == {e \in Active(p) : p.inFlight[e] = 0 /\ ~Eligible(p, e, req, opt)}
        first == {e \in idle : \A f \in idle : p.life[e] <= p.life[f]}
        full == Cardinality(Active(p)) >= PoolSize
    IN  IF opt /\ ~p.fetching /\ full /\ idle # {}
        THEN {Cleaned(Retiring(p, e, opt)) : e \in first}
        ELSE {p}

MayFetch(p) == ~p.fetching /\ Cardinality(Active(p)) < PoolSize

FetchCount(p, opt) ==
    LET missing == PoolSize - Cardinality(Active(p))
    IN  IF opt /\ RefillBatch < missing THEN RefillBatch ELSE missing

\* The supplier's answer is merged; new endpoints have the given life left.
Added(p, found, life, opt) ==
    LET new == found \ (p.slots \union (IF opt THEN p.retired ELSE {}))
    IN  [p EXCEPT !.slots = @ \union new,
                  !.life = [e \in Endpoints |-> IF e \in new THEN life ELSE @[e]]]

Lowered(n) == IF n = 0 THEN 0 ELSE n - 1

\* One lease of e comes back.
Returned(p, e) ==
    [p EXCEPT !.inFlight[e] = Lowered(@),
              !.exclusive = IF Lowered(p.inFlight[e]) = 0 THEN @ \ {e} ELSE @]

OnSuccess(p, e, opt) ==
    IF e \notin p.slots THEN p
    ELSE Cleaned([Returned(p, e) EXCEPT
                    !.errors[e] = IF opt /\ e \notin p.cooling THEN Lowered(@) ELSE @])

Discarded(p, e, opt) ==
    Cleaned(IF e \in p.draining THEN p ELSE Retiring(p, e, opt))

\* An endpoint is kept after a failure of the task or the platform, and after
\* the first failures of its transport; without optimization never.
OnFailure(p, e, kind, platform, opt) ==
    LET q == Returned(p, e)
        noted == CASE kind = "task" -> q
                   [] kind = "platform" ->
                        [q EXCEPT !.banned = @ \union {<<e, platform>>}]
                   [] OTHER -> [q EXCEPT !.cooling = @ \union {e},
                                         !.errors[e] = IF @ < ErrorLimit THEN @ + 1 ELSE @]
    IN  IF e \notin p.slots THEN p
        ELSE IF ~opt THEN Discarded(q, e, opt)
        ELSE IF noted.errors[e] < ErrorLimit THEN Cleaned(noted)
        ELSE Discarded(noted, e, opt)
=============================================================================
