----------------------------- MODULE ProxyLeases -----------------------------
(***************************************************************************)
(* Collections that share the proxy pool: the lease scope of the HTTP      *)
(* client (app/crawlers/http_client.py), the Douyin visitor sessions       *)
(* (douyin_visitor.py), the browser of author tasks (authors/browser.py,   *)
(* author_service.py) and the browser fallback (browser_fallback.py).      *)
(*                                                                         *)
(* A task runs from await to await.  What it does next, once it has a      *)
(* lease, is its goal.  A CancelledError may reach it at every await: a    *)
(* client that leaves, a deadline, a job that is stopped.                  *)
(***************************************************************************)
EXTENDS ProxyPool

CONSTANTS
    Tasks,
    Plans,          \* which roles each task may take, in one instance or another
    PlatformOf,     \* the platform a task collects from
    NoEndpoint,
    Stray,          \* stands for a visitor of another endpoint than the lease's
    RequestNeed,    \* what a request asks of its lease, in classes of life:
                    \* Short while REQUEST_TIMEOUT_SECONDS is at most 30
    BrowserSlots,   \* BROWSER_MAX_CONCURRENCY
    OptModes,       \* lease_optimization_enabled: which settings to check
    Faults,         \* the failures that happen, out of Kinds
    Cancels         \* whether tasks are cancelled

\* A protocol collection without or with a visitor identity, an author list or
\* detail, a browser fallback.
Roles == {"plain", "douyin", "author", "fallback"}

NoTask == "none"

ASSUME LeasesAssumption ==
    /\ NoEndpoint \notin Endpoints /\ Stray \notin Endpoints \union {NoEndpoint}
    /\ IsFiniteSet(Tasks) /\ NoTask \notin Tasks
    /\ Plans \subseteq [Tasks -> SUBSET Roles]
    /\ PlatformOf \in [Tasks -> Platforms]
    /\ RequestNeed \in {Short, Long}
    /\ BrowserSlots \in Nat \ {0}
    /\ OptModes \subseteq BOOLEAN /\ Cancels \in BOOLEAN
    /\ Faults \subseteq Kinds \ {"none"}

VARIABLES
    plan,        \* the roles the tasks take
    optimized,   \* lease_optimization_enabled
    pool,
    role,        \* what each task does ("none": out of a collection)
    pc,          \* where it is
    goal,        \* what it does with the lease it is about to get
    lease,       \* the endpoint it holds
    failed,      \* failure_kind of its lease state
    started,     \* requests_started
    need,        \* min_remaining_seconds it asks for
    identity,    \* the endpoint its visitor was minted on, if that was the lease's
    sessions,    \* the visitors kept, by endpoint: where each was minted
    minter,      \* the holder of the visitors' lock
    key,         \* the endpoint under which its visitor will be kept
    browsers,    \* the holders of the shared browser semaphore
    orphans      \* the browsers left open when their task was gone, each with
                 \* its place of the semaphore

taskVars == <<role, pc, goal, lease, failed, started, need, identity>>
setting == <<plan, optimized>>
locks == <<minter, key, browsers>>
vars == <<setting, pool, taskVars, sessions, locks, orphans>>

Goals == {"sent", "look", "recheck", "mint", "launch", "open", "sem"}
Places == {"idle", "ready", "acquire", "wait", "woken", "fetch", "lock",
           "minting", "browsing", "closing", "unwinding"} \union Goals

\* A task passes through these without letting another one run.
Passing == {"acquire", "look", "recheck", "mint", "launch", "open"}

Outcomes == Faults \union {"none"}

TypeOK ==
    /\ plan \in Plans /\ optimized \in BOOLEAN
    /\ pool \in Pools
    /\ role \in [Tasks -> Roles \union {"none"}]
    /\ pc \in [Tasks -> Places]
    /\ goal \in [Tasks -> Goals]
    /\ lease \in [Tasks -> Endpoints \union {NoEndpoint}]
    /\ failed \in [Tasks -> Kinds]
    /\ started \in [Tasks -> BOOLEAN]
    /\ need \in [Tasks -> Lives]
    /\ identity \in [Tasks -> Endpoints \union {NoEndpoint, Stray}]
    /\ sessions \in [Endpoints -> Endpoints \union {NoEndpoint}]
    /\ minter \in Tasks \union {NoTask}
    /\ key \in Endpoints \union {NoEndpoint}
    /\ browsers \subseteq Tasks /\ orphans \in Nat

Init ==
    /\ plan \in Plans /\ optimized \in OptModes
    /\ pool = EmptyPool
    /\ role = [t \in Tasks |-> "none"]
    /\ pc = [t \in Tasks |-> "idle"]
    /\ goal = [t \in Tasks |-> "sent"]
    /\ lease = [t \in Tasks |-> NoEndpoint]
    /\ failed = [t \in Tasks |-> "none"]
    /\ started = [t \in Tasks |-> FALSE]
    /\ need = [t \in Tasks |-> 0]
    /\ identity = [t \in Tasks |-> NoEndpoint]
    /\ sessions = [e \in Endpoints |-> NoEndpoint]
    /\ minter = NoTask /\ key = NoEndpoint
    /\ browsers = {} /\ orphans = 0

-----------------------------------------------------------------------------
(* Requirements *)

\* collection_requirements
\* Mutant: author tasks ask for more life than an endpoint can have.
BaseNeedBeyond(r) == IF r \in {"author", "fallback"} THEN Long + 1 ELSE Short

BaseNeed(r) == IF r \in {"author", "fallback"} THEN Long ELSE Short
Exclusive(t) == role[t] # "plain"
Req(t) == [platform |-> PlatformOf[t], need |-> need[t], exclusive |-> Exclusive(t)]

-----------------------------------------------------------------------------
(* Where a task goes *)

Goto(t, place) == pc' = [pc EXCEPT ![t] = place]

\* Mutant: nobody is told.
GotoSilently(t, place) == pc' = [pc EXCEPT ![t] = place]

\* notify_all wakes every waiter; t itself goes to place.
NotifyGoto(t, place) ==
    pc' = [u \in Tasks |-> IF u = t THEN place
                           ELSE IF pc[u] = "wait" THEN "woken" ELSE pc[u]]

\* Mutant: a task that fails on the way keeps the visitors' lock.
UnlockedOnSuccess(t) ==
    /\ minter' = IF minter = t /\ failed[t] = "none" THEN NoTask ELSE minter
    /\ key' = key
    /\ browsers' = browsers \ {t}

\* The locks a task holds are left with it.
Unlocked(t) ==
    /\ minter' = IF minter = t THEN NoTask ELSE minter
    /\ key' = IF minter = t THEN NoEndpoint ELSE key
    /\ browsers' = browsers \ {t}

\* A task that gets its lease does what it wanted it for.
Reach(t, place) ==
    /\ started' = [started EXCEPT ![t] = @ \/ (place = "sent")]

\* Out of its scope a task has no lease state, and no lock.
Reset(t) ==
    /\ role' = [role EXCEPT ![t] = "none"]
    /\ lease' = [lease EXCEPT ![t] = NoEndpoint]
    /\ failed' = [failed EXCEPT ![t] = "none"]
    /\ started' = [started EXCEPT ![t] = FALSE]
    /\ need' = [need EXCEPT ![t] = 0]
    /\ identity' = [identity EXCEPT ![t] = NoEndpoint]
    /\ goal' = [goal EXCEPT ![t] = "sent"]
    /\ Unlocked(t)

-----------------------------------------------------------------------------
(* Borrowing: get_requests_proxies *)

\* A free endpoint is leased at once.
Grant(t) ==
    /\ pc[t] \in {"acquire", "woken"}
    /\ \E e \in Selected(Cleaned(pool), Req(t), optimized) :
         /\ pool' = Leased(Cleaned(pool), e, Req(t), optimized)
         /\ lease' = [lease EXCEPT ![t] = e]
    /\ Goto(t, goal[t]) /\ Reach(t, goal[t])
    /\ UNCHANGED <<setting, role, goal, failed, need, identity, sessions, locks,
                   orphans>>

NothingFree(p, t) == Candidates(p, Req(t), optimized) = {}

\* Otherwise one task buys endpoints, and the others wait for it or for a
\* lease to come back.
Buy(t) ==
    /\ pc[t] \in {"acquire", "woken"} /\ NothingFree(Cleaned(pool), t)
    /\ \E p \in Replaced(Cleaned(pool), Req(t), optimized) :
         /\ MayFetch(p)
         /\ pool' = [p EXCEPT !.fetching = TRUE]
    /\ Goto(t, "fetch")
    /\ UNCHANGED <<setting, role, goal, lease, failed, started, need, identity,
                   sessions, locks, orphans>>

Wait(t) ==
    /\ pc[t] \in {"acquire", "woken"} /\ NothingFree(Cleaned(pool), t)
    /\ \E p \in Replaced(Cleaned(pool), Req(t), optimized) :
         /\ ~MayFetch(p)
         /\ pool' = p
    /\ Goto(t, "wait")
    /\ UNCHANGED <<setting, role, goal, lease, failed, started, need, identity,
                   sessions, locks, orphans>>

\* Mutant: the task keeps its locks.
RefusedLocked(t) ==
    IF role[t] = "fallback" THEN NotifyGoto(t, "idle") /\ Reset(t)
    ELSE /\ NotifyGoto(t, "ready")
         /\ UNCHANGED <<role, goal, lease, failed, started, need, identity, locks>>

\* The pool refuses: the task leaves its locks for its error path.  A fallback
\* ends there, a handler may try once more.
Refused(t) ==
    IF role[t] = "fallback" THEN NotifyGoto(t, "idle") /\ Reset(t)
    ELSE /\ NotifyGoto(t, "ready") /\ Unlocked(t)
         /\ UNCHANGED <<role, goal, lease, failed, started, need, identity>>

\* The supplier answers the buyer; the others are woken.  It asks for
\* FetchCount endpoints before the call and is given at most that many.
Bought(t, p) ==
    LET q == Cleaned([p EXCEPT !.fetching = FALSE])
    IN  \/ /\ Refused(t) /\ NothingFree(q, t) /\ pool' = q
        \/ \E e \in Selected(q, Req(t), optimized) :
             /\ pool' = Leased(q, e, Req(t), optimized)
             /\ lease' = [lease EXCEPT ![t] = e]
             /\ NotifyGoto(t, goal[t]) /\ Reach(t, goal[t])
             /\ UNCHANGED <<role, goal, failed, need, identity, locks>>

Answer(t) ==
    /\ pc[t] = "fetch"
    /\ \E found \in SUBSET Endpoints, life \in Lives \ {Expired} :
         /\ Cardinality(found) <= FetchCount(pool, optimized)
         /\ life = Long \/ (optimized /\ found # {})
         /\ Bought(t, Added(pool, found, life, optimized))
    /\ UNCHANGED <<setting, sessions, orphans>>

-----------------------------------------------------------------------------
(* ensure_proxy_lifetime, then what the lease is for *)

\* Mutant: a lease is exchanged although requests went through it.
ProceedAnyway(t, seconds, place) ==
    \/ /\ lease[t] # NoEndpoint
       /\ optimized => pool.life[lease[t]] >= seconds
       /\ Goto(t, place) /\ Reach(t, place)
       /\ UNCHANGED <<pool, goal, lease, failed>>
    \/ /\ lease[t] = NoEndpoint
       /\ Goto(t, "acquire") /\ goal' = [goal EXCEPT ![t] = place]
       /\ UNCHANGED <<pool, lease, failed, started>>
    \/ /\ lease[t] # NoEndpoint /\ optimized
       /\ pool.life[lease[t]] < seconds
       /\ pool' = OnSuccess(pool, lease[t], optimized)
       /\ lease' = [lease EXCEPT ![t] = NoEndpoint]
       /\ NotifyGoto(t, "acquire") /\ goal' = [goal EXCEPT ![t] = place]
       /\ UNCHANGED <<failed, started>>

\* The lease lasts: the task proceeds; it has none yet: it borrows one; it has
\* one, unused, that will not last: it gives it back and borrows another.
Proceed(t, seconds, place) ==
    \/ /\ lease[t] # NoEndpoint
       /\ optimized => pool.life[lease[t]] >= seconds
       /\ Goto(t, place) /\ Reach(t, place)
       /\ UNCHANGED <<pool, goal, lease, failed>>
    \/ /\ lease[t] = NoEndpoint
       /\ Goto(t, "acquire") /\ goal' = [goal EXCEPT ![t] = place]
       /\ UNCHANGED <<pool, lease, failed, started>>
    \/ /\ lease[t] # NoEndpoint /\ optimized /\ ~started[t]
       /\ pool.life[lease[t]] < seconds
       /\ pool' = OnSuccess(pool, lease[t], optimized)
       /\ lease' = [lease EXCEPT ![t] = NoEndpoint]
       /\ NotifyGoto(t, "acquire") /\ goal' = [goal EXCEPT ![t] = place]
       /\ UNCHANGED <<failed, started>>

\* A lease in use is never exchanged: the step fails.
TooShort(t, seconds) ==
    /\ lease[t] # NoEndpoint /\ optimized /\ started[t]
    /\ pool.life[lease[t]] < seconds
    /\ failed' = [failed EXCEPT ![t] = "task"]
    /\ Goto(t, "ready") /\ Unlocked(t)
    /\ UNCHANGED <<pool, goal, lease, started>>

Asking(t, seconds) ==
    need' = [need EXCEPT ![t] = IF optimized /\ seconds > @ THEN seconds ELSE @]

Ensure(t, seconds, place) ==
    /\ Proceed(t, seconds, place)
    /\ Asking(t, seconds)
    /\ UNCHANGED <<setting, role, identity, sessions, orphans>>

EnsureFails(t, seconds) ==
    /\ TooShort(t, seconds)
    /\ Asking(t, seconds)
    /\ UNCHANGED <<setting, role, identity, sessions, orphans>>

-----------------------------------------------------------------------------
(* A protocol collection: lease_scope and _request *)

Begin(t, r) ==
    /\ pc[t] = "idle" /\ r \in plan[t] \ {"fallback"}
    /\ role' = [role EXCEPT ![t] = r]
    /\ need' = [need EXCEPT ![t] = BaseNeed(r)]
    /\ Goto(t, "ready")
    /\ UNCHANGED <<setting, pool, goal, lease, failed, started, identity,
                   sessions, locks, orphans>>

\* _request_unthrottled, up to the call that leaves the process.  A Douyin
\* request is one of a visitor's.
Request(t) ==
    /\ pc[t] = "ready" /\ role[t] \in {"plain", "author"}
    /\ \/ Ensure(t, RequestNeed, "sent") /\ UNCHANGED locks
       \/ EnsureFails(t, RequestNeed)

VisitorRequest(t) ==
    /\ pc[t] = "ready" /\ role[t] = "douyin"
    /\ \/ /\ identity[t] = NoEndpoint
          /\ \/ Ensure(t, Short, "look") /\ UNCHANGED locks
             \/ EnsureFails(t, Short)
       \/ /\ identity[t] # NoEndpoint
          /\ \/ Ensure(t, RequestNeed, "sent") /\ UNCHANGED locks
             \/ EnsureFails(t, RequestNeed)

\* The call returns, is turned away with a status, or raises.
Response(t, kind) ==
    /\ pc[t] = "sent" /\ kind # "task"
    /\ failed' = IF kind = "none" THEN failed ELSE [failed EXCEPT ![t] = kind]
    /\ Goto(t, "ready")
    /\ UNCHANGED <<setting, role, pool, goal, lease, started, need, identity,
                   sessions, locks, orphans>>

\* What the pool is told of the lease when the scope ends.
HandedBack(t, kind) ==
    IF lease[t] = NoEndpoint THEN pool
    ELSE IF kind = "none" THEN OnSuccess(pool, lease[t], optimized)
    ELSE OnFailure(pool, lease[t], kind, PlatformOf[t], optimized)

Left(t, kind) ==
    /\ pool' = HandedBack(t, kind)
    /\ IF lease[t] = NoEndpoint THEN Goto(t, "idle") ELSE NotifyGoto(t, "idle")
    /\ Reset(t)

\* record_collection_failure: the first failure is the one that counts, but
\* without optimization any failure discards the lease.
Recorded(t, verdict) == IF failed[t] = "none" THEN verdict ELSE failed[t]

Finish(t, verdict) ==
    /\ pc[t] = "ready" /\ verdict # "transport"
    /\ Left(t, Recorded(t, verdict))
    /\ UNCHANGED <<setting, sessions, orphans>>

-----------------------------------------------------------------------------
(* The visitor of a Douyin collection: DouyinVisitorSessions.get *)

\* A visitor outlives neither its ttl nor the endpoint it was minted on, and is
\* not taken for its last 25 seconds when leases are optimized.
Kept(e) == /\ sessions[e] # NoEndpoint
           /\ optimized => pool.life[sessions[e]] >= Short

\* The visitor is taken, the lock left, and the request follows at once.
Use(t, visitor) ==
    /\ identity' = [identity EXCEPT ![t] = visitor]
    /\ \/ Proceed(t, RequestNeed, "sent") /\ Unlocked(t)
       \/ TooShort(t, RequestNeed)
    /\ Asking(t, RequestNeed)
    /\ UNCHANGED <<setting, role>>

TakeVisitor(t) ==
    /\ Kept(lease[t])
    /\ Use(t, IF sessions[lease[t]] = lease[t] THEN lease[t] ELSE Stray)
    /\ UNCHANGED <<sessions, orphans>>

Look(t) ==
    /\ pc[t] = "look"
    /\ \/ TakeVisitor(t)
       \/ /\ ~Kept(lease[t]) /\ Goto(t, "lock")
          /\ UNCHANGED <<setting, role, pool, goal, lease, failed, started, need,
                         identity, sessions, locks, orphans>>

\* The lease may have aged in the queue for the lock.
Lock(t) ==
    /\ pc[t] = "lock" /\ minter = NoTask
    /\ \/ Ensure(t, Short, "recheck") /\ minter' = t /\ UNCHANGED <<key, browsers>>
       \/ EnsureFails(t, Short)

Recheck(t) ==
    /\ pc[t] = "recheck"
    /\ \/ TakeVisitor(t)
       \/ /\ ~Kept(lease[t])
          /\ \/ Ensure(t, Long, "mint") /\ UNCHANGED locks
             \/ EnsureFails(t, Long)

\* The key of the visitor to come is computed, and then the browser asks once
\* more for a lease that lasts (BrowserTransport.open): time has passed since.
Mint(t) ==
    /\ pc[t] = "mint"
    /\ \/ TakeVisitor(t)
       \/ /\ ~Kept(lease[t])
          /\ \/ /\ Ensure(t, Long, "launch") /\ key' = lease[t]
                /\ UNCHANGED <<minter, browsers>>
             \/ EnsureFails(t, Long)

\* Mutant: the browser on the lease is not noted (mark_browser_started).
LaunchUnmarked(t) ==
    /\ pc[t] = "launch" /\ Goto(t, "minting")
    /\ UNCHANGED <<setting, role, pool, goal, lease, failed, started, need, identity,
                   sessions, locks, orphans>>

\* The browser starts: from here on its lease stays with the task.
Launch(t) ==
    /\ pc[t] = "launch" /\ Goto(t, "minting")
    /\ started' = [started EXCEPT ![t] = TRUE]
    /\ UNCHANGED <<setting, role, pool, goal, lease, failed, need, identity,
                   sessions, locks, orphans>>

\* The visitor is of the lease, and kept under the key.
Minted(t) ==
    /\ pc[t] = "minting"
    /\ pool.life[lease[t]] > Expired
    /\ sessions' = [sessions EXCEPT ![key] = lease[t]]
    /\ Use(t, lease[t]) /\ UNCHANGED orphans

MintFails(t) ==
    /\ pc[t] = "minting"
    /\ Goto(t, "ready") /\ Unlocked(t)
    /\ UNCHANGED <<setting, role, pool, goal, lease, failed, started, need,
                   identity, sessions, orphans>>

-----------------------------------------------------------------------------
(* A browser on the lease of an author task: DiscoverySession._open and     *)
(* _fetch_detail, BrowserTransport.open and close                          *)

\* A list takes its lease and then queues for a browser; a detail queues first.
OpenBrowser(t) ==
    /\ pc[t] = "ready" /\ role[t] = "author"
    /\ \/ Goto(t, "sem") /\ UNCHANGED goal
       \/ /\ lease[t] = NoEndpoint
          /\ Goto(t, "acquire") /\ goal' = [goal EXCEPT ![t] = "sem"]
    /\ UNCHANGED <<setting, role, pool, lease, failed, started, need, identity,
                   sessions, locks, orphans>>

PlaceFree == Cardinality(browsers) + orphans < BrowserSlots

TakeBrowser(t) ==
    /\ pc[t] = "sem" /\ PlaceFree
    /\ \/ Ensure(t, Long, "open") /\ browsers' = browsers \union {t}
          /\ UNCHANGED <<minter, key>>
       \/ EnsureFails(t, Long)

Browse(t) ==
    /\ pc[t] = "open"
    /\ started' = [started EXCEPT ![t] = TRUE]
    /\ Goto(t, "browsing")
    /\ UNCHANGED <<setting, role, pool, goal, lease, failed, need, identity,
                   sessions, locks, orphans>>

\* The page was read, or was not to be had.  The browser is closed (close): while
\* answers of the page are still being read, the close first waits for these.
Browsed(t, verdict) ==
    /\ pc[t] = "browsing" /\ role[t] = "author" /\ verdict # "transport"
    /\ failed' = [failed EXCEPT ![t] = Recorded(t, verdict)]
    /\ \/ Goto(t, "ready") /\ Unlocked(t)
       \/ Goto(t, "closing") /\ UNCHANGED locks
    /\ UNCHANGED <<setting, role, pool, goal, lease, started, need, identity,
                   sessions, orphans>>

Closed(t) ==
    /\ pc[t] = "closing"
    /\ Goto(t, "ready") /\ Unlocked(t)
    /\ UNCHANGED <<setting, role, pool, goal, lease, failed, started, need,
                   identity, sessions, orphans>>

-----------------------------------------------------------------------------
(* The browser fallback: a browser first, then a lease of its own *)

BeginFallback(t) ==
    /\ pc[t] = "idle" /\ "fallback" \in plan[t] /\ PlaceFree
    /\ browsers' = browsers \union {t}
    /\ role' = [role EXCEPT ![t] = "fallback"]
    /\ need' = [need EXCEPT ![t] = BaseNeed("fallback")]
    /\ goal' = [goal EXCEPT ![t] = "open"]
    /\ Goto(t, "acquire")
    /\ UNCHANGED <<setting, pool, lease, failed, started, identity, sessions,
                   minter, key, orphans>>

EndFallback(t, verdict) ==
    /\ pc[t] = "browsing" /\ role[t] = "fallback" /\ verdict # "transport"
    /\ Left(t, verdict)
    /\ UNCHANGED <<setting, sessions, orphans>>

-----------------------------------------------------------------------------
(* Cancellation, time *)

\* A fallback hands its lease back as failed, and so does an author list; a
\* scope as a failed task, when leases are optimized, or as it stands.
CancelKinds(t) ==
    IF role[t] = "fallback" \/ (optimized /\ failed[t] = "none") THEN {"task"}
    ELSE {failed[t]} \union {k \in {"task"} : role[t] = "author" /\ failed[t] = "none"}

\* Mutant: the pool goes on to believe in the buyer.
GivesUpSilently(t) ==
    /\ NotifyGoto(t, "idle")
    /\ UNCHANGED pool

\* The buyer that is cancelled gives up buying, and wakes the others.
GivesUp(t) ==
    /\ pool' = [pool EXCEPT !.fetching = FALSE]
    /\ NotifyGoto(t, "idle")

\* A browser that is open is closed on the way out, and here too the close may
\* have to wait.
Interrupted(t) ==
    /\ pc[t] = "browsing" /\ role[t] = "author"
    /\ Goto(t, "unwinding")
    /\ UNCHANGED <<role, pool, goal, lease, failed, started, need, identity,
                   locks, orphans>>

\* A cancellation while the close waits skips the rest of it: the browser stays
\* open, and its place of the semaphore taken.
Abandoned(t) ==
    /\ pc[t] \in {"closing", "unwinding"}
    /\ \E k \in CancelKinds(t) : Left(t, k)
    /\ orphans' = orphans + 1

Cancel(t) ==
    /\ Cancels /\ pc[t] \notin Passing \union {"idle"}
    /\ \/ pc[t] = "fetch" /\ GivesUp(t) /\ Reset(t) /\ UNCHANGED orphans
       \/ /\ pc[t] # "fetch" /\ UNCHANGED orphans
          /\ \E k \in CancelKinds(t) : Left(t, k)
       \/ Interrupted(t)
       \/ Abandoned(t)
    /\ UNCHANGED <<setting, sessions>>

\* The browser is closed, and the cancelled task leaves.
Unwound(t) ==
    /\ pc[t] = "unwinding"
    /\ \E k \in CancelKinds(t) : Left(t, k)
    /\ UNCHANGED <<setting, sessions, orphans>>

Age(e) ==
    /\ e \in pool.slots /\ pool.life[e] > 0
    /\ pool' = [pool EXCEPT !.life[e] = @ - 1]
    /\ UNCHANGED <<setting, taskVars, sessions, locks, orphans>>

\* A cooldown, a platform's ban, or the quarantine of a retired endpoint ends.
Lapse(e) ==
    /\ \/ e \in pool.cooling /\ pool' = [pool EXCEPT !.cooling = @ \ {e}]
       \/ \E b \in pool.banned :
            b[1] = e /\ pool' = [pool EXCEPT !.banned = @ \ {b}]
       \/ e \in pool.retired /\ pool' = [pool EXCEPT !.retired = @ \ {e}]
    /\ UNCHANGED <<setting, taskVars, sessions, locks, orphans>>

\* A visitor reaches its ttl.
Expire(e) ==
    /\ sessions[e] # NoEndpoint
    /\ sessions' = [sessions EXCEPT ![e] = NoEndpoint]
    /\ UNCHANGED <<setting, pool, taskVars, locks, orphans>>

-----------------------------------------------------------------------------
Step(t) ==
    \/ Grant(t) \/ Buy(t) \/ Wait(t) \/ Answer(t)
    \/ Request(t) \/ VisitorRequest(t)
    \/ \E k \in Outcomes : \/ Response(t, k) \/ Finish(t, k)
                           \/ Browsed(t, k) \/ EndFallback(t, k)
    \/ Look(t) \/ Lock(t) \/ Recheck(t)
    \/ Mint(t) \/ Launch(t) \/ Minted(t) \/ MintFails(t)
    \/ OpenBrowser(t) \/ TakeBrowser(t) \/ Browse(t) \/ Closed(t) \/ Unwound(t)

\* A task that is passing runs on before any other task does.
Still == \A t \in Tasks : pc[t] \notin Passing

\* Time passes between the steps, and within one where the code looks at the clock
\* twice for the same lease.
Ticking == Still \/ \E t \in Tasks : pc[t] = "mint"

Next ==
    \/ \E t \in Tasks : (Still \/ pc[t] \in Passing) /\ Step(t)
    \/ /\ Still
       /\ \/ \E t \in Tasks :
               BeginFallback(t) \/ Cancel(t) \/ \E r \in Roles : Begin(t, r)
          \/ \E e \in Endpoints : Lapse(e) \/ Expire(e)
    \/ Ticking /\ \E e \in Endpoints : Age(e)

Spec == Init /\ [][Next]_vars

-----------------------------------------------------------------------------
(* Correctness *)

Holders(e) == {t \in Tasks : lease[t] = e}

\* in_flight is the number of tasks that hold a lease of the endpoint, through
\* every way a lease comes back (success, failure, cancellation, a lease given
\* back for a longer one), and an endpoint that is held keeps its slot: the cut
\* at zero in on_success_for (proxy_provider.py:883) never hides a lease.  A
\* task has a place of the browser semaphore exactly from the browser's start to
\* its close, also while the lease for it is exchanged in between; out of the
\* visitors' lock it holds that lock no more.  Together with the browsers that a
\* cancelled close left open, no more places are taken than there are.
HoldingsExact ==
    /\ \A e \in Endpoints :
        /\ pool.inFlight[e] = Cardinality(Holders(e))
        /\ Holders(e) # {} => e \in pool.slots
    /\ \A t \in Tasks :
        /\ pc[t] \in {"idle", "ready", "sent", "lock", "sem"} =>
               minter # t /\ t \notin browsers
        /\ pc[t] \in {"open", "browsing", "closing", "unwinding"} => t \in browsers
    /\ Cardinality(browsers) + orphans <= BrowserSlots

\* With optimized leases, a task that asked for an endpoint of its own shares
\* it with no other, whichever of the two came first.
ExclusiveAlone ==
    optimized => \A t, u \in Tasks :
        t # u /\ lease[t] = lease[u] /\ lease[t] # NoEndpoint
            => ~Exclusive(t) /\ ~Exclusive(u)

\* A borrower that waits on the condition (proxy_provider.py:808, without a
\* timeout) waits for somebody who will wake it: a task that buys, or the holders
\* of as many endpoints as the pool may have.  The pool believes in a buyer only
\* while there is one.
NoLostWakeup ==
    /\ pool.fetching <=> \E u \in Tasks : pc[u] = "fetch"
    /\ \A t \in Tasks : pc[t] = "wait" =>
          \/ \E u \in Tasks : pc[u] = "fetch"
          \/ Cardinality({e \in Endpoints : Holders(e) # {}}) >= PoolSize

\* "Never copy an identity to another IP" (douyin_visitor.py:36): through waits
\* for a lease or for the lock, exchange, expiry and purchase anew, a request
\* carries a visitor only through the endpoint that visitor was minted on.
\* Excepted is one that was not of its endpoint when it was taken: it was minted
\* after BrowserTransport.open had exchanged the lease, and is kept for the lease
\* of before, of which get had computed the key (douyin_visitor.py:75).
VisitorFiled ==
    \A t \in Tasks :
        role[t] = "douyin" /\ pc[t] = "sent" =>
            identity[t] \in {lease[t], Stray}

\* "Never move a live identity mid-flow" (http_client.py:226): once requests
\* went through a lease, or a browser runs on it, the scope keeps that endpoint
\* until it ends.
IdentityStable ==
    [][\A t \in Tasks : started[t] /\ lease'[t] # lease[t] => pc'[t] = "idle"]_vars

\* The pool keeps the promise of LeaseTable.
Table == INSTANCE LeaseTable WITH held <- lease, open <- Active(pool)
ImplementsTable == Table!Spec

\* The collections that may keep a lease while they wait: for the visitors' lock
\* (douyin_visitor.py:58), or for a browser (authors/browser.py:55).
Queueing(p) == {t \in Tasks : p[t] \ {"plain"} # {}}

\* Not everyone waits on everyone: as long as not every place of the browsers is
\* taken by one that was left open, while a borrower waits some task can move
\* by itself, needing neither a lease nor a lock that another one holds.  That
\* is so as long as no more collections are Queueing than the pool has
\* endpoints; with more, all leases may be held in the queues, by tasks behind
\* one that has the lock or the browser and waits for a lease.
NoStandstill ==
    orphans < BrowserSlots /\ (\E t \in Tasks : pc[t] = "wait") =>
        \E u \in Tasks :
            \/ pc[u] \in {"ready", "woken", "fetch", "sent", "minting", "browsing",
                         "closing", "unwinding"} \union Passing
            \/ pc[u] = "lock" /\ minter = NoTask
            \/ pc[u] = "sem" /\ PlaceFree
=============================================================================
