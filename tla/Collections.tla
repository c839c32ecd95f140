----------------------------- MODULE Collections -----------------------------
(***************************************************************************)
(* EngagementService (app/services/engagement_service.py) over             *)
(* EngagementCrawler: callers that ask for the same result share one       *)
(* collection and its cached result, and no more collections run than the  *)
(* limits of their platform and of the service allow.                      *)
(*                                                                         *)
(* A caller is a synchronous request or a batch item.  An item reserves    *)
(* its capacity first (collection_slot) and its collection uses the        *)
(* capacity of the item; a request starts a collection that takes its own. *)
(* Callers are cancelled at any time: a client leaves, a deadline passes.  *)
(*                                                                         *)
(* The semaphores are the places of those who are inside of their "async   *)
(* with" blocks: nobody acquires or releases one otherwise.                *)
(***************************************************************************)
EXTENDS ResultCache, Crawler, FiniteSets

CONSTANTS
    Callers,
    Batch,            \* those that are batch items
    Platforms,
    PlatformOf,       \* the platform of each key
    PlatformLimit,    \* max_concurrency of a platform's policy
    GlobalLimit,      \* COLLECTION_MAX_CONCURRENCY
    KeepsResults,     \* cache_ttl_seconds > 0
    KeepsFailures,    \* failure_cache_ttl_seconds > 0
    Cancels           \* whether callers are cancelled

TaskKeys == Keys \X BOOLEAN

\* A caller is neither a task key nor the tag <<d>> of a caller d.
ASSUME CollectionsAssumption ==
    /\ Batch \subseteq Callers /\ IsFiniteSet(Callers)
    /\ Callers \intersect (TaskKeys \union {<<d>> : d \in Callers}) = {}
    /\ PlatformOf \in [Keys -> Platforms]
    /\ PlatformLimit \in [Platforms -> Nat \ {0}] /\ GlobalLimit \in Nat \ {0}
    /\ {KeepsResults, KeepsFailures, Cancels} \subseteq BOOLEAN

VARIABLES
    caller,     \* where each caller is, and what it asks for
    task,       \* _result_tasks: by key, and whether a reserved caller asked
    waiters,    \* _result_waiters, for the same keys
    cache,      \* _result_cache and _cache_size_bytes
    circuit     \* _circuit_failures and _circuit_open_until, by platform

vars == <<caller, task, waiters, cache, circuit>>

NoResult == Plain("failed", FALSE)
NoTask == [pc |-> "none", n |-> 0, reserved |-> FALSE, protocol |-> NoResult]

\* Places of a task: it waits for its platform's capacity, for the service's,
\* then it enters the crawler, sleeps for the circuit, makes protocol attempt
\* n, or browser attempt n after a protocol result.
Inside == {"enter", "cooling", "protocol", "browser"}
TaskPlaces == {"none", "platform", "global"} \union Inside

\* Places of a caller: only an item sleeps and waits for capacity itself.
\* Reaping, it waits for the end of the collection it has cancelled.
CallerPlaces == {"idle", "cooling", "platform", "global", "await", "reaping"}

Idle == [pc |-> "idle", key |-> CHOOSE k \in Keys : TRUE, reaps |-> "none", reserved |-> FALSE]

TypeOK ==
    /\ caller \in [Callers -> [pc : CallerPlaces, key : Keys,
                               reaps : TaskPlaces, reserved : BOOLEAN]]
    /\ task \in [TaskKeys -> [pc : TaskPlaces, reserved : BOOLEAN,
                              n : 0 .. MaxAttempts + 2 + MaxBrowserAttempts,
                              protocol : Results \union {NoResult}]]
    /\ waiters \in [TaskKeys -> 0 .. Cardinality(Callers)]
    /\ \A n \in DOMAIN cache.entries : cache.entries[n] \in Entries
    /\ cache.bytes \in Nat
    /\ \A p \in Platforms :
         /\ circuit[p].fails = 0 \/ circuit[p].fails \in 1 .. Threshold - 1
         /\ circuit[p].opening \in {"closed", "open", "elapsed"}
         /\ circuit[p].sleepers \subseteq Callers \union TaskKeys

Init ==
    /\ caller = [c \in Callers |-> Idle]
    /\ task = [tk \in TaskKeys |-> NoTask]
    /\ waiters = [tk \in TaskKeys |-> 0]
    /\ cache = EmptyCache
    /\ circuit = [p \in Platforms |-> ClosedCircuit]

-----------------------------------------------------------------------------
(* Capacity *)

On(p) == {c \in Callers : PlatformOf[caller[c].key] = p}

\* The tasks of a platform that have acquired their own capacity up to one of
\* these places, and the cancelled ones that have not ended.
TasksAt(p, places) == {tk \in TaskKeys : PlatformOf[tk[1]] = p /\ task[tk].pc \in places}
EndingAt(p, places) == {c \in On(p) : caller[c].reaps \in places}

PlatformUsers(p) ==
    {c \in On(p) \intersect Batch : caller[c].pc \in {"global", "await", "reaping"}}
    \union {tk \in TasksAt(p, {"global"} \union Inside) : ~task[tk].reserved}
    \union {<<c>> : c \in {c \in EndingAt(p, {"global"} \union Inside) : ~caller[c].reserved}}

GlobalUsers ==
    {c \in Batch : caller[c].pc \in {"await", "reaping"}}
    \union (UNION {{tk \in TasksAt(p, Inside) : ~task[tk].reserved} : p \in Platforms})
    \union (UNION {{<<c>> : c \in {c \in EndingAt(p, Inside) : ~caller[c].reserved}} : p \in Platforms})

PlatformFree(p) == Cardinality(PlatformUsers(p)) < PlatformLimit[p]
GlobalFree == Cardinality(GlobalUsers) < GlobalLimit

-----------------------------------------------------------------------------
(* Callers *)

Place(c, k, place) == caller' = [caller EXCEPT ![c] = [Idle EXCEPT !.pc = place, !.key = k]]
Return(c) == caller' = [caller EXCEPT ![c] = Idle]
Asked(c) == PlatformOf[caller[c].key]

\* Mutant: reserved and other callers share their tasks.
TaskKeyShared(c, k) == <<k, FALSE>>

\* A reserved caller must not join a task still waiting for its slot.
TaskKey(c, k) == <<k, c \in Batch>>

Awaits(c, tk) == caller[c].pc = "await" /\ TaskKey(c, caller[c].key) = tk

\* wait_for_platform_ready: before it reserves capacity, an item waits until
\* the circuit of its platform is closed, or elapsed.
StartReady(c, k) ==
    /\ caller[c].pc = "idle" /\ ~InForce(circuit[PlatformOf[k]])
    /\ Place(c, k, "platform")
    /\ circuit' = [circuit EXCEPT ![PlatformOf[k]] = Passed(@)]
    /\ UNCHANGED <<task, waiters, cache>>

StartCooling(c, k) ==
    /\ caller[c].pc = "idle" /\ InForce(circuit[PlatformOf[k]])
    /\ Place(c, k, "cooling")
    /\ circuit' = [circuit EXCEPT ![PlatformOf[k]] = Asleep(@, c)]
    /\ UNCHANGED <<task, waiters, cache>>

\* Whoever slept for an older opening may wake while this one is in force.
MayWake(a, p) == a \in circuit[p].sleepers => circuit[p].opening = "elapsed"

Wake(c) ==
    /\ caller[c].pc = "cooling" /\ MayWake(c, Asked(c))
    /\ Place(c, caller[c].key, "platform")
    /\ circuit' = [circuit EXCEPT ![Asked(c)] = Woken(@, c)]
    /\ UNCHANGED <<task, waiters, cache>>

\* collection_slot; the rate limiter after it is a wait of its own.
ReservePlatform(c) ==
    /\ caller[c].pc = "platform" /\ PlatformFree(Asked(c))
    /\ Place(c, caller[c].key, "global")
    /\ UNCHANGED <<task, waiters, cache, circuit>>

\* _fetch_cached, up to its await: a fresh result is returned ...
Hit(c, k) ==
    /\ Fresh(Purged(cache), k)
    /\ cache' = Touched(Purged(cache), k)
    /\ Return(c)
    /\ UNCHANGED <<task, waiters, circuit>>

\* ... otherwise the caller joins the task of its key, or starts it.
NewTask(c) ==
    [NoTask EXCEPT !.reserved = c \in Batch,
                   !.pc = IF c \in Batch THEN "enter" ELSE "platform"]

Join(c, k) ==
    /\ ~Fresh(Purged(cache), k)
    /\ cache' = Purged(cache)
    /\ task' = [task EXCEPT ![TaskKey(c, k)] = IF @.pc = "none" THEN NewTask(c) ELSE @]
    /\ waiters' = [waiters EXCEPT ![TaskKey(c, k)] = @ + 1]
    /\ Place(c, k, "await")
    /\ UNCHANGED circuit

\* A request collects at once, an item when it has its place in the service.
Request(c, k) ==
    /\ c \notin Batch /\ caller[c].pc = "idle"
    /\ Hit(c, k) \/ Join(c, k)

StartItem(c, k) == c \in Batch /\ (StartReady(c, k) \/ StartCooling(c, k))

CollectItem(c) ==
    /\ caller[c].pc = "global" /\ GlobalFree
    /\ Hit(c, caller[c].key) \/ Join(c, caller[c].key)

-----------------------------------------------------------------------------
(* Cancellation of a caller *)

\* Before it awaits a task it has nothing but its place.
CancelEarly(c) ==
    /\ caller[c].pc \in {"cooling", "platform", "global"}
    /\ Return(c)
    /\ circuit' = [circuit EXCEPT ![Asked(c)] = Gone(@, c)]
    /\ UNCHANGED <<task, waiters, cache>>

\* The others keep their collection.
\* Mutant: whoever leaves is still counted.
LeaveCounted(c, tk) ==
    /\ waiters[tk] > 1
    /\ Return(c)
    /\ UNCHANGED <<task, waiters, circuit>>

Leave(c, tk) ==
    /\ waiters[tk] > 1
    /\ waiters' = [waiters EXCEPT ![tk] = @ - 1]
    /\ Return(c)
    /\ UNCHANGED <<task, circuit>>

\* Mutant: the last one cancels its task and does not await it.
AbandonAtOnce(c, tk) ==
    /\ waiters[tk] <= 1
    /\ waiters' = [waiters EXCEPT ![tk] = 0]
    /\ task' = [task EXCEPT ![tk] = NoTask]
    /\ caller' = [caller EXCEPT ![c].pc = "idle",
                                ![c].reaps = task[tk].pc,
                                ![c].reserved = task[tk].reserved]
    /\ circuit' = [circuit EXCEPT ![PlatformOf[tk[1]]] = Gone(@, tk)]

\* The last one takes the collection with it: it is no longer to be joined,
\* is cancelled, and awaited until it has ended.
Abandon(c, tk) ==
    /\ waiters[tk] <= 1
    /\ waiters' = [waiters EXCEPT ![tk] = 0]
    /\ task' = [task EXCEPT ![tk] = NoTask]
    /\ caller' = [caller EXCEPT ![c].pc = "reaping",
                                ![c].reaps = task[tk].pc,
                                ![c].reserved = task[tk].reserved]
    /\ circuit' = [circuit EXCEPT ![PlatformOf[tk[1]]] = Gone(@, tk)]

CancelAwait(c) ==
    /\ caller[c].pc = "await"
    /\ Leave(c, TaskKey(c, caller[c].key)) \/ Abandon(c, TaskKey(c, caller[c].key))
    /\ UNCHANGED cache

Cancel(c) == Cancels /\ (CancelEarly(c) \/ CancelAwait(c))

\* A second cancellation does not interrupt the wait.
Reaped(c) ==
    /\ caller[c].pc = "reaping"
    /\ Return(c)
    /\ UNCHANGED <<task, waiters, cache, circuit>>

-----------------------------------------------------------------------------
(* Shared collections *)

Move(tk, place) == task' = [task EXCEPT ![tk].pc = place]
Collects(tk) == PlatformOf[tk[1]]

\* _collect_with_budget of a task without reserved capacity
TakePlatform(tk) ==
    /\ task[tk].pc = "platform" /\ PlatformFree(Collects(tk))
    /\ Move(tk, "global")
    /\ UNCHANGED <<caller, waiters, cache, circuit>>

TakeGlobal(tk) ==
    /\ task[tk].pc = "global" /\ GlobalFree
    /\ Move(tk, "enter")
    /\ UNCHANGED <<caller, waiters, cache, circuit>>

\* EngagementCrawler._fetch
Begun(tk) == [task EXCEPT ![tk].pc = "protocol", ![tk].n = 1]

Enter(tk) ==
    /\ task[tk].pc = "enter" /\ ~InForce(circuit[Collects(tk)])
    /\ task' = Begun(tk)
    /\ circuit' = [circuit EXCEPT ![Collects(tk)] = Passed(@)]
    /\ UNCHANGED <<caller, waiters, cache>>

EnterCooling(tk) ==
    /\ task[tk].pc = "enter" /\ InForce(circuit[Collects(tk)])
    /\ Move(tk, "cooling")
    /\ circuit' = [circuit EXCEPT ![Collects(tk)] = Asleep(@, tk)]
    /\ UNCHANGED <<caller, waiters, cache>>

WakeTask(tk) ==
    /\ task[tk].pc = "cooling" /\ MayWake(tk, Collects(tk))
    /\ task' = Begun(tk)
    /\ circuit' = [circuit EXCEPT ![Collects(tk)] = Woken(@, tk)]
    /\ UNCHANGED <<caller, waiters, cache>>

\* How long a result is kept: _is_cacheable_result, _cache_ttl_for_result
Cacheable(r) == r.coverage = "complete" \/ (r.coverage = "partial" /\ r.data)
Kept(r) == IF Cacheable(r) \/ r.coverage = "unsupported" THEN KeepsResults ELSE KeepsFailures

\* A task that has ended wakes all who await it, in consecutive callbacks:
\* each of them leaves the count, the first one the task.
Answer(tk) ==
    /\ caller' = [c \in Callers |-> IF Awaits(c, tk) THEN Idle ELSE caller[c]]
    /\ waiters' = [waiters EXCEPT ![tk] = @ - Cardinality({c \in Callers : Awaits(c, tk)})]
    /\ task' = [task EXCEPT ![tk] = NoTask]

\* Each stores the result, which is the same as storing it once.
Finish(tk, r) ==
    /\ Answer(tk)
    /\ circuit' = [circuit EXCEPT ![Collects(tk)] = Recorded(@, r)]
    /\ \/ ~Kept(r) /\ UNCHANGED cache
       \/ Kept(r) /\ \E size \in Sizes : cache' = Stored(cache, tk[1], size)

\* _run_protocol_handler: an attempt returns r.
Retry(tk, r) ==
    /\ TriesAgain(Collects(tk), r, task[tk].n)
    /\ task' = [task EXCEPT ![tk].n = @ + 1]
    /\ UNCHANGED <<caller, waiters, cache, circuit>>

\* It was the last one, or the time for more is over.
GivesUp(tk, r) == TriesAgain(Collects(tk), r, task[tk].n) => Recovering(task[tk].n)

\* The browser takes over; a result it is to enrich is kept.
TryBrowser(tk, r) ==
    /\ GivesUp(tk, r) /\ ShouldUseBrowser(Collects(tk), r)
    /\ task' = [task EXCEPT ![tk].pc = "browser", ![tk].n = 1,
                              ![tk].protocol = IF r.enrich THEN r ELSE NoResult]
    /\ UNCHANGED <<caller, waiters, cache, circuit>>

Settle(tk, r) ==
    /\ GivesUp(tk, r) /\ ~ShouldUseBrowser(Collects(tk), r)
    /\ Finish(tk, r)

Protocol(tk) ==
    /\ task[tk].pc = "protocol"
    /\ \E r \in Results : Retry(tk, r) \/ TryBrowser(tk, r) \/ Settle(tk, r)

\* The handler raises: neither a result nor a failure of the platform.
Raise(tk) ==
    /\ task[tk].pc = "protocol"
    /\ Answer(tk)
    /\ UNCHANGED <<cache, circuit>>

\* _run_browser_fallback: an attempt returns r; an exception is a failure.
BrowserRetry(tk) ==
    /\ \E r \in Results \union {NoResult} :
         ~BrowserSettles(r, task[tk].n, task[tk].protocol.enrich)
    /\ task' = [task EXCEPT ![tk].n = @ + 1]
    /\ UNCHANGED <<caller, waiters, cache, circuit>>

BrowserSettle(tk) ==
    \E r \in Results \union {NoResult} :
      /\ BrowserSettles(r, task[tk].n, task[tk].protocol.enrich)
      /\ Finish(tk, Merged(task[tk].protocol, r))

\* The browser's own deadline is a failure as well.
BrowserTimeout(tk) ==
    /\ Collects(tk) \in TimedPlatforms
    /\ Finish(tk, Merged(task[tk].protocol, NoResult))

Browse(tk) ==
    /\ task[tk].pc = "browser"
    /\ BrowserRetry(tk) \/ BrowserSettle(tk) \/ BrowserTimeout(tk)

-----------------------------------------------------------------------------
(* Time *)

Elapse(p) ==
    /\ InForce(circuit[p])
    /\ circuit' = [circuit EXCEPT ![p].opening = "elapsed"]
    /\ UNCHANGED <<caller, task, waiters, cache>>

Age(k) ==
    /\ Fresh(cache, k)
    /\ cache' = Aged(cache, k)
    /\ UNCHANGED <<caller, task, waiters, circuit>>

-----------------------------------------------------------------------------
Advance(c) ==
    \/ Wake(c) \/ ReservePlatform(c) \/ CollectItem(c) \/ Reaped(c)

Collect(tk) ==
    \/ TakePlatform(tk) \/ TakeGlobal(tk)
    \/ Enter(tk) \/ EnterCooling(tk) \/ WakeTask(tk)
    \/ Protocol(tk) \/ Raise(tk) \/ Browse(tk)

\* What happens by itself, without a new request or a cancellation.
Progress ==
    \/ \E c \in Callers : Advance(c)
    \/ \E tk \in TaskKeys : Collect(tk)
    \/ \E p \in Platforms : Elapse(p)

Next ==
    \/ Progress
    \/ \E c \in Callers : (\E k \in Keys : Request(c, k) \/ StartItem(c, k)) \/ Cancel(c)
    \/ \E k \in Keys : Age(k)

Spec == Init /\ [][Next]_vars

-----------------------------------------------------------------------------
(* Correctness *)

\* The count of a key is the number of callers that await its task, and a task
\* is there exactly as long as somebody awaits it: no collection goes on for
\* nobody, no caller awaits one that somebody else has ended (_fetch_cached
\* counts at its start and in three exits, and tasks outlive their creators).
WaitersCounted ==
    \A tk \in TaskKeys :
      LET W == {c \in Callers : Awaits(c, tk)}
      IN  waiters[tk] = Cardinality(W) /\ (task[tk].pc # "none" <=> W # {})

\* What runs upstream for p: the tasks, and the cancelled ones that have not
\* ended.
Upstream(p) == TasksAt(p, Inside) \union {<<c>> : c \in EndingAt(p, Inside)}

\* What runs upstream for a platform, and in all, is within the limits, also
\* the tasks that run in the capacity of an item and the cancelled ones that
\* have not ended (collection_slot, _collect_with_budget).
CollectionsBounded ==
    /\ \A p \in Platforms : Cardinality(Upstream(p)) <= PlatformLimit[p]
    /\ Cardinality(UNION {Upstream(p) : p \in Platforms}) <= GlobalLimit

\* An opening ends early only by a success of its platform: nobody who slept
\* for an older one removes it (_wait_for_circuit_cooldown compares what it
\* has read before its sleep).
CooldownHonoured ==
    [][\A p \in Platforms :
         InForce(circuit[p]) /\ circuit'[p].opening = "closed" =>
           \E tk \in TasksAt(p, {"protocol", "browser"}) : task'[tk].pc = "none"]_vars

\* A caller, or a task, that goes on by itself: it has what it waits for, or
\* sleeps until a moment that comes.
Proceeds(c) ==
    \/ caller[c].pc = "cooling" /\ (MayWake(c, Asked(c)) \/ InForce(circuit[Asked(c)]))
    \/ caller[c].pc = "platform" /\ PlatformFree(Asked(c))
    \/ caller[c].pc = "global" /\ GlobalFree
    \/ caller[c].pc = "reaping"

Collecting(tk) ==
    \/ task[tk].pc = "platform" /\ PlatformFree(Collects(tk))
    \/ task[tk].pc = "global" /\ GlobalFree
    \/ task[tk].pc = "cooling" /\ (MayWake(tk, Collects(tk)) \/ InForce(circuit[Collects(tk)]))
    \/ task[tk].pc \in {"enter", "protocol", "browser"}

\* Callers that are under way are never all blocked, each waiting for what
\* another holds: an item holds its platform while it waits for the service,
\* and both while it awaits a collection that may wait for capacity itself.
NoStandstill ==
    \/ \A c \in Callers : caller[c].pc = "idle"
    \/ \E c \in Callers : Proceeds(c)
    \/ \E tk \in TaskKeys : Collecting(tk)
=============================================================================
