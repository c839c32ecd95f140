# Verification of the creator engagement service

The service (`src/app`) collects public engagement figures (likes, comments,
plays, ...) of links on Chinese social platforms. A client asks for a few links
in one HTTP request, or submits a batch job and reads its results page by page.
This directory holds TLA+ models of the parts of the service in which several
coroutines, threads or processes meet, and of the walks through paged sources
that change and fail meanwhile; the TLC configurations that check them, and
TLAPS proofs of the facts that matter most.

All paths below are relative to the repository (`src/`); `job_service.py:479`
is line 479 of `app/services/job_service.py`.

## 1. The system

One Python process serves HTTP (FastAPI) on one asyncio event loop. Blocking
calls (SQLite or MongoDB, signatures) run in threads through
`asyncio.to_thread`. A second program owns the logged-in Xiaohongshu browser
session; a third watches it.

| Component | Source | State | Operations | Status |
|---|---|---|---|---|
| Batch jobs | `services/job_service.py`, `api/routers/jobs.py` | live job objects, run tasks, workers, one lock, one semaphore | submit, resume, cancel, get, results, aclose, startup resume | `BatchJobs` |
| Job repositories | `repositories/job_repository.py`, `mongo_job_repository.py` | jobs, items, results | create, update, append, read, recover | as operations of `BatchJobs` |
| Engagement service | `services/engagement_service.py` | result cache, shared collections with waiter counts, platform and global semaphores, rate limiters | collect one, reserve an item of a batch | `ResultCache`, `CachedResults`, `Collections` |
| Crawler, circuit breaker | `crawlers/engagement.py` | failures per platform, open-until, attempts | collect with retries and browser | `Crawler`, `Collections` |
| Proxy pool | `crawlers/proxy_provider.py` | endpoints with in-flight counts, cooldowns and expiry, one fetcher | acquire, success, failure, retire, refill | `ProxyPool`, `ProxyLeases` |
| HTTP client | `crawlers/http_client.py` | lease scope of a collection | request, report, exchange of an unused lease | `ProxyLeases` |
| Browser fallback | `crawlers/browser_fallback.py` | one shared browser, slots, leases | extract, close | its slot and lease in `ProxyLeases`, the comments it returns in `PlatformComments` |
| Douyin visitors | `crawlers/douyin_visitor.py` | visitors bound to an endpoint, one lock | get | `ProxyLeases` |
| Author jobs | `services/author_job_service.py`, `repositories/author_repository.py` | tasks, rows, cursor, `discovery_finished` | submit, cancel, resume, discovery, detail workers, results | `AuthorJobs`; the list of works: `AuthorPages` |
| Status alerts | `services/status_alerts.py`, `feishu_alert.py` | one row per kind of error, with counts and the state of its card | record, dispatch | `StatusAlerts` |
| Xiaohongshu session | `crawlers/xiaohongshu_session.py`, `serve_` and `monitor_xiaohongshu_session.py` | status, browser page, login tasks; the incident file of the monitor | read, observe a login, log in again; sample and report | `SessionOwner`, `SessionMonitor` |
| Collectors | `crawlers/platforms` (about 40 modules) | none | figures, a page of comments | comments: `CommentLists`, `PublisherComments`, `PlatformComments`; figures: not modelled |
| Lists of authors | `crawlers/authors`, `services/author_service.py` | a session, cookies, `author_identities` | a page of an author's works | `AuthorPages` |
| Comments over HTTP | `api/routers/engagement.py`, `fetch_comments` of service and crawler | none | one page, all pages | `CommentPages` |
| WeChat, WeChat Channels | `platforms/wechat*.py`, `wechat_*_bridge.py` | caches in front of other programs | none: both channels are disabled (`engagement_service.py:39`) | not modelled |
| Signatures | `platforms/douyin_abogus*.py` | none | sign a request | not modelled: ports of a third party's functions |
| Configuration, logging, models, scripts | `core`, `models`, `manually_execute_script` | none | settings, one-pass scripts | not modelled |

How they interact. A batch job calls `EngagementService.collect` for each item.
That call looks in the result cache, joins a collection of the same link if one
is under way, and otherwise takes a place in the platform semaphore, the rate
limiter and the global semaphore, waits for the platform's circuit breaker and
asks the crawler. The crawler calls a collector, which sends requests through
the HTTP client; the client leases a proxy for the request or for the whole
collection from the proxy pool, and a collector that is refused may fall back
to a browser, which leases a proxy too. A cancelled job cancels the workers,
their collections and so every lease below them.

What makes it hard. A `CancelledError` can arrive at each `await`, several times,
from three sources (deadline, cancel call, shutdown). A cancelled await of a
repository call does not stop the thread behind it, so a write that its caller
has given up may still land, after later ones. State read before an await is
used after it. The process may stop between any two writes, and the startup
then resumes what it finds. Counts of leases, waiters and slots have to
survive all this.

What makes each component correct:

* Batch jobs: results are a gap-free log without duplicates; progress never
  passes it and agrees with it at rest; a cancelled job stays cancelled; a key
  makes one job; a completed job has everything; every job ends, every call is
  answered, a consumer that was told to stop has everything.
* Result cache: one collection for a link at a time; it is cancelled only when
  nobody waits for it; nobody gets the result of an older request; the byte
  count is the sum of what is cached; what was used last stays longest.
* Slots: never more collections than the limits; no place is lost by a
  cancellation; every waiter is served; no caller holds places in a circle.
* Proxy pool: a slot is held by as many borrowers as it counts, an exclusive
  one by one; no leased slot is removed; one fetcher, and all who wait for it
  are woken whatever happens to it; accounting of leases adds up.
* Circuit breaker: opens after the limit of consecutive failures only, and an
  open circuit lets work through again.
* Author jobs: every discovered row is collected or marked; discovery resumes
  where it stopped; cancel cannot deadlock with resume.
* Alerts: one card per kind of error in half an hour, no error dropped before
  the card of its row came.
* Session: after a refusal nothing is read until a new login was seen; an outage
  puts one card into the chat.
* Comments: a walk that is said to be complete has every comment, and no page
  holds the comments of another place.
* Lists of authors: a walk that came to the end has every work; all of it is of
  the account that has the handle.

## 2. Modules

| Module | What it is |
|---|---|
| `BatchJobs` | the job manager over its repository: state, actions, properties |
| `JobLedger` | what a batch job promises its consumer, as a specification of its own |
| `BatchJobsProofs` | proofs: types, a key makes one job, what `_lock` guards, updates in flight, webhooks |
| `BatchJobsResults` | proofs: progress, completion, the log and the ledger, cancellation, the consumer |
| `ProxyPool` | the pool of proxy endpoints: its state and every operation of it as an operator |
| `ProxyLeases` | collections that borrow from the pool: scopes, requests, browser, Douyin visitors |
| `LeaseTable` | what a pool promises its borrowers, as a specification of its own |
| `ProxyLeasesProofs` | proofs of all properties of `ProxyLeases`, `LeaseTable` included |
| `ResultCache` | the cache of results with its bounds on entries and bytes, as operators |
| `CachedResults` | that cache under any order of lookups, stores and expiries |
| `Crawler` | one collection from the circuit to the browser: verdicts, attempts, circuit |
| `Collections` | callers, shared collections, places, cache and circuit together |
| `CollectionsProofs` | proofs: the counts of waiters, the circuit in force, the limits, no standstill |
| `AuthorJobs` | an author job over its repository |
| `AuthorJobsProofs` | proofs of all properties of `AuthorJobs` |
| `AuthorPages` | the pages of the list of an author's works, for a job or a client |
| `SessionOwner`, `SessionMonitor` | the owner of the Xiaohongshu session; the process that watches it |
| `StatusAlerts` | the outbox of status errors and its dispatcher |
| `ServicesProofs` | proofs of types and property of the owner, the monitor and the outbox |
| `CommentLists` | what all collectors of comments share: windows, cursors, answers, checks |
| `PublisherComments`, `PlatformComments` | the answer of each collector of publishers; of platforms and of the browser |
| `CommentPages` | the walk of the router through the pages of a source |
| `AuthorPagesProofs`, `CommentPagesProofs` | proofs of types and of the properties of both walks |
| `MCJobClients` | two instances of `BatchJobs` side by side: `case` says which of them a behaviour is of; the properties are those of `BatchJobs` |
| `MCBatchJobs`, `MCProxyLeases`, `MCCollections`, `MCAuthorJobs` | instances for TLC: sets, sequences, symmetry |
| `MCServices` | extends the modules of the session, its monitor, the outbox, the lists of works, the pages of comments and the cache, which share no state: `part` says which of them a behaviour is of |

### 2.1 BatchJobs and the code

Between two awaits a coroutine runs alone, so one action is the code from one
await to the next. The variables:

| Variable | Code |
|---|---|
| `repo`, `rows` | the stored job documents; the stored results by sequence number |
| `db` | repository calls in flight. `update_job(job)` in its thread first reads the live object (`StartOp`), then writes (`ApplyUpdate`); `append_result` fails on a taken `(job, sequence)` (`ApplyAppend`) |
| `mem` | the live `StoredJob` shared by run task, workers and `cancel` (`_active_jobs`) |
| `run` | `_run_job` and `_execute_job` of each job: where it awaits, which `except` block it is in, what cancelled it, and whether a cancellation is still to be delivered |
| `wk` | the workers: which item, which await, and whether a first cancellation has used up the `asyncio.shield` of the write task (`bare`) |
| `lock`, `slots` | `_lock`; `_semaphore` |
| `call` | HTTP requests that submit, cancel or resume, and the startup resume (`Boot`) |
| `reader` | a client that follows `next_cursor` |
| `stray` | webhook deliveries that outlive their task behind `asyncio.shield` (line 371) |
| `mode`, `boot` | process up, closing, down, starting; the interrupted jobs still to resume |
| `acked` | history: jobs whose cancellation was answered |

The run task goes through `sem` (waiting for `_semaphore`), `begin` (saving
`running`), `gather`, `cancelling` and `drain` (the first gather, the first
gather after a cancellation, and the second gather in `finally`, lines
476-481), `final` (the last save), and in the handlers `save`, `hook`,
`hookSave`. `Interrupt` and `InterruptGather` deliver a cancellation at each of
these. A worker goes `next`, `collect`, `lock`, `append`, `count`; `dup` is the
duplicate-key error. A cancelled worker in its write is first `bare`; the second
cancellation kills the write.

`Recovered` is `_recover_interrupted_sync` together with
`get_interrupted_jobs`; `BootResume` is one round of `resume_interrupted`.
`Close` and `Closed` are `aclose`; `Crash` is a kill.

Abstractions. A result is its item. Collectors return `ok`, `fail` or `argus`
in any order and at any time. Which item a worker takes next is open, which
covers the per-platform queues of lines 401-423. Costs, durations, names, error
texts and cursors as strings are left out. The repository is one map of
documents: both SQLite and MongoDB apply an update or an append atomically for
a reader. Database errors other than the duplicate key, the steps inside one
MongoDB call, expiry of finished jobs and the in-memory repository (which has
no threads) are not modelled. The startup recovery is one step: nothing
else runs before it.

Two assumptions about clients and threads. A client does not poll results
while its own resume is unanswered (`PollJob`). An abandoned write lands
before the next operation on the same job starts (`Settled`), unless the
constant `LateWrites` is TRUE; the runs about the log of results set it, since
the log must not depend on the order of threads.

### 2.2 JobLedger

`JobLedger` has two variables: the log of results of each job and the set of
completed jobs. A step appends a new item to a log or completes a job whose log
has all items. `BatchJobs` maps `rows` to the log and the stored status
`completed` to the set. `ImplementsLedger` is the whole promise,
`ResultsAreALog` the part about the results. The first is checked under process
stops, late writes and startup resume; under cancel and deadline the code does
not keep it (section 5), so there the second is checked.

### 2.3 ProxyPool, ProxyLeases and LeaseTable

`ProxyPool` has the state of `AsyncDailiProxyPool` (endpoints with their
address, users, age, cooldown and marks; the single fetcher; who waits on the
condition) and its operations as operators on that state. `ProxyLeases` adds
the coroutines that use it. Each task is one collection and has a plan: which
requests it makes, whether it lists an author (a lease, then the browser's
semaphore, `authors/browser.py:55`), falls back to a browser (the semaphore,
then a lease, `browser_fallback.py:91`) or needs a Douyin visitor (a lock that
is held while the visitor is minted, `douyin_visitor.py:58`). A task runs alone
from one await to the next; places of the code between two awaits are one
action. A cancellation may arrive at each await.

The browser of an author task is closed in two steps. `close` first awaits the
responses it is still reading (`authors/browser.py:334`), and only then closes
the browser and gives its place back (342). A task whose page was read waits
there at `closing`, one that was cancelled at `unwinding`; `Closed` and `Unwound` end
the wait, and a cancellation that meets it (`Abandoned`) takes the task away and
leaves its place in `orphans`. Nothing gives that place back. Minting a visitor
asks for the life of the lease twice: in `get`, after which the visitor's `key` is
computed, and again in `open` (58-61), with time passing in between (`Ticking`).
The second one may exchange the lease, so the visitor is kept under the `key` and
has the address of the lease; whoever takes a visitor that is not of its
lease has `Stray` for an identity.

`LeaseTable` is the promise: at most `PoolSize` endpoints take leases, an
endpoint has at most its limit of users, and one that was closed takes no lease
before its users are gone and it is bought anew. `ImplementsTable` maps the pool's endpoints and the scopes of the tasks to it.

Abstractions. Time is an age per endpoint (`fresh`, `short`, `expired`) which a
step of its own advances; an endpoint's errors are counted to a bound of one;
the cost accounting, affinity to an address, direct connections of an account,
requests outside of a scope, the limit of 32 visitors, and the profiles and
guest states of the browser are left out.

### 2.4 ResultCache, Crawler and Collections

`ResultCache` is the cache: store, replace, expire, evict the oldest until
entries and bytes fit. Its operators are used twice: by `Collections`, and by
`CachedResults`, where keys are looked up, stored and expire in any order, with
sizes and limits large enough for several entries. Its history variable `since`
has, for each entry, the keys that were used after it. `Crawler` is `_fetch` and `_run_protocol_handler`: what an answer is
worth, when it is tried again, when the browser is asked, what opens and closes
the circuit. `Collections` has the callers: each asks for a link, joins the
collection of the link if there is one, or starts it; the collection takes a
place of its platform and a global one; a caller may be cancelled at each
await, and the last waiter to leave cancels the collection. A batch item
reserves its places before its budget starts, a direct caller does not.

Abstractions. A result is its verdict and its size. When a collection ends, its
callers get the result in the same step. The rate limiter is part of the wait
for a place. `fetch` and `fetch_many` (which use the global semaphore only), the
places of author requests, affinity and `aclose` are left out.

### 2.5 AuthorJobs

One author job: its tasks over all attempts, the discovery that reads the
author's list page by page and saves works and cursor, the workers that fetch
details, the retry of an attempt, the deadline, the requests `cancel`,
`resume` and `results`, shutdown, crash and restart. Every write may fail
(`MaxFaults` bounds how often). `Stopped` is the end of the `TaskGroup`: a cancellation that meets
it has either outcome.

A page shows one of the lists in `PageWorks`, and perhaps another one when it is
asked for again. A work that was not saved before gets the page and its index for
a sequence (`Position`), and that place may be one which another work has had since
the page was first read. Of works with one sequence MongoDB may return any first,
so `Served` is the set of the rows that a reader may be given. History: `again` says that a
work came with a page that had been saved before, `seen` what the reader has.

Abstractions. A page is a sequence of works. One job, since jobs share
only the gate `_semaphore`; no `submit_batch`, no lists of jobs, no late writes of
abandoned threads. Repeated cursors (`seen_cursors`, `seen_pages`) are part of
`AuthorPages`.

### 2.6 SessionOwner and SessionMonitor

`SessionOwner` has the reads that queue for the lock and wait for their pace
(`read`), the login tasks with their poll of the page (`login`, `loginTask`),
the requests of `/login/refresh` and what they wait for (`refresh`), the
callbacks of responses that name a member (`observing`), and `status`, which
all of them write. `refused` is history: `yes` when a read was refused and no
login was seen since, `overruled` when a callback that saw a login before the
refusal has set the status `ready` after it. A callback may take as long as it
likes, and the pause of a read may end at any time, since line 246 sleeps for a
time computed before (`Send`). Assumed: a page that is navigated breaks the
fetches of before; the status of a response is seen before its body; cookies are
read at once. Left out: the route filter, the length of the pauses,
the signing of requests, the stored browser context.

`SessionMonitor` is one tick of the script at a time, as it is started each
minute:
sample, incident, card, record. A tick may be lost after each of its writes,
the next one begins from the file. Assumed: a sample ends within the
five minutes to the next one, and the chat drops a card with a `uuid` it has
seen.

### 2.7 StatusAlerts

One row per kind of error (`row`), the batch the dispatcher has read
(`batch`), the card on its way (`posting`), and the incidents the chat knows
(`chat`). `fresh` and `owed` are history: what came in the last half hour, and the
kinds with an error that was recorded before the card of its row. The dispatcher posts from the rows it read before,
records the result in a second step, and may be lost in between. An answer may
be lost after the chat has the card; the chat drops a card whose incident it
knows, however old that is, so only the first post tells anything (`Arrive`). Left out: which error an exception is
classified as, failures of the database, the limit of 20 rows per batch.

### 2.8 CommentLists, PublisherComments, PlatformComments, CommentPages

The comments of a work are numbers; a source has `posted` of them and lists them
newest first, or in another order in its hot stream. Each collector is an operator
from a request (page, cursor, number of comments there are) to the set of
answers it may give: it keeps the code's order of requests, the checks of each
answer, what becomes of an error, and the cursor it returns. A source may leave
a page empty and may repeat a position. `CommentPages` adds the crawler
(which answer is replaced by one of the browser, `engagement.py:584`), the
service with its cache, and the router, which walks from page to page until there is no cursor, a
page is not usable, or the limit of 10 000 is reached. While it walks others
post. A walk (`mode`) is of the router, or a client asks for one page by its number.

`_fetch_cached` answers by page and cursor for 120 seconds. Another caller's walk
(`AskOther`) leaves its latest answer there, as the request that it was the
answer to, with the number of comments of that moment (`other`): a page of the walk is
answered as of now, or as the one that is kept (`Answerable`). One answer is kept, of
one other caller; it is replaced at each of its pages, so that each page of a walk
may be answered from another moment. What the walk itself keeps is only asked for
by others. `order` is history: whether the pages taken were of one
moment (`same`), and if not, whether one with a number or an offset was `older` than
the page before it.

`sure` and `doubt` are history too. An answer is `sure` when it has what the source
has at that place, or when one of the code's checks would have noticed that it
has not. `WalkHasAll` promises nothing for a walk in which no check could have
noticed an omission, or in which such an older page was taken, and all comments
of the moment of the first page for the others: which checks a collector
has is what is tested. A page that follows a cursor naming a comment may be of any
moment; the promise includes it.

Abstractions. Comments only: figures (counters) are parsed, not modelled. No
comment is deleted or moved during a walk. Attempts that the crawler repeats
come to one of the same answers. Where a collector does not check that a
cursor advances, its source is taken to advance. `comments_complete` is only
set to False in an answer with figures or for disabled channels, so the
router's test of it (`routers/engagement.py:294`) is not reached.

### 2.9 AuthorPages

The state is that of a `DiscoverySession` (`session`, `tries`, `known` for
`identity_cache`), of the job's document (`position` for `cursor`, `passed` for
`seen_cursors`, `pages` for `seen_pages`, `saved`), and of the world: the works
that are `listed`, who is `holder` of the handle, the account that
`author_identities` has stored for it. An attempt goes `ready`, then for Douyin
`lookup`, `verify` or `search`, `keep`, for Xiaohongshu `search`, then `list`. `Rotate` and
`AttemptFails` close the session and keep `known`; `Stop` is an error that is not tried
again, a cancellation or a lost process; `ResumeList` is a resumed job with a new
session. `SaveListPage` is `_discover` with `_save_page`; a stop between the rows
and the cursor only saves more, and is a case of `AuthorJobs`. `ReturnPage` is
the endpoint for one page, whose client asks for the next one.

Each list has its checks: Bilibili knows how many videos and articles there
are, Weibo compares a page with the one before (`last_page_ids`), Douyin's
cursor names its author, the others ask that the position moves. A browser may
have captured the answer earlier (`captured`). `unsure` is history, as `doubt`
above.

Assumed of the lists: they are newest first, nothing is deleted, and `has_more` is
true; rows may be missing from a page, or be those of the page before, and a
position may repeat. The links below a page of Sina's blogs may be missing; then
no check notices. Left out: fields and details of a work, leases and
visitors of a session, who is behind a handle at Kuaishou.

## 3. What TLC checks

| Run | Bounds | Question |
|---|---|---|
| `jobs_clients` (two instances side by side) | 1 job with webhook and reader, 3 items, 1 worker, pages of 2, 2 callers, 4 calls, deadline, 2 webhook attempts | `ReaderMissesNothing`, `WebhookSettled` |
| | 1 job, 3 items, 1 worker, 1 caller, 5 calls that submit, cancel and resume | After an answered cancellation nothing runs and nothing is stored (`AckedIsFrozen`), and the progress agrees with the results (`ProgressAgrees`). |
| | both | types (`TypeOK`) |
| `jobs_restart` | 2 jobs with one key, 3 items of all outcomes, 2 workers, 2 callers, 2 stops, late writes | `OneJobPerKey`, `CompletedHasAll`, `ImplementsLedger` over crashes, shutdowns and startup resumes. |
| `jobs_interrupts` | 1 job with webhook, 2 items, 2 workers, 2 callers, 3 calls, deadline, late writes | `Exclusive` (one write or call at a time under `_lock`, no worker outlives its run task, no second run task), `ProgressNotAhead`, `ResultsAreALog` under each overlap of cancel, resume, deadline and delivery. |
| `jobs_live` | 2 jobs, 1 slot, 2 workers, 2 callers, 2 calls, deadline, 1 stop | `EveryJobEnds`, `EveryCallAnswered`. |
| `jobs_cancel_status` | 1 job, 1 item, 2 calls | violated: `AckedIsCancelled` |
| `jobs_cancel_progress` | 2 workers, 2 items, 2 calls | violated: `ProgressAgrees` |
| `jobs_cancel_cursor` | 1 item, 2 calls, a reader | violated: `ReaderMissesNothing` |
| `proxies` | 2 endpoints, 1 browser; 3 tasks: a plain, an author and a fallback collection, with every kind of failure; or 2 Douyin collections, with failures of the transport; with and without lease optimization, cancellations | `HoldingsExact` (every lease, lock and place has its holder, and is counted once; places that a cancelled close has leaked are counted as such), `ExclusiveAlone`, `NoLostWakeup`, `NoStandstill`, `VisitorFiled`, `IdentityStable`, `ImplementsTable`, types. |
| `collections` | 2 links on 2 platforms (limits 1 and 2), 2 global places; 1 direct caller, 2 batch items; a cache of 1 entry; a circuit that opens after 2 failures; 1 attempt (2 on one platform), 2 browser attempts; cancellations | `WaitersCounted`, `CollectionsBounded`, `NoStandstill`, `CooldownHonoured`, types. |
| `authors` | 2 pages that share a work, the first of which may show either of 2 works; 2 workers, 1 resume, 1 fault, a reader of one result at a time | `CompletedMeansAll`, `ReaderHasAll`, `WorksKept`, `OpenHasTask`, `CancelledIsStopped`. |
| `authors_results` | as `authors` | violated: `NoEarlyResult` |
| `services` (parts side by side) | session: 2 reads, 2 refreshes, 2 logins, 2 callbacks; monitor: 2 incidents | `NoReadAfterRefusal`, `OneCardPerOutage` |
| | outbox: 2 kinds of errors, 4 cards | `ToldOnce` |
| | lists of works: 7 platforms, pages of 2, up to 4 works, 2 holders of a handle, 1 resume | `ListHasAll`, `OneAuthor` |
| | comments: every source, pages of 2, up to 5 comments, 5 pages in place of the 10 000, 1 answer of another caller kept | `WalkHasAll`, `InPlace` |
| | cache: 4 results, at most 3 entries and 5 bytes, sizes 1, 2, 3 and 6 | `CacheSized` (the bytes are the sum of what is kept, within the limits; what was used last is evicted last) |
| | all parts | `AllTypeOK` |

Why these bounds are enough to be of use. Two items and two workers are the
least that give two concurrent writes, a gap and a duplicate; a third item
lets the Argus limit of two be reached with an item left. Three calls are
submit and two more that overlap; a call beyond that starts from a state like
an earlier one. With two calls `jobs_live` has two submissions at once, or one
and a resume. Two stops let a resumed job be interrupted again. One slot
for two jobs makes one wait. The sequence numbers range up to the number of
items, one more than a correct run uses, so that an overrun would show.

The pool has two endpoints so that one can be drained while the other serves,
and three borrowers so that one waits. Of these at most two may queue for
anything but a lease (`Queueing`): with more of them than endpoints,
`NoStandstill` fails (section 5). With one browser, one cancelled close takes the
last place; the tasks that do not need a browser go on.
Four results of which three fit by number, and by bytes between one and three,
let either limit bind without the other, an entry be evicted from the middle of
the order of use, and several at once; one is larger than the whole cache.
The collections run has one link per platform, so that a platform's circuit and
the cache are shared by callers of one link only; the two callers of one link are
the join, the third is the competitor for the global places. An author list of
two pages with a shared work has the page boundary, the duplicate and the
checkpoint between, and shows a new work at an old place when its first page is
read again; two workers have one claim race.

Two reads are the one that is refused and the one behind it in the queue; two
logins are the awaited task and the orphan. Two incidents show a second outage
after the first; four cards are a first card and its successor for both kinds.
Five comments are three pages, so a walk has a first, a middle and a last page
and comments can be posted in between, also between the moments of two cached
pages; with five pages allowed a walk can also run past its end. Four works are two pages, of which either may be
published during the walk, so that the second page moves; two holders are the one
who was stored and the one who has the handle now. Who has it first is fixed, which loses nothing,
for the names are interchangeable.

Deadlock checking is off in the `jobs` runs only: with no call left to make, everything ended and no
stop left, the service rightly stops. That it does not stop earlier is what
`jobs_live` checks.

Fairness. `FairSpec` is weak fairness of `Service`, that is of the service as
a whole: as long as something can run, something runs. Threads finish,
collectors return (each has a timeout, line 528), webhook attempts are
bounded, and the process is restarted (`Recover` is part of `Service`). No
fairness is assumed of clients, deadlines and crashes. Since every part of
`Service` uses up bounded work, weak fairness of the whole is enough. The
other modules state no fairness: their properties are about safety, and
`NoStandstill` says that somebody can always move. It names the steps
(`Proceeds` and `Collecting` of `Collections`, the places of `ProxyLeases`)
rather than using `ENABLED`, so that it can be proved. In `Collections` a caller
that sleeps for a circuit counts only if that very circuit is open or has just
elapsed.

## 4. What is proved

TLAPS checks the proofs about batch jobs for every number of jobs, items, workers and callers.

* `TypeCorrect` (`BatchJobsProofs`): `Spec => []TypeOK`. Every action has its
  case; the helper lemmas say that the updates of records and functions stay
  in their types. Assumptions: `SizesAssumption` (the set of items is finite,
  limits are positive) and `NamesAssumption` (the names of jobs, workers and
  calls do not collide).
* `KeysUnique` (`BatchJobsProofs`): `Spec => []OneJobPerKey`. `OneJobPerKey` is
  not inductive: an update of a job without a document would create one
  next to the holder of its key. The invariant it needs is `KnownJobs`
  (theorem `JobsKnown`): every live object, run task, worker, write in flight,
  detached webhook, call past its lookup and startup resume is of a stored
  job. Then only `CreateJob` stores a new key, and it looks for holders in the
  same step.
* `LockExclusive` (`BatchJobsProofs`): `Spec => []Exclusive`. `Exclusive` says four
  things at once, because each needs the others: a worker between its append
  and its counters holds `_lock`; a call past its `Acquire` holds it; workers
  exist only while their run task is in one of its gathers; a call about to
  create a run task finds none. The step that needs more is the duplicate-key
  error: it is raised in the worker that awaits the append, so the invariant
  (`LockInv`, theorem `LockAgrees`) adds `Awaited`: an append that is still
  awaited belongs to a worker in its append, and to no other. A cancellation
  that kills a write both gives the lock back and abandons the append, which
  keeps `Awaited`. `KnownJobs` is used for a new job: it has no run task yet.
* `ProgressBehindResults`, `CompletedIsComplete` (`BatchJobsResults`):
  `Spec => []ProgressNotAhead` and `Spec => []CompletedHasAll`. Neither is
  inductive, since a document reaches the store long after it was read from
  memory, and an append that its caller gave up lands at any later moment, under
  another run. So `ResultsInv` (theorem `ResultsAgree`) says of every holder of a
  document (memory, store, updates in flight, calls, detached webhooks) that what
  it counts is stored (`Sound`), and of every append in flight what it may still
  do (`OpSound`): its predecessors are stored, and either its place is taken or
  its item has no result yet. Of a run it says that each item is left, or with
  one worker, or among the counted results (`Shares`), that a worker in its
  append has it in flight or applied (`Appends`), and that an item which got
  lost on the way is paid for by a stop, an exception or a cancellation
  (`Planned`); the run that completes has none of the three. With `LockInv` only
  one worker appends at a time, at the number `mem.completed`. That the number
  is one of the constant `Seqs` is a pigeonhole argument (`RoomForResult`): the
  results are distinct items.
* `LogImplemented` (`BatchJobsResults`): `Spec => ResultsAreALog`. Only
  `ApplyAppend` writes results, and by `OpSound` what it writes is the next
  number with a new item, which is `Ledger!Append`.
* `LedgerImplemented` (`BatchJobsResults`): `Spec => ImplementsLedger`, assuming
  `SubmitOnly`: clients submit and read, and there is no deadline, as for
  `jobs_restart`; process stops, late writes and startup resumes are unrestricted. With a
  cancel call, a deadline or a client's resume a completion can be taken back
  (section 5), so the assumption is needed. A completion is complete by
  `ResultsInv`; that it lasts is `LastingInv` (theorem `CompletionLasts`). A
  shutdown leaves updates to threads that apply them after the object has
  changed, so `Lasts` compares each update that was started with the live object: one
  is completed if the other is. It is inductive because an object turns completed
  only in `Gathered`, when nothing is in flight for the job (`RunClean`: before its
  first interruption a run awaits every update), and because a run task is created
  only for a job that has not run since the start of the process (`Unstarted`),
  where again nothing is in flight but the update of the call that starts it.
* `UpdatesOwned` (`BatchJobsProofs`): `Spec => []OwnersInv`, without a limit. Whoever goes on
  after `~Waiting(p)` has no update in flight any more: an update that is awaited
  belongs to a process at the await of an update of that job (`Awaits`), and has
  not read the live object before a thread started it.

Four more hold under limits only, and section 5 has the behaviours outside of them.
The limits are hypotheses of the theorems, on the constants:

* All: the process does not stop, and a write that was given up lands before the
  next operation on its job starts (`LateWrites` is false).
* `NoCancels`: besides, no cancel call.
* `OneInterruption`: besides, a run that may be interrupted (`Causes`: a deadline, a
  cancel call) has one worker and one source of interruptions: a deadline, or
  one caller. Jobs that nothing interrupts may have any number of workers.
* `EndsOnce`: both.

The job of `jobs_clients` that is cancelled is an instance of `OneInterruption`, the one with
a deadline of all three.

What they say, for any number of jobs and items:

* `WebhookOutcome` (`BatchJobsProofs`, under `NoCancels`): `Spec => []WebhookSettled`. The outcome is
  written to the live object and then stored, while older updates of the same
  object may still be in flight. So `HookInv` follows what the task still owes
  (`Owes`, `Sends`): at the await of its last update everything that may reach the store
  has an outcome, or the update that brings it has not started.
* `ProgressExact` (`BatchJobsResults`, under `OneInterruption`): `Spec => []ProgressAgrees`. `Sound`
  bounds the progress from above; exactness needs the bound from below, for every
  document that the store may still get. `OnceInv` says it with the results
  themselves: what is counted is not the number of a stored result, unless the worker has
  stored one and not counted it (`Landed`), or not stored the count yet
  (`Counting`). It holds because a write task survives the one cancellation
  (`RunOnce`: after it a worker waits `bare`, and a second one would kill it),
  and because no update is in flight beside an append (`OpsOnce`).
* `CancellationHolds` (`BatchJobsResults`, under `OneInterruption`): `Spec => AckedIsFrozen`, step by step.
  `AckedInv`: the job has no task, is stored, and no call is about to launch it.
* `ReaderSeesAll` (`BatchJobsResults`, under `EndsOnce`): `Spec => []ReaderMissesNothing`. `ReaderInv` has
  three parts. Whoever can read that a job has ended, in memory, in the store or
  in an update on its way, reads it of a run past its last worker (`JobEnds`);
  before a call launches a run nothing in flight can say so any more
  (`CallEnds`); and a consumer that has read it reads of a job that gets no more
  results until a resume, whose progress is exact (`ReadsEnd`, `Frozen`).

All properties of the pool and its borrowers are theorems (`ProxyLeasesProofs`),
for every finite set of tasks and endpoints and all limits (`PoolAssumption`,
`LeasesAssumption`). The lemmas are in two layers: first the operations of the
pool by themselves (what retiring, draining and forgetting may close, `Closes`;
that the books stay right when a lease is given or comes back, `Book`), then one
lemma per action. The inductive invariant has these parts:

* `Types`, `SessionsPlaced`: the types of the variables.
* `Booked`: `in_flight` is the number of tasks with that lease, what is held has
  its slot, an exclusive lease is alone, and at most `PoolSize` endpoints take
  leases. A return is by address, so it is right only while the count is exact.
* `Waking`: the pool believes in a buyer exactly while there is one, and who
  waits has a buyer or `PoolSize` held endpoints to wait for.
* `Own`: at each place of its code a task has a lease or none (`LeaseAt`), has or
  has not the visitors' lock and the browser (`LocksAt`), has a role of its plan
  (`RoleAt`), and its visitor is of its lease, which it keeps, or came from a key that
  was not of its lease (`VisitorAt`).
* `Room`: the places of the browsers in use and those that cancelled closes have
  leaked are within `BrowserSlots`: a task that leaks one had it.

`TypeCorrect`, `HoldingsAreExact`, `ExclusiveIsAlone`, `NoWakeupIsLost` and
`OneBuyer` follow from it at once. `VisitorsAreFiled` (`Spec => []VisitorFiled`)
assumes `RequestNeed = Short`, that is `REQUEST_TIMEOUT_SECONDS` of at most 30: above
that the property is false (section 5). It makes one exception: a visitor which
`open` minted on another lease than the one it is kept for (section 5).
`IdentityIsStable` and `PoolImplementsTable` are about steps and come out of the
same lemmas. `NobodyStandsStill` assumes that no plan has more `Queueing` tasks
than there are endpoints, and the property itself that a place of the browsers is left (`orphans
< BrowserSlots`), for whoever needs a browser after the last one was leaked stands
still for good; the argument counts: were nobody able to move, each of
`PoolSize` endpoints would be held by a task that queues for the lock or the browser,
which would be all the tasks there are to hold these two, and one that holds
them is not in the queue.

The proofs about author jobs (`AuthorJobsProofs`) hold for every finite set of
works, every number of pages and whatever lists each of these may show, and any number of workers, resumes and faults
(`AuthorAssumption`). They cover every property of the run `authors`, the types and `CheckpointWhole`:

* `TypeCorrect`, `CompletedIsWhole`, `ReaderComplete`, `CheckpointsWhole`,
  `ResultsKept`, `OpenIsTaken`, `CancelledRests`.

They come from one inductive invariant, `IInv`. Its parts, each needed by a
step that the properties alone do not survive:

* `Cursors`: the cursor and the end of the list that the task holds are the
  stored ones, and discovery runs only while pages are left. Otherwise a page
  would be skipped or repeated.
* `Walked`: of every page before the stored cursor one of its lists is saved whole, so it is of each page
  before a saved work, and nothing is saved beyond the next page.
  `CompletedMeansAll` needs the first when no page is left, the reader the
  second, a page that is saved twice the third.
* `Claimed`: a worker's work is saved, so that its details find their row.
* `Judged`: an end that is being written has its verdict, and a job with a task
  is open.
* `Stops`: who stops a task waits for it, and who writes about a job has
  stopped its task. A late write would break `CancelledIsStopped`.
* `Kept`: the rows have no date of expiry once an attempt has taken it off.
* `Completed`: a verdict of completed, written or about to be, means that every
  saved work is complete.
* `Placed`: a reader stands at the beginning or at a saved work, two works are at
  one place only when one of them came with a page that was saved again, and the
  reader has what lies before it, those works excepted. The exception is the code's
  (section 5).

About collections (`CollectionsProofs`), for any finite set of callers and any
keys, platforms, limits and results:

* `Counted`: `Spec => []WaitersCounted`. The property is inductive once the
  shapes of callers, tasks and counts are known and whoever is under way has
  asked for a key (`Named`). A join adds one caller to those who await and one to the count;
  who leaves others behind takes one of each; the last one, and an answer, leave
  neither callers nor a task. `Leave` and `Abandon` are told apart by the count,
  so the proof needs the count exact, not as a bound.
* `Honoured`: `Spec => CooldownHonoured`, step by step: who wakes is either not
  among the sleepers of the opening in force, or that opening has elapsed; an
  outcome that closes a circuit is that of a collection of its platform, which
  ends in the same step.
* `Bounded`: `Spec => []CollectionsBounded`. The semaphores bound their users, but
  not all of what runs upstream has a place of its own: the collection of a batch
  item runs in the item's, also after another caller joined and the item was
  cancelled. `Users` says who holds places, `Capacity` that these are within the
  limits, and `Reservations` which collections run in whose place. Each action
  moves a place or admits one more where one is free (`Moved`, `Admits`). Then
  `UpstreamsFit` maps what runs upstream one to one to users: a collection
  to itself, or to an item that awaits it (`Stands`), which exists by `Counted`.
* `NeverStandsStill`: `Spec => []NoStandstill`. If nobody proceeds, a caller awaits
  or queues; what it awaits is a collection that queues, which by `Reservations` is
  not one of an item; what is full is held by items, and each of those awaits a
  collection of an item, which proceeds.

Three services (`ServicesProofs`), for any number of the things that meet, each
with its types (`OwnerTyped`, `MonitorTyped`, `OutboxTyped`):

* `RefusalStops`: `OwnerSpec => NoReadAfterRefusal`. A read is sent by `Send` only,
  which looks at the status; the invariant is that a refusal keeps the status
  from `ready` (`Stopped`), through every step of reads, login tasks, refreshes and
  callbacks but one: a callback that saw a login before the refusal. That one is
  the exception of the property (`overruled`, section 5).
* `OutageToldOnce`: `MonitorSpec => []OneCardPerOutage`: what
  the chat was told is the open incident (`ToldIsOpen`), and a card is posted for
  an open incident only (`PostsOpen`).
* `EachToldOnce`: `OutboxSpec => []ToldOnce`. The rows have
  incidents of their own (`Distinct`); what the dispatcher has read and not
  settled is still there, unsent (`Held`), and in one place (`Apart`); a recent
  card is the one of its row (`Current`); an error that was recorded before the
  card of its row is in an unsent row, whose incident the chat does not know
  (`Owed`); a row cools down only once it was sent (`Cooling`).

The two walks, for any size of a page, number of comments, works, pages and
restarts (`Bounds`: the size is positive; no owner is called `None`):

* `WalkIsWhole`, `PagesInPlace`, `PagesTyped` (`CommentPagesProofs`). Each of the
  collectors has a lemma of its own: its answers are `Sound`, whatever the source does.
  That is: the next request is one that the collector can serve (`Fits`), it begins at the
  end of this page or before, and an answer that is `sure` has all comments from
  this request's place to the next one's (`Whole`), or up to the end if there is
  no next one. The arithmetic of windows is in four lemmas about pages, places
  and cursors. The walk then keeps `Collected`: what lies before the place of the next
  request was collected, as that place was when the last page was taken, unless there
  was a `doubt` or an `older` page. An answer, fresh or kept, of a later moment begins at
  that place or before it (`StillBehind`); one of an earlier moment does so where the cursor
  names a comment. Two things need care.
  Comments posted during the walk move every page, so `Exactly` claims that a cursor
  is at the place of its page only while nobody posts; and the first page of
  Geekpark and Weibo decides about the others, so a later page asked for by itself
  is excepted (`Begun`, `FirstOne`).
* `ListIsWhole`, `WorksOfOneAuthor`, `ListsTyped` (`AuthorPagesProofs`). A client or a
  resumed job may return to any cursor it was ever given, so the invariant is
  about all of them: each has only saved works behind it (`AllBehind`), and the
  lists of a platform follow one another (`Earlier`, `AtEnd`). A page that equals
  the one before is of this list (`Rowed`), or Weibo's check would end a walk that
  is not over. Who the session takes for the author has had the handle since it
  began (`Known`), and what is saved of a Douyin list is of the author that its
  cursor names (`OneList`).

Left to TLC:

* Liveness: `EveryJobEnds`, `EveryCallAnswered` (fairness is beyond the prover).
* `CacheSized`, and so the types of `Collections`: `Total` is a fold over the
  entries and eviction drops a prefix, so what they return is an induction over
  sequences, which the prover cannot do. `services` therefore has limits of the
  cache that bind one by one and together.

## 5. What the checks found

Four runs end in a violation of what the documentation or a comment says; each trace was
compared with the code.

* `jobs_cancel_status`: `_execute_job` sets the status to `running` (line 397)
  without looking at `cancel_requested`. A job cancelled while it leaves the
  queue, whose cancellation was answered, is stored as failed (line 364) or
  stays running; after a restart it is then even resumed.
* `jobs_cancel_progress`: the `finally` of the gather (line 479) cancels
  workers a second time; the write task of the slower one dies between its
  result and its counter (line 464), so the progress misses a result.
* `jobs_cancel_cursor`: `cancel` stores `cancelled` before the workers have
  stopped (line 299); a consumer ends before the last result is stored.
* `authors_results`: `results` asks whether an unfinished work comes first and
  then reads the rows, in two queries (`author_repository.py:217`). A page that
  is saved between the two is handed out without details and the cursor moves
  past it.

Other behaviours seen in traces, which the passing runs leave out by their
bounds, each named there:

* `cancel` decides on a status read before an await (line 287) and can store
  `cancelled` over `completed`.
* A cancellation that arrives while the completion webhook is sent makes the
  handler send it again (line 371).
* A second concurrent `cancel` interrupts the save of the handler (lines 359,
  374): the job can stay `running` without a task until the next start. For
  this reason `jobs_live` makes no cancel calls.
* A deadline that fires during the last save turns a stored `completed` into
  `failed` (line 506). For this reason `jobs_restart` has no deadline.
* `resume` that read `running` just before the job ended queues a completed
  job again (lines 199-202).
* A crash between the end of a job and its webhook status leaves the webhook
  `pending` for good. For this reason the job with a deadline has no stops in `jobs_clients`.

Behaviours of the pool and the collections seen in the same way:

* A cancellation reaches the close of an author browser while it
  awaits the pending responses (`authors/browser.py:334`). The lines below are skipped:
  the browser stays open, though its lease was handed back, and its place of
  `BROWSER_MAX_CONCURRENCY` is taken until the process ends. After as many of these as
  there are places, every author list, detail and fallback that needs a browser
  waits for one in vain. `HoldingsExact` counts such places as `orphans`, and
  `NoStandstill` promises nothing once all of them are.
* With fewer endpoints than collections of the kinds that queue, waits close
  circles. Two author lists hold both endpoints and wait for the browser
  (`authors/browser.py:55`) while a fallback holds the browser and waits for a
  lease (`browser_fallback.py:91`); or a Douyin task holds the lock of the
  visitors and waits for a lease, whose holders wait for that lock
  (`douyin_visitor.py:58`). The defaults are safe (eight collections, eight
  endpoints); `DEPLOYMENT.md:82-85` gives limits under which they can occur. Only
  the timeouts of 90 and 120 seconds end them.
* With `REQUEST_TIMEOUT_SECONDS` above 30 a lease that is exchanged between the
  minting of a visitor and its first use breaks `VisitorFiled`.
* `get` asks for 70 seconds of life, computes the key of the
  visitor to come (`douyin_visitor.py:72-75`), and `open` asks for 70 seconds again
  (`authors/browser.py:60`). When the lease has just fallen below, it is exchanged,
  and the visitor of the new endpoint is kept under the old one. The
  collection that minted it is right; a later one that has the old
  endpoint gets it.
* A result larger than the whole cache empties it: everything else is evicted
  before it goes itself (`engagement_service.py:623-628`).
* `docs/API.md:417` says that waiting for the cooldown is not part of the budget of an item.
  `_fetch` waits again inside the budget when the circuit opens while the item
  queues (`engagement.py:275`). Everybody who slept proceeds at once, and one who
  slept for an older opening proceeds while a newer one is in force.
* A partial result with comments is replaced by a failed result of the browser
  (`engagement_service.py:639`).

And of author jobs:

* A row saved between a worker's empty claim and its look at
  `discovery_finished` stays pending; the job ends partial
  (`author_job_service.py:411`).
* When the write of the end fails twice the job stays running without a task
  until the next start (lines 321-323). `OpenHasTask` makes this exception.
* The process is lost after a page was saved and before its cursor
  was; the page is read again and shows another work, which gets the same
  sequence as the one before (`author_repository.py:116`). A reader that was
  past this place never gets it.
  `ReaderHasAll` makes this exception.

Of the session, its monitor and the outbox:

* The handler of a failed or timed out `login()` sets `transport_stopped` or
  `reauthorization_required` over a `ready` that a callback set meanwhile
  (`xiaohongshu_session.py:203-207`). `refresh_login` looks at the status before
  it awaits the old login, so a login may restart although the session is
  ready; two refreshes at once leave a login task that nobody holds. The status
  may then stay at `awaiting_scan`. `errors` is not reset by a login: the first
  failure after it stops the reads again. All of this stops too much, never too
  little.
* `observe_login` sets `ready` after two awaits (`xiaohongshu_session.py:151`),
  over a refusal that came in between; the next read in the queue is sent. The
  15 seconds of pause after a login do not exclude it: the pause is computed before
  the sleep (246), and the awaits have no bound. `NoReadAfterRefusal` makes this exception.
* An error that is merged into a row whose card is in the chat already, though
  nobody has written that down, more than 30 minutes after that card is not told:
  the chat drops the card that is posted again, and the row is marked sent
  (`status_alerts.py:93-94`, `118`). `ToldOnce` promises a card only to the errors
  that were recorded before the card of their row.

Of comments; `WalkHasAll` makes an exception where no check can notice, and for older
pages from the cache, the first of these:

* The first page of a walk is fresh, the second one comes from
  the cache, where another caller left it before somebody commented
  (`engagement_service.py:565`). With a numbered page or an offset a comment falls
  between the two, and the walk is answered as complete.
* An empty or erroneous body with status 200 ends a Douyin walk, which counts as
  complete though the capability is `all_public_pages`
  (`docs/COMMENTS_API_IO.md:112`).
* The browser returns the comments of the first page whatever page was asked
  for (Haokan, Bilibili, Xiaohongshu), with the next page as cursor: such a
  walk may go on up to the 10 000 pages. Its cursor is later read as one of the
  API by Kuaishou and Xiaohongshu.
* Bilibili's older interface has another order, and its page number is later
  used as an offset of the newer one.
* A malformed page of Haokan, and an empty page of Haokan or of Autohome's forum, keeps
  the walk going.
* Comments that are deleted during a walk by offset
  make it skip others. Some sources end a walk by the length of a page.

Of the lists of works:

* An author who publishes exactly a page's worth of works between two pages
  makes an honest page look like the one before: `seen_pages`
  (`author_job_service.py:446`) and Weibo's `last_page_ids` then stop the walk.
* A cursor of Xiaohongshu does not name the account: a job that is resumed
  after the number changed hands goes on in the list of the new holder.
  `OneAuthor` promises one account per list for Douyin only.
* Sina's blogs are the only list whose coverage may be called `complete`
  (`authors/sina_blog.py:72`); it trusts the links below the page.

## 6. Plan

Done: batch jobs and their ledger, with proofs of types, keys, lock, results and
refinement; the proxy pool and its borrowers with all of theirs; the cache; collections
and circuit with proofs of counts, limits, cooldown and progress; author jobs,
the session, its monitor and the outbox with theirs; the walks through comments
and lists of works with theirs. Left:

1. Failures of the database in `BatchJobs` (`job_service.py:166`).
2. `submit_batch` of author jobs with its idempotency.

Not modelled, and why:

* WeChat and WeChat Channels (`platforms/wechat.py`, `wechat_channels.py` and
  their bridges, 2369 lines): `DISABLED_CHANNELS` (`engagement_service.py:39-41`)
  refuses both before any of it is reached.
* Request signatures: ports of a third party's functions, nothing in the
  repository says what they should return but examples.
* The figures of a work and the fields of comments and works: parsing of one
  response each, without a second step that could go wrong.
* The steps inside one MongoDB call (`mongo_job_repository.py:181`) and the
  expiry of finished jobs (`mongo_job_repository.py:62`).
* Configuration, models, logging; scripts that an operator runs once.
