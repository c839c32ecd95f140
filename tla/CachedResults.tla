---------------------------- MODULE CachedResults ----------------------------
(***************************************************************************)
(* The cache of results under any order of its uses: callers that look a   *)
(* result up, collections that end and store one, also for a key that has  *)
(* one already (each waiter stores, and a reserved caller's collection of  *)
(* the same key runs beside the others'), and results that expire.         *)
(***************************************************************************)
EXTENDS ResultCache, FiniteSets

VARIABLES
    results,     \* the cache
    since        \* of every key that has an entry: the others used after it

cacheVars == <<results, since>>

Cached(cache) == {cache.entries[n].key : n \in DOMAIN cache.entries}

ResultsInit == results = EmptyCache /\ since = [k \in Keys |-> {}]

\* k was used; what has no entry any more is forgotten.
Noted(k) ==
    since' = [j \in Keys |-> IF j = k \/ j \notin Cached(results') THEN {}
                             ELSE (since[j] \union {k}) \intersect Cached(results')]

\* _fetch_cached, up to its await
LookUp(k) ==
    LET cache == Purged(results)
    IN  /\ results' = IF Fresh(cache, k) THEN Touched(cache, k) ELSE cache
        /\ IF Fresh(cache, k) THEN Noted(k)
           ELSE since' = [j \in Keys |-> IF j \in Cached(cache)
                                         THEN since[j] \intersect Cached(cache) ELSE {}]

\* ... and behind it, for a result that is kept
StoreNew(k, size) == results' = Stored(results, k, size) /\ Noted(k)

Expire(k) ==
    /\ Fresh(results, k)
    /\ results' = Aged(results, k) /\ UNCHANGED since

ResultsNext ==
    \E k \in Keys : LookUp(k) \/ Expire(k) \/ \E size \in Sizes : StoreNew(k, size)

ResultsSpec == ResultsInit /\ [][ResultsNext]_cacheVars

-----------------------------------------------------------------------------
(* Correctness *)

\* The byte count is that of the entries, within both limits, and no key has
\* two entries.
Accounted ==
    /\ results.bytes = Total(results.entries) /\ results.bytes <= MaxBytes
    /\ Len(results.entries) <= MaxEntries
    /\ Cardinality(Cached(results)) = Len(results.entries)

\* The results of the given keys, and one of this size.
TooMuch(keys, size) ==
    LET kept == SelectSeq(results.entries, LAMBDA e : e.key \in keys)
    IN  Len(kept) + 1 > MaxEntries \/ Total(kept) + size > MaxBytes

\* A result that has not expired leaves the cache only for a new one with which,
\* and with the results that were used after it, it has no room any more.
RecentKept ==
    \A k \in Keys :
        Fresh(results, k) /\ k \notin Cached(results') =>
            \E j \in Keys, size \in Sizes :
                StoreNew(j, size) /\ TooMuch((since[k] \union {k}) \ {j}, size)

\* However often a result is replaced, used again, expires (also behind one that
\* does not) or is evicted, the cache counts right and stays within its limits,
\* and the least recently used results go first, none of them needlessly
\* (engagement_service.py:567, :622-628).
CacheSized == [][Accounted' /\ RecentKept]_cacheVars
=============================================================================
