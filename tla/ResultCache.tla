----------------------------- MODULE ResultCache -----------------------------
(***************************************************************************)
(* The cache of collected results of EngagementService                     *)
(* (app/services/engagement_service.py, _fetch_cached): the entries in the *)
(* order of their use, the oldest first, and the byte count the service    *)
(* keeps beside them.                                                      *)
(***************************************************************************)
EXTENDS Naturals, Sequences, SequencesExt

CONSTANTS
    Keys,         \* what is collected: operation, platform, URL, page, cursor
    MaxEntries,   \* cache_max_entries
    MaxBytes,     \* cache_max_bytes
    Sizes         \* how large a result may be

ASSUME CacheAssumption ==
    /\ MaxEntries \in Nat \ {0} /\ MaxBytes \in Nat \ {0}
    /\ Sizes \subseteq Nat

Entries == [key : Keys, size : Sizes, fresh : BOOLEAN]

\* A cache: its entries and the bytes they are said to have.
EmptyCache == [entries |-> <<>>, bytes |-> 0]

Total(entries) == FoldLeft(LAMBDA sum, e : sum + e.size, 0, entries)

\* The first n entries are dropped, and their bytes.
DropFirst(cache, n) ==
    [entries |-> SubSeq(cache.entries, n + 1, Len(cache.entries)),
     bytes |-> cache.bytes - Total(SubSeq(cache.entries, 1, n))]

Least(S) == CHOOSE n \in S : \A m \in S : n <= m

\* Expired entries go, from the oldest one up to the first fresh one: an
\* expired entry behind it stays.
Purged(cache) ==
    DropFirst(cache, Least({n \in 0 .. Len(cache.entries) :
        n = Len(cache.entries) \/ cache.entries[n + 1].fresh}))

Fresh(cache, k) ==
    \E n \in DOMAIN cache.entries :
        cache.entries[n].key = k /\ cache.entries[n].fresh

Of(cache, k) == SelectSeq(cache.entries, LAMBDA e : e.key = k)
Others(cache, k) == SelectSeq(cache.entries, LAMBDA e : e.key # k)

\* Mutant: a result that is used again stays where it was.
TouchedInPlace(cache, k) == cache

\* move_to_end
Touched(cache, k) ==
    [cache EXCEPT !.entries = Others(cache, k) \o Of(cache, k)]

\* Mutant: the entry that is replaced keeps its bytes.
PutTwice(cache, k, size) ==
    [entries |-> Append(Others(cache, k), [key |-> k, size |-> size, fresh |-> TRUE]),
     bytes |-> cache.bytes + size]

\* The result replaces an older one of its key and becomes the newest ...
Put(cache, k, size) ==
    [entries |-> Append(Others(cache, k), [key |-> k, size |-> size, fresh |-> TRUE]),
     bytes |-> (cache.bytes - Total(Of(cache, k))) + size]

\* ... and the oldest go until the cache is within its limits.
Evicted(cache) ==
    DropFirst(cache, Least({n \in 0 .. Len(cache.entries) :
        LET rest == DropFirst(cache, n)
        IN  Len(rest.entries) <= MaxEntries /\ rest.bytes <= MaxBytes}))

Stored(cache, k, size) == Evicted(Put(cache, k, size))

Aged(cache, k) ==
    [cache EXCEPT !.entries = [n \in DOMAIN @ |->
        [@[n] EXCEPT !.fresh = @ /\ cache.entries[n].key # k]]]
=============================================================================
