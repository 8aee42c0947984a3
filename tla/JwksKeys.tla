------------------------------ MODULE JwksKeys ------------------------------
(***************************************************************************)
(* The verification keys of the bridge (spl-bridge: pop_auth.rs,           *)
(* JwksTokenVerifier): lookups by key id are sent to one aggregator task   *)
(* that keeps a bounded cache, runs at most one fetch at a time for all    *)
(* the lookups that wait for it, and refuses to fetch again during a       *)
(* cooldown.  The origin publishes a changing set of keys.                 *)
(***************************************************************************)
EXTENDS Integers, FiniteSets, Sequences, Functions

CONSTANTS
    Lookups,        \* calls of key_for_kid
    Kids,           \* key ids
    CacheLimit,     \* JWKS_CACHE_LIMIT
    CacheTtl,       \* JWKS_CACHE_TTL
    Cooldown,       \* seconds between the starts of two fetches
    FetchTime,      \* JwksTimeouts: connect and fetch together
    MaxTime         \* bound on the clock

CacheHasRoom == CacheLimit \in Nat \ {0}

VARIABLES now, published, lastPublished, cache, fetch, lastBegin, requests, look

vars == <<now, published, lastPublished, cache, fetch, lastBegin, requests, look>>

NoFetch == [on |-> FALSE, began |-> 0, served |-> FALSE, keys |-> {}, waiters |-> {}]

Init ==
    /\ now = 0 /\ published \in SUBSET Kids
    /\ lastPublished = [k \in Kids |-> 0]
    /\ cache = <<>> /\ fetch = NoFetch /\ lastBegin = 0 - Cooldown
    /\ requests = <<>>
    /\ look = [l \in Lookups |-> [at |-> "idle", kid |-> CHOOSE k \in Kids : TRUE, age |-> 0]]

-----------------------------------------------------------------------------
\* prune_jwks_cache
Pruned == [k \in {k \in DOMAIN cache : cache[k] > now} |-> cache[k]]

\* insert_jwks_keys, in the arbitrary order of a hash map: the caches that may
\* result.  At the limit the entries that expire first make room, and the new
\* keys displace each other only when they alone exceed it.
InsertKeys(c, keys, expires) ==
    LET all == DOMAIN c \cup keys
        kept == {d \in SUBSET all :
                   /\ Cardinality(d) = IF Cardinality(all) < CacheLimit THEN Cardinality(all)
                                       ELSE CacheLimit
                   /\ keys \subseteq d \/ d \subseteq keys
                   /\ \A k \in d \ keys, m \in DOMAIN c \ (d \cup keys) : c[m] <= c[k]}
    IN  {[k \in d |-> IF k \in keys THEN expires ELSE c[k]] : d \in kept}

\* Every caller in ls is answered from cache c: its key, or that there is none.
Answer(ls, c) ==
    look' = [l \in Lookups |->
        IF l \notin ls \/ look[l].at # "waiting" THEN look[l]
        ELSE IF look[l].kid \in DOMAIN c
        THEN [look[l] EXCEPT !.at = "found", !.age = now - lastPublished[look[l].kid]]
        ELSE [look[l] EXCEPT !.at = "refused"]]

-----------------------------------------------------------------------------
\* key_for_kid sends its request and waits for the reply.
Ask(l) ==
    /\ look[l].at # "waiting" /\ l \notin Range(requests) \cup fetch.waiters
    /\ \E k \in Kids : look' = [look EXCEPT ![l] = [at |-> "waiting", kid |-> k, age |-> 0]]
    /\ requests' = Append(requests, l)
    /\ UNCHANGED <<now, published, lastPublished, cache, fetch, lastBegin>>

\* The caller's own deadline drops it; the aggregator does not notice.
Abandon(l) ==
    /\ look[l].at = "waiting"
    /\ look' = [look EXCEPT ![l].at = "gone"]
    /\ UNCHANGED <<now, published, lastPublished, cache, fetch, lastBegin, requests>>

\* The aggregator takes a request: a hit, one more waiter, a refusal during the
\* cooldown, or the start of a fetch.
Take ==
    /\ requests # <<>>
    /\ requests' = Tail(requests)
    /\ cache' = Pruned
    /\ LET l == Head(requests) IN
       \/ /\ look[l].kid \in DOMAIN Pruned
          /\ Answer({l}, Pruned) /\ UNCHANGED <<fetch, lastBegin>>
       \/ /\ look[l].kid \notin DOMAIN Pruned /\ fetch.on
          /\ fetch' = [fetch EXCEPT !.waiters = @ \cup {l}] /\ UNCHANGED <<look, lastBegin>>
       \/ /\ look[l].kid \notin DOMAIN Pruned /\ ~fetch.on /\ now - lastBegin < Cooldown
          /\ Answer({l}, <<>>) /\ UNCHANGED <<fetch, lastBegin>>
       \/ /\ look[l].kid \notin DOMAIN Pruned /\ ~fetch.on /\ now - lastBegin >= Cooldown
          /\ fetch' = [NoFetch EXCEPT !.on = TRUE, !.began = now, !.waiters = {l}]
          /\ lastBegin' = now /\ UNCHANGED look
    /\ UNCHANGED <<now, published, lastPublished>>

\* The origin answers the fetch with the keys it publishes at that moment.
Serve ==
    /\ fetch.on /\ ~fetch.served
    /\ fetch' = [fetch EXCEPT !.served = TRUE, !.keys = published]
    /\ UNCHANGED <<now, published, lastPublished, cache, lastBegin, requests, look>>

\* A cache that is filled without being pruned or bounded in age.
FetchDoneUndated ==
    /\ fetch.on /\ fetch.served
    /\ cache' \in InsertKeys(cache, fetch.keys, MaxTime + 1)
    /\ Answer(fetch.waiters, cache')
    /\ fetch' = NoFetch
    /\ UNCHANGED <<now, published, lastPublished, lastBegin, requests>>

\* The fetched document fills the cache and answers everyone who waited.
FetchDone ==
    /\ fetch.on /\ fetch.served
    /\ cache' \in InsertKeys(Pruned, fetch.keys, now + CacheTtl)
    /\ Answer(fetch.waiters, cache')
    /\ fetch' = NoFetch
    /\ UNCHANGED <<now, published, lastPublished, lastBegin, requests>>

\* A failure that only the caller who started the fetch hears of.
FetchFailsQuietly ==
    /\ fetch.on
    /\ Answer({CHOOSE l \in fetch.waiters : TRUE}, <<>>)
    /\ fetch' = NoFetch
    /\ UNCHANGED <<now, published, lastPublished, cache, lastBegin, requests>>

\* The fetch fails (connect, TLS, response, document) or times out.
FetchFails ==
    /\ fetch.on
    /\ Answer(fetch.waiters, <<>>)
    /\ fetch' = NoFetch
    /\ UNCHANGED <<now, published, lastPublished, cache, lastBegin, requests>>

-----------------------------------------------------------------------------
\* The account service rotates its keys.
Rotate ==
    /\ published' \in SUBSET Kids \ {published}
    /\ lastPublished' = [k \in Kids |-> IF k \in published' THEN now ELSE lastPublished[k]]
    /\ UNCHANGED <<now, cache, fetch, lastBegin, requests, look>>

Tick ==
    /\ now < MaxTime
    /\ fetch.on => now < fetch.began + FetchTime
    /\ now' = now + 1
    /\ lastPublished' = [k \in Kids |-> IF k \in published THEN now + 1 ELSE lastPublished[k]]
    /\ UNCHANGED <<published, cache, fetch, lastBegin, requests, look>>

Next ==
    \/ \E l \in Lookups : Ask(l) \/ Abandon(l)
    \/ Take \/ Serve \/ FetchDone \/ FetchFails \/ Rotate \/ Tick

\* The aggregator task runs, and a fetch is ended by its timeouts.
Fairness == WF_vars(Take) /\ WF_vars(FetchFails)

Spec == Init /\ [][Next]_vars /\ Fairness

-----------------------------------------------------------------------------
\* A key that is handed out was published by the origin no longer ago than the
\* cache lifetime plus one fetch, whatever was rotated, evicted or waited for.
KeyIsRecent == \A l \in Lookups : look[l].at = "found" => look[l].age <= CacheTtl + FetchTime

\* Every lookup is answered, so that it does not stay Waiting: waiters of a fetch that
\* fails, that is shared, or whose key is evicted by the very document that carried it
\* included.
Waiting(l) == look[l].at = "waiting"
=============================================================================
