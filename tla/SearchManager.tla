---------------------------- MODULE SearchManager ----------------------------
(***************************************************************************)
(* The result cache of SearchManager (SearchManager.cpp:23-124) under      *)
(* concurrent callers: each thread runs search(), which looks its query    *)
(* identity up in cache_, on a miss runs doSearch_ against the index as it *)
(* is at that moment and, if that succeeds, stores the page under the same *)
(* identity. Beside the callers, the index changes underneath (the index   *)
(* bundle, then reset_cache) and chdir swaps in a new index and a new      *)
(* cache. doSearch_ is one step here, returning what the DoSearch runs     *)
(* show it returns: the reference page, or false when start is past the   *)
(* candidates or a collaborator failed.                                    *)
(***************************************************************************)
EXTENDS Integers, Sequences, FiniteSets, TLC

CONSTANTS
    Threads,        \* threads calling SearchManager::search
    Queries,        \* parsed queries (search properties, keywords, filters)
    Starts, TopKs,  \* pagination arguments of search()
    Docs, Score,
    Corpus,         \* Corpus[g][q]: the docs query q matches in index generation g
    MaxGen,         \* bound on index changes (IndexUpdate, Chdir)
    MaxResets,      \* bound on reset_cache calls
    CacheCapacity,  \* SEARCH_MANAGER_CACHE_SIZE, scaled down
    NoEntry,        \* model value: identity not in the cache
    NoResult,       \* model value: doSearch_ returned false
    NoCall          \* model value: a thread has not returned yet

R == INSTANCE Ranking WITH Custom <- [d \in Docs |-> 0], PropValue <- <<>>,
                           SizeMod <- 1, MaxVectorSize <- 0

VARIABLES
    indexGen,       \* generation of the index behind indexManagerPtr_/queryBuilder_
    resets,         \* reset_cache calls so far
    cache,          \* cache_: identity -> stored page, or NoEntry
    pc,             \* per thread: "idle", "miss" (in doSearch_), "store"
    call,           \* per thread: the running call and the epoch it began in
    pending,        \* per thread: what doSearch_ produced
    last,           \* per thread: the last return of search() (history)
    synced          \* reset_cache or chdir has run since the last index change

vars == <<indexGen, resets, cache, pc, call, pending, last, synced>>

Identity == Queries \X Starts

\* What a successful doSearch_ for (q, start, topK) leaves in docIdList and
\* totalCount when run against generation g (score order, no sort list).
Page(q, s, k, g) ==
    LET S == {R!ScoreDoc(d, FALSE) : d \in Corpus[g][q]}
    IN [docs |-> R!DocIds(R!RefPage(S, <<>>, s, k)), total |-> Cardinality(S)]

Pages == {Page(q, s, k, g) : q \in Queries, s \in Starts, k \in TopKs, g \in 0..MaxGen}

\* doSearch_ returns false when the drain count wraps (DoSearch's run
\* MC_DoSearch_beyond): start is past every candidate.
Underflows(q, s, g) == s > 0 /\ s > Cardinality(Corpus[g][q])

EmptyCache == [id \in Identity |-> NoEntry]

Init ==
    /\ indexGen = 0
    /\ resets = 0
    /\ cache = EmptyCache
    /\ pc = [t \in Threads |-> "idle"]
    /\ call = [t \in Threads |-> NoCall]
    /\ pending = [t \in Threads |-> NoResult]
    /\ last = [t \in Threads |-> NoCall]
    /\ synced = TRUE

\* makeQueryIdentity(identity, actionItem_, start) (SearchManager.cpp:90-91):
\* the identity covers the query and start; topK is not an argument.
MakeQueryIdentity(q, s) == <<q, s>>

\* SearchCache::set: overwrite the entry, or add it, evicting some other
\* entry when the cache is full.
Present(c) == {id \in Identity : c[id] # NoEntry}
CacheSetNoEvict(c, id, v) == {[c EXCEPT ![id] = v]}
CacheSet(c, id, v) ==
    IF c[id] # NoEntry \/ Cardinality(Present(c)) < CacheCapacity
    THEN {[c EXCEPT ![id] = v]}
    ELSE {[c EXCEPT ![victim] = NoEntry, ![id] = v] : victim \in Present(c)}

\* search() returns to thread t with r.
Finish(t, r) == last' = [last EXCEPT ![t] = r]

\* search() begins: compute the identity and look it up (lines 86-108). A
\* hit returns the stored lists as they are, whatever topK was asked for.
Lookup(t, q, s, k) ==
    /\ pc[t] = "idle"
    /\ LET id == MakeQueryIdentity(q, s)
           c  == [q |-> q, s |-> s, k |-> k]
       IN IF cache[id] # NoEntry
          THEN /\ Finish(t, c @@ [ok |-> TRUE, res |-> cache[id]])
               /\ UNCHANGED <<pc, call>>
          ELSE /\ pc' = [pc EXCEPT ![t] = "miss"]
               /\ call' = [call EXCEPT ![t] = c]
               /\ UNCHANGED last
    /\ UNCHANGED <<indexGen, resets, cache, pending, synced>>

\* Cache miss: doSearch_ runs against the current index (lines 109-115).
\* It fails (false) on a build error or a collaborator's fault, and always
\* when start is past every candidate.
DoSearchFailsStores(t) ==
    /\ pc[t] = "miss"
    /\ pc' = [pc EXCEPT ![t] = "idle"]
    /\ Finish(t, call[t] @@ [ok |-> FALSE, res |-> NoResult])
    /\ call' = [call EXCEPT ![t] = NoCall]
    /\ cache' = [cache EXCEPT ![MakeQueryIdentity(call[t].q, call[t].s)] = pending[t]]
    /\ UNCHANGED <<indexGen, resets, pending, synced>>
DoSearchFails(t) ==
    /\ pc[t] = "miss"
    /\ pc' = [pc EXCEPT ![t] = "idle"]
    /\ Finish(t, call[t] @@ [ok |-> FALSE, res |-> NoResult])
    /\ call' = [call EXCEPT ![t] = NoCall]
    /\ UNCHANGED <<indexGen, resets, cache, pending, synced>>

DoSearchSucceeds(t) ==
    /\ pc[t] = "miss"
    /\ ~Underflows(call[t].q, call[t].s, indexGen)
    /\ pending' = [pending EXCEPT ![t] = Page(call[t].q, call[t].s, call[t].k, indexGen)]
    /\ pc' = [pc EXCEPT ![t] = "store"]
    /\ UNCHANGED <<indexGen, resets, cache, call, last, synced>>

\* doSearch_ succeeded: cache_->set(identity, ...) then return true
\* (lines 116-120). cache_ is read here, after doSearch_, so this writes
\* into whatever cache is current now.
Store(t) ==
    /\ pc[t] = "store"
    /\ cache' \in CacheSet(cache, MakeQueryIdentity(call[t].q, call[t].s), pending[t])
    /\ pc' = [pc EXCEPT ![t] = "idle"]
    /\ Finish(t, call[t] @@ [ok |-> TRUE, res |-> pending[t]])
    /\ call' = [call EXCEPT ![t] = NoCall]
    /\ pending' = [pending EXCEPT ![t] = NoResult]
    /\ UNCHANGED <<indexGen, resets, synced>>

\* reset_cache (lines 54-59): called after the index changed; clears cache_.
\* The sorter cache's dirty flag and the query builder's cache are not
\* modelled.
ResetCache ==
    /\ resets < MaxResets
    /\ resets' = resets + 1
    /\ cache' = EmptyCache
    /\ synced' = TRUE
    /\ UNCHANGED <<indexGen, pc, call, pending, last>>

\* The index bundle updates the index in place (documents created, updated
\* or destroyed); it calls reset_cache afterwards as a separate step.
IndexUpdate ==
    /\ indexGen < MaxGen
    /\ indexGen' = indexGen + 1
    /\ synced' = FALSE
    /\ UNCHANGED <<resets, cache, pc, call, pending, last>>

\* chdir (lines 62-76): new index, new query builder, new sorter cache and
\* a new, empty SearchCache, as one step.
Chdir ==
    /\ indexGen < MaxGen
    /\ indexGen' = indexGen + 1
    /\ cache' = EmptyCache
    /\ synced' = TRUE
    /\ UNCHANGED <<resets, pc, call, pending, last>>

SearchStep(t) == DoSearchFails(t) \/ DoSearchSucceeds(t) \/ Store(t)

Next ==
    \/ \E t \in Threads, q \in Queries, s \in Starts, k \in TopKs : Lookup(t, q, s, k)
    \/ \E t \in Threads : SearchStep(t)
    \/ ResetCache
    \/ IndexUpdate
    \/ Chdir

Spec == Init /\ [][Next]_vars

-----------------------------------------------------------------------------
(* Properties *)

Returns == [q : Queries, s : Starts, k : TopKs, ok : BOOLEAN, res : Pages \cup {NoResult}]

TypeOK ==
    /\ indexGen \in 0..MaxGen
    /\ resets \in 0..MaxResets
    /\ cache \in [Identity -> Pages \cup {NoEntry}]
    /\ Cardinality(Present(cache)) <= CacheCapacity
    /\ pc \in [Threads -> {"idle", "miss", "store"}]
    /\ \A t \in Threads : pc[t] # "idle" => call[t].q \in Queries
    /\ last \in [Threads -> Returns \cup {NoCall}]
    /\ synced \in BOOLEAN


HitHonoursTopK ==
    \A t \in Threads :
        (last[t] # NoCall /\ last[t].ok) =>
            \E g \in 0..indexGen :
                last[t].res = Page(last[t].q, last[t].s, last[t].k, g)

\* Refinement: the cache as ResultCache specifies it is the cache_ of the
\* code, its generation the index generation, and its answers the returns
\* of search(); pc, call and pending are internal to a running call.
RC == INSTANCE ResultCache WITH gen <- indexGen

\* SearchManager implements ResultCache: every step of search(), reset_cache,
\* chdir or an index change is either invisible to callers or one abstract
\* call, clear or index change; in particular, the entry a miss stores is
\* the page it returns, under the identity of that call, within capacity.
ResultCacheSpec == RC!Spec
=============================================================================
