----------------------------- MODULE ResultCache -----------------------------
(***************************************************************************)
(* What SearchManager's result cache promises its callers, with every     *)
(* search() call as one atomic step and no thread state: the cache is a   *)
(* bounded map from (query, start) to a page that some doSearch_ computed  *)
(* for that query and start; a call either fails, returns the stored page *)
(* of its identity, or returns a page it computed and stores it. The index *)
(* generation only grows, and the cache can be cleared at any time.       *)
(* SearchManager implements this specification (property ResultCacheSpec  *)
(* of SearchManager, checked in run sm_pass).                             *)
(***************************************************************************)
EXTENDS Integers, FiniteSets

CONSTANTS Threads, Queries, Starts, TopKs, MaxGen, CacheCapacity,
          NoEntry, NoResult, NoCall,
          Page(_, _, _, _)   \* Page(q, s, k, g): the page doSearch_ computes

VARIABLES gen, cache, last

Identity == Queries \X Starts
Stored(c) == {id \in Identity : c[id] # NoEntry}

\* SearchCache::set: overwrite or add, evicting another entry when full.
Put(c, id, v) ==
    IF c[id] # NoEntry \/ Cardinality(Stored(c)) < CacheCapacity
    THEN {[c EXCEPT ![id] = v]}
    ELSE {[c EXCEPT ![victim] = NoEntry, ![id] = v] : victim \in Stored(c)}

Answer(t, q, s, k, ok, r) ==
    last' = [last EXCEPT ![t] = [q |-> q, s |-> s, k |-> k, ok |-> ok, res |-> r]]

Init ==
    /\ gen = 0
    /\ cache = [id \in Identity |-> NoEntry]
    /\ last = [t \in Threads |-> NoCall]

\* A hit: search() returns the stored entry of (q, s) and changes nothing.
Hit(t, q, s, k) ==
    /\ cache[<<q, s>>] # NoEntry
    /\ Answer(t, q, s, k, TRUE, cache[<<q, s>>])
    /\ UNCHANGED <<gen, cache>>

\* A failed call returns false and leaves the cache alone.
Fail(t, q, s, k) ==
    /\ Answer(t, q, s, k, FALSE, NoResult)
    /\ UNCHANGED <<gen, cache>>

\* A computed call returns the page of its own arguments in some generation
\* no later than the current one, and stores it under its identity.
Compute(t, q, s, k) ==
    \E g \in 0..gen :
        /\ cache' \in Put(cache, <<q, s>>, Page(q, s, k, g))
        /\ Answer(t, q, s, k, TRUE, Page(q, s, k, g))
        /\ UNCHANGED gen

Clear ==
    /\ cache' = [id \in Identity |-> NoEntry]
    /\ UNCHANGED <<gen, last>>

\* The index changes; the cache may be cleared in the same step.
Advance ==
    /\ gen < MaxGen
    /\ gen' = gen + 1
    /\ cache' \in {cache, [id \in Identity |-> NoEntry]}
    /\ UNCHANGED last

Next ==
    \/ \E t \in Threads, q \in Queries, s \in Starts, k \in TopKs :
           Hit(t, q, s, k) \/ Fail(t, q, s, k) \/ Compute(t, q, s, k)
    \/ Clear
    \/ Advance

Spec == Init /\ [][Next]_<<gen, cache, last>>
=============================================================================
