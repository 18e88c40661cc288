---------------------------- MODULE SearchReload ----------------------------
(***************************************************************************)
(* What doSearch_ reads from SearchManager's members while chdir replaces *)
(* them (SearchManager.cpp:62-76, 126-522). A search reads queryBuilder_  *)
(* to build its iterator, indexManagerPtr_ and documentManagerPtr_ for    *)
(* the ranker statistics, and pSorterCache_ for its Sorter and custom     *)
(* ranker, which use it through the candidate loop. chdir assigns the new *)
(* index and document managers, a new query builder, deletes the sorter   *)
(* cache and creates a new one, and a new result cache, one statement     *)
(* after another, with no lock.                                           *)
(*                                                                         *)
(* A member's value is the generation of the index directory it belongs   *)
(* to: 0 for the one the constructor was given, k after the k-th chdir.   *)
(* The data a search computes is left out: DoSearch and SearchManager     *)
(* model it.                                                              *)
(***************************************************************************)
EXTENDS Integers, FiniteSets

CONSTANTS
    Threads,        \* threads running search()
    MaxChdirs,      \* bound on chdir calls
    NoObj           \* model value: no sorter cache pointer taken

VARIABLES
    index,          \* indexManagerPtr_
    docs,           \* documentManagerPtr_
    qb,             \* queryBuilder_
    sc,             \* pSorterCache_ (its value after delete is the freed object)
    freed,          \* SortPropertyCache objects deleted
    cacheGen,       \* cache_
    chdirs,         \* chdir calls so far
    rpc,            \* where the thread running chdir is
    pc,             \* per search thread: where doSearch_ is
    sorted,         \* per search thread: the sort list needs the sorter cache
    used,           \* per search thread: the member values it has read
    last            \* per search thread: what its last finished search read

vars == <<index, docs, qb, sc, freed, cacheGen, chdirs, rpc, pc, sorted, used, last>>

NoRead == [qb |-> NoObj, index |-> NoObj, docs |-> NoObj, sorter |-> NoObj]

\* The constructor (lines 25-45) builds every member on generation 0.
Init ==
    /\ index = 0 /\ docs = 0 /\ qb = 0 /\ sc = 0 /\ cacheGen = 0
    /\ freed = {}
    /\ chdirs = 0
    /\ rpc = "idle"
    /\ pc = [t \in Threads |-> "idle"]
    /\ sorted = [t \in Threads |-> FALSE]
    /\ used = [t \in Threads |-> NoRead]
    /\ last = [t \in Threads |-> NoRead]

Members == <<index, docs, qb, sc, freed, cacheGen, chdirs, rpc>>
Search == <<pc, sorted, used, last>>

-----------------------------------------------------------------------------
(* chdir (lines 62-76), one statement per step *)

ChdirIndex ==
    /\ rpc = "idle" /\ chdirs < MaxChdirs
    /\ chdirs' = chdirs + 1
    /\ index' = chdirs + 1
    /\ rpc' = "docs"
    /\ UNCHANGED <<docs, qb, sc, freed, cacheGen>> /\ UNCHANGED Search

ChdirDocs ==
    /\ rpc = "docs"
    /\ docs' = index
    /\ rpc' = "qb"
    /\ UNCHANGED <<index, qb, sc, freed, cacheGen, chdirs>> /\ UNCHANGED Search

ChdirQueryBuilder ==
    /\ rpc = "qb"
    /\ qb' = index
    /\ rpc' = "delete"
    /\ UNCHANGED <<index, docs, sc, freed, cacheGen, chdirs>> /\ UNCHANGED Search

\* delete pSorterCache_: the member still holds the freed address.
ChdirDeleteSorter ==
    /\ rpc = "delete"
    /\ freed' = freed \cup {sc}
    /\ rpc' = "new"
    /\ UNCHANGED <<index, docs, qb, sc, cacheGen, chdirs>> /\ UNCHANGED Search

\* Line 74: a new SortPropertyCache on the new index.
ChdirNewSorter ==
    /\ rpc = "new"
    /\ sc' = index
    /\ rpc' = "cache"
    /\ UNCHANGED <<index, docs, qb, freed, cacheGen, chdirs>> /\ UNCHANGED Search

ChdirCache ==
    /\ rpc = "cache"
    /\ cacheGen' = index
    /\ rpc' = "idle"
    /\ UNCHANGED <<index, docs, qb, sc, freed, chdirs>> /\ UNCHANGED Search

-----------------------------------------------------------------------------
(* doSearch_, at the points where it reads a member *)

\* search() misses the cache and enters doSearch_; the sort list either
\* needs the sorter cache (a sortable property or custom_rank) or not.
Begin(t) ==
    /\ pc[t] = "idle"
    /\ \E s \in BOOLEAN : sorted' = [sorted EXCEPT ![t] = s]
    /\ pc' = [pc EXCEPT ![t] = "iterator"]
    /\ used' = [used EXCEPT ![t] = NoRead]
    /\ UNCHANGED last /\ UNCHANGED Members

\* Lines 197-226: prepare_filter / prepare_dociterator on queryBuilder_.
PrepareIteratorNoRead(t) ==
    /\ pc[t] = "iterator"
    /\ pc' = [pc EXCEPT ![t] = "stats"]
    /\ UNCHANGED <<sorted, used, last>> /\ UNCHANGED Members
PrepareIterator(t) ==
    /\ pc[t] = "iterator"
    /\ used' = [used EXCEPT ![t].qb = qb]
    /\ pc' = [pc EXCEPT ![t] = "stats"]
    /\ UNCHANGED <<sorted, last>> /\ UNCHANGED Members

\* Lines 228-297: numDocs from indexManagerPtr_, property lengths from
\* documentManagerPtr_.
PrepareStats(t) ==
    /\ pc[t] = "stats"
    /\ used' = [used EXCEPT ![t].index = index, ![t].docs = docs]
    /\ pc' = [pc EXCEPT ![t] = "sorter"]
    /\ UNCHANGED <<sorted, last>> /\ UNCHANGED Members

\* Lines 300-392: setPropertyData(pSorterCache_) / new Sorter(pSorterCache_).
BuildSorter(t) ==
    /\ pc[t] = "sorter"
    /\ used' = [used EXCEPT ![t].sorter = IF sorted[t] THEN sc ELSE NoObj]
    /\ pc' = [pc EXCEPT ![t] = "loop"]
    /\ UNCHANGED <<sorted, last>> /\ UNCHANGED Members

\* Lines 398-522: the candidate loop compares through the Sorter, which
\* reads the sorter cache; then the drain and return.
RunLoop(t) ==
    /\ pc[t] = "loop"
    /\ pc' = [pc EXCEPT ![t] = "idle"]
    /\ last' = [last EXCEPT ![t] = used[t]]
    /\ UNCHANGED <<sorted, used>> /\ UNCHANGED Members

SearchStep(t) ==
    Begin(t) \/ PrepareIterator(t) \/ PrepareStats(t) \/ BuildSorter(t) \/ RunLoop(t)

Next ==
    \/ ChdirIndex \/ ChdirDocs \/ ChdirQueryBuilder
    \/ ChdirDeleteSorter \/ ChdirNewSorter \/ ChdirCache
    \/ \E t \in Threads : SearchStep(t)

Spec == Init /\ [][Next]_vars

-----------------------------------------------------------------------------
(* Properties *)

Gens == 0..MaxChdirs

TypeOK ==
    /\ {index, docs, qb, sc, cacheGen} \subseteq Gens
    /\ freed \subseteq Gens
    /\ rpc \in {"idle", "docs", "qb", "delete", "new", "cache"}
    /\ pc \in [Threads -> {"idle", "iterator", "stats", "sorter", "loop"}]
    /\ used \in [Threads -> [{"qb", "index", "docs", "sorter"} -> Gens \cup {NoObj}]]
    /\ \A t \in Threads : pc[t] \in {"stats", "sorter", "loop"} => used[t].qb \in Gens


\* A finished search read its iterator, its statistics and its sorter
\* cache from one index directory: a chdir between doSearch_'s reads does
\* not mix two directories in one result.
SnapshotConsistent ==
    \A t \in Threads :
        \A r \in {last[t].index, last[t].docs, last[t].sorter} \ {NoObj} : r = last[t].qb

\* The sorter cache a search took for its Sorter or custom ranker is not
\* deleted while the candidate loop still reads through it.
SorterCacheAlive ==
    \A t \in Threads : (pc[t] = "loop" /\ used[t].sorter # NoObj) => used[t].sorter \notin freed

\* What a search takes from the members is one live snapshot: a chdir
\* between doSearch_'s reads neither mixes two index directories in one
\* result nor frees the sorter cache the candidate loop reads.
SnapshotLive == SnapshotConsistent /\ SorterCacheAlive
====
