------------------------------ MODULE DoSearch ------------------------------
(***************************************************************************)
(* One call of SearchManager::doSearch_ (SearchManager.cpp:126-522), step  *)
(* by step: the error check, building the filter and the document          *)
(* iterator, the statistics for the rankers, the sorter built from the     *)
(* sort list, the hit queue, the candidate loop and the drain into the     *)
(* result page. The objects the call allocates with new (filter, iterator, *)
(* sorter, hit queue) are tracked in owned, so every exit shows what it    *)
(* releases. The call's inputs are chosen once, in Init; faults that a     *)
(* collaborator can raise are one input among them.                        *)
(***************************************************************************)
EXTENDS Integers, Sequences, FiniteSets, FiniteSetsExt

CONSTANTS
    Docs,           \* document ids
    Score, Custom, PropValue, SizeMod, MaxVectorSize,   \* see Ranking
    Schema,         \* property name -> [isIndex, isAnalyzed, type]
    MatchSets,      \* the doc sets a query's iterator can produce
    FilterSets,     \* filters: NoFilter or the set of docs Filter::test passes
    SortLists,      \* sortPriorityList_ values: sequences of [name, asc]
    Starts, TopKs,  \* pagination arguments
    Faults,         \* the fault a collaborator raises in this call, or "none"
    NoFilter        \* model value: an empty filteringList_

R == INSTANCE Ranking

VARIABLES
    in,             \* the call's inputs (fixed for the call)
    pc,             \* where doSearch_ is
    owned,          \* objects allocated and not yet deleted
    keys,           \* sort properties added to the Sorter, in order
    sortIdx,        \* the loop over sortPriorityList_
    custom,         \* customRanker.get() != NULL
    rest,           \* candidates pDocIterator->next() has not yet produced
    queue,          \* contents of the hit queue
    totalCount,
    docIdList, rankScoreList, customRankScoreList,
    result          \* "none" while running; "true", "false" or "exception"

vars == <<in, pc, owned, keys, sortIdx, custom, rest, queue, totalCount,
          docIdList, rankScoreList, customRankScoreList, result>>

\* Property types the sorter loop accepts (SearchManager.cpp:368-372).
SortTypes == {"int", "float", "nominal", "unsigned", "double"}

Inputs ==
    [matches : MatchSets, filter : FilterSets, sortList : SortLists,
     start : Starts, topK : TopKs, fault : Faults,
     noError : BOOLEAN,     \* actionOperation.noError()
     iterOK : BOOLEAN,      \* prepare_dociterator yields an iterator
     customOK : BOOLEAN]    \* customRanker->setPropertyData succeeds

Init ==
    /\ in \in Inputs
    /\ pc = "check"
    /\ owned = {}
    /\ keys = <<>>
    /\ sortIdx = 1
    /\ custom = FALSE
    /\ rest = {}
    /\ queue = {}
    /\ totalCount = 0
    /\ docIdList = <<>>
    /\ rankScoreList = <<>>
    /\ customRankScoreList = <<>>
    /\ result = "none"

Return(r) == /\ result' = r
             /\ pc' = "done"

HasFilter == in.filter # NoFilter

\* SearchManager.cpp:156, 520-521: an operation carrying an error is refused.
CheckError ==
    /\ pc = "check"
    /\ IF in.noError THEN pc' = "build" /\ UNCHANGED result
                     ELSE Return("false")
    /\ UNCHANGED <<in, owned, keys, sortIdx, custom, rest, queue, totalCount,
                   docIdList, rankScoreList, customRankScoreList>>

\* SearchManager.cpp:158-227: create the rankers, prepare the filter (when
\* filteringList_ is not empty) and the document iterator inside one try.
\* prepare_filter throwing leaves nothing allocated; prepare_dociterator
\* throwing or yielding NULL deletes the filter and returns false.
Build ==
    /\ pc = "build"
    /\ \/ /\ HasFilter /\ in.fault = "filter"
          /\ Return("false") /\ UNCHANGED owned
       \/ /\ ~(HasFilter /\ in.fault = "filter")
          /\ (in.fault = "iterator" \/ ~in.iterOK)
          /\ Return("false") /\ owned' = {}
       \/ /\ ~(HasFilter /\ in.fault = "filter")
          /\ ~(in.fault = "iterator" \/ ~in.iterOK)
          /\ owned' = IF HasFilter THEN {"filter", "iterator"} ELSE {"iterator"}
          /\ pc' = "stats" /\ UNCHANGED result
    /\ UNCHANGED <<in, keys, sortIdx, custom, rest, queue, totalCount,
                   docIdList, rankScoreList, customRankScoreList>>

\* SearchManager.cpp:229-300: df_ctf, numDocs, getTotalPropertyLength and
\* setupStats run outside any try block; a fault here leaves doSearch_ as
\* an exception with the iterator and filter still allocated.
Stats ==
    /\ pc = "stats"
    /\ IF in.fault = "stats" THEN Return("exception")
                             ELSE pc' = "sort" /\ UNCHANGED result
    /\ UNCHANGED <<in, owned, keys, sortIdx, custom, rest, queue, totalCount,
                   docIdList, rankScoreList, customRankScoreList>>

AddSortProperty(k) ==
    /\ keys' = Append(keys, k)
    /\ owned' = owned \cup {"sorter"}      \* if (!pSorter) pSorter = new Sorter
    /\ sortIdx' = sortIdx + 1

SkipSortEntry == sortIdx' = sortIdx + 1 /\ UNCHANGED <<keys, owned>>

\* A schema property the sorter accepts (SearchManager.cpp:356-378).
Sortable(name) ==
    /\ name \in DOMAIN Schema
    /\ Schema[name].isIndex
    /\ ~Schema[name].isAnalyzed
    /\ Schema[name].type \in SortTypes

\* One iteration of the sort-list loop (SearchManager.cpp:311-384).
SortEntry ==
    /\ pc = "sort"
    /\ sortIdx <= Len(in.sortList)
    /\ in.fault # "sorter"
    /\ LET e == in.sortList[sortIdx] IN
       \/ /\ e.name = "custom_rank"
          /\ in.customOK
          /\ custom' = TRUE
          /\ AddSortProperty([kind |-> "CUSTOM", prop |-> "", asc |-> e.asc])
          /\ UNCHANGED <<pc, result>>
       \/ /\ e.name = "custom_rank"
          /\ ~in.customOK
          \* setPropertyData failed: return false, nothing is deleted
          /\ Return("false")
          /\ UNCHANGED <<custom, keys, owned, sortIdx>>
       \/ /\ e.name = "_rank"
          /\ AddSortProperty([kind |-> "SCORE", prop |-> "", asc |-> e.asc])
          /\ UNCHANGED <<pc, custom, result>>
       \/ /\ e.name = "date"
          /\ AddSortProperty([kind |-> "PROP", prop |-> "date", asc |-> e.asc])
          /\ UNCHANGED <<pc, custom, result>>
       \/ /\ e.name \notin {"custom_rank", "_rank", "date"}
          /\ IF Sortable(e.name)
             THEN AddSortProperty([kind |-> "PROP", prop |-> e.name, asc |-> e.asc])
             ELSE SkipSortEntry
          /\ UNCHANGED <<pc, custom, result>>
    /\ UNCHANGED <<in, rest, queue, totalCount,
                   docIdList, rankScoreList, customRankScoreList>>

\* An exception while building the sorter (SearchManager.cpp:387-393):
\* the iterator, sorter and filter are deleted and false returned.
SortFault ==
    /\ pc = "sort"
    /\ sortIdx <= Len(in.sortList)
    /\ in.fault = "sorter"
    /\ owned' = {}
    /\ Return("false")
    /\ UNCHANGED <<in, keys, sortIdx, custom, rest, queue, totalCount,
                   docIdList, rankScoreList, customRankScoreList>>

\* The sort list is exhausted: allocate the hit queue of capacity
\* topK + start (SearchManager.cpp:399-410) and enter the candidate loop,
\* which starts by zeroing totalCount (line 415).
MakeQueue ==
    /\ pc = "sort"
    /\ sortIdx > Len(in.sortList)
    /\ owned' = owned \cup {"queue"}
    /\ pc' = "iterate"
    /\ rest' = in.matches
    /\ totalCount' = 0
    /\ UNCHANGED <<in, keys, sortIdx, custom, queue, result,
                   docIdList, rankScoreList, customRankScoreList>>

\* One pDocIterator->next() (SearchManager.cpp:416-442): the next doc in
\* ascending order; a doc the filter rejects is skipped, otherwise it is
\* counted, scored and offered to the hit queue.
NextCandidate ==
    /\ pc = "iterate"
    /\ rest # {}
    /\ in.fault # "loop"
    /\ LET d == Min(rest) IN
       /\ rest' = rest \ {d}
       /\ IF HasFilter /\ d \notin in.filter
          THEN UNCHANGED <<totalCount, queue>>
          ELSE /\ totalCount' = totalCount + 1
               /\ queue' = R!Insert(queue, R!ScoreDoc(d, custom),
                                    in.start + in.topK, keys)
    /\ UNCHANGED <<in, pc, owned, keys, sortIdx, custom, result,
                   docIdList, rankScoreList, customRankScoreList>>

\* An exception inside the candidate loop's try (SearchManager.cpp:506-513):
\* everything allocated is deleted and false returned.
LoopFault ==
    /\ pc = "iterate"
    /\ in.fault = "loop"
    /\ owned' = {}
    /\ Return("false")
    /\ UNCHANGED <<in, keys, sortIdx, custom, rest, queue, totalCount,
                   docIdList, rankScoreList, customRankScoreList>>

\* The iterator is exhausted: drain the queue into the page, normalise the
\* rank scores, delete everything and return true (SearchManager.cpp:445-518).
\* When the size_t count wraps, resize throws length_error, which the same
\* try catches: everything is deleted and false returned.
Drain ==
    /\ pc = "iterate"
    /\ rest = {}
    /\ in.fault # "loop"
    /\ owned' = {}
    /\ IF R!DrainThrows(queue, in.start)
       THEN Return("false")
            /\ UNCHANGED <<docIdList, rankScoreList, customRankScoreList>>
       ELSE LET page == R!Drained(queue, in.start, keys) IN
            /\ docIdList' = R!DocIds(page)
            /\ rankScoreList' = R!Normalize([i \in DOMAIN page |-> page[i].score])
            /\ customRankScoreList' =
                   IF custom THEN [i \in DOMAIN page |-> page[i].custom] ELSE <<>>
            /\ Return("true")
    /\ UNCHANGED <<in, keys, sortIdx, custom, rest, queue, totalCount>>

Next ==
    \/ CheckError
    \/ Build
    \/ Stats
    \/ SortEntry
    \/ SortFault
    \/ MakeQueue
    \/ NextCandidate
    \/ LoopFault
    \/ Drain

Spec == Init /\ [][Next]_vars

-----------------------------------------------------------------------------
(* Properties *)

Candidates == {d \in in.matches : ~HasFilter \/ d \in in.filter}

TypeOK ==
    /\ in \in Inputs
    /\ pc \in {"check", "build", "stats", "sort", "iterate", "done"}
    /\ owned \subseteq {"filter", "iterator", "sorter", "queue"}
    /\ custom \in BOOLEAN
    /\ rest \subseteq in.matches
    /\ totalCount \in 0..Cardinality(Docs)
    /\ Cardinality(queue) <= in.start + in.topK
    /\ result \in {"none", "true", "false", "exception"}
    /\ (result = "none") <=> (pc # "done")

\* A successful doSearch_ returns exactly the page the spec defines: the
\* candidates that pass the filter, ranked by the sorter built from the sort
\* list (score, descending, without one), entries start+1..start+topK; the
\* count of every candidate that passed the filter; the custom scores of the
\* page's docs, unnormalised, when custom ranking was requested. It is
\* about the bounded hit queue, the wrapped count and the reversed drain.
PageCorrect ==
    result = "true" =>
        LET page == R!RefPage({R!ScoreDoc(d, custom) : d \in Candidates},
                              keys, in.start, in.topK)
        IN /\ docIdList = R!DocIds(page)
           /\ totalCount = Cardinality(Candidates)
           /\ customRankScoreList =
                  IF custom THEN [i \in DOMAIN page |-> page[i].custom] ELSE <<>>

\* The normalised rank scores of a returned page lie in [0, 1], and they
\* keep the order of the raw scores of the docs they belong to; when the
\* page's raw scores are all equal every score is exactly 1.0 (spec 4.5).
ScoresNormalized ==
    result = "true" =>
        /\ Len(rankScoreList) = Len(docIdList)
        /\ \A i \in DOMAIN rankScoreList :
               /\ 0 <= rankScoreList[i].num
               /\ rankScoreList[i].num <= rankScoreList[i].den
        /\ \A i, j \in DOMAIN rankScoreList :
               Score[docIdList[i]] < Score[docIdList[j]] =>
                   rankScoreList[i].num * rankScoreList[j].den
                       < rankScoreList[j].num * rankScoreList[i].den
        /\ (\A i, j \in DOMAIN docIdList : Score[docIdList[i]] = Score[docIdList[j]])
               => \A i \in DOMAIN rankScoreList : rankScoreList[i] = R!One


\* Spec 5, 7 and 9: every path out of doSearch_ returns true or false to
\* the caller (no exception escapes it) and has released the iterator,
\* sorter, filter and hit queue it allocated, the early "return false"
\* paths included.
CleanExit == pc = "done" => result \in {"true", "false"} /\ owned = {}
=============================================================================
