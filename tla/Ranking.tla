------------------------------ MODULE Ranking ------------------------------
(***************************************************************************)
(* Pure operators of the ranking half of SearchManager::doSearch_          *)
(* (src/source/core/search-manager/SearchManager.cpp): the order used by   *)
(* the hit queue, the bounded hit queue itself, the drain loop that turns  *)
(* the queue into the result page, and the score normalisation; plus the   *)
(* reference page that the spec (4.4, 4.5) says a search must return.      *)
(*                                                                         *)
(* Scores are the small integers a corpus assigns; the code's floats only  *)
(* enter through min/max/range and one division, which are kept exact: a   *)
(* normalised score is the fraction num/den.                               *)
(***************************************************************************)
EXTENDS Integers, Sequences, SequencesExt

CONSTANTS
    Score,          \* Score[d]: what pDocIterator->score(...) gives doc d
    Custom,         \* Custom[d]: what customRanker->evaluate(d) gives doc d
    PropValue,      \* PropValue[p][d]: stored value of sortable property p
    SizeMod,        \* 2^64 scaled down: the modulus of std::size_t
    MaxVectorSize   \* vector::max_size() scaled down with SizeMod

\* A ScoreDoc as built in the candidate loop (SearchManager.cpp:424-437);
\* custom_score stays 0 when no custom ranker was prepared.
ScoreDoc(d, withCustom) ==
    [docId |-> d, score |-> Score[d],
     custom |-> IF withCustom THEN Custom[d] ELSE 0]

\* The key a SortProperty reads from a ScoreDoc.
KeyOf(sd, k) ==
    CASE k.kind = "SCORE"  -> sd.score
      [] k.kind = "CUSTOM" -> sd.custom
      [] k.kind = "PROP"   -> PropValue[k.prop][sd.docId]

\* The sort key of a ScoreSortedHitQueue: score, descending.
ScoreKey == [kind |-> "SCORE", prop |-> "", asc |-> FALSE]

\* a ranks strictly before b under the sort keys keys[i..]: the Sorter
\* compares key by key in declaration order; equal keys fall back to the
\* lower doc id.
RECURSIVE BeforeFrom(_, _, _, _)
BeforeFrom(a, b, keys, i) ==
    IF i > Len(keys) THEN a.docId < b.docId
    ELSE LET ka == KeyOf(a, keys[i])
             kb == KeyOf(b, keys[i])
         IN IF ka = kb THEN BeforeFrom(a, b, keys, i + 1)
            ELSE IF keys[i].asc THEN ka < kb ELSE ka > kb

\* The order of the hit queue doSearch_ allocates (SearchManager.cpp:405-408):
\* a PropertySortedHitQueue over the sorter's keys when a sorter was built,
\* a ScoreSortedHitQueue otherwise.
Before(a, b, keys) ==
    BeforeFrom(a, b, IF keys = <<>> THEN <<ScoreKey>> ELSE keys, 1)

\* The top of the priority queue: its lowest-ranked element.
Worst(Q, keys) == CHOOSE x \in Q : \A y \in Q \ {x} : Before(y, x, keys)

\* HitQueue::insert with capacity cap (topK + start): fill up to cap, then
\* replace the top when the new element does not rank below it.
InsertUnbounded(Q, x, cap, keys) == Q \cup {x}
Insert(Q, x, cap, keys) ==
    IF Cardinality(Q) < cap THEN Q \cup {x}
    ELSE IF Q # {} /\ Before(x, Worst(Q, keys), keys)
         THEN (Q \ {Worst(Q, keys)}) \cup {x}
         ELSE Q

\* The elements of Q in the order successive pop() calls return them.
RECURSIVE PopOrder(_, _)
PopOrder(Q, keys) ==
    IF Q = {} THEN <<>>
    ELSE <<Worst(Q, keys)>> \o PopOrder(Q \ {Worst(Q, keys)}, keys)

\* SearchManager.cpp:445: count = start > 0 ? size - start : size, computed
\* in std::size_t, so a start beyond the queue size wraps around.
DrainCountNoStart(size, start) == IF start > 0 THEN size ELSE size
DrainCount(size, start) ==
    IF start > 0 THEN (size - start) % SizeMod ELSE size

\* vector::resize(count) throws std::length_error past max_size().
DrainThrows(Q, start) == DrainCount(Cardinality(Q), start) > MaxVectorSize

\* The drain loop (SearchManager.cpp:457-487): pop count elements and store
\* the i-th popped one at index count - i - 1, so the list reads best first.
Drained(Q, start, keys) ==
    LET count  == DrainCount(Cardinality(Q), start)
        popped == SubSeq(PopOrder(Q, keys), 1, count)
    IN Reverse(popped)

\* A normalised score num/den; 1.0F is 1/1.
One == [num |-> 1, den |-> 1]

SeqMin(s) == CHOOSE m \in Range(s) : \A i \in DOMAIN s : m <= s[i]
SeqMax(s) == CHOOSE m \in Range(s) : \A i \in DOMAIN s : m >= s[i]

NormalizeNoFill(raw) ==
    [i \in DOMAIN raw |-> [num |-> raw[i] - SeqMin(raw),
                           den |-> SeqMax(raw) - SeqMin(raw)]]
\* Rescale the page's raw scores by the min and max seen in the drain loop
\* (SearchManager.cpp:457-458, 469-478, 489-504): (s - min) / range when
\* range # 0, every score 1.0F otherwise. An empty page stays empty.
Normalize(raw) ==
    IF raw = <<>> THEN <<>>
    ELSE IF SeqMax(raw) - SeqMin(raw) # 0 THEN NormalizeNoFill(raw)
    ELSE [i \in DOMAIN raw |-> One]

(***************************************************************************)
(* Reference: the page the spec requires (4.4): all candidates ranked by   *)
(* the active order, entries start+1 .. start+topK of that ranking.        *)
(***************************************************************************)
Ranked(S, keys) == SortSeq(SetToSeq(S), LAMBDA a, b : Before(a, b, keys))

RefPage(S, keys, start, topK) ==
    LET r == Ranked(S, keys)
    IN SubSeq(r, start + 1, IF start + topK < Len(r) THEN start + topK ELSE Len(r))

DocIds(page) == [i \in DOMAIN page |-> page[i].docId]
=============================================================================
