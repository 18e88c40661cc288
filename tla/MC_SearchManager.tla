------------------------- MODULE MC_SearchManager -------------------------
(***************************************************************************)
(* Instantiates SearchManager: two caller threads, queries whose matches  *)
(* change between index generation 0 and 1 (q2 matches nothing in         *)
(* generation 1, so start 1 underflows there). The cfgs use q1 alone with  *)
(* starts 0..1: two identities for a cache of capacity 1, so that eviction *)
(* and cross-thread overwrites happen.                                     *)
(***************************************************************************)
EXTENDS SearchManager

CONSTANTS t1, t2, q1, q2

MCThreads == {t1, t2}
MCQueries == {q1, q2}
MCQueryOne == {q1}
MCDocs == {1, 2, 3}
MCScore == (1 :> 2 @@ 2 :> 1 @@ 3 :> 3)
MCCorpus == (0 :> (q1 :> {1, 2} @@ q2 :> {3}) @@
             1 :> (q1 :> {2, 3} @@ q2 :> {}))
MCStarts == {0, 1}
MCTopKs == {1, 2}
MCTopKOne == {1}
=============================================================================
