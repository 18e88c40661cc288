---------------------------- MODULE MC_DoSearch ----------------------------
(***************************************************************************)
(* Instantiates DoSearch for TLC: three documents whose scores tie (docs 1 *)
(* and 3), a schema with one analyzed text property, two sortable numeric  *)
(* properties, and sort lists that reach every branch of the sorter loop.  *)
(***************************************************************************)
EXTENDS DoSearch, TLC

MCDocs == {1, 2, 3}
MCScore == (1 :> 2 @@ 2 :> 1 @@ 3 :> 2)
MCCustom == (1 :> 1 @@ 2 :> 3 @@ 3 :> 2)
MCPropValue == [price |-> (1 :> 30 @@ 2 :> 10 @@ 3 :> 20),
                date  |-> (1 :> 3 @@ 2 :> 1 @@ 3 :> 3)]
MCSchema == [title |-> [isIndex |-> TRUE, isAnalyzed |-> TRUE,  type |-> "string"],
             price |-> [isIndex |-> TRUE, isAnalyzed |-> FALSE, type |-> "float"],
             date  |-> [isIndex |-> TRUE, isAnalyzed |-> FALSE, type |-> "int"],
             url   |-> [isIndex |-> TRUE, isAnalyzed |-> FALSE, type |-> "string"]]
MCMatchSets == SUBSET MCDocs
MCFilterSets == {NoFilter, {1, 3}}
SE(n, a) == [name |-> n, asc |-> a]
MCSortLists ==
    { <<>>,
      <<SE("price", TRUE)>>,
      <<SE("custom_rank", FALSE)>>,
      <<SE("date", FALSE), SE("_rank", TRUE)>>,
      <<SE("title", TRUE), SE("missing", TRUE), SE("url", FALSE)>> }
MCStarts == 0..3
MCTopKs == 0..2
\* size_t scaled down from 2^64 to 2^6, max_size() from 2^61 to 2^3.
MCSizeMod == 64
MCMaxVectorSize == 8
MCFaultsAll == {"none", "filter", "iterator", "stats", "sorter", "loop"}
MCFaultsNone == {"none"}
=============================================================================
