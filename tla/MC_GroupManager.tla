-------------------------- MODULE MC_GroupManager --------------------------
(* Two group properties over a three-node value tree: 2 under 1 at level 2, *)
(* 1 configured at level 1, 3 not configured (reported as an "other" level-1 *)
(* node); up to two documents.                                            *)
EXTENDS GroupManager

MCParent == (1 :> 0) @@ (2 :> 1) @@ (3 :> 0)
MCTreeList == <<[id |-> 1, level |-> 1], [id |-> 2, level |-> 2]>>
MCConfigLists == {<<"p1", "p2">>, <<"p2", "p2">>}
MCLists == {<<1, 2>>, <<2>>}
\* p1 may take any value of the tree, p2 only none or the level-2 value.
MCDocValues == [p1 : {0, 1, 2, 3}, p2 : {0, 2}]
MCPropLists == {<<"p1">>, <<"p1", "p2">>}
=============================================================================
