----------------------- MODULE MC_CollectionLifecycle -----------------------
(***************************************************************************)
(* Two collections: c1 with single recommend and search nodes (the        *)
(* recommend activator tracks IndexSearchService), c2 with a recommend    *)
(* master over a worker search node (init_(NULL), createMaster_, remote   *)
(* items). c1 has one data dir the rotator accepts; c2 one it refuses, so *)
(* createDataDir_ may go either way.                                      *)
(***************************************************************************)
EXTENDS CollectionLifecycle

CONSTANTS c1, c2

MCC == {c1, c2}
MCNodeCfg == (c1 :> [rec |-> "single", search |-> "single"]) @@
             (c2 :> [rec |-> "master", search |-> "worker"])
MCDataDirs == (c1 :> <<TRUE>>) @@ (c2 :> <<FALSE>>)
\* c1 configured without data dirs: openDataDirectory_ fails.
MCDataDirsNone == (c1 :> <<>>) @@ (c2 :> <<TRUE>>)
=============================================================================
