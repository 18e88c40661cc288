--------------------------- MODULE MC_SearchReload ---------------------------
(***************************************************************************)
(* Search threads against a thread that calls chdir twice; the cfgs use  *)
(* one, since searches only interact with chdir.                         *)
(***************************************************************************)
EXTENDS SearchReload

CONSTANTS t1, t2

MCThreads == {t1, t2}
MCThreadOne == {t1}
=============================================================================
