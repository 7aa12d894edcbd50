---------------------------- MODULE MCGCThreads ----------------------------
(***************************************************************************)
(* GCThreads with the global table o1 and two more addresses.              *)
(***************************************************************************)
EXTENDS GCThreads

CONSTANTS o1, o2, o3

NoMetas == {}

\* The global table may hold o3, which the coroutine can take from it.
GlobalEdges == {<<o1, "val", o3>>}

=============================================================================
