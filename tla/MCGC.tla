-------------------------------- MODULE MCGC --------------------------------
(***************************************************************************)
(* GC on heaps of three addresses: o1 holds the global table.  Every run   *)
(* explores all interleavings of the mutator with the collector over the   *)
(* pointers it lets the mutator store.                                     *)
(***************************************************************************)
EXTENDS GC, TLC

CONSTANTS o1, o2, o3

\* o2 and o3 are interchangeable in the runs that treat them alike.
Symmetry == Permutations({o2, o3})

NoMetas == {}
WeakModes == {{}, {"k"}, {"v"}}
Finalizers == {{}, {"gc"}}

\* Any table may hold o2 and o3 as values.
ValueEdges == Obj \X {"val"} \X {o2, o3}

\* o2 can be a weak table with o3 as key or as value.
WeakEdges ==
    {<<o1, "val", o2>>, <<o1, "val", o3>>, <<o2, "key", o3>>, <<o2, "val", o3>>,
     <<o2, "meta", o1>>}

\* o3 can be a userdata with the metatable o1 and the environment o2, which
\* leads back to it.
Finalizable ==
    {<<o1, "val", o2>>, <<o2, "val", o3>>, <<o3, "env", o2>>, <<o3, "meta", o1>>}

\* A userdata o3 with a metatable o2 of its own.
OwnMetatable == {<<o3, "meta", o2>>}

=============================================================================
