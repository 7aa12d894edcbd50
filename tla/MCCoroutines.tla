---------------------------- MODULE MCCoroutines ----------------------------
(***************************************************************************)
(* Two coroutines, which nothing tells apart.                              *)
(***************************************************************************)
EXTENDS Coroutines, TLC

CONSTANTS a, b

Symmetry == Permutations({a, b})

=============================================================================
