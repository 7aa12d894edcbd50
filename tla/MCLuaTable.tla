----------------------------- MODULE MCLuaTable -----------------------------
(***************************************************************************)
(* Three integers and two other keys: x has the home slot of 3, and y is   *)
(* where probing comes to when it wraps around.                            *)
(***************************************************************************)
EXTENDS LuaTable, TLC

CONSTANTS x, y, v, w

MCHashOf == 1 :> 1 @@ 2 :> 2 @@ 3 :> 3 @@ x :> 3 @@ y :> 0

\* Nothing tells the values apart.
Symmetry == Permutations({v, w})

=============================================================================
