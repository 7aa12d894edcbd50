----------------------------- MODULE MCObjectList -----------------------------
(***************************************************************************)
(* ObjectList for TLC: the addresses are interchangeable, and what finals  *)
(* says of an address with no userdata is never read.                      *)
(***************************************************************************)
EXTENDS ObjectList, TLC

Symmetry == Permutations(Objects)
View ==
    <<heap, stack, open, drain, callback, stage, entered,
      [o \in {p \in Objects : Is(heap, p, "userdata")} |-> finals[o]]>>
=============================================================================
