------------------------------ MODULE LuaProgram ------------------------------
(***************************************************************************)
(* What running a program promises: it says, one call of "out" after the   *)
(* other, what its source means, and then it ends, normally or with an     *)
(* error as its source means.  How it gets there is not said.              *)
(***************************************************************************)
EXTENDS Naturals, Sequences

VARIABLES
    meaning,   \* [trace, ok]: what the program should say, and whether it ends well
    said,      \* what it has said so far
    ending     \* "running", "done" or "error"

vars == <<meaning, said, ending>>

Init == said = <<>> /\ ending = "running" /\ meaning.ok \in BOOLEAN

Say ==
    /\ ending = "running" /\ Len(said) < Len(meaning.trace)
    /\ said' = Append(said, meaning.trace[Len(said) + 1])
    /\ UNCHANGED <<meaning, ending>>

End ==
    /\ ending = "running" /\ said = meaning.trace
    /\ ending' = IF meaning.ok THEN "done" ELSE "error"
    /\ UNCHANGED <<meaning, said>>

Next == Say \/ End

\* The program gets there by itself.
Spec == Init /\ [][Next]_vars /\ WF_vars(Next)
=============================================================================
