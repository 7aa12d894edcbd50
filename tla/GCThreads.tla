------------------------------ MODULE GCThreads ------------------------------
(***************************************************************************)
(* GC with coroutines.  A Thread is a heap object whose entries are the    *)
(* values on the stack of its LuaState; Thread::mark scans that stack once,*)
(* when the Thread turns black, and pushing to it has no write barrier.    *)
(* While a coroutine runs, regs is its window together with its caller's:  *)
(* markRoots scans both again in the atomic phase.                         *)
(*                                                                         *)
(* Bounds: one coroutine runs at a time and resumes no other; it is not    *)
(* resumed while it waits on grayList_, and no cycle begins while it runs. *)
(***************************************************************************)
EXTENDS GC

VARIABLE running  \* GlobalState::runningThread_, or NULL for the main thread

Stack(t) == Vals(entries[t])

\* Thread::create without an entry function.
Create(t) == Alloc(t, "thread", {}, NULL) /\ UNCHANGED running

\* Thread::resume: setRunningThread marks a white Thread, and its stack
\* becomes the current window above the one of the caller.
Resume(t) ==
    /\ MutatorRuns /\ running = NULL
    /\ t \in regs /\ kind[t] = "thread" /\ color[t] # "gray"
    /\ Cardinality(regs \cup Stack(t)) <= MaxRegs
    /\ RootBarrier(t)
    /\ regs' = regs \cup Stack(t)
    /\ running' = t
    /\ UNCHANGED <<objVars, roots, finVars, cycleVars>>

\* The running coroutine assigns x to a local variable, or lets one die.
Keep(x) ==
    /\ MutatorRuns /\ running # NULL
    /\ x \in regs \ Stack(running)
    /\ entries' = [entries EXCEPT ![running] = @ \cup {<<NULL, x>>}]
    /\ UNCHANGED <<kind, link, meta, rootVars, markVars, finVars, cycleVars,
                   running>>

Forget(x) ==
    /\ MutatorRuns /\ running # NULL
    /\ x \in Stack(running)
    /\ entries' = [entries EXCEPT ![running] = @ \ {<<NULL, x>>}]
    /\ UNCHANGED <<kind, link, meta, rootVars, markVars, finVars, cycleVars,
                   running>>

\* coroutine.yield: the caller's window remains.
Yield(S) ==
    /\ MutatorRuns /\ running # NULL
    /\ regs \ Stack(running) \subseteq S /\ S \subseteq regs /\ running \in S
    /\ regs' = S
    /\ running' = NULL
    /\ UNCHANGED <<objVars, roots, markVars, finVars, cycleVars>>

\* The steps of GC while a coroutine runs: what its locals hold stays in the
\* scanned window, and so does the coroutine, which its caller holds.
RunningStep ==
    /\ running # NULL
    /\ Next
    /\ phase = "pause" => phase' = "pause"
    /\ {running} \cup Stack(running) \subseteq regs'
    /\ UNCHANGED running

InitThreads == Init /\ running = NULL

NextThreads ==
    \/ running = NULL /\ Next /\ UNCHANGED running
    \/ RunningStep
    \/ \E t \in Obj : Create(t) \/ Resume(t)
    \/ \E x \in Obj : Keep(x) \/ Forget(x)
    \/ \E S \in SUBSET regs : Yield(S)

SpecThreads == InitThreads /\ [][NextThreads]_<<vars, running>>

=============================================================================
