--------------------------------- MODULE GC ---------------------------------
(***************************************************************************)
(* The tri-colour collector of src/gc together with the mutator that runs  *)
(* between its steps (the VM, the libraries and the C API).                *)
(*                                                                         *)
(* Everything happens on the owner thread: collector work is interleaved   *)
(* with the mutator at the allocation checkpoints of the VM and at the     *)
(* explicit collectgarbage / lua_gc calls.  One action is one such call,   *)
(* or one object's share of it when the call works through a budget.       *)
(*                                                                         *)
(* The heap is abstracted to what marking and sweeping can tell apart:     *)
(*   - a table is a set of entries <<key, value>>; NULL stands for a key   *)
(*     or value that is not collectable (a number, a boolean);             *)
(*     a userdata has one entry at most, for its environment;              *)
(*   - link is the metatable of a table or a userdata;                     *)
(*   - meta is what collection reads in a metatable: "gc" when it has a    *)
(*     __gc, "k" and "v" when its __mode has these letters;                *)
(*   - regs is the set of objects in the stack window that markState()     *)
(*     scans.  Pushing to it has no write barrier, as in the code.         *)
(* The order of grayList_, of allObjects_ and of pendingFinalizers_ is     *)
(* left open here: ObjectList has the second one, pointer by pointer.     *)
(* Suspended coroutines have stacks of their own: see GCThreads.           *)
(***************************************************************************)
EXTENDS Naturals, FiniteSets

CONSTANTS
    Obj,         \* the addresses at which a GCObject can live
    G,           \* the address of the global table
    NULL,        \* no object, or a value that is not collectable
    Kinds,       \* the object kinds the mutator allocates
    Metas,       \* the __gc / __mode fields the mutator gives to metatables
    Edges,       \* bound: the pointers <<owner, field, target>> it stores
    MaxEntries,  \* bound: entries of one table
    MaxRegs,     \* bound: objects in the stack window at once
    MaxRoots,    \* bound: objects in roots_
    SweepAborts, \* bound: whether cycles are abandoned in their sweep
    OutOfMemory  \* bound: whether marking runs out of memory

AllKinds == {"table", "userdata", "string", "thread"}

ASSUME NullAssumption == NULL \notin Obj /\ G \in Obj
ASSUME KindsAssumption == Kinds \subseteq AllKinds
ASSUME MetasAssumption == Metas \subseteq SUBSET {"gc", "k", "v"}
ASSUME BoundsAssumption ==
    /\ Edges \subseteq Obj \X {"key", "val", "meta", "env"} \X Obj
    /\ SweepAborts \in BOOLEAN /\ OutOfMemory \in BOOLEAN

VARIABLES
    kind,        \* GCObject::getType; "free" when not on allObjects_
    entries,     \* array_ and live hashNodes_, or environment_
    link,        \* metatable_
    meta,        \* __gc and __mode of a table used as metatable
    regs,        \* the scanned stack window
    roots,       \* roots_ and the slots guarded by writeRootBarrier
    color,       \* GCObject colour bits
    gray,        \* grayList_
    weakTables,  \* weakTables_
    finalized,   \* objects with the FINALIZED bit
    pending,     \* pendingFinalizers_
    phase,       \* incrementalPhase_
    unswept,     \* objects from incrementalSweepCurrent_ to the list's end
    draining,    \* finalizersRunning_
    drain,       \* runFinalizers' local copy, what is left of it
    callback     \* the userdata whose __gc is executing, or NULL

objVars == <<kind, entries, link, meta>>
rootVars == <<regs, roots>>
markVars == <<color, gray, weakTables>>
finVars == <<finalized, pending, draining, drain, callback>>
cycleVars == <<phase, unswept>>
vars == <<objVars, rootVars, markVars, finVars, cycleVars>>

ObjOrNull == Obj \cup {NULL}
Entry == ObjOrNull \X ObjOrNull
Colors == {"white", "gray", "black"}
Phases == {"pause", "propagate", "atomic", "sweep", "finalize"}

\* The objects on allObjects_.
Heap == {o \in Obj : kind[o] # "free"}

-----------------------------------------------------------------------------
(***************************************************************************)
(* What an object refers to, and what marking makes of it.                 *)
(***************************************************************************)

Keys(es) == {e[1] : e \in es} \ {NULL}
Vals(es) == {e[2] : e \in es} \ {NULL}

\* Every pointer stored in o, weak or not.
AllRefs(o) == Keys(entries[o]) \cup Vals(entries[o]) \cup ({link[o]} \ {NULL})

\* readWeakMode, for an object of kind k whose metatable is mt.
ModeOf(k, mt) ==
    IF k = "table" /\ mt # NULL THEN meta[mt] \cap {"k", "v"} ELSE {}
Mode(o) == ModeOf(kind[o], link[o])

\* getFinalizer is not nil.
HasGC(u) == link[u] # NULL /\ "gc" \in meta[link[u]]

Strings(S) == {x \in S : kind[x] = "string"}

\* GCObject::mark, for an object of kind k with entries es and metatable mt:
\* the pointers marking follows.  Table::markContents skips a weak side but
\* always marks the strings on it.
Marks(k, es, mt) ==
    ({mt} \ {NULL})
      \cup (IF "k" \in ModeOf(k, mt) THEN Strings(Keys(es)) ELSE Keys(es))
      \cup (IF "v" \in ModeOf(k, mt) THEN Strings(Vals(es)) ELSE Vals(es))
MarkRefs(o) == Marks(kind[o], entries[o], link[o])

White(c) == {x \in Heap : c[x] = "white"}

\* Mutation: mark() does not whiten the heap it starts from.
AllWhiteStale == color

AllWhite == [x \in Obj |-> "white"]

\* The objects propagateMarks() blackens when its worklist is S: S and the
\* least set of white objects that holds whatever white object they mark.
Closure(c, S) ==
    LET w == White(c)
        closed == {T \in SUBSET w :
                     \A y \in S \cup T : MarkRefs(y) \cap w \subseteq T}
    IN  S \cup {x \in w : \A T \in closed : x \in T}

\* The colours after propagateMarks() ran to completion from worklist S.
Blacken(c, S) ==
    LET reached == IF S = {} THEN {} ELSE Closure(c, S)
    IN  [x \in Obj |-> IF x \in reached THEN "black" ELSE c[x]]

\* Tables that propagateMarks() pushed on weakTables_ while c became d.
NewlyWeak(c, d) == {t \in Heap : Mode(t) # {} /\ c[t] # d[t]}

\* Everything markRoots(), roots_ and the finalizer queue hold.
RootSet == regs \cup roots \cup pending

\* What mark() reaches from the roots, colours apart.
StrongReach == Closure(AllWhite, RootSet)

\* The least set that holds R and what its members refer to.
ReachableFrom(R, refs) ==
    LET closed == {T \in SUBSET Obj :
                     R \subseteq T /\ \A y \in T : refs[y] \subseteq T}
    IN  {x \in Obj : \A T \in closed : x \in T}

\* What the mutator can reach: weak pointers can be loaded too.
Refs == [o \in Obj |-> AllRefs(o)]
Reachable == ReachableFrom(RootSet, Refs)

\* The code runs on one thread, so nothing else runs while runFinalizers is
\* between two callbacks.
MutatorRuns == draining => callback # NULL

\* Mutation: the sweep cursor survives the reset.
ResetKeepsCursor ==
    /\ phase' = "pause"
    /\ unswept' = unswept
    /\ gray' = {}
    /\ weakTables' = {}

\* resetIncrementalCycle.  The colours stay as they are: the next cycle
\* starts by whitening every object.
Reset ==
    /\ phase' = "pause"
    /\ unswept' = {}
    /\ gray' = {}
    /\ weakTables' = {}

-----------------------------------------------------------------------------
(***************************************************************************)
(* Mutator.                                                                *)
(***************************************************************************)

\* The objects an instruction or a C function can name.
Held == regs \cup roots

\* Read a field, an upvalue or a metatable of o into a register.
Load(o, x) ==
    /\ MutatorRuns
    /\ x \in AllRefs(o)
    /\ Cardinality(regs) < MaxRegs
    /\ regs' = regs \cup {x}
    /\ UNCHANGED <<objVars, roots, markVars, finVars, cycleVars>>

\* A register dies: it is overwritten, or its frame returns.
Drop(x) ==
    /\ MutatorRuns
    /\ x \in regs
    /\ regs' = regs \ {x}
    /\ UNCHANGED <<objVars, roots, markVars, finVars, cycleVars>>

\* Mutation: the store has no write barrier.
NoBarrier(o, X) == UNCHANGED markVars

\* writeBarrier(o, child) for each child in X, in every phase: a white child
\* of a black owner is marked, and the whole grayList_ is drained with it.
Barrier(o, X) ==
    LET W == X \cap White(color)
        c == Blacken(color, gray \cup W)
    IN  IF color[o] = "black" /\ W # {}
        THEN /\ color' = c
             /\ gray' = {}
             /\ weakTables' = weakTables \cup NewlyWeak(color, c)
        ELSE UNCHANGED markVars

\* Table::set with a value other than nil.  An existing key is not written,
\* so only its new value goes through the barrier.
TableSet(t, k, v) ==
    LET old == {e \in entries[t] : k # NULL /\ e[1] = k}
        new == (entries[t] \ old) \cup {<<k, v>>}
    IN  /\ MutatorRuns
        /\ kind[t] = "table"
        /\ <<k, v>> # <<NULL, NULL>>
        /\ Cardinality(new) <= MaxEntries
        /\ Barrier(t, (IF old = {} THEN {k, v} ELSE {v}) \ {NULL})
        /\ entries' = [entries EXCEPT ![t] = new]
        /\ UNCHANGED <<kind, link, meta, rootVars, finVars, cycleVars>>

\* Table::remove, and Table::set with nil.
TableErase(t, e) ==
    /\ MutatorRuns
    /\ kind[t] = "table" /\ e \in entries[t]
    /\ entries' = [entries EXCEPT ![t] = @ \ {e}]
    /\ UNCHANGED <<kind, link, meta, rootVars, markVars, finVars, cycleVars>>

\* Table::setMetatable, Userdata::setMetatable.
SetMetatable(o, x) ==
    /\ MutatorRuns
    /\ kind[o] \in {"table", "userdata"}
    /\ x # NULL => kind[x] = "table"
    /\ Barrier(o, {x} \ {NULL})
    /\ link' = [link EXCEPT ![o] = x]
    /\ UNCHANGED <<kind, entries, meta, rootVars, finVars, cycleVars>>

\* Userdata::setEnvironment.
SetEnvironment(u, x) ==
    /\ MutatorRuns
    /\ kind[u] = "userdata" /\ kind[x] = "table"
    /\ Barrier(u, {x})
    /\ entries' = [entries EXCEPT ![u] = {<<NULL, x>>}]
    /\ UNCHANGED <<kind, link, meta, rootVars, finVars, cycleVars>>

\* writeBarrier throws std::bad_alloc: markObject queued the child, but
\* propagateMarks put the object it was scanning back and gave up.  The
\* exception leaves the setter before the store.
BarrierThrows(o, x) ==
    /\ MutatorRuns /\ OutOfMemory
    /\ kind[o] \in {"table", "userdata"}
    /\ color[o] = "black" /\ color[x] = "white"
    /\ color' = [color EXCEPT ![x] = "gray"]
    /\ gray' = gray \cup {x}
    /\ UNCHANGED <<objVars, rootVars, weakTables, finVars, cycleVars>>

\* The script changes __mode or __gc in a metatable.  No barrier of the
\* objects that have this metatable runs, and they may be garbage by now.
SetMeta(m, fields) ==
    /\ MutatorRuns
    /\ kind[m] = "table" /\ meta[m] # fields
    /\ \E o \in Obj : <<o, "meta", m>> \in Edges
    /\ meta' = [meta EXCEPT ![m] = fields]
    /\ UNCHANGED <<kind, entries, link, rootVars, markVars, finVars, cycleVars>>

\* Mutation: registerObject allocates black but does not mark what the new
\* object refers to.
AllocUnpublished(o, k, es, mt) ==
    /\ MutatorRuns
    /\ kind[o] = "free"
    /\ Cardinality(regs) < MaxRegs
    /\ mt # NULL => kind[mt] = "table"
    /\ kind' = [kind EXCEPT ![o] = k]
    /\ entries' = [entries EXCEPT ![o] = es]
    /\ link' = [link EXCEPT ![o] = mt]
    /\ regs' = regs \cup {o}
    /\ color' = [color EXCEPT ![o] = IF phase = "pause" THEN "white" ELSE "black"]
    /\ UNCHANGED <<meta, roots, gray, weakTables, finVars, cycleVars>>

\* Construct an object that may already refer to others and register it.
\* registerObject allocates black while a cycle runs and publishes what the
\* object refers to.  A prefilled weak table met while sweeping restarts the
\* cycle, and so does running out of memory while marking.
Alloc(o, k, es, mt) ==
    LET marks == Marks(k, es, mt)
        born == [color EXCEPT ![o] = "black"]
        c == Blacken(born, gray \cup (marks \cap White(born)))
        weak == NewlyWeak(color, c) \cup (IF ModeOf(k, mt) # {} THEN {o} ELSE {})
        restart == phase = "sweep" /\ weak # {}
    IN  /\ MutatorRuns
        /\ kind[o] = "free"
        /\ Cardinality(regs) < MaxRegs
        /\ mt # NULL => kind[mt] = "table"
        /\ kind' = [kind EXCEPT ![o] = k]
        /\ entries' = [entries EXCEPT ![o] = es]
        /\ link' = [link EXCEPT ![o] = mt]
        /\ regs' = regs \cup {o}
        /\ \/ /\ phase = "pause"
              /\ UNCHANGED <<markVars, cycleVars>>
           \/ /\ phase # "pause" /\ ~restart
              /\ color' = c
              /\ gray' = {}
              /\ weakTables' = weakTables \cup weak
              /\ UNCHANGED cycleVars
           \/ /\ phase # "pause" /\ (restart \/ (OutOfMemory /\ marks # {}))
              /\ phase = "sweep" => SweepAborts
              /\ color' = c
              /\ Reset
        /\ UNCHANGED <<meta, roots, finVars>>

\* writeRootBarrier(x): a white child is marked in every phase.
RootBarrier(x) ==
    LET c == Blacken(color, gray \cup {x})
    IN  IF color[x] = "white"
        THEN /\ color' = c
             /\ gray' = {}
             /\ weakTables' = weakTables \cup NewlyWeak(color, c)
        ELSE UNCHANGED markVars

\* addRoot, which needs no barrier between two cycles, and a write to one of
\* the root slots of the GlobalState, which has it always.
AddRoot(x) ==
    /\ MutatorRuns
    /\ x \in regs \ roots /\ Cardinality(roots) < MaxRoots
    /\ roots' = roots \cup {x}
    /\ \/ RootBarrier(x)
       \/ phase = "pause" /\ UNCHANGED markVars
    /\ UNCHANGED <<objVars, regs, finVars, cycleVars>>

\* removeRoot.  The global table is only ever replaced, so a root remains.
RemoveRoot(x) ==
    /\ MutatorRuns
    /\ x \in roots /\ roots # {x}
    /\ roots' = roots \ {x}
    /\ UNCHANGED <<objVars, regs, markVars, finVars, cycleVars>>

\* What the mutator may store in a field of o, among the objects it holds.
Targets(o, field) == {x \in Held : <<o, field, x>> \in Edges}

Mutator ==
    \/ \E o \in Held : \E x \in AllRefs(o) : Load(o, x)
    \/ \E x \in regs : Drop(x)
    \/ \E t \in Held : \E k \in Targets(t, "key") \cup {NULL},
                          v \in Targets(t, "val") \cup {NULL} :
          TableSet(t, k, v)
    \/ \E t \in Held : \E e \in entries[t] : TableErase(t, e)
    \/ \E o \in Held : \E x \in Targets(o, "meta") \cup {NULL} :
          link[o] # x /\ SetMetatable(o, x)
    \/ \E u \in Held : \E x \in Targets(u, "env") : SetEnvironment(u, x)
    \/ \E o \in Held, x \in Held : BarrierThrows(o, x)
    \/ \E m \in Held, fields \in Metas : SetMeta(m, fields)
    \/ \E o \in Obj : \E mt \in Targets(o, "meta") \cup {NULL} :
          \/ Alloc(o, "table", {}, mt)
          \/ \E v \in Targets(o, "val") : Alloc(o, "table", {<<NULL, v>>}, mt)
          \/ "userdata" \in Kinds /\ Alloc(o, "userdata", {}, mt)
          \/ "string" \in Kinds /\ mt = NULL /\ Alloc(o, "string", {}, NULL)
    \/ \E x \in regs : AddRoot(x)
    \/ \E x \in roots : RemoveRoot(x)

-----------------------------------------------------------------------------
(***************************************************************************)
(* Collector.                                                              *)
(***************************************************************************)

\* beginIncrementalMark: whiten the heap, queue the roots.
BeginMark ==
    /\ MutatorRuns
    /\ phase = "pause"
    /\ color' = [x \in Obj |-> IF x \in RootSet THEN "gray" ELSE "white"]
    /\ gray' = RootSet
    /\ weakTables' = {}
    /\ unswept' = {}
    /\ phase' = "propagate"
    /\ UNCHANGED <<objVars, rootVars, finVars>>

\* One object of propagateMarks(budget); incrementalStep moves on to the
\* atomic phase when grayList_ is empty after its budget.
Propagate(o) ==
    LET W == MarkRefs(o) \cap White(color)
    IN  /\ MutatorRuns
        /\ phase = "propagate"
        /\ o \in gray
        /\ color' = [x \in Obj |-> IF x = o THEN "black"
                                   ELSE IF x \in W THEN "gray" ELSE color[x]]
        /\ gray' = (gray \cup W) \ {o}
        /\ weakTables' = IF Mode(o) # {} THEN weakTables \cup {o} ELSE weakTables
        /\ phase' = IF gray' = {} THEN "atomic" ELSE "propagate"
        /\ UNCHANGED <<objVars, rootVars, finVars, unswept>>

\* Mutation: the phase only changes after an object was taken off the list.
PropagateNeverEmpty == FALSE

\* The call finds grayList_ drained by a barrier or an allocation.
PropagateEmpty ==
    /\ MutatorRuns
    /\ phase = "propagate" /\ gray = {}
    /\ phase' = "atomic"
    /\ UNCHANGED <<objVars, rootVars, markVars, finVars, unswept>>

\* The marking common to performIncrementalAtomic and collectMarkSweep, from
\* the colours c, the worklist s and the weak tables wt: the colours it leaves
\* and the weak tables it met.
Marked(c, s, wt) ==
    LET d == Blacken(c, s) IN [color |-> d, weak |-> wt \cup NewlyWeak(c, d)]

\* Mutation: prepareFinalizers ignores the FINALIZED bit.
QueuesAgain(c) ==
    {{u \in Heap : kind[u] = "userdata" /\ c[u] = "white" /\ HasGC(u)}}

\* prepareFinalizers: the sets of userdata it may queue when marking left the
\* colours c.  It asks every unmarked userdata for its __gc, and the
\* metatable it reads has been freed when an earlier sweep was abandoned
\* between the two: any answer can come out of that.
Queues(c) ==
    LET inspected == {u \in Heap : kind[u] = "userdata" /\ c[u] = "white"
                                     /\ u \notin finalized}
        sure == {u \in inspected : HasGC(u)}
        unsure == {u \in inspected : link[u] \notin Heap \cup {NULL}}
    IN  {sure \cup q : q \in SUBSET unsure}

\* Mutation: the queued userdata are marked, what they refer to is not.
ResurrectShallow(c, q, wt) ==
    [color |-> [x \in Obj |-> IF x \in q THEN "black" ELSE c[x]], weak |-> wt]

\* The end of prepareFinalizers: what it queued is marked again, with all that
\* the finalizers can reach through it.
Resurrect(c, q, wt) == Marked(c, q, wt)

\* isValueDead and isWeakValueDead: strings never die in a weak table, and a
\* weak value dies with its userdata already queued for finalization.
DeadKey(c, k) == k \in White(c) /\ kind[k] # "string"
DeadVal(c, q, v) ==
    DeadKey(c, v) \/ (v \in q /\ kind[v] = "userdata")

\* clearWeakTableEntries over the tables wt, with finalizer queue q.
Cleared(c, q, wt) ==
    [t \in Obj |->
        IF t \in wt
        THEN {e \in entries[t] : ~ \/ "k" \in Mode(t) /\ DeadKey(c, e[1])
                                   \/ "v" \in Mode(t) /\ DeadVal(c, q, e[2])}
        ELSE entries[t]]

\* Mutation: the atomic phase trusts the root snapshot of the cycle's start.
AtomicMarksWithoutRoots ==
    LET m == Marked(color, gray, weakTables)
        again == UNION {MarkRefs(t) : t \in m.weak}
        r == Marked(m.color, again \cap White(m.color), m.weak)
    IN  [r EXCEPT !.weak = {t \in @ : Mode(t) # {}}]

\* Mutation: no reconcileWeakTableModes.
AtomicMarksWithoutReconcile ==
    LET m == Marked(color, gray \cup (RootSet \cap White(color)), weakTables)
    IN  [m EXCEPT !.weak = {t \in @ : Mode(t) # {}}]

\* The marking of performIncrementalAtomic up to prepareFinalizers: the roots
\* are scanned again, then the weak tables under the modes they have now.
AtomicMarks ==
    LET m == Marked(color, gray \cup (RootSet \cap White(color)), weakTables)
        again == UNION {MarkRefs(t) : t \in m.weak}
        r == Marked(m.color, again \cap White(m.color), m.weak)
    IN  [r EXCEPT !.weak = {t \in @ : Mode(t) # {}}]

\* performIncrementalAtomic.
Atomic ==
    /\ MutatorRuns
    /\ phase = "atomic" /\ phase' = "sweep"
    /\ gray' = {}
    /\ unswept' = Heap
    /\ \E q \in Queues(AtomicMarks.color) :
          LET m == Resurrect(AtomicMarks.color, q, AtomicMarks.weak)
          IN  /\ pending' = pending \cup q
              /\ finalized' = finalized \cup q
              /\ color' = m.color
              /\ weakTables' = m.weak
              /\ entries' = Cleared(m.color, pending', m.weak)
    /\ UNCHANGED <<kind, link, meta, rootVars, draining, drain, callback>>

\* What destroyObject leaves of the objects in D: every list forgets them.
Destroy(D) ==
    /\ kind' = [x \in Obj |-> IF x \in D THEN "free" ELSE kind[x]]
    /\ link' = [x \in Obj |-> IF x \in D THEN NULL ELSE link[x]]
    /\ meta' = [x \in Obj |-> IF x \in D THEN {} ELSE meta[x]]
    /\ roots' = roots \ D

\* One object of sweepStep.
Sweep(o) ==
    LET D == {o} \cap White(color)
    IN  /\ MutatorRuns
        /\ phase = "sweep"
        /\ o \in unswept
        /\ Destroy(D)
        /\ entries' = [entries EXCEPT ![o] = IF o \in D THEN {} ELSE @]
        /\ color' = [color EXCEPT ![o] = "white"]
        /\ finalized' = finalized \ D
        /\ pending' = pending \ D
        /\ unswept' = unswept \ {o}
        /\ gray' = gray \ D
        /\ IF unswept' = {}
           THEN phase' = "finalize" /\ weakTables' = {}
           ELSE phase' = phase /\ weakTables' = weakTables \ D
        /\ UNCHANGED <<regs, draining, drain, callback>>

\* runFinalizers up to its loop: schedule a prefix of the queue, whose length
\* the execution policy limits.  It returns at once when it is re-entered,
\* when nothing is pending, or when the limit is zero.
StartDrain(queue) ==
    /\ ~draining
    /\ draining' = TRUE
    /\ drain' \in (SUBSET queue) \ {{}}
    /\ callback' = callback

\* The finalize phase of incrementalStep.
Finalize ==
    /\ MutatorRuns
    /\ phase = "finalize"
    /\ \/ /\ StartDrain(pending)
          /\ UNCHANGED <<markVars, cycleVars>>
       \/ /\ Reset
          /\ UNCHANGED <<color, draining, drain, callback>>
    /\ UNCHANGED <<objVars, rootVars, finalized, pending>>

\* collectMarkSweep: abandon any running cycle, then mark, queue finalizers,
\* clear weak tables and sweep in one call.  collectAutomatic is the same
\* without running finalizers.
FullCollect ==
    /\ MutatorRuns
    /\ phase = "sweep" => SweepAborts
    /\ color' = AllWhite
    /\ Reset
    /\ LET all == Marked(AllWhite, RootSet, {})
       IN  \E q \in Queues(all.color) :
             LET m == Resurrect(all.color, q, all.weak)
                 D == Heap \cap White(m.color)
                 survivors == Cleared(m.color, pending \cup q, m.weak)
             IN  /\ finalized' = (finalized \cup q) \ D
                 /\ pending' = (pending \cup q) \ D
                 /\ Destroy(D)
                 /\ entries' =
                       [x \in Obj |-> IF x \in D THEN {} ELSE survivors[x]]
    /\ \/ StartDrain(pending')
       \/ UNCHANGED <<draining, drain, callback>>
    /\ UNCHANGED regs

\* step() gives up on an exception: performIncrementalAtomic may already have
\* queued userdata when memory ran out.
StepFails ==
    /\ MutatorRuns /\ OutOfMemory
    /\ phase # "pause"
    /\ phase = "sweep" => SweepAborts
    /\ \E q \in IF phase = "atomic" THEN Queues(AtomicMarks.color) ELSE {{}} :
          /\ pending' = pending \cup q
          /\ finalized' = finalized \cup q
    /\ Reset
    /\ UNCHANGED <<objVars, rootVars, color, draining, drain, callback>>

\* Mutation: a userdata leaves pendingFinalizers_ before its callback runs.
DrainNextPops(u) ==
    /\ draining /\ callback = NULL
    /\ u \in drain
    /\ drain' = drain \ {u}
    /\ pending' = pending \ {u}
    /\ IF HasGC(u)
       THEN callback' = u /\ regs' = regs \cup {u}
       ELSE UNCHANGED <<callback, regs>>
    /\ UNCHANGED <<objVars, roots, markVars, cycleVars, finalized, draining>>

\* runFinalizers enters the next callback, or skips a userdata whose __gc is
\* gone by now.
DrainNext(u) ==
    /\ draining /\ callback = NULL
    /\ u \in drain
    /\ drain' = drain \ {u}
    /\ IF HasGC(u)
       THEN /\ callback' = u
            /\ regs' = regs \cup {u}
            /\ pending' = pending
       ELSE /\ pending' = pending \ {u}
            /\ UNCHANGED <<callback, regs>>
    /\ UNCHANGED <<objVars, roots, markVars, cycleVars, finalized, draining>>

\* The callback is over: callFinalizer clears its window, and the userdata
\* leaves the queue.  The caller is about to abandon any cycle that the
\* callback began.
LeaveCallback ==
    /\ callback # NULL
    /\ phase = "sweep" => SweepAborts
    /\ callback' = NULL
    /\ regs' \in {regs, regs \ {callback}}
    /\ pending' = pending \ {callback}
    /\ UNCHANGED <<objVars, roots, finalized>>

DrainReturn ==
    /\ LeaveCallback
    /\ UNCHANGED <<markVars, cycleVars, draining, drain>>

\* The callback threw: runFinalizers gives up the rest of its copy.  step()
\* resets the cycle on the way out, collect() does not.
DrainThrows ==
    /\ LeaveCallback
    /\ draining' = FALSE
    /\ drain' = {}
    /\ color' = color
    /\ Reset \/ UNCHANGED <<gray, weakTables, cycleVars>>

\* The last callback is over and its caller ends the cycle.
DrainEnd ==
    /\ draining /\ callback = NULL /\ drain = {}
    /\ draining' = FALSE
    /\ Reset
    /\ UNCHANGED <<objVars, rootVars, color, finalized, pending, drain,
                   callback>>

\* The steps that continue work already begun.
Continue ==
    \/ \E o \in Obj : Propagate(o) \/ Sweep(o)
    \/ PropagateEmpty \/ Atomic \/ Finalize

\* The body of runFinalizers, from callback to callback.
Drain ==
    \/ \E u \in drain : DrainNext(u)
    \/ DrainReturn \/ DrainThrows \/ DrainEnd

Collector ==
    \/ BeginMark
    \/ Continue
    \/ Drain
    \/ FullCollect
    \/ StepFails

\* A new GlobalState: the global table is registered and rooted.
Init ==
    /\ kind = [x \in Obj |-> IF x = G THEN "table" ELSE "free"]
    /\ roots = {G}
    /\ entries = [x \in Obj |-> {}]
    /\ link = [x \in Obj |-> NULL]
    /\ meta = [x \in Obj |-> {}]
    /\ regs = {}
    /\ color = [x \in Obj |-> "white"]
    /\ gray = {} /\ weakTables = {} /\ unswept = {}
    /\ finalized = {} /\ pending = {} /\ drain = {}
    /\ phase = "pause"
    /\ draining = FALSE
    /\ callback = NULL

Next == Mutator \/ Collector

Spec == Init /\ [][Next]_vars

\* The VM keeps reaching allocation checkpoints, each of which continues a
\* cycle that is under way; every finalizer comes to an end.
FairSpec ==
    /\ Spec
    /\ WF_vars(Continue)
    /\ WF_vars(Drain)

-----------------------------------------------------------------------------
(***************************************************************************)
(* Properties.                                                             *)
(***************************************************************************)

\* Types, and a sweep cursor that is null outside the sweep, as every way out
\* of a cycle has to leave it.
TypeOK ==
    /\ kind \in [Obj -> AllKinds \cup {"free"}]
    /\ entries \in [Obj -> SUBSET Entry]
    /\ link \in [Obj -> ObjOrNull]
    /\ meta \in [Obj -> SUBSET {"gc", "k", "v"}]
    /\ regs \subseteq Obj /\ roots \subseteq Obj
    /\ color \in [Obj -> Colors]
    /\ gray \subseteq Obj /\ weakTables \subseteq Obj
    /\ finalized \subseteq Obj /\ pending \subseteq Obj /\ drain \subseteq Obj
    /\ phase \in Phases
    /\ unswept \subseteq Obj
    /\ phase # "sweep" => unswept = {}
    /\ draining \in BOOLEAN
    /\ callback \in ObjOrNull

\* No object the program can still reach, through strong or weak pointers,
\* has been freed: neither by a sweep that runs while the program mutates the
\* heap, nor after a cycle was abandoned halfway.
NoDangling == Reachable \subseteq Heap

\* The tri-colour invariant of writeBarrier: until the atomic phase has run,
\* no pointer from a black object leads to a white one, unless the object is
\* a weak table that the atomic phase will look at again.  grayList_ holds
\* exactly the gray objects.
TriColor ==
    phase \in {"propagate", "atomic"} =>
        /\ gray = {x \in Obj : color[x] = "gray"}
        /\ \A o \in Heap : color[o] = "black" =>
              White(color) \cap
                (IF o \in weakTables THEN {link[o]} ELSE AllRefs(o)) = {}

\* The objects that sweepStep will free, if nothing aborts it.
Doomed == IF phase = "sweep" THEN unswept \cap White(color) ELSE {}

\* Between the atomic phase and the end of the sweep the condemned objects are
\* out of the program's reach, through weak tables too, and stay there while
\* it goes on loading, storing and allocating.
DoomedUnreachable == Reachable \cap Doomed = {}

\* runFinalizers keeps what it has scheduled in pendingFinalizers_, so that a
\* collection started inside a __gc callback cannot free the userdata that
\* the outer loop still holds in its local copy.
ScheduledStayQueued ==
    draining => drain \cup ({callback} \ {NULL}) \subseteq pending \cap Heap

\* A userdata enters the finalizer queue only when no root and no strong
\* pointer leads to it any more, and only once in its life.
QueuedOnlyIfUnreachable ==
    [][\A u \in pending' \ pending :
          /\ u \notin StrongReach
          /\ u \notin finalized /\ u \in finalized']_vars

\* Collection removes an entry of a surviving table only if its weak key or
\* weak value was not strongly reachable, or is waiting to be finalized.
WeakEntryClearedOnlyIfDead ==
    [][Atomic \/ FullCollect =>
          \A t \in Heap \cap Heap' : \A e \in entries[t] \ entries'[t] :
             \/ "k" \in Mode(t) /\ e[1] \notin StrongReach \cup {NULL}
             \/ "v" \in Mode(t) /\ (\/ e[2] \notin StrongReach \cup {NULL}
                                    \/ e[2] \in pending')]_vars

\* collectMarkSweep leaves exactly the objects that were strongly reachable,
\* with what it resurrected for the finalizers, whatever state an incremental
\* cycle was in when it was called.
FullCollectExact ==
    [][FullCollect =>
          Heap' = Closure(AllWhite, RootSet \cup pending')]_vars

\* A cycle that began to mark ends, however the program mutates the heap and
\* whatever its finalizers do: allocation and barriers cannot outrun the
\* marking, and no phase is left for good.
CycleEnds == (phase = "propagate") ~> (phase = "pause")

=============================================================================
