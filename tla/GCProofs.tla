------------------------------ MODULE GCProofs ------------------------------
(***************************************************************************)
(* Proofs about GC, for every set of addresses, kinds and bounds.          *)
(*                                                                         *)
(* TypeCorrect is by cases over the actions.                               *)
(*                                                                         *)
(* HeapSafe is what the heap promises: NoDangling, TriColor and            *)
(* DoomedUnreachable.  NoDangling alone is not inductive: that the sweep   *)
(* frees nothing reachable is DoomedUnreachable, which the atomic phase    *)
(* establishes from TriColor and from its second look at the roots and the *)
(* weak tables (AtomicSafety).  Two facts about least closed sets replace  *)
(* induction over paths: what the mutator reaches lies in every closed set *)
(* that holds its roots (ReachableLeast), and Closure is closed under      *)
(* MarkRefs (ClosureFacts), so that draining a worklist which holds every  *)
(* gray object leaves no black-to-white pointer (BlackenTriColor).         *)
(*                                                                         *)
(* Every step of the mutator roots an object, stores into one or allocates *)
(* one (MutatorForms), and each of the three keeps HeapSafe.  The lemmas   *)
(* about the collector's steps take what the finalizers of a step bring    *)
(* back to life as a set T that holds what it leads to (Holds).  Without   *)
(* userdata T is empty, which gives Safety; the second half of the module *)
(* has the rest.                                                           *)
(***************************************************************************)
EXTENDS GC, TLAPS

-----------------------------------------------------------------------------
(***************************************************************************)
(* The operators the actions are built from.                               *)
(***************************************************************************)

LEMMA BlackenType ==
  ASSUME NEW c \in [Obj -> Colors], NEW S
  PROVE  /\ Blacken(c, S) \in [Obj -> Colors]
         /\ NewlyWeak(c, Blacken(c, S)) \subseteq Obj
BY DEF Blacken, NewlyWeak, Colors, Heap

LEMMA RefsType ==
  ASSUME TypeOK, NEW o \in Obj
  PROVE  /\ Keys(entries[o]) \subseteq Obj
         /\ Vals(entries[o]) \subseteq Obj
         /\ AllRefs(o) \subseteq Obj
         /\ MarkRefs(o) \subseteq AllRefs(o)
<1>1. entries[o] \subseteq Entry
  BY DEF TypeOK
<1>2. Keys(entries[o]) \subseteq Obj /\ Vals(entries[o]) \subseteq Obj
  BY <1>1 DEF Keys, Vals, Entry, ObjOrNull
<1>3. link[o] \in ObjOrNull
  BY DEF TypeOK
<1>4. MarkRefs(o) \subseteq AllRefs(o)
  BY DEF MarkRefs, Marks, AllRefs, Strings
<1>. QED
  BY <1>2, <1>3, <1>4 DEF AllRefs, ObjOrNull

LEMMA ResetType ==
  ASSUME Reset
  PROVE  /\ phase' \in Phases /\ (phase' # "sweep" => unswept' = {})
         /\ unswept' \subseteq Obj /\ gray' \subseteq Obj
         /\ weakTables' \subseteq Obj
BY DEF Reset, Phases

\* The marking operators keep the types of their arguments.
LEMMA MarkedType ==
  ASSUME NEW c \in [Obj -> Colors], NEW S, NEW wt \in SUBSET Obj
  PROVE  /\ Marked(c, S, wt).color \in [Obj -> Colors]
         /\ Marked(c, S, wt).weak \in SUBSET Obj
         /\ Resurrect(c, S, wt).color \in [Obj -> Colors]
         /\ Resurrect(c, S, wt).weak \in SUBSET Obj
BY BlackenType DEF Marked, Resurrect

LEMMA AtomicMarksType ==
  ASSUME TypeOK
  PROVE  /\ AtomicMarks.color \in [Obj -> Colors]
         /\ AtomicMarks.weak \in SUBSET Obj
<1> DEFINE m == Marked(color, gray \cup (RootSet \cap White(color)), weakTables)
           again == UNION {MarkRefs(t) : t \in m.weak}
           r == Marked(m.color, again \cap White(m.color), m.weak)
<1>1. m.color \in [Obj -> Colors] /\ m.weak \in SUBSET Obj
  BY MarkedType DEF TypeOK
<1>. HIDE DEF m
<1>2. r.color \in [Obj -> Colors] /\ r.weak \in SUBSET Obj
  BY <1>1, MarkedType
<1>3. r = [color |-> r.color, weak |-> r.weak]
  BY DEF Marked
<1>4. AtomicMarks = [r EXCEPT !.weak = {t \in @ : Mode(t) # {}}]
  BY DEF AtomicMarks, m
<1>. HIDE DEF r
<1>. QED
  BY <1>2, <1>3, <1>4

LEMMA ClearedType ==
  ASSUME TypeOK, NEW c, NEW q, NEW wt
  PROVE  Cleared(c, q, wt) \in [Obj -> SUBSET Entry]
BY DEF Cleared, TypeOK

LEMMA QueuesType ==
  ASSUME NEW c, NEW q \in Queues(c)
  PROVE  q \subseteq Heap
BY DEF Queues

-----------------------------------------------------------------------------
(***************************************************************************)
(* Type correctness.                                                       *)
(***************************************************************************)

\* Destroy keeps types.
LEMMA DestroyType ==
  ASSUME TypeOK, NEW D, Destroy(D)
  PROVE  /\ kind' \in [Obj -> AllKinds \cup {"free"}]
         /\ link' \in [Obj -> ObjOrNull]
         /\ meta' \in [Obj -> SUBSET {"gc", "k", "v"}]
         /\ roots' \subseteq Obj
BY DEF TypeOK, Destroy, ObjOrNull

LEMMA BarrierType ==
  ASSUME TypeOK, NEW o, NEW X, Barrier(o, X) \/ RootBarrier(o)
  PROVE  /\ color' \in [Obj -> Colors]
         /\ gray' \subseteq Obj /\ weakTables' \subseteq Obj
BY BlackenType DEF TypeOK, Barrier, RootBarrier, markVars

LEMMA InitTypeOK == Init => TypeOK
BY NullAssumption DEF Init, TypeOK, AllKinds, ObjOrNull, Colors, Phases

LEMMA MutatorTypeOK ==
  ASSUME TypeOK, Mutator
  PROVE  TypeOK'
<1> USE DEF vars, objVars, rootVars, markVars, finVars, cycleVars
<1>. Held \subseteq Obj
  BY DEF Held, TypeOK
<1>. \A o, field : Targets(o, field) \subseteq Held
  BY DEF Targets
<1>1. ASSUME NEW o \in Held, NEW x \in AllRefs(o), Load(o, x) PROVE TypeOK'
  BY <1>1, RefsType DEF Load, TypeOK
<1>2. ASSUME NEW x \in regs, Drop(x) PROVE TypeOK'
  BY <1>2 DEF Drop, TypeOK
<1>3. ASSUME NEW t \in Held, NEW k \in Held \cup {NULL}, NEW v \in Held \cup {NULL},
             TableSet(t, k, v)
      PROVE  TypeOK'
  <2> DEFINE X == (IF {e \in entries[t] : k # NULL /\ e[1] = k} = {} THEN {k, v} ELSE {v})
                    \ {NULL}
  <2>1. Barrier(t, X)
    BY <1>3 DEF TableSet
  <2>2. entries' \in [Obj -> SUBSET Entry]
    <3>1. <<k, v>> \in Entry
      BY DEF Entry, ObjOrNull
    <3>. QED
      BY <1>3, <3>1 DEF TableSet, TypeOK
  <2>. QED
    BY <1>3, <2>1, <2>2, BarrierType DEF TableSet, TypeOK
<1>4. ASSUME NEW t \in Held, NEW e \in entries[t], TableErase(t, e) PROVE TypeOK'
  BY <1>4 DEF TableErase, TypeOK
<1>5. ASSUME NEW o \in Held, NEW x \in Held \cup {NULL}, SetMetatable(o, x)
      PROVE  TypeOK'
  BY <1>5, BarrierType DEF SetMetatable, TypeOK, ObjOrNull
<1>6. ASSUME NEW u \in Held, NEW x \in Held, SetEnvironment(u, x) PROVE TypeOK'
  <2>1. <<NULL, x>> \in Entry
    BY DEF Entry, ObjOrNull
  <2>. QED
    BY <1>6, <2>1, BarrierType DEF SetEnvironment, TypeOK
<1>7. ASSUME NEW o \in Held, NEW x \in Held, BarrierThrows(o, x) PROVE TypeOK'
  BY <1>7 DEF BarrierThrows, TypeOK, Colors
<1>8. ASSUME NEW m \in Held, NEW fields \in Metas, SetMeta(m, fields) PROVE TypeOK'
  BY <1>8, MetasAssumption DEF SetMeta, TypeOK
<1>9. ASSUME NEW o \in Obj, NEW k \in AllKinds, NEW es \in SUBSET Entry,
             NEW mt \in ObjOrNull, Alloc(o, k, es, mt)
      PROVE  TypeOK'
  <2>1. kind' \in [Obj -> AllKinds \cup {"free"}]
    BY <1>9 DEF Alloc, TypeOK
  <2>2. entries' \in [Obj -> SUBSET Entry] /\ link' \in [Obj -> ObjOrNull]
    BY <1>9 DEF Alloc, TypeOK
  <2>3. regs' \subseteq Obj
    BY <1>9 DEF Alloc, TypeOK
  <2> DEFINE born == [color EXCEPT ![o] = "black"]
             marks == Marks(k, es, mt)
             c == Blacken(born, gray \cup (marks \cap White(born)))
             weak == NewlyWeak(color, c) \cup (IF ModeOf(k, mt) # {} THEN {o} ELSE {})
  <2>4. born \in [Obj -> Colors]
    BY DEF TypeOK, Colors
  <2>5. c \in [Obj -> Colors]
    BY <2>4, BlackenType
  <2>6. weak \subseteq Obj
    BY DEF NewlyWeak, Heap
  <2>. HIDE DEF c, weak
  <2>7. CASE phase = "pause" /\ UNCHANGED <<markVars, cycleVars>>
    BY <1>9, <2>1, <2>2, <2>3, <2>7 DEF Alloc, TypeOK
  <2>8. CASE color' = c /\ gray' = {} /\ weakTables' = weakTables \cup weak
             /\ UNCHANGED cycleVars
    BY <1>9, <2>1, <2>2, <2>3, <2>5, <2>6, <2>8 DEF Alloc, TypeOK
  <2>9. CASE color' = c /\ Reset
    BY <1>9, <2>1, <2>2, <2>3, <2>5, <2>9, ResetType DEF Alloc, TypeOK
  <2>. QED
    BY <1>9, <2>7, <2>8, <2>9 DEF Alloc, c, weak
<1>10. ASSUME NEW x \in regs, AddRoot(x) PROVE TypeOK'
  BY <1>10, BarrierType DEF AddRoot, TypeOK
<1>11. ASSUME NEW x \in roots, RemoveRoot(x) PROVE TypeOK'
  BY <1>11 DEF RemoveRoot, TypeOK
<1>12. ASSUME NEW o \in Obj, NEW mt \in Targets(o, "meta") \cup {NULL},
              \/ Alloc(o, "table", {}, mt)
              \/ \E v \in Targets(o, "val") : Alloc(o, "table", {<<NULL, v>>}, mt)
              \/ "userdata" \in Kinds /\ Alloc(o, "userdata", {}, mt)
              \/ "string" \in Kinds /\ mt = NULL /\ Alloc(o, "string", {}, NULL)
       PROVE  TypeOK'
  <2>1. {} \in SUBSET Entry /\ \A v \in Targets(o, "val") : {<<NULL, v>>} \in SUBSET Entry
    BY DEF Entry, ObjOrNull
  <2>2. mt \in ObjOrNull /\ NULL \in ObjOrNull
    BY DEF ObjOrNull
  <2>. QED
    BY <1>9, <1>12, <2>1, <2>2 DEF AllKinds
<1>. QED
  BY <1>1, <1>2, <1>3, <1>4, <1>5, <1>6, <1>7, <1>8, <1>10, <1>11, <1>12
     DEF Mutator

LEMMA CollectorTypeOK ==
  ASSUME TypeOK, Collector
  PROVE  TypeOK'
<1> USE DEF vars, objVars, rootVars, markVars, finVars, cycleVars
<1>1. ASSUME BeginMark PROVE TypeOK'
  BY <1>1 DEF BeginMark, TypeOK, RootSet, Colors, Phases
<1>2. ASSUME NEW o \in Obj, Propagate(o) PROVE TypeOK'
  <2> DEFINE W == MarkRefs(o) \cap White(color)
  <2>1. W \subseteq Obj
    BY DEF White, Heap
  <2>2. color' \in [Obj -> Colors]
    BY <1>2 DEF Propagate, TypeOK, Colors
  <2>3. gray' \subseteq Obj
    BY <1>2, <2>1 DEF Propagate, TypeOK
  <2>4. weakTables' \subseteq Obj
    BY <1>2 DEF Propagate, TypeOK
  <2>5. phase' \in {"propagate", "atomic"}
    BY <1>2 DEF Propagate
  <2>. QED
    BY <1>2, <2>2, <2>3, <2>4, <2>5 DEF Propagate, TypeOK, Phases
<1>3. ASSUME NEW o \in Obj, Sweep(o) PROVE TypeOK'
  <2> DEFINE D == {o} \cap White(color)
  <2>1. Destroy(D)
    BY <1>3 DEF Sweep
  <2>2. entries' \in [Obj -> SUBSET Entry]
    BY <1>3 DEF Sweep, TypeOK
  <2>3. color' \in [Obj -> Colors]
    BY <1>3 DEF Sweep, TypeOK, Colors
  <2>4. /\ finalized' \subseteq Obj /\ pending' \subseteq Obj
        /\ unswept' \subseteq Obj /\ gray' \subseteq Obj /\ weakTables' \subseteq Obj
    BY <1>3 DEF Sweep, TypeOK
  <2>5. phase' \in Phases /\ (phase' # "sweep" => unswept' = {})
    BY <1>3 DEF Sweep, Phases
  <2>. QED
    BY <1>3, <2>1, <2>2, <2>3, <2>4, <2>5, DestroyType DEF Sweep, TypeOK
<1>4. ASSUME PropagateEmpty PROVE TypeOK'
  BY <1>4 DEF PropagateEmpty, TypeOK, Phases
<1>5. ASSUME Atomic PROVE TypeOK'
  <2>1. PICK q \in Queues(AtomicMarks.color) :
           LET m == Resurrect(AtomicMarks.color, q, AtomicMarks.weak)
           IN  /\ pending' = pending \cup q
               /\ finalized' = finalized \cup q
               /\ color' = m.color
               /\ weakTables' = m.weak
               /\ entries' = Cleared(m.color, pending', m.weak)
    BY <1>5 DEF Atomic
  <2>2. q \subseteq Obj
    BY QueuesType DEF Heap
  <2>3. color' \in [Obj -> Colors] /\ weakTables' \subseteq Obj
    BY <2>1, AtomicMarksType, MarkedType
  <2>4. entries' \in [Obj -> SUBSET Entry]
    BY <2>1, ClearedType
  <2>. QED
    BY <1>5, <2>1, <2>2, <2>3, <2>4 DEF Atomic, TypeOK, Phases, Heap
<1>6. ASSUME Finalize PROVE TypeOK'
  BY <1>6, ResetType DEF Finalize, StartDrain, TypeOK
<1>7. ASSUME NEW u \in drain, DrainNext(u) PROVE TypeOK'
  BY <1>7 DEF DrainNext, TypeOK, ObjOrNull
<1>8. ASSUME DrainReturn PROVE TypeOK'
  BY <1>8 DEF DrainReturn, LeaveCallback, TypeOK, ObjOrNull
<1>9. ASSUME DrainThrows PROVE TypeOK'
  <2>1. /\ kind' = kind /\ entries' = entries /\ link' = link /\ meta' = meta
        /\ roots' = roots /\ regs' \subseteq regs /\ finalized' = finalized
        /\ pending' \subseteq pending /\ drain' = {} /\ draining' = FALSE
        /\ callback' = NULL /\ color' = color
    BY <1>9 DEF DrainThrows, LeaveCallback
  <2>2. CASE Reset
    BY <2>1, <2>2, ResetType DEF TypeOK, ObjOrNull
  <2>3. CASE UNCHANGED <<gray, weakTables, cycleVars>>
    BY <2>1, <2>3 DEF TypeOK, ObjOrNull
  <2>. QED
    BY <1>9, <2>2, <2>3 DEF DrainThrows
<1>10. ASSUME DrainEnd PROVE TypeOK'
  BY <1>10, ResetType DEF DrainEnd, TypeOK
<1>11. ASSUME FullCollect PROVE TypeOK'
  <2> DEFINE all == Marked(AllWhite, RootSet, {})
             m(q) == Resurrect(all.color, q, all.weak)
             D(q) == Heap \cap White(m(q).color)
  <2>1. PICK q \in Queues(all.color) :
           /\ finalized' = (finalized \cup q) \ D(q)
           /\ pending' = (pending \cup q) \ D(q)
           /\ Destroy(D(q))
           /\ entries' = [x \in Obj |-> IF x \in D(q) THEN {}
                            ELSE Cleared(m(q).color, pending \cup q, m(q).weak)[x]]
    BY <1>11 DEF FullCollect
  <2>. HIDE DEF D, m
  <2>2. q \subseteq Obj
    BY QueuesType DEF Heap
  <2>3. entries' \in [Obj -> SUBSET Entry]
    BY <2>1, ClearedType
  <2>4. color' \in [Obj -> Colors]
    BY <1>11 DEF FullCollect, AllWhite, Colors
  <2>5. draining' \in BOOLEAN /\ drain' \subseteq Obj /\ callback' = callback
    BY <1>11, <2>1, <2>2 DEF FullCollect, StartDrain, TypeOK
  <2>6. Reset /\ regs' = regs
    BY <1>11 DEF FullCollect
  <2>. QED
    BY <2>1, <2>2, <2>3, <2>4, <2>5, <2>6, DestroyType, ResetType DEF TypeOK
<1>12. ASSUME StepFails PROVE TypeOK'
  <2>1. PICK q \in IF phase = "atomic" THEN Queues(AtomicMarks.color) ELSE {{}} :
           pending' = pending \cup q /\ finalized' = finalized \cup q
    BY <1>12 DEF StepFails
  <2>2. q \subseteq Obj
    BY <2>1, QueuesType DEF Heap
  <2>. QED
    BY <1>12, <2>1, <2>2, ResetType DEF StepFails, TypeOK
<1>. QED
  BY <1>1, <1>2, <1>3, <1>4, <1>5, <1>6, <1>7, <1>8, <1>9, <1>10, <1>11, <1>12
     DEF Collector, Continue, Drain

\* Every variable keeps its type, and the sweep cursor is null outside the
\* sweep phase, through every way a cycle can end or be abandoned.
THEOREM TypeCorrect == Spec => []TypeOK
<1>1. TypeOK /\ UNCHANGED vars => TypeOK'
  BY DEF vars, objVars, rootVars, markVars, finVars, cycleVars, TypeOK
<1>2. TypeOK /\ [Next]_vars => TypeOK'
  BY <1>1, MutatorTypeOK, CollectorTypeOK DEF Next
<1>. QED
  BY InitTypeOK, <1>2, PTL DEF Spec

-----------------------------------------------------------------------------
(***************************************************************************)
(* Reachability and marking as least closed sets.                          *)
(***************************************************************************)

LEMMA ReachableLeast ==
  ASSUME NEW R, NEW refs, NEW T \in SUBSET Obj,
         R \subseteq T, \A y \in T : refs[y] \subseteq T
  PROVE  ReachableFrom(R, refs) \subseteq T
BY DEF ReachableFrom

LEMMA ReachableClosed ==
  ASSUME NEW R \in SUBSET Obj, NEW refs \in [Obj -> SUBSET Obj]
  PROVE  /\ R \subseteq ReachableFrom(R, refs)
         /\ ReachableFrom(R, refs) \subseteq Obj
         /\ \A y \in ReachableFrom(R, refs) : refs[y] \subseteq ReachableFrom(R, refs)
BY DEF ReachableFrom

\* The roots are reachable, and so is what a reachable object refers to.
LEMMA ReachableFacts ==
  ASSUME TypeOK
  PROVE  /\ RootSet \subseteq Reachable /\ Reachable \subseteq Obj
         /\ \A y \in Reachable : AllRefs(y) \subseteq Reachable
<1>1. RootSet \subseteq Obj
  BY DEF TypeOK, RootSet
<1>2. Refs \in [Obj -> SUBSET Obj]
  BY RefsType DEF Refs
<1>3. \A y \in Obj : Refs[y] = AllRefs(y)
  BY DEF Refs
<1>. QED
  BY <1>1, <1>2, <1>3, ReachableClosed DEF Reachable

\* What a step leaves reachable is within any set that holds the new roots and
\* is closed under the new pointers.
LEMMA ReachableNext ==
  ASSUME NEW T \in SUBSET Obj,
         RootSet' \subseteq T, \A y \in T : AllRefs(y)' \subseteq T
  PROVE  Reachable' \subseteq T
<1>1. \A y \in T : Refs'[y] \subseteq T
  BY DEF Refs
<1>. QED
  BY <1>1, ReachableLeast DEF Reachable

LEMMA ClosureFacts ==
  ASSUME NEW c, NEW S \in SUBSET Obj
  PROVE  /\ S \subseteq Closure(c, S)
         /\ Closure(c, S) \subseteq S \cup White(c)
         /\ \A y \in Closure(c, S) : MarkRefs(y) \cap White(c) \subseteq Closure(c, S)
<1> DEFINE w == White(c)
           closed == {T \in SUBSET w : \A y \in S \cup T : MarkRefs(y) \cap w \subseteq T}
           L == {x \in w : \A T \in closed : x \in T}
<1>1. Closure(c, S) = S \cup L
  BY DEF Closure
<1>2. ASSUME NEW y \in S \cup L, NEW z \in MarkRefs(y) \cap w PROVE z \in L
  <2>1. ASSUME NEW T \in closed PROVE z \in T
    BY <1>2, <2>1
  <2>. QED
    BY <2>1
<1>. QED
  BY <1>1, <1>2

\* propagateMarks() turns objects black and nothing else, among them its
\* worklist, and nothing that it blackened marks a white object afterwards.
LEMMA BlackenFacts ==
  ASSUME NEW c \in [Obj -> Colors], NEW S \in SUBSET Obj,
         NEW d, d = Blacken(c, S)
  PROVE  /\ d \in [Obj -> Colors]
         /\ \A x \in Obj : d[x] = c[x] \/ d[x] = "black"
         /\ \A x \in S : d[x] = "black"
         /\ White(d) \subseteq White(c)
         /\ \A y \in Obj : y \in S \/ d[y] # c[y] => MarkRefs(y) \cap White(d) = {}
<1>1. d \in [Obj -> Colors]
  BY BlackenType
<1>2. CASE S = {}
  <2>1. d = c
    BY <1>2 DEF Blacken
  <2>. QED
    BY <1>2, <2>1
<1>3. CASE S # {}
  <2> DEFINE C == Closure(c, S)
  <2>1. d = [x \in Obj |-> IF x \in C THEN "black" ELSE c[x]]
    BY <1>3 DEF Blacken
  <2>. HIDE DEF C
  <2>2. S \subseteq C /\ \A y \in C : MarkRefs(y) \cap White(c) \subseteq C
    BY ClosureFacts DEF C
  <2>3. White(d) = White(c) \ C
    BY <2>1 DEF White, Heap
  <2>. QED
    BY <1>1, <2>1, <2>2, <2>3
<1>. QED
  BY <1>2, <1>3

\* The part of TriColor that speaks of black objects.
BlackInv(c, wt) ==
    \A o \in Heap : c[o] = "black" =>
       White(c) \cap (IF o \in wt THEN {link[o]} ELSE AllRefs(o)) = {}

\* A full run of propagateMarks() keeps it, and leaves nothing gray if all of
\* grayList_ was in the worklist.
LEMMA BlackenTriColor ==
  ASSUME TypeOK, NEW c \in [Obj -> Colors], NEW S \in SUBSET Obj,
         NEW d, d = Blacken(c, S),
         NEW wt, BlackInv(c, wt)
  PROVE  /\ BlackInv(d, wt \cup NewlyWeak(c, d))
         /\ {x \in Obj : c[x] = "gray"} \subseteq S => {x \in Obj : d[x] = "gray"} = {}
<1>1. ASSUME NEW o \in Heap, d[o] = "black",
             NEW x \in White(d),
             x \in (IF o \in wt \cup NewlyWeak(c, d) THEN {link[o]} ELSE AllRefs(o))
      PROVE  FALSE
  <2>0. o \in Obj
    BY DEF Heap
  <2>1. x \in White(c) /\ x \in Obj
    BY BlackenFacts DEF White, Heap
  <2>2. CASE c[o] = "black"
    <3>1. link[o] \in AllRefs(o) \/ link[o] = NULL
      BY DEF AllRefs
    <3>2. x # NULL
      BY <2>1, NullAssumption
    <3>3. x \in (IF o \in wt THEN {link[o]} ELSE AllRefs(o))
      BY <1>1, <3>1, <3>2
    <3>. QED
      BY <2>1, <2>2, <3>3 DEF BlackInv
  <2>3. CASE c[o] # "black"
    <3>1. x \notin MarkRefs(o)
      BY <1>1, <2>0, <2>3, BlackenFacts
    <3>2. x # NULL
      BY <2>1, NullAssumption
    <3>3. x # link[o]
      BY <3>1, <3>2 DEF MarkRefs, Marks
    <3>4. o \notin wt \cup NewlyWeak(c, d) /\ x \in AllRefs(o)
      BY <1>1, <3>3
    <3>5. Mode(o) = {}
      BY <1>1, <2>3, <3>4 DEF NewlyWeak
    <3>6. AllRefs(o) = MarkRefs(o)
      BY <3>5 DEF MarkRefs, Marks, Mode, AllRefs
    <3>. QED
      BY <3>1, <3>4, <3>6
  <2>. QED
    BY <2>2, <2>3
<1>2. {x \in Obj : c[x] = "gray"} \subseteq S => {x \in Obj : d[x] = "gray"} = {}
  BY BlackenFacts
<1>. QED
  BY <1>1, <1>2 DEF BlackInv

-----------------------------------------------------------------------------
(***************************************************************************)
(* The mutator.  It keeps the heap safe with or without userdata, and      *)
(* whether or not cycles are abandoned.                                    *)
(***************************************************************************)

HeapSafe == TypeOK /\ NoDangling /\ TriColor /\ DoomedUnreachable

\* TriColor in terms of BlackInv.
MarkInv(c, g, wt) == g = {x \in Obj : c[x] = "gray"} /\ BlackInv(c, wt)

LEMMA TriColorDef ==
  TriColor <=> (phase \in {"propagate", "atomic"} => MarkInv(color, gray, weakTables))
BY DEF TriColor, MarkInv, BlackInv

\* A barrier whitens nothing, keeps MarkInv, and leaves no new pointer from a
\* black owner to a white object.
LEMMA BarrierFacts ==
  ASSUME TypeOK, NEW o \in Obj, NEW X \in SUBSET Obj, Barrier(o, X)
  PROVE  /\ \A x \in Obj : color'[x] = "white" => color[x] = "white"
         /\ MarkInv(color, gray, weakTables) =>
              /\ MarkInv(color', gray', weakTables')
              /\ color'[o] = "black" => X \cap White(color') = {}
<1> DEFINE W == X \cap White(color)
           c == Blacken(color, gray \cup W)
<1>1. CASE color[o] = "black" /\ W # {}
  <2>1. color' = c /\ gray' = {} /\ weakTables' = weakTables \cup NewlyWeak(color, c)
    BY <1>1 DEF Barrier
  <2>2. gray \cup W \in SUBSET Obj /\ color \in [Obj -> Colors]
    BY DEF TypeOK
  <2>3. /\ \A x \in Obj : c[x] = color[x] \/ c[x] = "black"
        /\ \A x \in gray \cup W : c[x] = "black"
        /\ White(c) \subseteq White(color)
    BY <2>2, BlackenFacts
  <2>4. MarkInv(color, gray, weakTables) =>
          /\ BlackInv(c, weakTables \cup NewlyWeak(color, c))
          /\ {x \in Obj : c[x] = "gray"} = {}
    <3> DEFINE S == gray \cup W
    <3>1. ASSUME MarkInv(color, gray, weakTables)
          PROVE  BlackInv(color, weakTables) /\ {x \in Obj : color[x] = "gray"} \subseteq S
      BY <3>1 DEF MarkInv
    <3>. HIDE DEF S
    <3>2. c = Blacken(color, S) /\ S \in SUBSET Obj
      BY <2>2 DEF S
    <3>. HIDE DEF c
    <3>. QED
      BY <2>2, <3>1, <3>2, BlackenTriColor
  <2>5. X \cap White(c) = {}
    BY <2>3 DEF White
  <2>. HIDE DEF c
  <2>. QED
    BY <2>1, <2>3, <2>4, <2>5 DEF MarkInv
<1>2. CASE ~(color[o] = "black" /\ W # {})
  BY <1>2 DEF Barrier, markVars, MarkInv
<1>. QED
  BY <1>1, <1>2

LEMMA RootBarrierFacts ==
  ASSUME TypeOK, NEW o \in Obj, RootBarrier(o)
  PROVE  /\ \A x \in Obj : color'[x] = "white" => color[x] = "white"
         /\ MarkInv(color, gray, weakTables) => MarkInv(color', gray', weakTables')
<1> DEFINE c == Blacken(color, gray \cup {o})
<1>1. CASE color[o] = "white"
  <2>1. color' = c /\ gray' = {} /\ weakTables' = weakTables \cup NewlyWeak(color, c)
    BY <1>1 DEF RootBarrier
  <2>2. gray \cup {o} \in SUBSET Obj /\ color \in [Obj -> Colors]
    BY DEF TypeOK
  <2>3. \A x \in Obj : c[x] = color[x] \/ c[x] = "black"
    BY <2>2, BlackenFacts
  <2>4. MarkInv(color, gray, weakTables) =>
          /\ BlackInv(c, weakTables \cup NewlyWeak(color, c))
          /\ {x \in Obj : c[x] = "gray"} = {}
    <3> DEFINE S == gray \cup {o}
    <3>1. ASSUME MarkInv(color, gray, weakTables)
          PROVE  BlackInv(color, weakTables) /\ {x \in Obj : color[x] = "gray"} \subseteq S
      BY <3>1 DEF MarkInv
    <3>. HIDE DEF S
    <3>2. c = Blacken(color, S) /\ S \in SUBSET Obj
      BY <2>2 DEF S
    <3>. HIDE DEF c
    <3>. QED
      BY <2>2, <3>1, <3>2, BlackenTriColor
  <2>. HIDE DEF c
  <2>. QED
    BY <2>1, <2>3, <2>4 DEF MarkInv
<1>2. CASE color[o] # "white"
  BY <1>2 DEF RootBarrier, markVars, MarkInv
<1>. QED
  BY <1>1, <1>2

\* Graying a white object: what a barrier that runs out of memory has done.
LEMMA GrayedFacts ==
  ASSUME TypeOK, NEW x \in Obj,
         color' = [color EXCEPT ![x] = "gray"], gray' = gray \cup {x},
         weakTables' = weakTables
  PROVE  /\ \A y \in Obj : color'[y] = "white" => color[y] = "white"
         /\ MarkInv(color, gray, weakTables) => MarkInv(color', gray', weakTables')
<1>1. /\ \A y \in Obj : color'[y] = "white" => color[y] = "white"
      /\ \A y \in Obj : color'[y] = "black" => color[y] = "black"
      /\ \A y \in Obj : color'[y] = "gray" <=> color[y] = "gray" \/ y = x
  BY DEF TypeOK
<1>2. White(color') \subseteq White(color)
  BY <1>1 DEF White, Heap
<1>3. BlackInv(color, weakTables) => BlackInv(color', weakTables')
  BY <1>1, <1>2 DEF BlackInv, Heap
<1>4. gray = {y \in Obj : color[y] = "gray"} => gray' = {y \in Obj : color'[y] = "gray"}
  BY <1>1
<1>. QED
  BY <1>1, <1>3, <1>4 DEF MarkInv

\* A step that stores only pointers to reachable objects, frees nothing and
\* whitens nothing keeps the reachable objects out of the sweeper's hands.
LEMMA QuietStep ==
  ASSUME TypeOK, NoDangling, DoomedUnreachable,
         RootSet' \subseteq Reachable,
         \A y \in Reachable : AllRefs(y)' \subseteq Reachable,
         UNCHANGED <<kind, phase, unswept>>,
         \A x \in Obj : color'[x] = "white" => color[x] = "white"
  PROVE  NoDangling' /\ DoomedUnreachable'
<1>1. Reachable' \subseteq Reachable
  BY ReachableFacts, ReachableNext
<1>2. Heap' = Heap
  BY DEF Heap
<1>3. White(color)' \subseteq White(color)
  BY DEF White, Heap
<1>4. Doomed' \subseteq Doomed
  BY <1>3 DEF Doomed
<1>. QED
  BY <1>1, <1>2, <1>4 DEF NoDangling, DoomedUnreachable

\* TriColor survives a step whose new pointers do not lead from black objects
\* to white ones.
LEMMA TriColorStep ==
  ASSUME UNCHANGED <<kind, phase>>,
         phase \in {"propagate", "atomic"} =>
           /\ MarkInv(color', gray', weakTables')
           /\ \A o \in Heap : color'[o] = "black" =>
                /\ (AllRefs(o)' \ AllRefs(o)) \cap White(color') = {}
                /\ link'[o] = link[o] \/ link'[o] \notin White(color')
  PROVE  TriColor'
<1>1. Heap' = Heap /\ White(color)' = White(color')
  BY DEF Heap, White
<1>2. ASSUME phase \in {"propagate", "atomic"}, NEW o \in Heap, color'[o] = "black",
             NEW x \in White(color'),
             x \in (IF o \in weakTables' THEN {link'[o]} ELSE AllRefs(o)')
      PROVE  FALSE
  <2>1. x \notin (IF o \in weakTables' THEN {link[o]} ELSE AllRefs(o))
    BY <1>2 DEF MarkInv, BlackInv
  <2>. QED
    BY <1>2, <2>1
<1>3. phase \in {"propagate", "atomic"} => gray' = {x \in Obj : color'[x] = "gray"}
  BY DEF MarkInv
<1>. QED
  BY <1>1, <1>2, <1>3 DEF TriColor

\* The steps that only touch the stack, the roots and the colours.
LEMMA RootStep ==
  ASSUME HeapSafe, UNCHANGED <<objVars, phase, unswept>>,
         RootSet' \subseteq Reachable,
         \A x \in Obj : color'[x] = "white" => color[x] = "white",
         MarkInv(color, gray, weakTables) => MarkInv(color', gray', weakTables')
  PROVE  TriColor' /\ NoDangling' /\ DoomedUnreachable'
<1>1. \A o : AllRefs(o)' = AllRefs(o)
  BY DEF objVars, AllRefs
<1>2. UNCHANGED <<kind, link>>
  BY DEF objVars
<1>3. phase \in {"propagate", "atomic"} => MarkInv(color, gray, weakTables)
  BY TriColorDef DEF HeapSafe
<1>4. TriColor'
  BY <1>1, <1>2, <1>3, TriColorStep
<1>5. \A y \in Reachable : AllRefs(y)' \subseteq Reachable
  BY <1>1, ReachableFacts DEF HeapSafe
<1>6. NoDangling' /\ DoomedUnreachable'
  BY <1>2, <1>5, QuietStep DEF HeapSafe
<1>. QED
  BY <1>4, <1>6

\* The steps that store pointers in one object t that the mutator holds.
LEMMA StoreStep ==
  ASSUME HeapSafe, NEW t \in RootSet, NEW X \in SUBSET RootSet, Barrier(t, X),
         UNCHANGED <<kind, rootVars, pending, phase, unswept>>,
         \A o \in Obj \ {t} : entries'[o] = entries[o] /\ link'[o] = link[o],
         AllRefs(t)' \subseteq AllRefs(t) \cup X,
         link'[t] = link[t] \/ link'[t] \in X \cup {NULL}
  PROVE  TriColor' /\ NoDangling' /\ DoomedUnreachable'
<1>1. RootSet \subseteq Reachable /\ Reachable \subseteq Obj /\ RootSet' = RootSet
  BY ReachableFacts DEF HeapSafe, RootSet, rootVars
<1>2. \A o \in Obj \ {t} : AllRefs(o)' = AllRefs(o)
  BY DEF AllRefs
<1>3. /\ \A x \in Obj : color'[x] = "white" => color[x] = "white"
      /\ MarkInv(color, gray, weakTables) =>
           /\ MarkInv(color', gray', weakTables')
           /\ color'[t] = "black" => X \cap White(color') = {}
  BY <1>1, BarrierFacts DEF HeapSafe
<1>4. TriColor'
  <2>1. phase \in {"propagate", "atomic"} => MarkInv(color, gray, weakTables)
    BY TriColorDef DEF HeapSafe
  <2>2. ASSUME phase \in {"propagate", "atomic"}, NEW o \in Heap, color'[o] = "black"
        PROVE  /\ (AllRefs(o)' \ AllRefs(o)) \cap White(color') = {}
               /\ link'[o] = link[o] \/ link'[o] \notin White(color')
    <3>1. NULL \notin White(color')
      BY NullAssumption DEF White, Heap
    <3>2. CASE o = t
      BY <1>3, <2>1, <2>2, <3>1, <3>2
    <3>3. CASE o # t
      BY <1>2, <3>3 DEF Heap
    <3>. QED
      BY <3>2, <3>3
  <2>. QED
    BY <1>3, <2>1, <2>2, TriColorStep
<1>5. \A y \in Reachable : AllRefs(y)' \subseteq Reachable
  BY <1>1, <1>2, ReachableFacts DEF HeapSafe
<1>6. NoDangling' /\ DoomedUnreachable'
  BY <1>1, <1>3, <1>5, QuietStep DEF HeapSafe
<1>. QED
  BY <1>4, <1>6

\* registerObject: the new object is black, what it refers to is published.
LEMMA AllocStep ==
  ASSUME HeapSafe, NEW o \in Obj, NEW k \in AllKinds, NEW es \in SUBSET Entry, NEW mt,
         Alloc(o, k, es, mt),
         Keys(es) \cup Vals(es) \cup ({mt} \ {NULL}) \subseteq RootSet
  PROVE  TriColor' /\ NoDangling' /\ DoomedUnreachable'
<1> DEFINE N == Keys(es) \cup Vals(es) \cup ({mt} \ {NULL})
           marks == Marks(k, es, mt)
           born == [color EXCEPT ![o] = "black"]
           S == gray \cup (marks \cap White(born))
           c == Blacken(born, S)
           weak == NewlyWeak(color, c) \cup (IF ModeOf(k, mt) # {} THEN {o} ELSE {})
<1>1. /\ kind[o] = "free"
      /\ kind' = [kind EXCEPT ![o] = k]
      /\ entries' = [entries EXCEPT ![o] = es]
      /\ link' = [link EXCEPT ![o] = mt]
      /\ regs' = regs \cup {o} /\ roots' = roots /\ pending' = pending
  BY DEF Alloc, finVars
<1>2. \/ UNCHANGED <<markVars, cycleVars>> /\ phase = "pause"
      \/ /\ color' = c /\ gray' = {} /\ weakTables' = weakTables \cup weak
         /\ UNCHANGED cycleVars
      \/ phase' = "pause"
  BY DEF Alloc, Reset
<1>3. o \notin Heap /\ o \notin Reachable /\ Heap' = Heap \cup {o}
  BY <1>1 DEF Heap, HeapSafe, NoDangling, TypeOK, AllKinds
<1>4. /\ \A y \in Obj \ {o} : AllRefs(y)' = AllRefs(y) /\ link'[y] = link[y]
      /\ AllRefs(o)' = N /\ link'[o] = mt
  BY <1>1 DEF AllRefs, HeapSafe, TypeOK
<1>5. Reachable' \subseteq Reachable \cup {o}
  <2>1. RootSet \subseteq Reachable /\ Reachable \subseteq Obj
    BY ReachableFacts DEF HeapSafe
  <2> DEFINE T == Reachable \cup {o}
  <2>2. RootSet' \subseteq T
    BY <1>1, <2>1 DEF RootSet
  <2>3. ASSUME NEW y \in T PROVE AllRefs(y)' \subseteq T
    <3>1. CASE y = o
      BY <1>4, <2>1, <3>1
    <3>2. CASE y # o
      BY <1>4, <2>1, <3>2, ReachableFacts DEF HeapSafe
    <3>. QED
      BY <3>1, <3>2
  <2>4. T \in SUBSET Obj
    BY <2>1
  <2>. HIDE DEF T
  <2>5. Reachable' \subseteq T
    BY <2>2, <2>3, <2>4, ReachableNext
  <2>. QED
    BY <2>5 DEF T
<1>6. NoDangling'
  BY <1>3, <1>5 DEF HeapSafe, NoDangling
<1>7. born \in [Obj -> Colors] /\ S \in SUBSET Obj
  BY DEF HeapSafe, TypeOK, Colors, White, Heap
<1>8. /\ \A x \in Obj : c[x] = born[x] \/ c[x] = "black"
      /\ \A x \in S : c[x] = "black"
  <2>. HIDE DEF born, S
  <2>. QED
    BY <1>7, BlackenFacts
<1>9. c[o] = "black" /\ \A x \in Obj : c[x] = "white" => color[x] = "white" /\ x # o
  <2>1. born[o] = "black" /\ \A x \in Obj : x # o => born[x] = color[x]
    BY DEF HeapSafe, TypeOK
  <2>. HIDE DEF born, c
  <2>. QED
    BY <1>8, <2>1
<1>10. DoomedUnreachable'
  <2>1. phase' = "sweep" => color' = c /\ unswept' = unswept /\ phase = "sweep"
    BY <1>2 DEF cycleVars
  <2>2. Doomed' \subseteq Doomed \ {o}
    BY <1>3, <1>9, <2>1 DEF Doomed, White, Heap
  <2>. QED
    BY <1>5, <2>2 DEF DoomedUnreachable, HeapSafe
<1>11. TriColor'
  <2>1. SUFFICES ASSUME phase' \in {"propagate", "atomic"}
                 PROVE  /\ gray' = {x \in Obj : color'[x] = "gray"}
                        /\ \A y \in Heap' : color'[y] = "black" =>
                             White(color)' \cap
                               (IF y \in weakTables' THEN {link'[y]} ELSE AllRefs(y)') = {}
    BY DEF TriColor
  <2>2. /\ color' = c /\ gray' = {} /\ weakTables' = weakTables \cup weak
        /\ phase \in {"propagate", "atomic"}
    BY <1>2, <2>1 DEF cycleVars
  <2>3. MarkInv(color, gray, weakTables)
    BY <2>2, TriColorDef DEF HeapSafe
  <2>4. BlackInv(born, weakTables)
    BY <1>3, <2>3 DEF MarkInv, BlackInv, White, Heap
  <2>5. {x \in Obj : born[x] = "gray"} \subseteq S
    BY <2>3 DEF MarkInv
  <2>6. NewlyWeak(born, c) = NewlyWeak(color, c)
    BY <1>3 DEF NewlyWeak
  <2>. HIDE DEF S
  <2>7. /\ BlackInv(c, weakTables \cup NewlyWeak(color, c))
        /\ {x \in Obj : c[x] = "gray"} = {}
    <3>1. \A d : d = Blacken(born, S) =>
            /\ BlackInv(d, weakTables \cup NewlyWeak(born, d))
            /\ {x \in Obj : d[x] = "gray"} = {}
      BY <1>7, <2>4, <2>5, BlackenTriColor DEF HeapSafe
    <3>. QED
      BY <2>6, <3>1
  <2>. HIDE DEF c
  <2>8. White(color)' \subseteq White(c) /\ NULL \notin White(c)
    BY <1>3, <1>9, <2>2, NullAssumption DEF White, Heap
  <2>9. marks \cap White(c) = {}
    <3>1. White(c) \subseteq White(born)
      BY <1>3, <1>7, <1>9 DEF White, Heap
    <3>2. \A x \in White(c) : c[x] # "black"
      BY DEF White
    <3>. QED
      BY <1>8, <3>1, <3>2 DEF S
  <2>10. ASSUME NEW y \in Heap', color'[y] = "black", NEW x \in White(c),
                x \in (IF y \in weakTables' THEN {link'[y]} ELSE AllRefs(y)')
         PROVE  FALSE
    <3>1. CASE y = o
      <4>1. mt # NULL => mt \in marks
        BY DEF Marks
      <4>2. ModeOf(k, mt) = {} => N = marks
        BY DEF Marks
      <4>. QED
        BY <1>4, <2>2, <2>8, <2>9, <2>10, <3>1, <4>1, <4>2
    <3>2. CASE y # o
      <4>1. y \in Heap /\ y \in Obj
        BY <1>3, <3>2 DEF Heap
      <4>2. y \in weakTables' <=> y \in weakTables \cup NewlyWeak(color, c)
        BY <2>2, <3>2
      <4>. QED
        BY <1>4, <2>2, <2>7, <2>10, <3>2, <4>1, <4>2 DEF BlackInv
    <3>. QED
      BY <3>1, <3>2
  <2>. QED
    BY <2>2, <2>7, <2>8, <2>10
<1>. QED
  BY <1>6, <1>10, <1>11

(* Every step of the mutator is of one of three kinds.                     *)

\* It changes what the stack and the roots hold, and no object.
Rooting ==
    /\ UNCHANGED <<objVars, finVars, cycleVars>>
    /\ RootSet' \subseteq RootSet \cup UNION {AllRefs(o) : o \in RootSet}
    /\ \/ UNCHANGED markVars
       \/ \E x \in RootSet : RootBarrier(x)
       \/ \E x \in RootSet : /\ color' = [color EXCEPT ![x] = "gray"]
                             /\ gray' = gray \cup {x}
                             /\ weakTables' = weakTables

\* It stores the pointers X in an object t that the program holds.
Storing(t, X) ==
    /\ Barrier(t, X)
    /\ UNCHANGED <<kind, rootVars, finVars, cycleVars>>
    /\ \A o \in Obj \ {t} : entries'[o] = entries[o] /\ link'[o] = link[o]
    /\ AllRefs(t)' \subseteq AllRefs(t) \cup X
    /\ link'[t] = link[t] \/ link'[t] \in X \cup {NULL}

\* It creates an object.
Allocating(o, k, es, mt) ==
    /\ Alloc(o, k, es, mt)
    /\ Keys(es) \cup Vals(es) \cup ({mt} \ {NULL}) \subseteq RootSet
    /\ k = "userdata" => "userdata" \in Kinds

LEMMA MutatorForms ==
  ASSUME TypeOK, Mutator
  PROVE  \/ Rooting
         \/ \E t \in RootSet, X \in SUBSET RootSet : Storing(t, X)
         \/ \E o \in Obj, k \in AllKinds, es \in SUBSET Entry, mt \in ObjOrNull :
               Allocating(o, k, es, mt)
<1> DEFINE Stores == \E t \in RootSet, X \in SUBSET RootSet : Storing(t, X)
           Allocates == \E o \in Obj, k \in AllKinds, es \in SUBSET Entry,
                           mt \in ObjOrNull : Allocating(o, k, es, mt)
<1>1. Held \subseteq RootSet /\ RootSet \subseteq Obj
  BY DEF Held, RootSet, TypeOK
<1>2. \A o, field : Targets(o, field) \subseteq RootSet
  BY <1>1 DEF Targets
<1>3. ASSUME NEW o \in Held, NEW x \in AllRefs(o), Load(o, x) PROVE Rooting
  <2>1. x \in UNION {AllRefs(y) : y \in RootSet}
    BY <1>1
  <2>. QED
    BY <1>3, <2>1 DEF Load, Rooting, RootSet, finVars
<1>4. ASSUME NEW x \in regs, Drop(x) PROVE Rooting
  BY <1>4 DEF Drop, Rooting, RootSet, finVars
<1>5. ASSUME NEW t \in Held, NEW k \in RootSet \cup {NULL}, NEW v \in RootSet \cup {NULL},
             TableSet(t, k, v)
      PROVE  Stores
  <2> DEFINE old == {e \in entries[t] : k # NULL /\ e[1] = k}
             X == (IF old = {} THEN {k, v} ELSE {v}) \ {NULL}
  <2>1. /\ Barrier(t, X)
        /\ entries' = [entries EXCEPT ![t] = (entries[t] \ old) \cup {<<k, v>>}]
        /\ UNCHANGED <<kind, link, meta, rootVars, finVars, cycleVars>>
    BY <1>5 DEF TableSet
  <2>2. X \in SUBSET RootSet
    OBVIOUS
  <2>3. t \in Obj /\ entries'[t] = (entries[t] \ old) \cup {<<k, v>>}
    BY <1>1, <2>1 DEF TypeOK
  <2>4. AllRefs(t)' \subseteq AllRefs(t) \cup X
    <3>1. k \in Keys(entries[t]) \cup X \cup {NULL}
      <4>1. CASE old = {}
        BY <4>1
      <4>2. CASE old # {}
        BY <4>2 DEF Keys
      <4>. QED
        BY <4>1, <4>2
    <3>2. v \in X \cup {NULL}
      OBVIOUS
    <3>. HIDE DEF X
    <3>3. Keys(entries'[t]) \subseteq Keys(entries[t]) \cup X
      BY <2>3, <3>1 DEF Keys
    <3>4. Vals(entries'[t]) \subseteq Vals(entries[t]) \cup X
      BY <2>3, <3>2 DEF Vals
    <3>. QED
      BY <2>1, <3>3, <3>4 DEF AllRefs
  <2>5. \A o \in Obj \ {t} : entries'[o] = entries[o] /\ link'[o] = link[o]
    BY <2>1 DEF TypeOK
  <2>. HIDE DEF X
  <2>6. Storing(t, X)
    BY <2>1, <2>4, <2>5 DEF Storing
  <2>. QED
    BY <1>1, <2>2, <2>6
<1>6. ASSUME NEW t \in Held, NEW e \in entries[t], TableErase(t, e) PROVE Stores
  <2>1. Barrier(t, {})
    BY <1>6 DEF TableErase, Barrier
  <2>2. /\ t \in Obj /\ entries'[t] \subseteq entries[t] /\ link' = link
        /\ \A o \in Obj \ {t} : entries'[o] = entries[o] /\ link'[o] = link[o]
    BY <1>1, <1>6 DEF TableErase, TypeOK
  <2>3. AllRefs(t)' \subseteq AllRefs(t) \cup {}
    BY <2>2 DEF AllRefs, Keys, Vals
  <2>4. Storing(t, {})
    BY <1>6, <2>1, <2>2, <2>3 DEF Storing, TableErase
  <2>. QED
    BY <1>1, <2>4
<1>7. ASSUME NEW o \in Held, NEW x \in RootSet \cup {NULL}, SetMetatable(o, x)
      PROVE  Stores
  <2> DEFINE X == {x} \ {NULL}
  <2>1. /\ Barrier(o, X) /\ entries' = entries
        /\ o \in Obj /\ link'[o] = x
        /\ \A y \in Obj \ {o} : entries'[y] = entries[y] /\ link'[y] = link[y]
    BY <1>1, <1>7 DEF SetMetatable, TypeOK
  <2>2. AllRefs(o)' \subseteq AllRefs(o) \cup X
    BY <2>1 DEF AllRefs
  <2>3. X \in SUBSET RootSet /\ x \in X \cup {NULL}
    OBVIOUS
  <2>. HIDE DEF X
  <2>4. Storing(o, X)
    BY <1>7, <2>1, <2>2, <2>3 DEF Storing, SetMetatable
  <2>. QED
    BY <1>1, <2>3, <2>4
<1>8. ASSUME NEW u \in Held, NEW x \in RootSet, SetEnvironment(u, x) PROVE Stores
  <2>1. /\ Barrier(u, {x}) /\ link' = link
        /\ u \in Obj /\ entries'[u] = {<<NULL, x>>}
        /\ \A y \in Obj \ {u} : entries'[y] = entries[y] /\ link'[y] = link[y]
    BY <1>1, <1>8 DEF SetEnvironment, TypeOK
  <2>2. AllRefs(u)' \subseteq AllRefs(u) \cup {x}
    BY <2>1 DEF AllRefs, Keys, Vals
  <2>3. Storing(u, {x})
    BY <1>8, <2>1, <2>2 DEF Storing, SetEnvironment
  <2>. QED
    BY <1>1, <2>3
<1>9. ASSUME NEW o \in Held, NEW x \in Held, BarrierThrows(o, x) PROVE Rooting
  BY <1>1, <1>9 DEF BarrierThrows, Rooting, RootSet, rootVars, finVars
<1>10. ASSUME NEW m \in Held, NEW fields \in Metas, SetMeta(m, fields) PROVE Stores
  <2>1. Barrier(m, {}) /\ m \in RootSet
    BY <1>1, <1>10 DEF SetMeta, Barrier
  <2>2. AllRefs(m)' \subseteq AllRefs(m) \cup {}
    BY <1>10 DEF SetMeta, AllRefs
  <2>3. Storing(m, {})
    BY <1>10, <2>1, <2>2 DEF Storing, SetMeta
  <2>. QED
    BY <2>1, <2>3
<1>11. ASSUME NEW o \in Obj, NEW mt \in Targets(o, "meta") \cup {NULL},
              \/ Alloc(o, "table", {}, mt)
              \/ \E v \in Targets(o, "val") : Alloc(o, "table", {<<NULL, v>>}, mt)
              \/ "userdata" \in Kinds /\ Alloc(o, "userdata", {}, mt)
              \/ "string" \in Kinds /\ mt = NULL /\ Alloc(o, "string", {}, NULL)
       PROVE  Allocates
  <2>1. {mt} \ {NULL} \subseteq RootSet /\ mt \in ObjOrNull
    BY <1>1, <1>2 DEF ObjOrNull
  <2>2. {} \in SUBSET Entry /\ Keys({}) \cup Vals({}) = {}
    BY DEF Keys, Vals
  <2>3. ASSUME NEW v \in Targets(o, "val")
        PROVE  {<<NULL, v>>} \in SUBSET Entry
               /\ Keys({<<NULL, v>>}) \cup Vals({<<NULL, v>>}) \subseteq RootSet
    <3>1. v \in RootSet /\ v \in Obj
      BY <1>1, <1>2
    <3>. QED
      BY <3>1 DEF Keys, Vals, Entry, ObjOrNull
  <2>4. {"table", "string", "userdata"} \subseteq AllKinds
    BY DEF AllKinds
  <2>5. CASE Alloc(o, "table", {}, mt)
    <3>1. Allocating(o, "table", {}, mt)
      BY <2>1, <2>2, <2>5 DEF Allocating
    <3>. QED
      BY <2>1, <2>2, <2>4, <3>1
  <2>6. CASE \E v \in Targets(o, "val") : Alloc(o, "table", {<<NULL, v>>}, mt)
    <3>1. PICK v \in Targets(o, "val") : Alloc(o, "table", {<<NULL, v>>}, mt)
      BY <2>6
    <3>2. Allocating(o, "table", {<<NULL, v>>}, mt)
      BY <2>1, <2>3, <3>1 DEF Allocating
    <3>. QED
      BY <2>1, <2>3, <2>4, <3>2
  <2>7. CASE "string" \in Kinds /\ mt = NULL /\ Alloc(o, "string", {}, NULL)
    <3>1. Allocating(o, "string", {}, mt)
      BY <2>1, <2>2, <2>7 DEF Allocating
    <3>. QED
      BY <2>1, <2>2, <2>4, <3>1
  <2>8. CASE "userdata" \in Kinds /\ Alloc(o, "userdata", {}, mt)
    <3>1. Allocating(o, "userdata", {}, mt)
      BY <2>1, <2>2, <2>8 DEF Allocating
    <3>. QED
      BY <2>1, <2>2, <2>4, <3>1
  <2>. QED
    BY <1>11, <2>5, <2>6, <2>7, <2>8
<1>12. ASSUME NEW x \in regs, AddRoot(x) PROVE Rooting
  BY <1>12 DEF AddRoot, Rooting, RootSet, finVars
<1>13. ASSUME NEW x \in roots, RemoveRoot(x) PROVE Rooting
  BY <1>13 DEF RemoveRoot, Rooting, RootSet, finVars
<1>. HIDE DEF Stores, Allocates
<1>14. Rooting \/ Stores \/ Allocates
  BY <1>2, <1>3, <1>4, <1>5, <1>6, <1>7, <1>8, <1>9, <1>10, <1>11, <1>12, <1>13
     DEF Mutator
<1>. QED
  BY <1>14 DEF Stores, Allocates

LEMMA MutatorSafety ==
  ASSUME HeapSafe, Mutator
  PROVE  TriColor' /\ NoDangling' /\ DoomedUnreachable'
<1>1. RootSet \subseteq Reachable /\ Reachable \subseteq Obj
  BY ReachableFacts DEF HeapSafe
<1>2. CASE Rooting
  <2>1. UNION {AllRefs(o) : o \in RootSet} \subseteq Reachable
    BY <1>1, ReachableFacts DEF HeapSafe
  <2>2. RootSet' \subseteq Reachable /\ UNCHANGED <<objVars, phase, unswept>>
    BY <1>1, <1>2, <2>1 DEF Rooting, cycleVars
  <2>3. /\ \A y \in Obj : color'[y] = "white" => color[y] = "white"
        /\ MarkInv(color, gray, weakTables) => MarkInv(color', gray', weakTables')
    <3>1. CASE UNCHANGED markVars
      BY <3>1 DEF markVars
    <3>2. CASE \E x \in RootSet : RootBarrier(x)
      BY <1>1, <3>2, RootBarrierFacts DEF HeapSafe
    <3>3. CASE \E x \in RootSet : /\ color' = [color EXCEPT ![x] = "gray"]
                                  /\ gray' = gray \cup {x}
                                  /\ weakTables' = weakTables
      BY <1>1, <3>3, GrayedFacts DEF HeapSafe
    <3>. QED
      BY <1>2, <3>1, <3>2, <3>3 DEF Rooting
  <2>. QED
    BY <2>2, <2>3, RootStep
<1>3. ASSUME NEW t \in RootSet, NEW X \in SUBSET RootSet, Storing(t, X)
      PROVE  TriColor' /\ NoDangling' /\ DoomedUnreachable'
  <2>1. UNCHANGED <<kind, rootVars, pending, phase, unswept>>
    BY <1>3 DEF Storing, finVars, cycleVars
  <2>. QED
    BY <1>3, <2>1, StoreStep DEF Storing
<1>4. ASSUME NEW o \in Obj, NEW k \in AllKinds, NEW es \in SUBSET Entry,
             NEW mt \in ObjOrNull, Allocating(o, k, es, mt)
      PROVE  TriColor' /\ NoDangling' /\ DoomedUnreachable'
  BY <1>4, AllocStep DEF Allocating
<1>. QED
  BY <1>2, <1>3, <1>4, MutatorForms DEF HeapSafe

-----------------------------------------------------------------------------
(***************************************************************************)
(* Marking to the end, and what it says about clearing and sweeping.       *)
(***************************************************************************)

\* What marking leaves behind: an object that it marked leads to one that it
\* did not only out of one of the weak tables wt, and there only through
\* pointers that marking skips.
WhiteBehindWeak(c, wt) ==
    \A y \in Heap : c[y] # "white" =>
       \/ AllRefs(y) \cap White(c) = {}
       \/ y \in wt /\ MarkRefs(y) \cap White(c) = {}

\* Clearing the weak tables removes these last pointers.
LEMMA ClearedFacts ==
  ASSUME NEW c, NEW Q, NEW wt, WhiteBehindWeak(c, wt),
         NEW y \in Heap, c[y] # "white",
         NEW r \in Keys(Cleared(c, Q, wt)[y]) \cup Vals(Cleared(c, Q, wt)[y])
                     \cup ({link[y]} \ {NULL})
  PROVE  r \in AllRefs(y) /\ r \notin White(c)
<1>1. y \in Obj
  BY DEF Heap
<1> DEFINE es == Cleared(c, Q, wt)[y]
<1>2. es = IF y \in wt
           THEN {e \in entries[y] : ~ \/ "k" \in Mode(y) /\ DeadKey(c, e[1])
                                      \/ "v" \in Mode(y) /\ DeadVal(c, Q, e[2])}
           ELSE entries[y]
  BY <1>1 DEF Cleared
<1>. HIDE DEF es
<1>3. r \in AllRefs(y)
  BY <1>2 DEF AllRefs, Keys, Vals, es
<1>4. r \notin White(c)
  <2>1. CASE AllRefs(y) \cap White(c) = {}
    BY <1>3, <2>1
  <2>2. CASE y \in wt /\ MarkRefs(y) \cap White(c) = {}
    <3>1. CASE r = link[y] /\ r # NULL
      BY <2>2, <3>1 DEF MarkRefs, Marks
    <3>2. ASSUME r \in Keys(es) PROVE r \notin White(c)
      <4>1. "k" \in Mode(y) => ~DeadKey(c, r)
        BY <1>2, <2>2, <3>2 DEF Keys
      <4>2. r \in Keys(entries[y])
        BY <1>2, <3>2 DEF Keys
      <4>3. "k" \notin Mode(y) \/ kind[r] = "string" => r \in MarkRefs(y)
        BY <4>2 DEF MarkRefs, Marks, Mode, Strings
      <4>. QED
        BY <2>2, <4>1, <4>3 DEF DeadKey
    <3>3. ASSUME r \in Vals(es) PROVE r \notin White(c)
      <4>1. "v" \in Mode(y) => ~DeadKey(c, r)
        BY <1>2, <2>2, <3>3 DEF Vals, DeadVal
      <4>2. r \in Vals(entries[y])
        BY <1>2, <3>3 DEF Vals
      <4>3. "v" \notin Mode(y) \/ kind[r] = "string" => r \in MarkRefs(y)
        BY <4>2 DEF MarkRefs, Marks, Mode, Strings
      <4>. QED
        BY <2>2, <4>1, <4>3 DEF DeadKey
    <3>. QED
      BY <3>1, <3>2, <3>3 DEF es
  <2>. QED
    BY <2>1, <2>2 DEF WhiteBehindWeak
<1>. QED
  BY <1>3, <1>4

\* Marking from a worklist that holds the white roots and the gray objects.
\* What is black then points to white objects only out of weak tables.
LEMMA MarkedFacts ==
  ASSUME TypeOK, NEW c \in [Obj -> Colors], NEW S \in SUBSET Obj, NEW wt,
         BlackInv(c, wt), {x \in Obj : c[x] = "gray"} \subseteq S,
         NEW m, m = Marked(c, S, wt),
         NEW y \in Heap, m.color[y] # "white"
  PROVE  \/ AllRefs(y) \cap White(m.color) = {}
         \/ /\ y \in m.weak
            /\ y \in wt \/ MarkRefs(y) \cap White(m.color) = {}
<1> DEFINE d == Blacken(c, S)
<1>1. m.color = d /\ m.weak = wt \cup NewlyWeak(c, d)
  BY DEF Marked
<1>2. y \in Obj
  BY DEF Heap
<1>3. /\ White(d) \subseteq White(c)
      /\ \A x \in Obj : d[x] = c[x] \/ d[x] = "black"
      /\ \A x \in S : d[x] = "black"
      /\ \A x \in Obj : x \in S \/ d[x] # c[x] => MarkRefs(x) \cap White(d) = {}
  BY BlackenFacts
<1>. HIDE DEF d
<1>4. CASE c[y] = "black"
  BY <1>1, <1>3, <1>4 DEF BlackInv
<1>5. CASE c[y] # "black"
  <2>1. c[y] \in {"white", "gray"} /\ d[y] # "white"
    BY <1>1, <1>2, <1>5 DEF Colors
  <2>2. y \in S \/ d[y] # c[y]
    BY <1>2, <2>1
  <2>3. d[y] # c[y]
    BY <1>2, <1>3, <1>5, <2>2
  <2>4. MarkRefs(y) \cap White(d) = {}
    BY <1>2, <1>3, <2>3
  <2>5. CASE Mode(y) = {}
    BY <1>1, <2>4, <2>5 DEF MarkRefs, Marks, Mode, AllRefs
  <2>6. CASE Mode(y) # {}
    BY <1>1, <2>3, <2>4, <2>6 DEF NewlyWeak
  <2>. QED
    BY <2>5, <2>6
<1>. QED
  BY <1>4, <1>5

\* What performIncrementalAtomic knows before it clears and sweeps.
LEMMA AtomicMarksFacts ==
  ASSUME TypeOK, RootSet \subseteq Heap, MarkInv(color, gray, weakTables)
  PROVE  /\ \A x \in RootSet : AtomicMarks.color[x] # "white"
         /\ WhiteBehindWeak(AtomicMarks.color, AtomicMarks.weak)
<1> DEFINE S == gray \cup (RootSet \cap White(color))
           m == Marked(color, S, weakTables)
           again == UNION {MarkRefs(t) : t \in m.weak}
           S2 == again \cap White(m.color)
           r == Marked(m.color, S2, m.weak)
<1>1. S \in SUBSET Obj /\ color \in [Obj -> Colors]
  BY DEF TypeOK, White, Heap
<1>2. /\ m.color = Blacken(color, S)
      /\ m.weak = weakTables \cup NewlyWeak(color, Blacken(color, S))
  BY DEF Marked
<1>3. BlackInv(color, weakTables) /\ {x \in Obj : color[x] = "gray"} \subseteq S
  BY DEF MarkInv
<1>4. /\ AtomicMarks.color = r.color
      /\ AtomicMarks.weak = {t \in r.weak : Mode(t) # {}}
  <2>1. r = [color |-> r.color, weak |-> r.weak]
    BY DEF Marked
  <2>2. AtomicMarks = [r EXCEPT !.weak = {t \in @ : Mode(t) # {}}]
    BY DEF AtomicMarks
  <2>. HIDE DEF r
  <2>. QED
    BY <2>1, <2>2
<1>. HIDE DEF S, m
<1>5. /\ m.color \in [Obj -> Colors]
      /\ BlackInv(m.color, m.weak)
      /\ {x \in Obj : m.color[x] = "gray"} = {}
      /\ \A x \in Obj : m.color[x] = color[x] \/ m.color[x] = "black"
      /\ \A x \in S : m.color[x] = "black"
  <2> DEFINE d == Blacken(color, S)
  <2>1. /\ d \in [Obj -> Colors]
        /\ \A x \in Obj : d[x] = color[x] \/ d[x] = "black"
        /\ \A x \in S : d[x] = "black"
    BY <1>1, BlackenFacts
  <2>2. BlackInv(d, weakTables \cup NewlyWeak(color, d)) /\ {x \in Obj : d[x] = "gray"} = {}
    <3>. HIDE DEF d
    <3>1. d = Blacken(color, S)
      BY DEF d
    <3>. QED
      BY <1>1, <1>3, <3>1, BlackenTriColor
  <2>. HIDE DEF d
  <2>3. m.color = d /\ m.weak = weakTables \cup NewlyWeak(color, d)
    BY <1>2 DEF d
  <2>. QED
    BY <2>1, <2>2, <2>3
<1>6. S2 \in SUBSET Obj
  BY DEF White, Heap
<1>7. \A t \in m.weak : MarkRefs(t) \cap White(m.color) \subseteq S2
  OBVIOUS
<1>. HIDE DEF S2
<1>8. r.color = Blacken(m.color, S2)
  BY DEF Marked
<1>9. /\ White(r.color) \subseteq White(m.color)
      /\ \A x \in Obj : r.color[x] = m.color[x] \/ r.color[x] = "black"
      /\ \A x \in S2 : r.color[x] = "black"
  BY <1>5, <1>6, <1>8, BlackenFacts
<1>10. \A y \in Heap : r.color[y] # "white" =>
          \/ AllRefs(y) \cap White(r.color) = {}
          \/ /\ y \in r.weak
             /\ y \in m.weak \/ MarkRefs(y) \cap White(r.color) = {}
  <2>. HIDE DEF r
  <2> DEFINE cm == m.color
             wm == m.weak
  <2>1. r = Marked(cm, S2, wm)
    BY DEF r
  <2>2. {x \in Obj : cm[x] = "gray"} \subseteq S2
    BY <1>5
  <2>3. cm \in [Obj -> Colors] /\ BlackInv(cm, wm)
    BY <1>5
  <2>. HIDE DEF cm, wm
  <2>4. \A y \in Heap : r.color[y] # "white" =>
          \/ AllRefs(y) \cap White(r.color) = {}
          \/ /\ y \in r.weak
             /\ y \in wm \/ MarkRefs(y) \cap White(r.color) = {}
    BY <1>6, <2>1, <2>2, <2>3, MarkedFacts
  <2>. QED
    BY <2>4 DEF cm, wm
<1>. HIDE DEF r
<1>11. ASSUME NEW x \in RootSet PROVE r.color[x] # "white"
  <2>1. x \in Heap /\ x \in Obj
    BY DEF Heap
  <2>2. color[x] = "white" => x \in S
    BY <2>1 DEF S, White
  <2>. QED
    BY <1>5, <1>9, <2>1, <2>2
<1>12. ASSUME NEW y \in Heap, r.color[y] # "white"
       PROVE  \/ AllRefs(y) \cap White(r.color) = {}
              \/ /\ y \in r.weak /\ Mode(y) # {}
                 /\ MarkRefs(y) \cap White(r.color) = {}
  <2>1. CASE AllRefs(y) \cap White(r.color) = {}
    BY <2>1
  <2>2. CASE AllRefs(y) \cap White(r.color) # {}
    <3>1. y \in m.weak => MarkRefs(y) \cap White(r.color) = {}
      <4>1. \A x \in White(r.color) : r.color[x] # "black"
        BY DEF White
      <4>. QED
        BY <1>7, <1>9, <4>1
    <3>2. y \in r.weak /\ MarkRefs(y) \cap White(r.color) = {}
      BY <1>10, <1>12, <2>2, <3>1
    <3>3. Mode(y) = {} => AllRefs(y) = MarkRefs(y)
      BY DEF MarkRefs, Marks, Mode, AllRefs
    <3>. QED
      BY <2>2, <3>2, <3>3
  <2>. QED
    BY <2>1, <2>2
<1>. QED
  BY <1>4, <1>11, <1>12 DEF WhiteBehindWeak

\* prepareFinalizers marks what it queued, and keeps what is known so far.
LEMMA ResurrectFacts ==
  ASSUME NEW c \in [Obj -> Colors], NEW q \in SUBSET Obj, NEW wt,
         WhiteBehindWeak(c, wt), NEW m, m = Resurrect(c, q, wt)
  PROVE  /\ m.color \in [Obj -> Colors]
         /\ WhiteBehindWeak(m.color, m.weak)
         /\ White(m.color) \subseteq White(c)
         /\ \A x \in Obj : c[x] # "white" \/ x \in q => m.color[x] # "white"
<1> DEFINE d == Blacken(c, q)
<1>1. m.color = d /\ m.weak = wt \cup NewlyWeak(c, d)
  BY DEF Resurrect, Marked
<1>2. /\ d \in [Obj -> Colors] /\ White(d) \subseteq White(c)
      /\ \A x \in Obj : d[x] = c[x] \/ d[x] = "black"
      /\ \A x \in q : d[x] = "black"
      /\ \A x \in Obj : x \in q \/ d[x] # c[x] => MarkRefs(x) \cap White(d) = {}
  BY BlackenFacts
<1>. HIDE DEF d
<1>3. ASSUME NEW y \in Heap, d[y] # "white"
      PROVE  \/ AllRefs(y) \cap White(d) = {}
             \/ y \in wt \cup NewlyWeak(c, d) /\ MarkRefs(y) \cap White(d) = {}
  <2>1. y \in Obj
    BY DEF Heap
  <2>2. CASE c[y] # "white"
    BY <1>2, <2>2 DEF WhiteBehindWeak
  <2>3. CASE c[y] = "white"
    <3>1. MarkRefs(y) \cap White(d) = {}
      BY <1>2, <1>3, <2>1, <2>3
    <3>2. Mode(y) = {} => AllRefs(y) = MarkRefs(y)
      BY DEF MarkRefs, Marks, Mode, AllRefs
    <3>3. Mode(y) # {} => y \in NewlyWeak(c, d)
      BY <1>3, <2>3 DEF NewlyWeak
    <3>. QED
      BY <3>1, <3>2, <3>3
  <2>. QED
    BY <2>2, <2>3
<1>. QED
  BY <1>1, <1>2, <1>3 DEF WhiteBehindWeak

\* collectMarkSweep marks from the roots.
LEMMA FullMarksFacts ==
  ASSUME TypeOK, NEW m, m = Marked(AllWhite, RootSet, {})
  PROVE  /\ m.color \in [Obj -> Colors]
         /\ WhiteBehindWeak(m.color, m.weak)
         /\ \A x \in RootSet : m.color[x] # "white"
         /\ \A x \in Heap : m.color[x] = "white" <=> x \notin StrongReach
<1>1. AllWhite \in [Obj -> Colors] /\ RootSet \in SUBSET Obj
  BY DEF AllWhite, Colors, RootSet, TypeOK
<1>2. WhiteBehindWeak(m.color, m.weak)
  <2>1. BlackInv(AllWhite, {})
    BY DEF BlackInv, AllWhite, Heap
  <2>2. {x \in Obj : AllWhite[x] = "gray"} \subseteq RootSet
    BY DEF AllWhite
  <2>3. ASSUME NEW y \in Heap, m.color[y] # "white"
        PROVE  \/ AllRefs(y) \cap White(m.color) = {}
               \/ y \in m.weak /\ (y \in {} \/ MarkRefs(y) \cap White(m.color) = {})
    <3> DEFINE c == AllWhite
               S == RootSet
               wt == {}
    <3>1. /\ c \in [Obj -> Colors] /\ S \in SUBSET Obj /\ m = Marked(c, S, wt)
          /\ BlackInv(c, wt) /\ {x \in Obj : c[x] = "gray"} \subseteq S
      BY <1>1, <2>1, <2>2
    <3>. HIDE DEF c, S, wt
    <3>2. \/ AllRefs(y) \cap White(m.color) = {}
          \/ /\ y \in m.weak
             /\ y \in wt \/ MarkRefs(y) \cap White(m.color) = {}
      BY ONLY TypeOK, <3>1, <2>3, MarkedFacts
    <3>. QED
      BY <3>2 DEF wt
  <2>. QED
    BY <2>3 DEF WhiteBehindWeak
<1>3. \A x \in Heap : m.color[x] = "white" <=> x \notin StrongReach
  <2>1. m.color = Blacken(AllWhite, RootSet)
    BY DEF Marked
  <2>2. RootSet = {} => StrongReach = {}
    <3>1. ASSUME RootSet = {} PROVE Closure(AllWhite, {}) \subseteq {}
      <4>1. {} \in {T \in SUBSET White(AllWhite) :
                     \A y \in {} \cup T : MarkRefs(y) \cap White(AllWhite) \subseteq T}
        OBVIOUS
      <4>. QED
        BY <4>1 DEF Closure
    <3>. QED
      BY <3>1 DEF StrongReach
  <2>. QED
    BY <2>1, <2>2 DEF Blacken, StrongReach, AllWhite, Heap
<1>. QED
  BY <1>1, <1>2, <1>3, MarkedType, BlackenFacts DEF Marked

-----------------------------------------------------------------------------
(***************************************************************************)
(* The collector.                                                          *)
(***************************************************************************)

\* The objects that are not about to be swept.
Live == Heap \ Doomed

\* T is a part of the heap that no pointer leaves, with the roots and with the
\* userdata that are about to be queued.
Holds(T, q) ==
    /\ T \subseteq Heap
    /\ RootSet \cup q \subseteq T
    /\ \A y \in T : AllRefs(y) \subseteq T

LEMMA HeldSafe ==
  ASSUME NEW T, RootSet' \subseteq T, T \subseteq Live',
         \A y \in T : AllRefs(y)' \subseteq T
  PROVE  NoDangling' /\ DoomedUnreachable'
<1>1. T \in SUBSET Obj
  BY DEF Live, Heap
<1>2. Reachable' \subseteq T
  BY <1>1, ReachableNext
<1>. QED
  BY <1>2 DEF NoDangling, DoomedUnreachable, Live

LEMMA ReachableHolds ==
  ASSUME TypeOK, NoDangling
  PROVE  Holds(Reachable, {})
BY ReachableFacts DEF Holds, NoDangling

\* The steps that free nothing and leave or do not enter the sweep.
LEMMA OutsideSweep ==
  ASSUME NEW T, NEW q, Holds(T, q), UNCHANGED objVars, RootSet' \subseteq T,
         phase' # "sweep"
  PROVE  NoDangling' /\ DoomedUnreachable'
<1>1. \A y : AllRefs(y)' = AllRefs(y)
  BY DEF AllRefs, objVars
<1>2. T \subseteq Live'
  BY DEF Holds, Live, Doomed, Heap, objVars
<1>. QED
  BY <1>1, <1>2, HeldSafe DEF Holds

\* Of a part of the heap that no pointer leaves, what was marked remains such
\* a part after the weak tables were cleared.
LEMMA SurvivorsClosed ==
  ASSUME NEW T, NEW q, Holds(T, q),
         NEW c, NEW Q, NEW wt, WhiteBehindWeak(c, wt),
         \A x \in RootSet \cup q : c[x] # "white",
         RootSet' \subseteq RootSet \cup q,
         \A y \in T : c[y] # "white" =>
            entries'[y] = Cleared(c, Q, wt)[y] /\ link'[y] = link[y],
         NEW B, B = {x \in T : c[x] # "white"}
  PROVE  RootSet' \subseteq B /\ \A y \in B : AllRefs(y)' \subseteq B
<1>1. RootSet' \subseteq B
  BY DEF Holds
<1>2. ASSUME NEW y \in B, NEW r \in AllRefs(y)' PROVE r \in B
  <2>1. y \in T /\ y \in Heap /\ c[y] # "white"
    BY DEF Holds
  <2>2. r \in Keys(Cleared(c, Q, wt)[y]) \cup Vals(Cleared(c, Q, wt)[y])
               \cup ({link[y]} \ {NULL})
    BY <1>2, <2>1 DEF AllRefs, Keys, Vals
  <2>3. r \in AllRefs(y) /\ r \notin White(c)
    BY <2>1, <2>2, ClearedFacts
  <2>4. r \in T /\ r \in Heap
    BY <2>1, <2>3 DEF Holds
  <2>. QED
    BY <2>3, <2>4 DEF White
<1>. QED
  BY <1>1, <1>2

LEMMA BeginMarkSafety ==
  ASSUME HeapSafe, BeginMark
  PROVE  TriColor' /\ NoDangling' /\ DoomedUnreachable'
<1>1. RootSet \subseteq Obj
  BY DEF RootSet, HeapSafe, TypeOK
<1>2. TriColor'
  <2>1. gray' = {x \in Obj : color'[x] = "gray"}
    BY <1>1 DEF BeginMark
  <2>2. \A x \in Obj : color'[x] # "black"
    BY DEF BeginMark
  <2>. QED
    BY <2>1, <2>2 DEF TriColor, Heap
<1>3. NoDangling' /\ DoomedUnreachable'
  <2>1. RootSet' \subseteq Reachable /\ UNCHANGED objVars /\ phase' # "sweep"
    BY ReachableFacts DEF BeginMark, RootSet, rootVars, finVars, HeapSafe
  <2>. QED
    BY <2>1, ReachableHolds, OutsideSweep DEF HeapSafe
<1>. QED
  BY <1>2, <1>3

LEMMA PropagateSafety ==
  ASSUME HeapSafe, NEW o \in Obj, Propagate(o)
  PROVE  TriColor' /\ NoDangling' /\ DoomedUnreachable'
<1> DEFINE W == MarkRefs(o) \cap White(color)
<1>1. /\ phase = "propagate" /\ o \in gray
      /\ color' = [x \in Obj |-> IF x = o THEN "black"
                                 ELSE IF x \in W THEN "gray" ELSE color[x]]
      /\ gray' = (gray \cup W) \ {o}
      /\ weakTables' = IF Mode(o) # {} THEN weakTables \cup {o} ELSE weakTables
      /\ phase' \in {"propagate", "atomic"}
      /\ UNCHANGED <<objVars, rootVars, finVars, unswept>>
  BY DEF Propagate
<1>3. NoDangling' /\ DoomedUnreachable'
  <2>1. RootSet' \subseteq Reachable
    BY <1>1, ReachableFacts DEF RootSet, rootVars, finVars, HeapSafe
  <2>. QED
    BY <1>1, <2>1, ReachableHolds, OutsideSweep DEF HeapSafe
<1>4. gray = {x \in Obj : color[x] = "gray"} /\ BlackInv(color, weakTables)
  BY <1>1, TriColorDef DEF HeapSafe, MarkInv
<1>5. W \subseteq Obj /\ \A x \in W : color[x] = "white"
  BY DEF White, Heap
<1>6. gray' = {x \in Obj : color'[x] = "gray"}
  <2>1. o \in Obj /\ o \notin W
    BY <1>1, <1>4, <1>5
  <2>2. \A x \in Obj : color'[x] = "gray" <=> x # o /\ (x \in W \/ color[x] = "gray")
    BY <1>1
  <2>. HIDE DEF W
  <2>. QED
    BY <1>1, <1>4, <1>5, <2>1, <2>2
<1>7. /\ White(color)' \subseteq White(color) \ W
      /\ UNCHANGED link /\ \A y : AllRefs(y)' = AllRefs(y)
  BY <1>1 DEF White, Heap, objVars, AllRefs
<1>. HIDE DEF W
<1>8. ASSUME NEW y \in Heap', color'[y] = "black",
             NEW x \in White(color)',
             x \in (IF y \in weakTables' THEN {link'[y]} ELSE AllRefs(y)')
      PROVE  FALSE
  <2>1. y \in Heap /\ y \in Obj /\ x # NULL
    BY <1>1, NullAssumption DEF Heap, objVars, White
  <2>2. CASE y = o
    <3>1. x \notin MarkRefs(o)
      BY <1>7, <1>8 DEF W
    <3>2. x # link[o]
      BY <2>1, <3>1 DEF MarkRefs, Marks
    <3>3. Mode(o) = {} /\ x \in AllRefs(o)
      BY <1>1, <1>7, <1>8, <2>2, <3>2
    <3>. QED
      BY <3>1, <3>3 DEF MarkRefs, Marks, Mode, AllRefs
  <2>3. CASE y # o
    <3>1. color[y] = "black"
      BY <1>1, <1>8, <2>1, <2>3
    <3>2. y \in weakTables' <=> y \in weakTables
      BY <1>1, <2>3
    <3>. QED
      BY <1>4, <1>7, <1>8, <2>1, <3>1, <3>2 DEF BlackInv
  <2>. QED
    BY <2>2, <2>3
<1>9. TriColor'
  BY <1>6, <1>8 DEF TriColor
<1>. QED
  BY <1>3, <1>9

LEMMA SweepSafety ==
  ASSUME HeapSafe, NEW o \in Obj, Sweep(o)
  PROVE  TriColor' /\ NoDangling' /\ DoomedUnreachable'
<1> DEFINE D == {o} \cap White(color)
<1>1. /\ phase = "sweep" /\ o \in unswept /\ Destroy(D) /\ regs' = regs
      /\ entries' = [entries EXCEPT ![o] = IF o \in D THEN {} ELSE @]
      /\ color' = [color EXCEPT ![o] = "white"]
      /\ pending' = pending \ D /\ unswept' = unswept \ {o}
      /\ phase' \in {"sweep", "finalize"}
  BY DEF Sweep
<1>3. TriColor'
  BY <1>1 DEF TriColor
<1>4. D \cap Reachable = {}
  BY <1>1 DEF HeapSafe, DoomedUnreachable, Doomed
<1>5. RootSet' \subseteq Reachable /\ Reachable \subseteq Obj
  BY <1>1, ReachableFacts DEF RootSet, HeapSafe, Destroy
<1>6. Heap' = Heap \ D
  BY <1>1 DEF Heap, Destroy
<1>7. ASSUME NEW y \in Reachable PROVE AllRefs(y)' \subseteq Reachable
  <2>1. entries'[y] = entries[y] /\ link'[y] = link[y]
    BY <1>1, <1>4, <1>5 DEF Destroy, HeapSafe, TypeOK
  <2>2. AllRefs(y)' = AllRefs(y)
    BY <2>1 DEF AllRefs
  <2>. QED
    BY <2>2, ReachableFacts DEF HeapSafe
<1>8. Doomed' \subseteq Doomed
  BY <1>1, <1>6 DEF Doomed, White, HeapSafe, TypeOK, Heap
<1>9. Reachable \subseteq Live'
  BY <1>4, <1>6, <1>8 DEF HeapSafe, NoDangling, DoomedUnreachable, Live
<1>. QED
  BY <1>3, <1>5, <1>7, <1>9, HeldSafe

\* performIncrementalAtomic, for a part T of the heap that no pointer leaves
\* and that holds whatever may be queued.
LEMMA AtomicSafety ==
  ASSUME HeapSafe, Atomic,
         NEW T, \A q \in Queues(AtomicMarks.color) : Holds(T, q)
  PROVE  /\ TriColor' /\ NoDangling' /\ DoomedUnreachable'
         /\ RootSet' \subseteq T \cap Live'
         /\ \A y \in T \cap Live' : AllRefs(y)' \subseteq T \cap Live'
<1> DEFINE c == AtomicMarks.color
           wt == AtomicMarks.weak
<1>1. PICK q \in Queues(c) :
        /\ pending' = pending \cup q
        /\ color' = Resurrect(c, q, wt).color
        /\ entries' = Cleared(Resurrect(c, q, wt).color, pending', Resurrect(c, q, wt).weak)
  BY DEF Atomic
<1>2. /\ phase = "atomic" /\ phase' = "sweep" /\ unswept' = Heap
      /\ UNCHANGED <<kind, link, meta, rootVars, draining, drain, callback>>
  BY DEF Atomic
<1>3. c \in [Obj -> Colors]
  BY AtomicMarksType DEF HeapSafe
<1>4. (\A x \in RootSet : c[x] # "white") /\ WhiteBehindWeak(c, wt)
  <2>1. MarkInv(color, gray, weakTables)
    BY <1>2, TriColorDef DEF HeapSafe
  <2>2. RootSet \subseteq Heap
    BY ReachableFacts DEF HeapSafe, NoDangling
  <2>. QED
    BY <2>1, <2>2, AtomicMarksFacts DEF HeapSafe
<1>5. Holds(T, q) /\ T \subseteq Heap /\ Heap \subseteq Obj
  BY <1>1 DEF Holds, Heap
<1>. HIDE DEF c, wt
<1> DEFINE m == Resurrect(c, q, wt)
           B == {x \in T : color'[x] # "white"}
<1>6. /\ m.color \in [Obj -> Colors]
      /\ WhiteBehindWeak(m.color, m.weak)
      /\ \A x \in Obj : c[x] # "white" \/ x \in q => m.color[x] # "white"
  <2>1. q \in SUBSET Obj
    BY <1>1, QueuesType DEF Heap
  <2>. HIDE DEF m
  <2>2. m = Resurrect(c, q, wt)
    BY DEF m
  <2>. QED
    BY ONLY <1>3, <1>4, <2>1, <2>2, ResurrectFacts
<1>. HIDE DEF m
<1>7. color' = m.color /\ entries' = Cleared(m.color, pending', m.weak)
  BY <1>1 DEF m
<1>8. RootSet' \subseteq B /\ \A y \in B : AllRefs(y)' \subseteq B
  <2>1. \A x \in RootSet \cup q : color'[x] # "white"
    BY <1>4, <1>5, <1>6, <1>7 DEF Holds
  <2>2. RootSet' \subseteq RootSet \cup q
    BY <1>1, <1>2 DEF RootSet, rootVars
  <2>3. \A y \in T : entries'[y] = Cleared(color', pending', m.weak)[y] /\ link'[y] = link[y]
    BY <1>2, <1>7
  <2>4. WhiteBehindWeak(color', m.weak)
    BY <1>6, <1>7
  <2>. HIDE DEF B
  <2>5. B = {x \in T : color'[x] # "white"}
    BY DEF B
  <2>. QED
    BY <1>5, <2>1, <2>2, <2>3, <2>4, <2>5, SurvivorsClosed
<1>9. B = T \cap Live'
  <2>1. Heap' = Heap
    BY <1>2 DEF Heap
  <2>. QED
    BY <1>2, <1>5, <2>1 DEF Live, Doomed, White
<1>10. TriColor'
  BY <1>2 DEF TriColor
<1>. HIDE DEF B
<1>11. NoDangling' /\ DoomedUnreachable'
  <2>1. B \subseteq Live'
    BY <1>9
  <2>. QED
    BY <1>8, <2>1, HeldSafe
<1>. QED
  BY <1>8, <1>9, <1>10, <1>11

\* collectMarkSweep, likewise.
LEMMA FullCollectSafety ==
  ASSUME HeapSafe, FullCollect,
         NEW T, \A q \in Queues(Marked(AllWhite, RootSet, {}).color) : Holds(T, q)
  PROVE  /\ TriColor' /\ NoDangling' /\ DoomedUnreachable'
         /\ RootSet' \subseteq T \cap Live'
         /\ \A y \in T \cap Live' : AllRefs(y)' \subseteq T \cap Live'
<1> DEFINE all == Marked(AllWhite, RootSet, {})
           c == all.color
           wt == all.weak
<1>1. PICK q \in Queues(c) :
         LET m == Resurrect(c, q, wt)
             E == Heap \cap White(m.color)
             survivors == Cleared(m.color, pending \cup q, m.weak)
         IN  /\ pending' = (pending \cup q) \ E
             /\ Destroy(E)
             /\ entries' = [x \in Obj |-> IF x \in E THEN {} ELSE survivors[x]]
  BY DEF FullCollect
<1>2. Reset /\ regs' = regs
  BY DEF FullCollect
<1>3. /\ c \in [Obj -> Colors] /\ WhiteBehindWeak(c, wt)
      /\ \A x \in RootSet : c[x] # "white"
  BY FullMarksFacts DEF HeapSafe
<1>4. Holds(T, q) /\ T \subseteq Heap /\ Heap \subseteq Obj /\ q \in SUBSET Obj
  BY <1>1, QueuesType DEF Holds, Heap
<1>. HIDE DEF c, wt
<1> DEFINE m == Resurrect(c, q, wt)
           D == Heap \cap White(m.color)
           B == {x \in T : m.color[x] # "white"}
<1>5. /\ m.color \in [Obj -> Colors]
      /\ WhiteBehindWeak(m.color, m.weak)
      /\ \A x \in Obj : c[x] # "white" \/ x \in q => m.color[x] # "white"
  <2>1. q \in SUBSET Obj
    BY <1>4
  <2>. HIDE DEF m
  <2>2. m = Resurrect(c, q, wt)
    BY DEF m
  <2>. QED
    BY ONLY <1>3, <2>1, <2>2, ResurrectFacts
<1>6. /\ pending' = (pending \cup q) \ D
      /\ Destroy(D)
      /\ entries' = [x \in Obj |-> IF x \in D THEN {}
                                   ELSE Cleared(m.color, pending \cup q, m.weak)[x]]
  BY <1>1
<1>. HIDE DEF m
<1>7. D = {x \in Heap : m.color[x] = "white"}
  BY DEF White
<1>. HIDE DEF D
<1>8. RootSet' \subseteq B /\ \A y \in B : AllRefs(y)' \subseteq B
  <2>1. \A x \in RootSet \cup q : m.color[x] # "white"
    BY <1>3, <1>4, <1>5 DEF Holds
  <2>2. RootSet' \subseteq RootSet \cup q
    BY <1>2, <1>6 DEF RootSet, Destroy
  <2>3. ASSUME NEW y \in T, m.color[y] # "white"
        PROVE  entries'[y] = Cleared(m.color, pending \cup q, m.weak)[y] /\ link'[y] = link[y]
    <3>1. y \in Obj /\ y \notin D
      BY <1>4, <1>7, <2>3
    <3>. QED
      BY <1>6, <3>1 DEF Destroy
  <2> DEFINE d == m.color
             w == m.weak
             Q == pending \cup q
  <2>4. /\ \A x \in RootSet \cup q : d[x] # "white"
        /\ \A y \in T : d[y] # "white" =>
             entries'[y] = Cleared(d, Q, w)[y] /\ link'[y] = link[y]
        /\ WhiteBehindWeak(d, w) /\ B = {x \in T : d[x] # "white"}
    BY <1>5, <2>1, <2>3
  <2>. HIDE DEF d, w, Q, B
  <2>. QED
    BY <1>4, <2>2, <2>4, SurvivorsClosed
<1>9. B = T \cap Live'
  <2>1. Heap' = Heap \ D
    BY <1>6 DEF Heap, Destroy
  <2>2. Doomed' = {}
    BY <1>2 DEF Doomed, Reset
  <2>. QED
    BY <1>4, <1>7, <2>1, <2>2 DEF Live
<1>10. TriColor'
  BY <1>2 DEF TriColor, Reset
<1>. HIDE DEF B
<1>11. NoDangling' /\ DoomedUnreachable'
  <2>1. B \subseteq Live'
    BY <1>9
  <2>. QED
    BY <1>8, <2>1, HeldSafe
<1>. QED
  BY <1>8, <1>9, <1>10, <1>11

\* step() gives up, maybe after it has queued userdata.
LEMMA StepFailsSafety ==
  ASSUME HeapSafe, StepFails,
         NEW T, Holds(T, {}), \A q \in Queues(AtomicMarks.color) : Holds(T, q)
  PROVE  TriColor' /\ NoDangling' /\ DoomedUnreachable' /\ RootSet' \subseteq T
<1>1. PICK q \in IF phase = "atomic" THEN Queues(AtomicMarks.color) ELSE {{}} :
         pending' = pending \cup q
  BY DEF StepFails
<1>2. phase' = "pause" /\ UNCHANGED <<objVars, rootVars>>
  BY DEF StepFails, Reset
<1>3. Holds(T, q)
  BY <1>1
<1>4. RootSet' \subseteq T
  BY <1>1, <1>2, <1>3 DEF Holds, RootSet, rootVars
<1>5. NoDangling' /\ DoomedUnreachable'
  BY <1>2, <1>3, <1>4, OutsideSweep
<1>. QED
  BY <1>2, <1>4, <1>5 DEF TriColor

\* runFinalizers only moves references that the queue holds anyway.
LEMMA DrainSafety ==
  ASSUME HeapSafe, drain \subseteq pending, Drain
  PROVE  /\ TriColor' /\ NoDangling' /\ DoomedUnreachable'
         /\ RootSet' \subseteq RootSet /\ UNCHANGED <<objVars, color>>
         /\ UNCHANGED <<gray, weakTables, cycleVars>> \/ Reset
<1>1. /\ RootSet' \subseteq RootSet /\ UNCHANGED <<objVars, color>>
      /\ UNCHANGED <<gray, weakTables, cycleVars>> \/ Reset
  <2>1. ASSUME NEW u \in drain, DrainNext(u)
        PROVE  RootSet' \subseteq RootSet /\ UNCHANGED <<objVars, markVars, cycleVars>>
    BY <2>1 DEF DrainNext, RootSet
  <2>2. ASSUME DrainReturn
        PROVE  RootSet' \subseteq RootSet /\ UNCHANGED <<objVars, markVars, cycleVars>>
    BY <2>2 DEF DrainReturn, LeaveCallback, RootSet
  <2>3. ASSUME DrainThrows
        PROVE  /\ RootSet' \subseteq RootSet /\ UNCHANGED <<objVars, color>>
               /\ UNCHANGED <<gray, weakTables, cycleVars>> \/ Reset
    BY <2>3 DEF DrainThrows, LeaveCallback, RootSet
  <2>4. ASSUME DrainEnd
        PROVE  RootSet' \subseteq RootSet /\ UNCHANGED <<objVars, color>> /\ Reset
    BY <2>4 DEF DrainEnd, RootSet, rootVars
  <2>. QED
    BY <2>1, <2>2, <2>3, <2>4 DEF Drain, markVars
<1>2. RootSet \subseteq Reachable
  BY ReachableFacts DEF HeapSafe
<1>3. CASE UNCHANGED <<gray, weakTables, cycleVars>>
  BY <1>1, <1>2, <1>3, RootStep DEF cycleVars
<1>4. CASE Reset
  <2>1. phase' = "pause"
    BY <1>4 DEF Reset
  <2>2. NoDangling' /\ DoomedUnreachable'
    BY <1>1, <1>2, <2>1, ReachableHolds, OutsideSweep DEF HeapSafe
  <2>. QED
    BY <1>1, <2>1, <2>2 DEF TriColor
<1>. QED
  BY <1>1, <1>3, <1>4

\* The steps that move on to the next phase, and the end of a cycle.
LEMMA PhaseStepSafety ==
  ASSUME HeapSafe, PropagateEmpty \/ Finalize
  PROVE  /\ TriColor' /\ NoDangling' /\ DoomedUnreachable'
         /\ RootSet' = RootSet /\ UNCHANGED <<objVars, color>>
         /\ gray' \subseteq gray /\ phase # "sweep" /\ phase' # "sweep"
<1>1. /\ RootSet' = RootSet /\ UNCHANGED <<objVars, color>>
      /\ gray' \subseteq gray /\ phase # "sweep" /\ phase' # "sweep"
  BY DEF PropagateEmpty, Finalize, Reset, RootSet, rootVars, finVars, markVars, cycleVars
<1>2. TriColor'
  <2>1. CASE PropagateEmpty
    BY <2>1 DEF PropagateEmpty, TriColor, HeapSafe, markVars, objVars, Heap, White, AllRefs
  <2>2. CASE Finalize
    <3>1. phase' \in {"pause", "finalize"}
      BY <2>2 DEF Finalize, Reset, cycleVars
    <3>. QED
      BY <3>1 DEF TriColor
  <2>. QED
    BY <2>1, <2>2
<1>3. RootSet' \subseteq Reachable
  BY <1>1, ReachableFacts DEF HeapSafe
<1>. QED
  BY <1>1, <1>2, <1>3, ReachableHolds, OutsideSweep DEF HeapSafe

LEMMA InitHeapSafe == Init => HeapSafe
<1> SUFFICES ASSUME Init PROVE HeapSafe
  OBVIOUS
<1>1. TypeOK
  BY InitTypeOK
<1>2. TriColor /\ Doomed = {}
  BY DEF Init, TriColor, Doomed
<1>3. RootSet = {G} /\ \A o \in Obj : AllRefs(o) = {}
  BY DEF Init, RootSet, AllRefs, Keys, Vals
<1>4. Reachable \subseteq {G}
  <2>1. \A y \in {G} : Refs[y] \subseteq {G}
    BY <1>3, NullAssumption DEF Refs
  <2>. QED
    BY <1>3, <2>1, NullAssumption, ReachableLeast DEF Reachable
<1>5. NoDangling
  BY <1>4, NullAssumption DEF NoDangling, Heap, Init
<1>. QED
  BY <1>1, <1>2, <1>5 DEF HeapSafe, DoomedUnreachable

LEMMA StutterHeapSafe ==
  ASSUME HeapSafe, UNCHANGED vars
  PROVE  HeapSafe'
<1>1. UNCHANGED <<kind, entries, link, meta, regs, roots, color, gray, weakTables,
                  finalized, pending, phase, unswept, draining, drain, callback>>
  BY DEF vars, objVars, rootVars, markVars, finVars, cycleVars
<1>2. TypeOK'
  BY <1>1 DEF HeapSafe, TypeOK
<1>3. Heap' = Heap /\ RootSet' = RootSet /\ \A o : AllRefs(o)' = AllRefs(o)
  BY <1>1 DEF Heap, RootSet, AllRefs
<1>4. Reachable' = Reachable
  BY <1>3 DEF Reachable, ReachableFrom, Refs
<1>5. White(color)' = White(color) /\ Doomed' = Doomed
  BY <1>1, <1>3 DEF White, Doomed
<1>. QED
  BY <1>1, <1>2, <1>3, <1>4, <1>5
     DEF HeapSafe, NoDangling, TriColor, DoomedUnreachable

-----------------------------------------------------------------------------
(***************************************************************************)
(* Programs without userdata: no finalizer is ever queued.  Cycles may be  *)
(* abandoned anywhere.                                                     *)
(***************************************************************************)

NoQueue ==
    /\ \A x \in Obj : kind[x] # "userdata"
    /\ pending = {} /\ drain = {} /\ draining = FALSE /\ callback = NULL

SafetyInv == HeapSafe /\ NoQueue

LEMMA NothingQueued ==
  ASSUME NoQueue, NEW c, NEW q \in Queues(c)
  PROVE  q = {}
BY DEF Queues, NoQueue, Heap

(* runFinalizers (gc_finalize.cpp:65) returns at once on an empty queue. *)
LEMMA EmptyQueueStartsNoDrain ==
  ASSUME NEW S, S = {}
  PROVE  ~StartDrain(S)
<1>1. (SUBSET S) \ {{}} = {}
  OBVIOUS
<1>. QED
  BY <1>1 DEF StartDrain

LEMMA MutatorNoQueue ==
  ASSUME "userdata" \notin Kinds, SafetyInv, Mutator
  PROVE  NoQueue'
<1>1. CASE Rooting
  BY <1>1 DEF Rooting, SafetyInv, NoQueue, objVars, finVars
<1>2. ASSUME NEW t, NEW X, Storing(t, X) PROVE NoQueue'
  BY <1>2 DEF Storing, SafetyInv, NoQueue, finVars
<1>3. ASSUME NEW o \in Obj, NEW k, NEW es, NEW mt, Allocating(o, k, es, mt)
      PROVE  NoQueue'
  <2>1. UNCHANGED finVars /\ kind' = [kind EXCEPT ![o] = k] /\ k # "userdata"
    BY <1>3 DEF Allocating, Alloc
  <2>. QED
    BY <2>1 DEF SafetyInv, HeapSafe, TypeOK, NoQueue, finVars
<1>. QED
  BY <1>1, <1>2, <1>3, MutatorForms DEF SafetyInv, HeapSafe

LEMMA CollectorNoQueue ==
  ASSUME SafetyInv, Collector
  PROVE  NoQueue'
<1> USE DEF NoQueue, SafetyInv, objVars, finVars
<1>1. ASSUME BeginMark \/ PropagateEmpty PROVE NoQueue'
  BY <1>1 DEF BeginMark, PropagateEmpty
<1>2. ASSUME NEW o \in Obj, Propagate(o) PROVE NoQueue'
  BY <1>2 DEF Propagate
<1>3. ASSUME NEW o \in Obj, Sweep(o) PROVE NoQueue'
  BY <1>3 DEF Sweep, Destroy
<1>4. ASSUME Atomic PROVE NoQueue'
  BY <1>4, NothingQueued DEF Atomic
<1>5. ASSUME Finalize PROVE NoQueue'
  BY <1>5, EmptyQueueStartsNoDrain DEF Finalize
<1>6. ASSUME StepFails PROVE NoQueue'
  BY <1>6, NothingQueued DEF StepFails
<1>7. ASSUME FullCollect PROVE NoQueue'
  <2> DEFINE c == Marked(AllWhite, RootSet, {}).color
  <2>1. PICK q \in Queues(c) : \E D : pending' = (pending \cup q) \ D /\ Destroy(D)
    BY <1>7, Zenon DEF FullCollect
  <2>. HIDE DEF c
  <2>2. pending' = {}
    BY <2>1, NothingQueued
  <2>3. UNCHANGED <<draining, drain, callback>>
    BY <1>7, <2>2, EmptyQueueStartsNoDrain DEF FullCollect
  <2>. QED
    BY <2>1, <2>2, <2>3 DEF Destroy
<1>8. ~Drain
  BY DEF Drain, DrainReturn, DrainThrows, DrainEnd, LeaveCallback
<1>. QED
  BY <1>1, <1>2, <1>3, <1>4, <1>5, <1>6, <1>7, <1>8 DEF Collector, Continue

LEMMA CollectorSafety ==
  ASSUME SafetyInv, Collector
  PROVE  TriColor' /\ NoDangling' /\ DoomedUnreachable'
<1>1. \A c : \A q \in Queues(c) : Holds(Reachable, q)
  BY NothingQueued, ReachableHolds DEF SafetyInv, HeapSafe
<1>2. Holds(Reachable, {})
  BY ReachableHolds DEF SafetyInv, HeapSafe
<1>3. HeapSafe /\ ~Drain
  BY DEF SafetyInv, NoQueue, Drain, DrainReturn, DrainThrows, DrainEnd, LeaveCallback
<1>. QED
  BY <1>1, <1>2, <1>3, BeginMarkSafety, PropagateSafety, SweepSafety, PhaseStepSafety,
     AtomicSafety, FullCollectSafety, StepFailsSafety
     DEF Collector, Continue

\* While no userdata is ever created, nothing reachable is freed, black objects
\* do not point to white ones before the atomic phase, and what the sweep is
\* about to free stays out of reach: for every heap, every program, every way
\* of cutting a cycle into steps and of abandoning it.
THEOREM Safety ==
  ASSUME "userdata" \notin Kinds
  PROVE  Spec => [](NoDangling /\ TriColor /\ DoomedUnreachable)
<1>1. Init => SafetyInv
  BY InitHeapSafe DEF SafetyInv, NoQueue, Init
<1>2. ASSUME SafetyInv, [Next]_vars PROVE SafetyInv'
  <2>1. CASE Mutator
    BY <1>2, <2>1, MutatorTypeOK, MutatorNoQueue, MutatorSafety DEF SafetyInv, HeapSafe
  <2>2. CASE Collector
    BY <1>2, <2>2, CollectorTypeOK, CollectorNoQueue, CollectorSafety
       DEF SafetyInv, HeapSafe
  <2>3. CASE UNCHANGED vars
    <3>1. NoQueue'
      BY <1>2, <2>3 DEF SafetyInv, NoQueue, vars, objVars, finVars
    <3>. QED
      BY <1>2, <2>3, <3>1, StutterHeapSafe DEF SafetyInv
  <2>. QED
    BY <1>2, <2>1, <2>2, <2>3 DEF Next
<1>3. SafetyInv => NoDangling /\ TriColor /\ DoomedUnreachable
  BY DEF SafetyInv, HeapSafe
<1>. QED
  BY <1>1, <1>2, <1>3, PTL DEF Spec


-----------------------------------------------------------------------------
(***************************************************************************)
(* The second half: GC in the presence of userdata and their finalizers.   *)
(*                                                                         *)
(* QueueInv is what runFinalizers relies on, and holds for all constants:  *)
(* its local copy is a part of the queue, and nothing that is queued waits *)
(* to be swept.                                                            *)
(*                                                                         *)
(* That nothing reachable is freed (NoDangling) is not inductive once      *)
(* userdata exist: prepareFinalizers makes garbage reachable again, and    *)
(* what this garbage refers to must still be there.  Closed is the         *)
(* strengthening: no pointer leads from an object that will survive the    *)
(* sweep, garbage or not, to one that will not.  A sweep that is abandoned *)
(* breaks it, as GC_abandoned shows, so it is proved for cycles that run   *)
(* to the end of their sweep, through whatever the callbacks of finalizers *)
(* do, collections included.                                               *)
(*                                                                         *)
(* From either invariant of the heap, this one or HeapSafe, follow         *)
(* what the collector promises of a step: what it queues, what it clears   *)
(* and what a full collection leaves.                                      *)
(***************************************************************************)


-----------------------------------------------------------------------------
(***************************************************************************)
(* Marking, again.                                                         *)
(***************************************************************************)

\* propagateMarks() stays within every set that no marked pointer leaves.
LEMMA ClosureLeast ==
  ASSUME NEW c, NEW S, NEW T, S \subseteq T,
         \A y \in T : MarkRefs(y) \cap White(c) \subseteq T
  PROVE  Closure(c, S) \subseteq T
<1> DEFINE w == White(c)
           U == T \cap w
<1>1. U \in SUBSET w /\ \A y \in S \cup U : MarkRefs(y) \cap w \subseteq U
  OBVIOUS
<1>. HIDE DEF U
<1>2. Closure(c, S) \subseteq S \cup U
  BY <1>1 DEF Closure
<1>. QED
  BY <1>2 DEF U

LEMMA BlackenWithin ==
  ASSUME NEW c \in [Obj -> Colors], NEW S \in SUBSET Obj,
         NEW T, S \subseteq T, \A y \in T : MarkRefs(y) \cap White(c) \subseteq T,
         NEW d, d = Blacken(c, S)
  PROVE  \A x \in Obj : d[x] = c[x] \/ (x \in T /\ d[x] = "black")
<1>1. Closure(c, S) \subseteq T
  BY ClosureLeast
<1>. QED
  BY <1>1 DEF Blacken

\* The second look of the atomic phase at the roots leaves none of them white.
LEMMA RootsMarked ==
  ASSUME TypeOK
  PROVE  \A x \in RootSet \cap Heap : AtomicMarks.color[x] # "white"
<1> DEFINE S == gray \cup (RootSet \cap White(color))
           m == Marked(color, S, weakTables)
           again == UNION {MarkRefs(t) : t \in m.weak}
           S2 == again \cap White(m.color)
           r == Marked(m.color, S2, m.weak)
<1>1. AtomicMarks.color = r.color
  <2>1. r = [color |-> r.color, weak |-> r.weak]
    BY DEF Marked
  <2>2. AtomicMarks = [r EXCEPT !.weak = {t \in @ : Mode(t) # {}}]
    BY DEF AtomicMarks
  <2>. HIDE DEF r
  <2>. QED
    BY <2>1, <2>2
<1>2. S \in SUBSET Obj /\ color \in [Obj -> Colors] /\ m.color = Blacken(color, S)
  BY DEF TypeOK, White, Heap, Marked
<1>3. S2 \in SUBSET Obj /\ r.color = Blacken(m.color, S2)
  BY DEF White, Heap, Marked
<1>4. \A x \in RootSet \cap Heap : color[x] = "white" => x \in S
  BY DEF White
<1>. HIDE DEF S, m, S2, r
<1>5. /\ m.color \in [Obj -> Colors]
      /\ \A x \in Obj : m.color[x] = color[x] \/ m.color[x] = "black"
      /\ \A x \in S : m.color[x] = "black"
  BY <1>2, BlackenFacts
<1>6. \A x \in Obj : r.color[x] = m.color[x] \/ r.color[x] = "black"
  BY <1>3, <1>5, BlackenFacts
<1>. QED
  BY <1>1, <1>4, <1>5, <1>6 DEF Heap

-----------------------------------------------------------------------------
(***************************************************************************)
(* What the mutator leaves alone.                                          *)
(***************************************************************************)

LEMMA AllocFacts ==
  ASSUME TypeOK, NEW o \in Obj, NEW k \in AllKinds, NEW es, NEW mt, Alloc(o, k, es, mt),
         NEW T, gray \subseteq T, Marks(k, es, mt) \cap White(color) \subseteq T,
         \A y \in T : MarkRefs(y) \cap White(color) \subseteq T
  PROVE  /\ o \notin Heap /\ Heap' = Heap \cup {o}
         /\ phase' = "sweep" =>
              /\ phase = "sweep" /\ unswept' = unswept
              /\ color'[o] = "black"
              /\ \A x \in Heap : color'[x] = color[x] \/ (x \in T /\ color'[x] = "black")
<1> DEFINE born == [color EXCEPT ![o] = "black"]
           S == gray \cup (Marks(k, es, mt) \cap White(born))
           c == Blacken(born, S)
<1>1. kind[o] = "free" /\ kind' = [kind EXCEPT ![o] = k]
  BY DEF Alloc
<1>2. o \notin Heap /\ Heap' = Heap \cup {o}
  BY <1>1 DEF Heap, TypeOK, AllKinds
<1>3. phase' = "sweep" => phase = "sweep" /\ unswept' = unswept /\ color' = c
  BY DEF Alloc, Reset, cycleVars
<1>4. /\ born \in [Obj -> Colors] /\ S \in SUBSET Obj /\ born[o] = "black"
      /\ \A x \in Heap : born[x] = color[x]
  BY <1>2 DEF TypeOK, Colors, White, Heap
<1>5. S \subseteq T /\ \A y \in T : MarkRefs(y) \cap White(born) \subseteq T
  <2>1. White(born) = White(color)
    BY <1>2, <1>4 DEF White
  <2>. QED
    BY <2>1
<1>. HIDE DEF born, S, c
<1>6. c = Blacken(born, S)
  BY DEF c
<1>7. \A x \in Obj : c[x] = born[x] \/ (x \in T /\ c[x] = "black")
  BY ONLY <1>4, <1>5, <1>6, BlackenWithin
<1>. QED
  BY <1>2, <1>3, <1>4, <1>7 DEF Heap

\* It frees nothing, whitens nothing and neither begins nor ends a sweep.
LEMMA MutatorFacts ==
  ASSUME TypeOK, Mutator
  PROVE  /\ UNCHANGED finVars /\ Heap \subseteq Heap' /\ Doomed' \cap Heap \subseteq Doomed
         /\ phase' = "sweep" => phase = "sweep"
<1>1. ASSUME UNCHANGED <<kind, phase, unswept>>,
             \A x \in Obj : color'[x] = "white" => color[x] = "white"
      PROVE  Heap \subseteq Heap' /\ Doomed' \subseteq Doomed
  BY <1>1 DEF Heap, Doomed, White
<1>2. RootSet \subseteq Obj
  BY DEF RootSet, TypeOK
<1>3. CASE Rooting
  <2>1. \A x \in Obj : color'[x] = "white" => color[x] = "white"
    BY <1>2, <1>3, RootBarrierFacts DEF Rooting, markVars, TypeOK
  <2>. QED
    BY <1>1, <1>3, <2>1 DEF Rooting, objVars, cycleVars
<1>4. ASSUME NEW t \in RootSet, NEW X \in SUBSET RootSet, Storing(t, X)
      PROVE  /\ UNCHANGED finVars /\ Heap \subseteq Heap' /\ Doomed' \subseteq Doomed
             /\ phase' = phase
  <2>1. \A x \in Obj : color'[x] = "white" => color[x] = "white"
    BY <1>2, <1>4, BarrierFacts DEF Storing
  <2>. QED
    BY <1>1, <1>4, <2>1 DEF Storing, cycleVars
<1>5. ASSUME NEW o \in Obj, NEW k \in AllKinds, NEW es \in SUBSET Entry,
             NEW mt \in ObjOrNull, Allocating(o, k, es, mt)
      PROVE  /\ UNCHANGED finVars /\ Heap \subseteq Heap' /\ Doomed' \cap Heap \subseteq Doomed
             /\ phase' = "sweep" => phase = "sweep"
  <2>1. gray \subseteq Obj /\ Marks(k, es, mt) \cap White(color) \subseteq Obj
        /\ \A y \in Obj : MarkRefs(y) \cap White(color) \subseteq Obj
    BY DEF TypeOK, White, Heap
  <2>2. Alloc(o, k, es, mt) /\ UNCHANGED finVars
    BY <1>5 DEF Allocating, Alloc
  <2>3. /\ o \notin Heap /\ Heap' = Heap \cup {o}
        /\ phase' = "sweep" =>
             /\ phase = "sweep" /\ unswept' = unswept
             /\ \A x \in Heap : color'[x] = color[x] \/ color'[x] = "black"
    BY <2>1, <2>2, AllocFacts
  <2>. QED
    BY <2>2, <2>3 DEF Doomed, White
<1>. QED
  BY <1>3, <1>4, <1>5, MutatorForms
-----------------------------------------------------------------------------
(***************************************************************************)
(* The finalizer queue, for all constants.                                 *)
(***************************************************************************)

QueueInv ==
    /\ pending \subseteq Heap
    /\ drain \subseteq pending
    /\ callback \in pending \cup {NULL} /\ callback \notin drain
    /\ ~draining => drain = {} /\ callback = NULL
    /\ pending \cap Doomed = {}

LEMMA MutatorQueue ==
  ASSUME TypeOK, QueueInv, Mutator
  PROVE  QueueInv'
<1>1. /\ UNCHANGED <<pending, draining, drain, callback>>
      /\ Heap \subseteq Heap' /\ Doomed' \cap Heap \subseteq Doomed
  BY MutatorFacts DEF finVars
<1>. QED
  BY <1>1 DEF QueueInv

\* Without a sweep under way nothing is condemned.
LEMMA QueueOutsideSweep ==
  ASSUME QueueInv, UNCHANGED kind, phase' # "sweep",
         drain' \subseteq pending', pending' \subseteq Heap,
         callback' \in pending' \cup {NULL} /\ callback' \notin drain',
         ~draining' => drain' = {} /\ callback' = NULL
  PROVE  QueueInv'
<1>1. Heap' = Heap /\ Doomed' = {}
  BY DEF Heap, Doomed
<1>. QED
  BY <1>1 DEF QueueInv

LEMMA SweepQueue ==
  ASSUME TypeOK, QueueInv, NEW o \in Obj, Sweep(o)
  PROVE  QueueInv'
<1> DEFINE D == {o} \cap White(color)
<1>1. /\ phase = "sweep" /\ o \in unswept /\ Destroy(D)
      /\ color' = [color EXCEPT ![o] = "white"]
      /\ pending' = pending \ D /\ unswept' = unswept \ {o}
      /\ UNCHANGED <<draining, drain, callback>>
  BY DEF Sweep
<1>2. D \subseteq Doomed
  BY <1>1 DEF Doomed
<1>3. pending' = pending
  BY <1>1, <1>2 DEF QueueInv
<1>4. Heap' = Heap \ D
  BY <1>1 DEF Heap, Destroy
<1>5. Doomed' \subseteq Doomed
  BY <1>1, <1>4 DEF Doomed, White, TypeOK, Heap
<1>. QED
  BY <1>1, <1>2, <1>3, <1>4, <1>5 DEF QueueInv

LEMMA AtomicQueue ==
  ASSUME TypeOK, QueueInv, Atomic
  PROVE  QueueInv'
<1> DEFINE c == AtomicMarks.color
           wt == AtomicMarks.weak
<1>1. PICK q \in Queues(c) :
        pending' = pending \cup q /\ color' = Resurrect(c, q, wt).color
  BY DEF Atomic
<1>2. /\ phase' = "sweep" /\ unswept' = Heap
      /\ UNCHANGED <<kind, draining, drain, callback>>
  BY DEF Atomic
<1>3. c \in [Obj -> Colors] /\ \A x \in RootSet \cap Heap : c[x] # "white"
  BY AtomicMarksType, RootsMarked
<1>4. q \subseteq Heap /\ q \in SUBSET Obj
  BY <1>1, QueuesType DEF Heap
<1>. HIDE DEF c, wt
<1>5. color' = Blacken(c, q)
  BY <1>1 DEF Resurrect, Marked
<1>6. /\ \A x \in Obj : color'[x] = c[x] \/ color'[x] = "black"
      /\ \A x \in q : color'[x] = "black"
  BY <1>3, <1>4, <1>5, BlackenFacts
<1>7. Heap' = Heap /\ Doomed' = White(color')
  <2>1. Heap' = Heap
    BY <1>2 DEF Heap
  <2>. QED
    BY <1>2, <2>1 DEF Doomed, White
<1>8. pending' \cap White(color') = {}
  <2>1. \A x \in pending : x \in RootSet \cap Heap /\ x \in Obj
    BY DEF QueueInv, RootSet, Heap
  <2>. QED
    BY <1>1, <1>3, <1>6, <2>1 DEF White
<1>. QED
  BY <1>1, <1>2, <1>4, <1>7, <1>8 DEF QueueInv

LEMMA FullCollectQueue ==
  ASSUME TypeOK, QueueInv, FullCollect
  PROVE  QueueInv'
<1> DEFINE all == Marked(AllWhite, RootSet, {})
           c == all.color
           wt == all.weak
<1>1. PICK q \in Queues(c) :
        /\ pending' = (pending \cup q) \ (Heap \cap White(Resurrect(c, q, wt).color))
        /\ Destroy(Heap \cap White(Resurrect(c, q, wt).color))
  BY DEF FullCollect
<1>2. /\ Reset
      /\ StartDrain(pending') \/ UNCHANGED <<draining, drain, callback>>
  BY DEF FullCollect
<1>3. c \in [Obj -> Colors] /\ \A x \in RootSet : c[x] # "white"
  BY FullMarksFacts
<1>4. q \subseteq Heap /\ q \in SUBSET Obj
  BY <1>1, QueuesType DEF Heap
<1>. HIDE DEF c, wt
<1> DEFINE d == Resurrect(c, q, wt).color
           D == Heap \cap White(d)
<1>5. d = Blacken(c, q)
  BY DEF Resurrect, Marked
<1>. HIDE DEF d
<1>6. /\ \A x \in Obj : d[x] = c[x] \/ d[x] = "black"
      /\ \A x \in q : d[x] = "black"
  BY <1>3, <1>4, <1>5, BlackenFacts
<1>7. (pending \cup q) \cap D = {}
  <2>1. \A x \in pending : x \in RootSet /\ x \in Obj
    BY DEF QueueInv, RootSet, Heap
  <2>. QED
    BY <1>3, <1>6, <2>1 DEF White
<1>8. pending' = (pending \cup q) \ D /\ Destroy(D)
  BY <1>1 DEF d
<1>. HIDE DEF D
<1>9. pending' = pending \cup q /\ Heap' = Heap \ D /\ Doomed' = {}
  BY <1>2, <1>7, <1>8 DEF Heap, Destroy, Doomed, Reset
<1>10. NULL \notin Heap
  BY NullAssumption DEF Heap
<1>. QED
  BY <1>2, <1>4, <1>7, <1>9, <1>10 DEF QueueInv, StartDrain

LEMMA DrainQueue ==
  ASSUME TypeOK, QueueInv, Drain
  PROVE  QueueInv'
<1>1. NULL \notin Heap
  BY NullAssumption DEF Heap
<1>2. /\ drain' \subseteq pending' /\ pending' \subseteq pending
      /\ callback' \in pending' \cup {NULL} /\ callback' \notin drain'
      /\ ~draining' => drain' = {} /\ callback' = NULL
  <2>1. ASSUME NEW u \in drain, DrainNext(u)
        PROVE  /\ drain' \subseteq pending' /\ pending' \subseteq pending
               /\ callback' \in pending' \cup {NULL} /\ callback' \notin drain'
               /\ ~draining' => drain' = {} /\ callback' = NULL
    BY <1>1, <2>1 DEF DrainNext, QueueInv
  <2>2. ASSUME LeaveCallback, UNCHANGED <<draining, drain>> \/ (draining' = FALSE /\ drain' = {})
        PROVE  /\ drain' \subseteq pending' /\ pending' \subseteq pending
               /\ callback' \in pending' \cup {NULL} /\ callback' \notin drain'
               /\ ~draining' => drain' = {} /\ callback' = NULL
    BY <1>1, <2>2 DEF LeaveCallback, QueueInv
  <2>3. ASSUME DrainEnd
        PROVE  /\ drain' \subseteq pending' /\ pending' \subseteq pending
               /\ callback' \in pending' \cup {NULL} /\ callback' \notin drain'
               /\ ~draining' => drain' = {} /\ callback' = NULL
    BY <1>1, <2>3 DEF DrainEnd, QueueInv
  <2>. QED
    BY <2>1, <2>2, <2>3 DEF Drain, DrainReturn, DrainThrows
<1>3. /\ UNCHANGED <<kind, color>>
      /\ UNCHANGED cycleVars \/ phase' = "pause"
  BY DEF Drain, DrainNext, DrainReturn, DrainThrows, DrainEnd, LeaveCallback,
         Reset, objVars, markVars
<1>4. Heap' = Heap /\ Doomed' \subseteq Doomed
  BY <1>3 DEF Heap, Doomed, White, cycleVars
<1>. QED
  BY <1>2, <1>4 DEF QueueInv

LEMMA CollectorQueue ==
  ASSUME TypeOK, QueueInv, Collector
  PROVE  QueueInv'
<1>1. NULL \notin Heap
  BY NullAssumption DEF Heap
<1>2. ASSUME BeginMark \/ PropagateEmpty \/ \E o \in Obj : Propagate(o)
      PROVE  QueueInv'
  <2>1. UNCHANGED <<kind, pending, draining, drain, callback>> /\ phase' # "sweep"
    BY <1>2 DEF BeginMark, PropagateEmpty, Propagate, objVars, finVars
  <2>. QED
    BY <2>1, QueueOutsideSweep DEF QueueInv
<1>3. ASSUME Finalize PROVE QueueInv'
  <2>1. /\ UNCHANGED <<kind, pending>> /\ phase' # "sweep"
        /\ StartDrain(pending) \/ UNCHANGED <<draining, drain, callback>>
    BY <1>3 DEF Finalize, objVars, Reset, cycleVars
  <2>. QED
    BY <1>1, <2>1, QueueOutsideSweep DEF QueueInv, StartDrain
<1>4. ASSUME StepFails PROVE QueueInv'
  <2>1. PICK q \in IF phase = "atomic" THEN Queues(AtomicMarks.color) ELSE {{}} :
           pending' = pending \cup q
    BY <1>4 DEF StepFails
  <2>2. q \subseteq Heap
    BY <2>1, QueuesType
  <2>3. UNCHANGED <<kind, draining, drain, callback>> /\ phase' # "sweep"
    BY <1>4 DEF StepFails, Reset, objVars
  <2>. QED
    BY <2>1, <2>2, <2>3, QueueOutsideSweep DEF QueueInv
<1>. QED
  BY <1>2, <1>3, <1>4, SweepQueue, AtomicQueue, FullCollectQueue, DrainQueue
     DEF Collector, Continue

LEMMA QueueAlways == Spec => [](TypeOK /\ QueueInv)
<1>1. Init => TypeOK /\ QueueInv
  BY InitTypeOK DEF Init, QueueInv
<1>2. ASSUME TypeOK, QueueInv, [Next]_vars PROVE TypeOK' /\ QueueInv'
  <2>1. CASE Mutator
    BY <1>2, <2>1, MutatorTypeOK, MutatorQueue
  <2>2. CASE Collector
    BY <1>2, <2>2, CollectorTypeOK, CollectorQueue
  <2>3. CASE UNCHANGED vars
    <3>1. UNCHANGED <<kind, entries, link, meta, regs, roots, color, gray, weakTables,
                      finalized, pending, phase, unswept, draining, drain, callback>>
      BY <2>3 DEF vars, objVars, rootVars, markVars, finVars, cycleVars
    <3>. QED
      BY <1>2, <3>1 DEF TypeOK, QueueInv, Heap, Doomed, White
  <2>. QED
    BY <1>2, <2>1, <2>2, <2>3 DEF Next
<1>. QED
  BY <1>1, <1>2, PTL DEF Spec

\* While runFinalizers is at work, the userdata it has scheduled and the one
\* whose __gc is executing are in pendingFinalizers_ and on the heap, whatever
\* collections the callbacks run, and however cycles and callbacks end.
THEOREM ScheduledAreKept == Spec => []ScheduledStayQueued
<1>1. QueueInv => ScheduledStayQueued
  BY DEF QueueInv, ScheduledStayQueued
<1>. QED
  BY <1>1, QueueAlways, PTL
-----------------------------------------------------------------------------
(***************************************************************************)
(* The heap with userdata, when no cycle is abandoned in its sweep.        *)
(***************************************************************************)

\* No pointer, root or gray entry leads to a condemned or freed object, except
\* from another condemned one.  This includes garbage that is not condemned.
Closed == Holds(Live, gray)

\* The callers of runFinalizers end the cycle after its last callback, and a
\* callback that leaves a sweep behind would abandon it.
DrainsOutsideSweep == draining /\ callback = NULL => phase # "sweep"

LEMMA LiveStays ==
  ASSUME UNCHANGED <<kind, phase, unswept>>,
         \A x \in Obj : color'[x] = color[x] \/ (x \in Live /\ color'[x] = "black")
                                             \/ (x \in Live /\ color'[x] = "gray")
  PROVE  Live' = Live
<1>1. Heap' = Heap
  BY DEF Heap
<1>2. Doomed' = Doomed
  BY <1>1 DEF Live, Doomed, White, Heap
<1>. QED
  BY <1>1, <1>2 DEF Live

\* What marking from objects that are not condemned reaches is not condemned.
LEMMA LiveMarks ==
  ASSUME TypeOK, Closed
  PROVE  /\ Live \subseteq Obj /\ gray \subseteq Live /\ RootSet \subseteq Live
         /\ \A y \in Live : AllRefs(y) \subseteq Live /\ MarkRefs(y) \subseteq Live
<1>1. Live \subseteq Obj
  BY DEF Live, Heap
<1>2. \A y \in Live : AllRefs(y) \subseteq Live
  BY DEF Closed, Holds
<1>. QED
  BY <1>1, <1>2, RefsType DEF Closed, Holds

LEMMA LiveBlacken ==
  ASSUME TypeOK, Closed, NEW S, S \subseteq Live, NEW d, d = Blacken(color, S)
  PROVE  \A x \in Obj : d[x] = color[x] \/ (x \in Live /\ d[x] = "black")
<1>1. /\ S \in SUBSET Obj /\ color \in [Obj -> Colors]
      /\ \A y \in Live : MarkRefs(y) \cap White(color) \subseteq Live
  BY LiveMarks DEF TypeOK
<1>. QED
  BY ONLY <1>1, S \subseteq Live, d = Blacken(color, S), BlackenWithin

LEMMA MutatorClosed ==
  ASSUME ~SweepAborts, TypeOK, Closed, Mutator
  PROVE  Closed'
<1>1. /\ Live \subseteq Obj /\ Live \subseteq Heap /\ gray \subseteq Live /\ RootSet \subseteq Live
      /\ \A y \in Live : AllRefs(y) \subseteq Live /\ MarkRefs(y) \subseteq Live
  BY LiveMarks DEF Live
<1>2. CASE Rooting
  <2>1. /\ gray' \subseteq Live
        /\ \A x \in Obj : color'[x] = color[x] \/ (x \in Live /\ color'[x] = "black")
                                               \/ (x \in Live /\ color'[x] = "gray")
    <3>1. CASE UNCHANGED markVars
      BY <1>1, <3>1 DEF markVars
    <3>2. ASSUME NEW z \in RootSet, RootBarrier(z)
          PROVE  /\ gray' \subseteq Live
                 /\ \A x \in Obj : color'[x] = color[x] \/ (x \in Live /\ color'[x] = "black")
      <4> DEFINE S == gray \cup {z}
      <4>1. S \subseteq Live
        BY <1>1
      <4>. HIDE DEF S
      <4>2. \A d : d = Blacken(color, S) =>
               \A x \in Obj : d[x] = color[x] \/ (x \in Live /\ d[x] = "black")
        BY <4>1, LiveBlacken
      <4>. QED
        BY <1>1, <3>2, <4>2 DEF RootBarrier, markVars, S
    <3>3. CASE \E x \in RootSet : /\ color' = [color EXCEPT ![x] = "gray"]
                                  /\ gray' = gray \cup {x}
      BY <1>1, <3>3 DEF TypeOK
    <3>. QED
      BY <1>2, <3>1, <3>2, <3>3 DEF Rooting
  <2>2. Live' = Live
    BY <1>2, <2>1, LiveStays DEF Rooting, objVars, cycleVars
  <2>3. RootSet' \subseteq Live /\ \A y : AllRefs(y)' = AllRefs(y)
    BY <1>1, <1>2 DEF Rooting, objVars, AllRefs
  <2>. QED
    BY <1>1, <2>1, <2>2, <2>3 DEF Closed, Holds, Live
<1>3. ASSUME NEW t \in RootSet, NEW X \in SUBSET RootSet, Storing(t, X)
      PROVE  Closed'
  <2>1. /\ gray' \subseteq Live
        /\ \A x \in Obj : color'[x] = color[x] \/ (x \in Live /\ color'[x] = "black")
    <3> DEFINE S == gray \cup (X \cap White(color))
    <3>1. S \subseteq Live
      BY <1>1
    <3>. HIDE DEF S
    <3>2. \A d : d = Blacken(color, S) =>
             \A x \in Obj : d[x] = color[x] \/ (x \in Live /\ d[x] = "black")
      BY <3>1, LiveBlacken
    <3>. QED
      BY <1>1, <1>3, <3>2 DEF Storing, Barrier, markVars, S
  <2>2. Live' = Live
    BY <1>3, <2>1, LiveStays DEF Storing, cycleVars
  <2>3. RootSet' = RootSet
    BY <1>3 DEF Storing, RootSet, rootVars, finVars
  <2>4. ASSUME NEW y \in Live PROVE AllRefs(y)' \subseteq Live
    <3>1. CASE y = t
      BY <1>1, <1>3, <3>1 DEF Storing
    <3>2. CASE y # t
      <4>1. AllRefs(y)' = AllRefs(y)
        BY <1>1, <1>3, <3>2 DEF Storing, AllRefs
      <4>. QED
        BY <1>1, <4>1
    <3>. QED
      BY <3>1, <3>2
  <2>. QED
    BY <1>1, <2>1, <2>2, <2>3, <2>4 DEF Closed, Holds, Live
<1>4. ASSUME NEW o \in Obj, NEW k \in AllKinds, NEW es \in SUBSET Entry,
             NEW mt \in ObjOrNull, Allocating(o, k, es, mt)
      PROVE  Closed'
  <2> DEFINE N == Keys(es) \cup Vals(es) \cup ({mt} \ {NULL})
  <2>1. Alloc(o, k, es, mt) /\ N \subseteq RootSet
    BY <1>4 DEF Allocating
  <2>2. Marks(k, es, mt) \subseteq N
    BY DEF Marks, Strings
  <2>3. /\ gray \subseteq Live /\ Marks(k, es, mt) \cap White(color) \subseteq Live
        /\ \A y \in Live : MarkRefs(y) \cap White(color) \subseteq Live
    BY <1>1, <2>1, <2>2
  <2>4. /\ o \notin Heap /\ Heap' = Heap \cup {o}
        /\ phase' = "sweep" =>
             /\ phase = "sweep" /\ unswept' = unswept
             /\ color'[o] = "black"
             /\ \A x \in Heap : color'[x] = color[x] \/ (x \in Live /\ color'[x] = "black")
    BY <2>1, <2>3, AllocFacts
  <2>5. Live' = Live \cup {o}
    <3>1. CASE phase' = "sweep"
      <4>1. Doomed' = Doomed
        BY <2>4, <3>1 DEF Live, Doomed, White
      <4>2. o \notin Doomed
        BY <2>4 DEF Doomed, White
      <4>. QED
        BY <2>4, <4>1, <4>2 DEF Live
    <3>2. CASE phase' # "sweep"
      <4>1. phase # "sweep" \/ SweepAborts
        BY <2>1, <3>2 DEF Alloc, cycleVars
      <4>. QED
        BY <2>4, <3>2, <4>1 DEF Live, Doomed
    <3>. QED
      BY <3>1, <3>2
  <2>6. gray' \subseteq Live
    BY <1>1, <2>1 DEF Alloc, Reset, markVars
  <2>7. RootSet' \subseteq Live \cup {o}
    BY <1>1, <2>1 DEF Alloc, RootSet, finVars
  <2>8. ASSUME NEW y \in Live \cup {o} PROVE AllRefs(y)' \subseteq Live
    <3>1. CASE y = o
      <4>1. AllRefs(y)' = N
        BY <2>1, <3>1 DEF Alloc, AllRefs, TypeOK
      <4>. QED
        BY <1>1, <2>1, <4>1
    <3>2. CASE y # o
      <4>1. AllRefs(y)' = AllRefs(y)
        BY <1>1, <2>1, <2>8, <3>2 DEF Alloc, AllRefs, TypeOK
      <4>. QED
        BY <1>1, <2>8, <3>2, <4>1
    <3>. QED
      BY <3>1, <3>2
  <2>9. Live \cup {o} \subseteq Heap'
    BY <1>1, <2>4
  <2>. QED
    BY <2>5, <2>6, <2>7, <2>8, <2>9 DEF Closed, Holds
<1>. QED
  BY <1>2, <1>3, <1>4, MutatorForms
LEMMA SweepClosed ==
  ASSUME TypeOK, Closed, NEW o \in Obj, Sweep(o)
  PROVE  Closed'
<1> DEFINE D == {o} \cap White(color)
<1>1. /\ phase = "sweep" /\ o \in unswept /\ Destroy(D) /\ regs' = regs
      /\ entries' = [entries EXCEPT ![o] = IF o \in D THEN {} ELSE @]
      /\ color' = [color EXCEPT ![o] = "white"]
      /\ pending' = pending \ D /\ unswept' = unswept \ {o} /\ gray' = gray \ D
      /\ phase' = "sweep" \/ unswept' = {}
  BY DEF Sweep
<1>2. /\ Live \subseteq Obj /\ gray \subseteq Live /\ RootSet \subseteq Live
      /\ \A y \in Live : AllRefs(y) \subseteq Live
  BY LiveMarks
<1>3. D \cap Live = {}
  BY <1>1 DEF Live, Doomed
<1>4. Heap' = Heap \ D
  BY <1>1 DEF Heap, Destroy
<1>5. Doomed' = Doomed \ {o}
  <2>1. \A x \in Obj : x # o => color'[x] = color[x]
    BY <1>1 DEF TypeOK
  <2>2. Doomed' = unswept' \cap White(color)'
    BY <1>1 DEF Doomed
  <2>3. \A x \in unswept' : x \in Obj /\ x # o
    BY <1>1 DEF TypeOK
  <2>4. White(color)' = {x \in Heap' : color'[x] = "white"}
    BY DEF White
  <2>. QED
    BY <1>1, <1>4, <2>1, <2>2, <2>3, <2>4 DEF Doomed, White, Heap
<1>6. Live' = Live
  <2>1. o \in Doomed <=> o \in D
    BY <1>1 DEF Doomed, White
  <2>2. o \in Heap \ D => o \notin Doomed
    BY <2>1
  <2>. QED
    BY <1>4, <1>5, <2>1 DEF Live
<1>7. RootSet' \subseteq Live /\ gray' \subseteq Live
  BY <1>1, <1>2 DEF RootSet, Destroy
<1>8. ASSUME NEW y \in Live PROVE AllRefs(y)' \subseteq Live
  <2>1. entries'[y] = entries[y] /\ link'[y] = link[y]
    BY <1>1, <1>2, <1>3 DEF Destroy, TypeOK
  <2>2. AllRefs(y)' = AllRefs(y)
    BY <2>1 DEF AllRefs
  <2>. QED
    BY <1>2, <2>2
<1>. QED
  BY <1>6, <1>7, <1>8 DEF Closed, Holds, Live

\* The steps outside of a sweep that free nothing.
LEMMA ClosedOutsideSweep ==
  ASSUME NEW q, Holds(Heap, q), UNCHANGED objVars, RootSet' \subseteq Heap,
         gray' \subseteq Heap, phase' # "sweep"
  PROVE  Closed'
<1>1. \A y : AllRefs(y)' = AllRefs(y)
  BY DEF AllRefs, objVars
<1>2. Live' = Heap /\ Heap' = Heap
  BY DEF Live, Doomed, Heap, objVars
<1>. QED
  BY <1>1, <1>2 DEF Closed, Holds

LEMMA CollectorClosed ==
  ASSUME ~SweepAborts, HeapSafe, QueueInv, Closed, DrainsOutsideSweep, Collector
  PROVE  TriColor' /\ NoDangling' /\ DoomedUnreachable' /\ Closed'
<1>1. /\ Live \subseteq Obj /\ gray \subseteq Live /\ RootSet \subseteq Live
      /\ \A y \in Live : AllRefs(y) \subseteq Live /\ MarkRefs(y) \subseteq Live
  BY LiveMarks DEF HeapSafe
<1>2. phase # "sweep" => Live = Heap
  BY DEF Live, Doomed
<1>3. ASSUME phase # "sweep" PROVE \A c : \A q \in Queues(c) : Holds(Heap, q)
  BY <1>2, <1>3, QueuesType DEF Closed, Holds
<1>4. phase # "sweep" => Holds(Heap, {})
  BY <1>2 DEF Closed, Holds
<1>5. ASSUME BeginMark PROVE Closed'
  <2>1. phase # "sweep" /\ phase' # "sweep" /\ UNCHANGED objVars
        /\ RootSet' = RootSet /\ gray' = RootSet
    BY <1>5 DEF BeginMark, RootSet, rootVars, finVars
  <2>. QED
    BY <1>1, <1>2, <1>4, <2>1, ClosedOutsideSweep
<1>6. ASSUME NEW o \in Obj, Propagate(o) PROVE Closed'
  <2>1. phase # "sweep" /\ phase' # "sweep" /\ UNCHANGED objVars
        /\ RootSet' = RootSet /\ gray' \subseteq gray \cup White(color)
    BY <1>6 DEF Propagate, RootSet, rootVars, finVars
  <2>2. White(color) \subseteq Heap
    BY DEF White
  <2>. QED
    BY <1>1, <1>2, <1>4, <2>1, <2>2, ClosedOutsideSweep
<1>7. ASSUME PropagateEmpty \/ Finalize PROVE Closed'
  <2>1. /\ RootSet' = RootSet /\ UNCHANGED <<objVars, color>>
        /\ gray' \subseteq gray /\ phase # "sweep" /\ phase' # "sweep"
    BY <1>7, PhaseStepSafety
  <2>. QED
    BY <1>1, <1>2, <1>4, <2>1, ClosedOutsideSweep
<1>8. ASSUME Atomic PROVE TriColor' /\ NoDangling' /\ DoomedUnreachable' /\ Closed'
  <2>1. phase # "sweep" /\ UNCHANGED kind /\ gray' = {}
    BY <1>8 DEF Atomic
  <2> DEFINE T == Heap
  <2>2. \A q \in Queues(AtomicMarks.color) : Holds(T, q)
    BY <1>3, <2>1
  <2>. HIDE DEF T
  <2>3. /\ TriColor' /\ NoDangling' /\ DoomedUnreachable'
        /\ RootSet' \subseteq T \cap Live'
        /\ \A y \in T \cap Live' : AllRefs(y)' \subseteq T \cap Live'
    BY <1>8, <2>2, AtomicSafety
  <2>4. Live' \subseteq T
    BY <2>1 DEF Live, Heap, T
  <2>. QED
    BY <2>1, <2>3, <2>4 DEF Closed, Holds, Live
<1>9. ASSUME FullCollect PROVE TriColor' /\ NoDangling' /\ DoomedUnreachable' /\ Closed'
  <2>1. phase # "sweep" /\ gray' = {} /\ \E D : Destroy(D)
    BY <1>9 DEF FullCollect, Reset
  <2> DEFINE T == Heap
  <2>2. \A q \in Queues(Marked(AllWhite, RootSet, {}).color) : Holds(T, q)
    BY <1>3, <2>1
  <2>. HIDE DEF T
  <2>3. /\ TriColor' /\ NoDangling' /\ DoomedUnreachable'
        /\ RootSet' \subseteq T \cap Live'
        /\ \A y \in T \cap Live' : AllRefs(y)' \subseteq T \cap Live'
    BY <1>9, <2>2, FullCollectSafety
  <2>4. Live' \subseteq T
    BY <2>1 DEF Live, Heap, T, Destroy
  <2>. QED
    BY <2>1, <2>3, <2>4 DEF Closed, Holds, Live
<1>10. ASSUME StepFails PROVE TriColor' /\ NoDangling' /\ DoomedUnreachable' /\ Closed'
  <2>1. phase # "sweep" /\ phase' # "sweep" /\ UNCHANGED objVars /\ gray' = {}
    BY <1>10 DEF StepFails, Reset
  <2> DEFINE T == Heap
  <2>2. Holds(T, {}) /\ \A q \in Queues(AtomicMarks.color) : Holds(T, q)
    BY <1>3, <1>4, <2>1
  <2>. HIDE DEF T
  <2>3. TriColor' /\ NoDangling' /\ DoomedUnreachable' /\ RootSet' \subseteq T
    BY <1>10, <2>2, StepFailsSafety
  <2>. QED
    BY <1>4, <2>1, <2>3, ClosedOutsideSweep DEF T
<1>11. ASSUME Drain PROVE TriColor' /\ NoDangling' /\ DoomedUnreachable' /\ Closed'
  <2>1. /\ TriColor' /\ NoDangling' /\ DoomedUnreachable'
        /\ RootSet' \subseteq RootSet /\ UNCHANGED <<objVars, color>>
        /\ UNCHANGED <<gray, weakTables, cycleVars>> \/ Reset
    BY <1>11, DrainSafety DEF QueueInv
  <2>2. CASE UNCHANGED <<gray, weakTables, cycleVars>>
    <3>1. Live' = Live
      BY <2>1, <2>2, LiveStays DEF objVars, cycleVars
    <3>2. \A y : AllRefs(y)' = AllRefs(y)
      BY <2>1 DEF objVars, AllRefs
    <3>. QED
      BY <1>1, <2>1, <2>2, <3>1, <3>2 DEF Closed, Holds, Live
  <2>3. CASE Reset /\ phase # "sweep"
    <3>1. gray' = {} /\ phase' # "sweep"
      BY <2>3 DEF Reset
    <3>. QED
      BY <1>1, <1>2, <1>4, <2>1, <2>3, <3>1, ClosedOutsideSweep
  <2>4. UNCHANGED <<gray, weakTables, cycleVars>> \/ phase # "sweep"
    BY <1>11 DEF Drain, DrainNext, DrainReturn, DrainThrows, DrainEnd, LeaveCallback,
                 DrainsOutsideSweep, markVars
  <2>. QED
    BY <2>1, <2>2, <2>3, <2>4
<1>. QED
  BY <1>5, <1>6, <1>7, <1>8, <1>9, <1>10, <1>11, BeginMarkSafety, PropagateSafety,
     PhaseStepSafety, SweepSafety, SweepClosed
     DEF Collector, Continue, HeapSafe

LEMMA DrainsStep ==
  ASSUME ~SweepAborts, TypeOK, DrainsOutsideSweep, Mutator \/ Collector
  PROVE  DrainsOutsideSweep'
<1>1. CASE Mutator
  <2>1. UNCHANGED <<draining, callback>> /\ (phase' = "sweep" => phase = "sweep")
    BY <1>1, MutatorFacts DEF finVars
  <2>. QED
    BY <2>1 DEF DrainsOutsideSweep
<1>2. CASE Drain
  BY <1>2 DEF Drain, DrainNext, DrainReturn, DrainThrows, DrainEnd, LeaveCallback,
              DrainsOutsideSweep, cycleVars, Reset
<1>3. CASE BeginMark \/ Continue
  <2>1. \/ UNCHANGED <<draining, callback>> /\ MutatorRuns
        \/ phase' = "finalize"
    BY <1>3 DEF BeginMark, Continue, Propagate, Sweep, PropagateEmpty, Atomic, Finalize,
                finVars, cycleVars
  <2>. QED
    BY <2>1 DEF MutatorRuns, DrainsOutsideSweep
<1>4. CASE FullCollect \/ StepFails
  BY <1>4 DEF FullCollect, StepFails, Reset, DrainsOutsideSweep
<1>. QED
  BY <1>1, <1>2, <1>3, <1>4 DEF Collector

WholeInv == HeapSafe /\ QueueInv /\ Closed /\ DrainsOutsideSweep

LEMMA HeapAlwaysSafeWhole ==
  ASSUME ~SweepAborts
  PROVE  Spec => [](HeapSafe /\ QueueInv)
<1>1. Init => WholeInv
  <2> SUFFICES ASSUME Init PROVE WholeInv
    OBVIOUS
  <2>1. HeapSafe /\ DrainsOutsideSweep /\ QueueInv
    BY InitHeapSafe DEF Init, DrainsOutsideSweep, QueueInv
  <2>2. Live = {G} /\ Heap = {G} /\ RootSet = {G} /\ gray = {}
    BY NullAssumption DEF Init, Live, Doomed, Heap, RootSet
  <2>3. AllRefs(G) = {}
    BY NullAssumption DEF Init, AllRefs, Keys, Vals
  <2>. QED
    BY <2>1, <2>2, <2>3 DEF WholeInv, Closed, Holds
<1>2. ASSUME WholeInv, [Next]_vars PROVE WholeInv'
  <2>1. CASE Mutator
    BY <1>2, <2>1, MutatorTypeOK, MutatorSafety, MutatorQueue, MutatorClosed, DrainsStep
       DEF WholeInv, HeapSafe
  <2>2. CASE Collector
    BY <1>2, <2>2, CollectorTypeOK, CollectorClosed, CollectorQueue, DrainsStep
       DEF WholeInv, HeapSafe
  <2>3. CASE UNCHANGED vars
    <3>1. UNCHANGED <<kind, entries, link, meta, regs, roots, color, gray, weakTables,
                      finalized, pending, phase, unswept, draining, drain, callback>>
      BY <2>3 DEF vars, objVars, rootVars, markVars, finVars, cycleVars
    <3>2. HeapSafe'
      BY <1>2, <2>3, StutterHeapSafe DEF WholeInv
    <3>3. Heap' = Heap /\ Live' = Live /\ RootSet' = RootSet /\ Doomed' = Doomed
          /\ \A y : AllRefs(y)' = AllRefs(y)
      BY <3>1 DEF Heap, Live, RootSet, AllRefs, Doomed, White
    <3>4. Closed'
      BY <1>2, <3>1, <3>3 DEF WholeInv, Closed, Holds
    <3>. QED
      BY <1>2, <3>1, <3>2, <3>3, <3>4 DEF WholeInv, QueueInv, DrainsOutsideSweep
  <2>. QED
    BY <1>2, <2>1, <2>2, <2>3 DEF Next
<1>3. WholeInv => HeapSafe /\ QueueInv
  BY DEF WholeInv
<1>. QED
  BY <1>1, <1>2, <1>3, PTL DEF Spec
-----------------------------------------------------------------------------
(***************************************************************************)
(* Safety for both kinds of programs.                                      *)
(***************************************************************************)

\* Userdata do not exist, or no sweep is abandoned.
NoAbandonedUserdata == "userdata" \notin Kinds \/ ~SweepAborts

LEMMA HeapAlwaysSafe ==
  ASSUME NoAbandonedUserdata
  PROVE  Spec => [](HeapSafe /\ QueueInv)
<1>1. CASE ~SweepAborts
  BY <1>1, HeapAlwaysSafeWhole
<1>2. CASE "userdata" \notin Kinds
  <2>1. TypeOK /\ NoDangling /\ TriColor /\ DoomedUnreachable => HeapSafe
    BY DEF HeapSafe
  <2>. QED
    BY <1>2, <2>1, TypeCorrect, Safety, QueueAlways, PTL
<1>. QED
  BY <1>1, <1>2 DEF NoAbandonedUserdata

\* Nothing that the program can reach is freed, in programs with finalizers too:
\* what a finalizer brings back to life is still there, and so is all that it
\* leads to, through strong and weak pointers.
THEOREM ReachableNeverFreed ==
  ASSUME NoAbandonedUserdata
  PROVE  Spec => []NoDangling
<1>1. HeapSafe => NoDangling
  BY DEF HeapSafe
<1>. QED
  BY <1>1, HeapAlwaysSafe, PTL

\* Until the atomic phase is over no black object leads to a white one, except
\* out of weak tables that will be looked at again: the barriers of every kind
\* of store, allocation and failed marking keep it.
THEOREM BlackNeverToWhite ==
  ASSUME NoAbandonedUserdata
  PROVE  Spec => []TriColor
<1>1. HeapSafe => TriColor
  BY DEF HeapSafe
<1>. QED
  BY <1>1, HeapAlwaysSafe, PTL

\* What the sweep is about to free stays out of the program's reach until it is
\* freed, whatever is loaded, stored and allocated meanwhile.
THEOREM CondemnedOutOfReach ==
  ASSUME NoAbandonedUserdata
  PROVE  Spec => []DoomedUnreachable
<1>1. HeapSafe => DoomedUnreachable
  BY DEF HeapSafe
<1>. QED
  BY <1>1, HeapAlwaysSafe, PTL

-----------------------------------------------------------------------------
(***************************************************************************)
(* What a collection queues, clears and leaves.                            *)
(***************************************************************************)

LEMMA AllWhiteHeap == White(AllWhite) = Heap
BY DEF White, AllWhite, Heap

\* An object that marking leaves white is not strongly reachable.
LEMMA WhiteUnreachable ==
  ASSUME TypeOK, RootSet \subseteq Heap, NEW c, NEW wt, WhiteBehindWeak(c, wt),
         \A x \in RootSet : c[x] # "white"
  PROVE  White(c) \cap StrongReach = {}
<1> DEFINE T == {x \in Heap : c[x] # "white"}
<1>1. RootSet \subseteq T
  OBVIOUS
<1>2. \A y \in T : MarkRefs(y) \cap White(AllWhite) \subseteq T
  <2>1. ASSUME NEW y \in T, NEW z \in MarkRefs(y), z \in Heap, c[z] = "white" PROVE FALSE
    <3>1. z \in AllRefs(y)
      BY <2>1, RefsType DEF Heap
    <3>. QED
      BY <2>1, <3>1 DEF WhiteBehindWeak, White
  <2>. QED
    BY <2>1, AllWhiteHeap
<1>. HIDE DEF T
<1>3. StrongReach \subseteq T
  BY <1>1, <1>2, ClosureLeast DEF StrongReach
<1>. QED
  BY <1>3 DEF T, White

LEMMA RootsOnHeap ==
  ASSUME HeapSafe
  PROVE  RootSet \subseteq Heap
BY ReachableFacts DEF HeapSafe, NoDangling

LEMMA AtomicWhite ==
  ASSUME HeapSafe, phase = "atomic"
  PROVE  White(AtomicMarks.color) \cap StrongReach = {}
<1>1. MarkInv(color, gray, weakTables)
  BY TriColorDef DEF HeapSafe
<1>. QED
  BY <1>1, RootsOnHeap, AtomicMarksFacts, WhiteUnreachable DEF HeapSafe

LEMMA FullWhite ==
  ASSUME HeapSafe
  PROVE  White(Marked(AllWhite, RootSet, {}).color) \cap StrongReach = {}
BY FullMarksFacts DEF HeapSafe, White

\* Only three steps queue userdata.
LEMMA WhoQueues ==
  ASSUME HeapSafe, QueueInv, Next, NEW u \in pending' \ pending
  PROVE  /\ u \notin finalized /\ u \in finalized'
         /\ \/ phase = "atomic" /\ u \in White(AtomicMarks.color)
            \/ u \in White(Marked(AllWhite, RootSet, {}).color)
<1>1. CASE Mutator
  BY <1>1, MutatorFacts DEF HeapSafe, finVars
<1>2. ASSUME NEW c, NEW q \in Queues(c), NEW x \in q
      PROVE  x \notin finalized /\ x \in White(c)
  BY <1>2 DEF Queues, White
<1>3. CASE Atomic
  <2>1. PICK q \in Queues(AtomicMarks.color) :
           pending' = pending \cup q /\ finalized' = finalized \cup q
    BY <1>3 DEF Atomic
  <2>. QED
    BY <1>2, <1>3, <2>1 DEF Atomic
<1>4. CASE StepFails
  <2>1. PICK q \in IF phase = "atomic" THEN Queues(AtomicMarks.color) ELSE {{}} :
           pending' = pending \cup q /\ finalized' = finalized \cup q
    BY <1>4 DEF StepFails
  <2>. QED
    BY <1>2, <2>1
<1>5. CASE FullCollect
  <2> DEFINE c == Marked(AllWhite, RootSet, {}).color
  <2>1. PICK q \in Queues(c) :
           \E D : /\ finalized' = (finalized \cup q) \ D
                  /\ pending' = (pending \cup q) \ D
    BY <1>5, Zenon DEF FullCollect
  <2>. HIDE DEF c
  <2>2. u \notin finalized /\ u \in White(c) /\ u \in finalized'
    BY <1>2, <2>1
  <2>. QED
    BY <2>2 DEF c
<1>6. CASE BeginMark \/ PropagateEmpty \/ Finalize \/ \E o \in Obj : Propagate(o)
  BY <1>6 DEF BeginMark, PropagateEmpty, Finalize, Propagate, finVars
<1>7. CASE \E o \in Obj : Sweep(o)
  BY <1>7 DEF Sweep
<1>8. CASE Drain
  BY <1>8 DEF Drain, DrainNext, DrainReturn, DrainThrows, DrainEnd, LeaveCallback
<1>. QED
  BY <1>1, <1>3, <1>4, <1>5, <1>6, <1>7, <1>8 DEF Next, Collector, Continue

\* prepareFinalizers queues a userdata only when no root and no strong pointer
\* leads to it any more, and only once, in incremental cycles, in those that
\* fail after it, and in full collections.
THEOREM QueuedOnlyUnreachable ==
  ASSUME NoAbandonedUserdata
  PROVE  Spec => QueuedOnlyIfUnreachable
<1>1. ASSUME HeapSafe, QueueInv, Next
      PROVE  \A u \in pending' \ pending :
                /\ u \notin StrongReach
                /\ u \notin finalized /\ u \in finalized'
  BY <1>1, WhoQueues, AtomicWhite, FullWhite
<1>2. (HeapSafe /\ QueueInv) /\ [Next]_vars =>
        [\A u \in pending' \ pending :
           /\ u \notin StrongReach
           /\ u \notin finalized /\ u \in finalized']_vars
  BY <1>1
<1>. QED
  BY <1>2, HeapAlwaysSafe, PTL DEF Spec, QueuedOnlyIfUnreachable

\* What collectMarkSweep has decided when it begins to free objects.
LEMMA FullCollectFacts ==
  ASSUME HeapSafe, QueueInv, FullCollect
  PROVE  \E q, d, wt :
            /\ d \in [Obj -> Colors] /\ WhiteBehindWeak(d, wt)
            /\ \A x \in RootSet \cup q : d[x] # "white"
            /\ q \subseteq Heap /\ pending' = pending \cup q
            /\ White(d) \subseteq White(Marked(AllWhite, RootSet, {}).color)
            /\ d = Blacken(Marked(AllWhite, RootSet, {}).color, q)
            /\ Heap' = Heap \ White(d)
            /\ \A x \in Obj \ White(d) : entries'[x] = Cleared(d, pending', wt)[x]
<1> DEFINE all == Marked(AllWhite, RootSet, {})
           c == all.color
           wt0 == all.weak
<1>1. PICK q \in Queues(c) :
         LET m == Resurrect(c, q, wt0)
             E == Heap \cap White(m.color)
             survivors == Cleared(m.color, pending \cup q, m.weak)
         IN  /\ pending' = (pending \cup q) \ E
             /\ Destroy(E)
             /\ entries' = [x \in Obj |-> IF x \in E THEN {} ELSE survivors[x]]
  BY DEF FullCollect
<1>2. /\ c \in [Obj -> Colors] /\ WhiteBehindWeak(c, wt0)
      /\ \A x \in RootSet : c[x] # "white"
  BY FullMarksFacts DEF HeapSafe
<1>3. q \subseteq Heap /\ q \in SUBSET Obj
  BY <1>1, QueuesType DEF Heap
<1>. HIDE DEF c, wt0
<1> DEFINE m == Resurrect(c, q, wt0)
           d == m.color
           wt == m.weak
           D == Heap \cap White(d)
<1>4. /\ pending' = (pending \cup q) \ D /\ Destroy(D)
      /\ entries' = [x \in Obj |-> IF x \in D THEN {} ELSE Cleared(d, pending \cup q, wt)[x]]
  BY <1>1
<1>5. d = Blacken(c, q)
  BY DEF Resurrect, Marked
<1>. HIDE DEF m
<1>6. /\ m.color \in [Obj -> Colors]
      /\ WhiteBehindWeak(m.color, m.weak)
      /\ White(m.color) \subseteq White(c)
      /\ \A x \in Obj : c[x] # "white" \/ x \in q => m.color[x] # "white"
  <2>1. q \in SUBSET Obj /\ m = Resurrect(c, q, wt0)
    BY <1>3 DEF m
  <2>. QED
    BY ONLY <1>2, <2>1, ResurrectFacts
<1>7. \A x \in RootSet \cup q : d[x] # "white"
  BY <1>2, <1>3, <1>6, RootsOnHeap DEF Heap
<1>. HIDE DEF d, wt
<1>8. D = White(d)
  BY DEF White
<1>9. pending' = pending \cup q
  <2>1. (pending \cup q) \cap D = {}
    BY <1>7 DEF RootSet, White
  <2>. QED
    BY <1>4, <2>1
<1>10. Heap' = Heap \ White(d)
  BY <1>4, <1>8 DEF Heap, Destroy
<1>11. \A x \in Obj \ White(d) : entries'[x] = Cleared(d, pending', wt)[x]
  BY <1>4, <1>8, <1>9
<1>12. d \in [Obj -> Colors] /\ WhiteBehindWeak(d, wt) /\ White(d) \subseteq White(c)
  BY <1>6 DEF d, wt
<1>13. /\ d \in [Obj -> Colors] /\ WhiteBehindWeak(d, wt)
       /\ \A x \in RootSet \cup q : d[x] # "white"
       /\ q \subseteq Heap /\ pending' = pending \cup q
       /\ White(d) \subseteq White(Marked(AllWhite, RootSet, {}).color)
       /\ d = Blacken(Marked(AllWhite, RootSet, {}).color, q)
       /\ Heap' = Heap \ White(d)
       /\ \A x \in Obj \ White(d) : entries'[x] = Cleared(d, pending', wt)[x]
  BY <1>3, <1>5, <1>7, <1>9, <1>10, <1>11, <1>12 DEF c
<1>. QED
  BY <1>13

LEMMA FullCollectLeaves ==
  ASSUME HeapSafe, QueueInv, FullCollect
  PROVE  Heap' = Closure(AllWhite, RootSet \cup pending')
<1> DEFINE c == Marked(AllWhite, RootSet, {}).color
<1>1. PICK q, d, wt :
         /\ d \in [Obj -> Colors] /\ WhiteBehindWeak(d, wt)
         /\ \A x \in RootSet \cup q : d[x] # "white"
         /\ q \subseteq Heap /\ pending' = pending \cup q
         /\ d = Blacken(c, q)
         /\ Heap' = Heap \ White(d)
  BY FullCollectFacts
<1> DEFINE R == RootSet \cup pending'
           C == Closure(AllWhite, R)
           T == {x \in Heap : d[x] # "white"}
<1>2. R = RootSet \cup q /\ R \subseteq Heap /\ R \in SUBSET Obj
  BY <1>1, RootsOnHeap DEF RootSet, Heap
<1>3. Heap' = T
  BY <1>1 DEF White
<1>4. C \subseteq T
  <2>1. R \subseteq T
    BY <1>1, <1>2
  <2>2. \A y \in T : MarkRefs(y) \cap White(AllWhite) \subseteq T
    <3>1. ASSUME NEW y \in T, NEW z \in MarkRefs(y), z \in Heap, d[z] = "white" PROVE FALSE
      <4>1. z \in AllRefs(y)
        BY <3>1, RefsType DEF Heap, HeapSafe
      <4>. QED
        BY <1>1, <3>1, <4>1 DEF WhiteBehindWeak, White
    <3>. QED
      BY <3>1, AllWhiteHeap
  <2>. HIDE DEF R, T
  <2>. QED
    BY <2>1, <2>2, ClosureLeast
<1>5. /\ R \subseteq C /\ \A y \in C : MarkRefs(y) \cap Heap \subseteq C
  <2>. HIDE DEF R
  <2>. QED
    BY <1>2, AllWhiteHeap, ClosureFacts
<1>. HIDE DEF C
<1>6. StrongReach \subseteq C
  <2>1. RootSet \subseteq C /\ \A y \in C : MarkRefs(y) \cap White(AllWhite) \subseteq C
    BY <1>5, AllWhiteHeap
  <2>. QED
    BY <2>1, ClosureLeast DEF StrongReach
<1>7. c \in [Obj -> Colors] /\ \A x \in Heap : c[x] = "white" <=> x \notin StrongReach
  BY FullMarksFacts DEF HeapSafe
<1>. HIDE DEF c
<1>8. \A x \in Obj : d[x] = c[x] \/ x \in C
  <2>1. /\ q \in SUBSET Obj /\ q \subseteq C
        /\ \A y \in C : MarkRefs(y) \cap White(c) \subseteq C
    BY <1>1, <1>2, <1>5 DEF White, Heap
  <2>. QED
    BY <1>1, <1>7, <2>1, BlackenWithin
<1>9. T \subseteq C
  BY <1>6, <1>7, <1>8 DEF Heap
<1>. QED
  BY <1>3, <1>4, <1>9 DEF C

\* A full collection leaves exactly what was strongly reachable and what the
\* finalizers can reach, no matter where an incremental cycle stood.
THEOREM FullCollectionIsExact ==
  ASSUME NoAbandonedUserdata
  PROVE  Spec => FullCollectExact
<1>1. (HeapSafe /\ QueueInv) /\ [Next]_vars =>
        [FullCollect => Heap' = Closure(AllWhite, RootSet \cup pending')]_vars
  BY FullCollectLeaves
<1>. QED
  BY <1>1, HeapAlwaysSafe, PTL DEF Spec, FullCollectExact

\* The entries that clearWeakTableEntries removes.
LEMMA ClearedOnlyDead ==
  ASSUME NEW d, White(d) \cap StrongReach = {}, NEW Q, NEW wt,
         NEW t \in Obj, NEW e \in entries[t] \ Cleared(d, Q, wt)[t]
  PROVE  \/ "k" \in Mode(t) /\ e[1] \notin StrongReach \cup {NULL}
         \/ "v" \in Mode(t) /\ (e[2] \notin StrongReach \cup {NULL} \/ e[2] \in Q)
<1>1. NULL \notin White(d)
  BY NullAssumption DEF White, Heap
<1>2. \/ "k" \in Mode(t) /\ DeadKey(d, e[1])
      \/ "v" \in Mode(t) /\ DeadVal(d, Q, e[2])
  BY DEF Cleared
<1>. QED
  BY <1>1, <1>2 DEF DeadKey, DeadVal

LEMMA WeakStep ==
  ASSUME HeapSafe, QueueInv, Atomic \/ FullCollect,
         NEW t \in Heap \cap Heap', NEW e \in entries[t] \ entries'[t]
  PROVE  \/ "k" \in Mode(t) /\ e[1] \notin StrongReach \cup {NULL}
         \/ "v" \in Mode(t) /\ (e[2] \notin StrongReach \cup {NULL} \/ e[2] \in pending')
<1>1. t \in Obj
  BY DEF Heap
<1>2. CASE Atomic
  <2> DEFINE c == AtomicMarks.color
             wt0 == AtomicMarks.weak
  <2>1. PICK q \in Queues(c) :
           entries' = Cleared(Resurrect(c, q, wt0).color, pending', Resurrect(c, q, wt0).weak)
    BY <1>2 DEF Atomic
  <2>2. phase = "atomic"
    BY <1>2 DEF Atomic
  <2>3. c \in [Obj -> Colors] /\ WhiteBehindWeak(c, wt0) /\ White(c) \cap StrongReach = {}
    BY <2>2, TriColorDef, RootsOnHeap, AtomicMarksType, AtomicMarksFacts, AtomicWhite
       DEF HeapSafe
  <2>4. q \in SUBSET Obj
    BY <2>1, QueuesType DEF Heap
  <2>. HIDE DEF c, wt0
  <2> DEFINE m == Resurrect(c, q, wt0)
             d == m.color
             wt == m.weak
  <2>5. White(d) \subseteq White(c)
    <3>. HIDE DEF m
    <3>1. m = Resurrect(c, q, wt0)
      BY DEF m
    <3>. QED
      BY ONLY <2>3, <2>4, <3>1, ResurrectFacts
  <2>6. entries' = Cleared(d, pending', wt)
    BY <2>1
  <2>. HIDE DEF d, wt
  <2>. QED
    BY <1>1, <2>3, <2>5, <2>6, ClearedOnlyDead
<1>3. CASE FullCollect
  <2>1. PICK q, d, wt :
           /\ White(d) \subseteq White(Marked(AllWhite, RootSet, {}).color)
           /\ Heap' = Heap \ White(d)
           /\ \A x \in Obj \ White(d) : entries'[x] = Cleared(d, pending', wt)[x]
    BY <1>3, FullCollectFacts
  <2>2. White(d) \cap StrongReach = {}
    BY <2>1, FullWhite
  <2>. QED
    BY <1>1, <2>1, <2>2, ClearedOnlyDead
<1>. QED
  BY <1>2, <1>3

\* The collector removes an entry of a table that survives only when its weak
\* key or weak value is dead, or waits for its finalizer, whatever __mode the
\* table had when it was marked, and has now.
THEOREM WeakEntriesLiveOn ==
  ASSUME NoAbandonedUserdata
  PROVE  Spec => WeakEntryClearedOnlyIfDead
<1>1. (HeapSafe /\ QueueInv) /\ [Next]_vars =>
        [Atomic \/ FullCollect =>
           \A t \in Heap \cap Heap' : \A e \in entries[t] \ entries'[t] :
              \/ "k" \in Mode(t) /\ e[1] \notin StrongReach \cup {NULL}
              \/ "v" \in Mode(t) /\ (\/ e[2] \notin StrongReach \cup {NULL}
                                     \/ e[2] \in pending')]_vars
  BY WeakStep
<1>. QED
  BY <1>1, HeapAlwaysSafe, PTL DEF Spec, WeakEntryClearedOnlyIfDead
=============================================================================
