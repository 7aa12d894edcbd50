-------------------------- MODULE ObjectListProofs --------------------------
(***************************************************************************)
(* Proofs about ObjectList, for any number of addresses, contents and      *)
(* slots and any limit of finalizeAll: ListIntact, PointersAlive, GrayFits *)
(* and FinalizedOnce, and that it implements Memory (ActsAsMemory), as     *)
(* long as no string is interned that the sweep is about to free           *)
(* (~InternsDoomed; else PointersAlive is false).                          *)
(*                                                                         *)
(* IInv says three things of the heap that the properties do not say.  A   *)
(* sequence c is the list, and the cursor stands behind its k-th object.   *)
(* A set K has what the program holds, is closed under pointers and has no *)
(* white object ahead of the cursor (Ahead), so that a slice of the sweep  *)
(* frees nothing of K; white userdata ahead of the cursor were queued or   *)
(* finalized before.  While marking, no black object of the list points to *)
(* a white one (Tri), open upvalues apart, whose slots are roots.          *)
(*                                                                         *)
(* Each operator on heaps has a lemma that says what kind of change it is: *)
(* Recolored (marking), unlinking one object, adding one at the head       *)
(* (NewUserdata, NewClosure, InternNew), changing one body (upvalues).     *)
(* The recursive functions in propagateMarks, Chain, Selected, sweep,      *)
(* close and destroyAll are known to exist by LoopExists, and their        *)
(* results by LoopInduct, of NatLemmas.  Then there is one lemma for each  *)
(* action (... Keeps): it keeps IInv, and finalizes what it destroys       *)
(* (OnceStep).                                                             *)
(*                                                                         *)
(* The refinement needs one more invariant, Lost: some set around what the *)
(* program has in hand, which no pointer leaves, has none of the userdata  *)
(* that wait for their finalizer.  Again there is one lemma for each       *)
(* action (... Lost): it keeps Lost, and is a step of Memory or a stutter. *)
(***************************************************************************)
EXTENDS ObjectList, FiniteSetTheorems, NatLemmas

-----------------------------------------------------------------------------
(***************************************************************************)
(* What is to be known of a heap h.                                        *)
(***************************************************************************)

MaybeObject == Objects \cup {Null}
Colors == {"White", "Gray", "Black"}
Phases == {"Pause", "Propagate", "Atomic", "Sweep", "Finalize"}

HeapOf ==
    [body : [Objects -> Bodies], color : [Objects -> Colors],
     next : [Objects -> MaybeObject], accounted : [Objects -> Int],
     head : MaybeObject, count : Int, total : Int,
     phase : Phases, current : MaybeObject, previous : MaybeObject,
     gray : SUBSET Objects, capacity : Nat, pending : Seq(Objects),
     finalized : SUBSET Objects, pool : [Contents -> MaybeObject]]

\* The list c runs from the head through every object; the k-th object is
\* followed by After(c, k).
After(c, k) == IF k < Len(c) THEN c[k + 1] ELSE Null
Upto(c, k) == IF k = 0 THEN Null ELSE c[k]

IsList(h, c) ==
    /\ c \in Seq(Objects) /\ Range(c) = Live(h)
    /\ \A i, j \in 1 .. Len(c) : c[i] = c[j] => i = j
    /\ h.head = After(c, 0)
    /\ \A i \in 1 .. Len(c) : h.next[c[i]] = After(c, i)

\* The counters.
Big(h) == {o \in Live(h) : getSize(h.body[o]) = 2}
Counted(h) ==
    /\ h.count = Cardinality(Live(h)) /\ h.total = Cardinality(Live(h)) + Cardinality(Big(h))
    /\ \A o \in Live(h) : h.accounted[o] = getSize(h.body[o])

\* The pool has the strings of the heap, one of each content.
PoolOK(h) == \A s \in Contents : {o \in Objects : h.body[o] = String(s)} = {h.pool[s]} \ {Null}

\* What is queued was marked as finalized, once.
QueueOK(h) ==
    /\ Range(h.pending) \subseteq h.finalized /\ h.finalized \subseteq Live(h)
    /\ \A i, j \in 1 .. Len(h.pending) : h.pending[i] = h.pending[j] => i = j

\* The cursor is between the k-th object of c and the next one.
Cursor(h, c, k) ==
    /\ k \in 0 .. Len(c)
    /\ h.phase # "Sweep" => h.current = Null
    /\ h.phase \in {"Pause", "Propagate", "Atomic"} => h.previous = Null
    /\ h.previous \in Live(h) \cup {Null}
    /\ h.phase = "Sweep" => h.previous = Upto(c, k) /\ h.current = After(c, k)

\* What an object refers to, the slot of an open upvalue apart.
Inner(h, o) == IF Is(h, o, "open") THEN {} ELSE Refs(h, <<>>, o)

\* The tri-colour invariant.  An open upvalue may be black with a white value
\* in its slot, since the slot is marked again.
GrayOK(h) == \A o \in h.gray : o \in Live(h) /\ h.color[o] = "Gray"
AllQueued(h) == \A o \in Live(h) : h.color[o] = "Gray" => o \in h.gray
Tri(h) == \A o \in Live(h) : h.color[o] = "Black" => Inner(h, o) \cap White(h) = {}
Black(h) == {o \in Live(h) : h.color[o] = "Black"}
Unscanned(h) == h.gray \cup White(h)
Marking(h) == h.phase \in {"Propagate", "Atomic"}
ColorOK(h) ==
    /\ GrayOK(h)
    /\ h.phase = "Sweep" => h.gray = {}
    /\ Marking(h) => AllQueued(h) /\ Tri(h) /\ Cardinality(Unscanned(h)) <= h.capacity

\* The set K holds what the program can reach from hold, and nothing in it is
\* ahead of the cursor and white.
Keeps(h, hold, K) ==
    hold \ {Null} \subseteq K /\ K \subseteq Live(h) /\ \A o \in K : Inner(h, o) \subseteq K
Ahead(h, c, k, K) ==
    \A i \in k + 1 .. Len(c) : h.color[c[i]] = "White" =>
        c[i] \notin K /\ (Is(h, c[i], "userdata") => c[i] \in h.finalized)

\* The program cannot reach D: there is a set around what it has in hand that
\* no pointer leaves and that has nothing of D.
InHand == {stack[s] : s \in Slots} \cup {open[s] : s \in Slots} \cup {callback}
Encloses(h, X) == X \subseteq Objects /\ InHand \ {Null} \subseteq X /\ \A o \in X : Inner(h, o) \subseteq X
Parted(h, D) == \E X : Encloses(h, X) /\ X \cap D = {}

\* The closures of K have upvalues.
Upvalues == {"open", "closed"}
Typed(h, K) ==
    \A o \in K : Is(h, o, "closure") /\ h.body[o].up # Null => h.body[h.body[o].up].kind \in Upvalues

Sound(h) == h \in HeapOf /\ Counted(h) /\ QueueOK(h) /\ ColorOK(h)
Good(h, hold, c, k, K) ==
    /\ Sound(h) /\ IsList(h, c) /\ Cursor(h, c, k) /\ Keeps(h, hold, K)
    /\ h.phase = "Sweep" => Ahead(h, c, k, K)

\* The same in the loop that sweeps all of the list, with no cycle running.
Sweeping(h, hold, c, k, K) ==
    /\ Sound(h) /\ IsList(h, c) /\ Keeps(h, hold, K) /\ Ahead(h, c, k, K)
    /\ h.gray = {} /\ ~Marking(h) /\ k \in 0 .. Len(c) /\ h.previous = Upto(c, k)
    /\ Range(h.pending) \subseteq K

-----------------------------------------------------------------------------
(***************************************************************************)
(* The invariant.                                                          *)
(***************************************************************************)

Held == {stack[s] : s \in Slots} \cup {callback} \cup Range(heap.pending)

StackOK == stack \in [Slots -> MaybeObject]
OpenOK ==
    /\ open \in [Slots -> MaybeObject]
    /\ \A s \in Slots : open[s] # Null => heap.body[open[s]] = OpenUpvalue(s)

StageOK ==
    /\ stage \in {"running", "closing", "closed"} /\ entered \in 0 .. DrainLimit
    /\ stage = "closed" => callback = Null /\ Live(heap) = {}
    /\ stage # "running" /\ callback = Null => stack = Emptied
    /\ stage # "running" => callback \notin Range(heap.pending)

DrainOK ==
    IF drain = Null THEN stage = "running" => callback = Null
    ELSE /\ stage = "running" /\ drain \in [left : Seq(Objects), byStep : BOOLEAN]
         /\ drain.left # <<>> /\ Range(drain.left) \subseteq Range(heap.pending)
         /\ \A i, j \in 1 .. Len(drain.left) : drain.left[i] = drain.left[j] => i = j
         /\ callback \in {Null, drain.left[1]}

FinalsOK ==
    /\ finals \in [Objects -> {0, 1}]
    /\ \A o \in Live(heap) : Is(heap, o, "userdata") =>
          finals[o] = IF o \in heap.finalized /\ (o \notin Range(heap.pending) \/ o = callback) THEN 1 ELSE 0
    /\ callback # Null => Is(heap, callback, "userdata") /\ callback \in heap.finalized
    /\ \A o \in heap.finalized : Is(heap, o, "userdata")

IInv ==
    /\ \E c, k, K : Good(heap, Held, c, k, K) /\ Typed(heap, K)
    /\ PoolOK(heap) /\ StackOK /\ OpenOK /\ StageOK /\ DrainOK /\ FinalsOK

-----------------------------------------------------------------------------
(***************************************************************************)
(* Sequences.                                                              *)
(***************************************************************************)

LEMMA SeqFacts ==
    ASSUME NEW s \in Seq(Objects)
    PROVE  /\ Len(s) \in Nat /\ DOMAIN s = 1 .. Len(s)
           /\ Range(s) = {s[i] : i \in 1 .. Len(s)} /\ Range(s) \subseteq Objects
           /\ \A i \in 1 .. Len(s) : s[i] \in Objects /\ s[i] \in Range(s)
           /\ \A x \in Range(s) : \E i \in 1 .. Len(s) : s[i] = x
  BY DEF Range

OneEach(s) == \A i, j \in 1 .. Len(s) : s[i] = s[j] => i = j

\* The loop of Selected.
IsSelection(m, s, S) ==
    /\ m \in [0 .. Len(s) -> Seq(Objects)] /\ Selected(s, S) = m[Len(s)]
    /\ m[0] = <<>>
    /\ \A i \in 1 .. Len(s) : m[i] = IF s[i] \in S THEN Append(m[i - 1], s[i]) ELSE m[i - 1]

LEMMA SelectedLoop ==
    ASSUME NEW s \in Seq(Objects), NEW S
    PROVE  \E m : IsSelection(m, s, S)
<1> DEFINE N == Len(s)
           V == Seq(Objects)
           Turn(i, t) == IF s[i] \in S THEN Append(t, s[i]) ELSE t
           step == [x \in Nat \X V |-> IF x[1] + 1 \in 1 .. N THEN Turn(x[1] + 1, x[2]) ELSE x[2]]
           Loop(f) == [i \in 0 .. N |-> IF i = 0 THEN <<>> ELSE Turn(i, f[i - 1])]
           m == CHOOSE f : f = Loop(f)
<1>1. N \in Nat /\ <<>> \in V
  OBVIOUS
<1>2. ASSUME NEW i \in 1 .. N, NEW t \in V PROVE Turn(i, t) \in V
  OBVIOUS
<1>3. IsStep(step, V)
  <2> HIDE DEF Turn, V, N
  <2>. QED BY <1>2 DEF IsStep
<1>4. PICK g : IsLoop(g, N, V, <<>>, step)
  <2> HIDE DEF step, V, N
  <2>. QED BY ONLY <1>1, <1>3, LoopExists
<1>5. /\ g \in [0 .. N -> V] /\ g[0] = <<>>
      /\ \A i \in 1 .. N : g[i] = step[<<i - 1, g[i - 1]>>]
  <2> HIDE DEF step, V, N
  <2>. QED BY <1>4 DEF IsLoop
<1>6. \A i \in 1 .. N : g[i] = Turn(i, g[i - 1])
  <2> HIDE DEF Turn, V
  <2>1. ASSUME NEW i \in 1 .. N PROVE g[i] = Turn(i, g[i - 1])
    <3>1. i - 1 \in Nat /\ i - 1 \in 0 .. N /\ (i - 1) + 1 = i
      BY <1>1
    <3>. QED BY <1>5, <3>1
  <2>. QED BY <2>1
<1>7. g = Loop(g)
  <2> HIDE DEF Turn, V, N
  <2>. QED BY <1>1, <1>5, <1>6
<1>8. m = Loop(m)
  <2> HIDE DEF Loop
  <2>. QED BY <1>7
<1>9. Selected(s, S) = m[N]
  BY Zenon DEF Selected
<1> HIDE DEF m
<1>10. DOMAIN m = 0 .. N /\ m[0] = <<>> /\ \A i \in 1 .. N : m[i] = Turn(i, m[i - 1])
  <2> HIDE DEF Turn, N
  <2>. QED BY <1>1, <1>8
<1>11. \A i \in 0 .. N : m[i] \in V
  <2> DEFINE T == {i \in 0 .. N : m[i] \in V}
  <2>1. 0 \in T
    <3> HIDE DEF V, N
    <3>. QED BY <1>1, <1>10
  <2>2. ASSUME NEW i \in 1 .. N, i - 1 \in T PROVE i \in T
    <3> HIDE DEF Turn, V
    <3>. QED BY <1>1, <1>2, <1>10, <2>2
  <2>3. 0 .. N \subseteq T
    <3> HIDE DEF T, N
    <3>. QED BY ONLY <1>1, <2>1, <2>2, LoopInduct
  <2>. QED BY <2>3
<1>12. m = [i \in 0 .. N |-> m[i]]
  BY <1>8, <1>10
<1>13. m \in [0 .. N -> V]
  BY <1>11, <1>12
<1>14. IsSelection(m, s, S)
  BY <1>9, <1>10, <1>13 DEF IsSelection
<1>. QED BY <1>14

\* What is selected is the part of the sequence in the set, each element as
\* often as before.
LEMMA SelectedFacts ==
    ASSUME NEW s \in Seq(Objects), NEW S
    PROVE  /\ Selected(s, S) \in Seq(Objects)
           /\ Range(Selected(s, S)) = Range(s) \cap S
           /\ OneEach(s) => OneEach(Selected(s, S))
<1> DEFINE N == Len(s)
<1>1. N \in Nat /\ \A i \in 1 .. N : s[i] \in Objects
  BY SeqFacts
<1>2. PICK m : IsSelection(m, s, S)
  BY SelectedLoop
<1>3. /\ m \in [0 .. N -> Seq(Objects)] /\ Selected(s, S) = m[N] /\ m[0] = <<>>
      /\ \A i \in 1 .. N : m[i] = IF s[i] \in S THEN Append(m[i - 1], s[i]) ELSE m[i - 1]
  BY <1>2 DEF IsSelection
<1> DEFINE Before(i) == {s[j] : j \in 1 .. i} \cap S
           T == {i \in 0 .. N : Range(m[i]) = Before(i) /\ (OneEach(s) => OneEach(m[i]))}
<1> HIDE DEF N
<1>4. 0 \in T
  BY <1>1, <1>3 DEF Range, OneEach
<1>5. ASSUME NEW i \in 1 .. N, i - 1 \in T PROVE i \in T
  <2> DEFINE t == m[i - 1]
  <2>1. t \in Seq(Objects) /\ i - 1 \in 0 .. N /\ s[i] \in Objects /\ i \in Nat
    BY <1>1, <1>3
  <2>2. Range(t) = Before(i - 1) /\ (OneEach(s) => OneEach(t))
    BY <1>5
  <2>3. Before(i) = Before(i - 1) \cup ({s[i]} \cap S)
    BY <1>1, <2>1
  <2>4. CASE s[i] \notin S
    <3>1. m[i] = t
      BY <1>3, <2>4
    <3>2. {s[i]} \cap S = {}
      BY <2>4
    <3>3. Range(m[i]) = Before(i) /\ (OneEach(s) => OneEach(m[i]))
      <4> HIDE DEF Before
      <4>. QED BY <2>2, <2>3, <3>1, <3>2
    <3>. QED BY <2>1, <3>3
  <2>5. CASE s[i] \in S
    <3> DEFINE a == Append(t, s[i])
    <3>1. m[i] = a
      BY <1>3, <2>5
    <3> HIDE DEF t
    <3>2. /\ Len(t) \in Nat /\ Len(a) = Len(t) + 1 /\ a[Len(t) + 1] = s[i]
          /\ \A j \in 1 .. Len(t) : a[j] = t[j]
          /\ DOMAIN a = 1 .. Len(t) + 1 /\ DOMAIN t = 1 .. Len(t)
      BY <2>1
    <3> HIDE DEF a
    <3>3. Range(a) = Range(t) \cup {s[i]}
      BY <3>2 DEF Range
    <3>4. ASSUME OneEach(s) PROVE OneEach(a)
      <4>1. s[i] \notin Before(i - 1)
        BY <1>1, <2>1, <3>4 DEF OneEach, N
      <4>2. \A j \in 1 .. Len(t) : t[j] # s[i]
        BY <2>2, <3>2, <4>1 DEF Range
      <4>3. OneEach(t)
        BY <2>2, <3>4
      <4>. QED BY <3>2, <4>2, <4>3 DEF OneEach
    <3>5. {s[i]} \cap S = {s[i]}
      BY <2>5
    <3>6. Range(m[i]) = Before(i) /\ (OneEach(s) => OneEach(m[i]))
      <4> HIDE DEF Before
      <4>. QED BY <2>2, <2>3, <3>1, <3>3, <3>4, <3>5
    <3>. QED BY <2>1, <3>6
  <2>. QED BY <2>4, <2>5
<1>6. 0 .. N \subseteq T
  <2> HIDE DEF T
  <2>. QED BY ONLY <1>1, <1>4, <1>5, LoopInduct
<1>7. N \in 0 .. N /\ N \in T
  <2> HIDE DEF T
  <2>. QED BY <1>1, <1>6
<1>8. Range(s) = {s[j] : j \in 1 .. N}
  BY SeqFacts DEF N
<1>. QED BY <1>1, <1>3, <1>7, <1>8

-----------------------------------------------------------------------------
(***************************************************************************)
(* The list.                                                               *)
(***************************************************************************)

LEMMA HeapFields ==
    ASSUME NEW h \in HeapOf
    PROVE  /\ h.body \in [Objects -> Bodies] /\ h.color \in [Objects -> Colors]
           /\ h.next \in [Objects -> MaybeObject] /\ h.accounted \in [Objects -> Int]
           /\ h.head \in MaybeObject /\ h.count \in Int /\ h.total \in Int
           /\ h.phase \in Phases /\ h.current \in MaybeObject /\ h.previous \in MaybeObject
           /\ h.gray \in SUBSET Objects /\ h.capacity \in Nat /\ h.pending \in Seq(Objects)
           /\ h.finalized \in SUBSET Objects /\ h.pool \in [Contents -> MaybeObject]
  BY DEF HeapOf

LEMMA LiveFacts ==
    ASSUME NEW h
    PROVE  /\ Live(h) \subseteq Objects /\ White(h) \subseteq Live(h) /\ Big(h) \subseteq Live(h)
           /\ \A S \in SUBSET Objects : IsFiniteSet(S) /\ Cardinality(S) \in Nat
           /\ Cardinality(Objects) \in Nat
<1>1. IsFiniteSet(Objects)
  BY ObjectListAssumption
<1>2. \A S \in SUBSET Objects : IsFiniteSet(S) /\ Cardinality(S) \in Nat
  BY <1>1, FS_Subset, FS_CardinalityType
<1>. QED BY <1>1, <1>2, FS_CardinalityType DEF Live, White, Big

LEMMA ListFacts ==
    ASSUME NEW h, NEW c, IsList(h, c)
    PROVE  /\ c \in Seq(Objects) /\ Len(c) \in Nat /\ Range(c) = Live(h) /\ OneEach(c)
           /\ Len(c) = Cardinality(Live(h)) /\ Len(c) <= Cardinality(Objects)
           /\ h.head = After(c, 0) /\ \A i \in 1 .. Len(c) : h.next[c[i]] = After(c, i)
           /\ \A i \in 1 .. Len(c) : c[i] \in Live(h) /\ c[i] \in Objects /\ c[i] # Null
           /\ \A o \in Live(h) : \E i \in 1 .. Len(c) : c[i] = o
<1>1. /\ c \in Seq(Objects) /\ Range(c) = Live(h) /\ OneEach(c)
      /\ h.head = After(c, 0) /\ \A i \in 1 .. Len(c) : h.next[c[i]] = After(c, i)
  BY DEF IsList, OneEach
<1>2. /\ Len(c) \in Nat /\ DOMAIN c = 1 .. Len(c)
      /\ \A i \in 1 .. Len(c) : c[i] \in Objects /\ c[i] \in Live(h)
      /\ \A o \in Live(h) : \E i \in 1 .. Len(c) : c[i] = o
  BY <1>1, SeqFacts
<1>3. c \in Bijection(1 .. Len(c), Live(h))
  <2>1. c \in [1 .. Len(c) -> Live(h)]
    BY <1>1, <1>2
  <2>2. c \in Injection(1 .. Len(c), Live(h))
    BY <1>1, <2>1 DEF OneEach, Injection, IsInjective
  <2>3. c \in Surjection(1 .. Len(c), Live(h))
    BY <1>2, <2>1 DEF Surjection
  <2>. QED BY <2>2, <2>3 DEF Bijection
<1>4. ExistsBijection(1 .. Len(c), Live(h))
  BY <1>3 DEF ExistsBijection
<1>5. Cardinality(Live(h)) = Len(c)
  BY ONLY <1>2, <1>4, FS_CountingElements
<1>6. Cardinality(Live(h)) <= Cardinality(Objects)
  <2>1. Live(h) \subseteq Objects /\ IsFiniteSet(Objects)
    BY LiveFacts, ObjectListAssumption
  <2>. QED BY ONLY <2>1, FS_Subset
<1>7. \A o \in Objects : o # Null
  BY ObjectListAssumption
<1>. QED BY <1>1, <1>2, <1>5, <1>6, <1>7

\* Chain finds the list.
LEMMA ChainIsList ==
    ASSUME NEW h, NEW c, IsList(h, c)
    PROVE  Chain(h) = c
<1> DEFINE N == Cardinality(Objects) + 1
           L == Len(c)
           Part(i) == SubSeq(c, 1, IF i <= L THEN i ELSE L)
           Loop(f) == [i \in 0 .. N |-> IF i = 0 THEN <<>> ELSE Followed(h, f[i - 1])]
           m == CHOOSE f : f = Loop(f)
           g == [i \in 0 .. N |-> Part(i)]
<1>1. N \in Nat /\ L \in Nat /\ L <= N /\ c \in Seq(Objects)
  <2>1. Cardinality(Objects) \in Nat
    BY LiveFacts
  <2>. QED BY <2>1, ListFacts
<1>2. Part(0) = <<>> /\ Part(N) = c
  BY <1>1
<1>3. ASSUME NEW i \in 1 .. N PROVE Followed(h, Part(i - 1)) = Part(i)
  <2>1. CASE i <= L
    <3>0. i \in 1 .. L /\ i - 1 \in Nat /\ i - 1 <= L
      BY <1>1, <2>1
    <3>1. Part(i - 1) = SubSeq(c, 1, i - 1) /\ Part(i) = SubSeq(c, 1, i)
      BY <3>0, <2>1
    <3>2. CASE i = 1
      <4>0. i - 1 = 0
        BY <3>2
      <4>1. Part(i - 1) = <<>>
        <5> HIDE DEF Part
        <5>. QED BY <4>0, <1>2
      <4>2. h.head = c[1] /\ c[1] # Null
        BY <3>0, <3>2, <1>1, ListFacts DEF After
      <4>3. Part(i) = Append(<<>>, c[1])
        <5> DEFINE a == SubSeq(c, 1, 1)
                   b == Append(<<>>, c[1])
        <5>1. 1 \in 1 .. L /\ c[1] \in Objects
          BY <3>0, <3>2, <1>1
        <5>2. a \in Seq(Objects) /\ Len(a) = 1 /\ a[1] = c[1]
          BY <5>1, <1>1
        <5>3. b \in Seq(Objects) /\ Len(b) = 1 /\ b[1] = c[1]
          BY <5>1
        <5>4. Part(i) = a
          BY <3>1, <3>2
        <5> HIDE DEF a, b
        <5>5. a = b
          BY <5>2, <5>3
        <5>. QED BY <5>4, <5>5 DEF b
      <4> HIDE DEF Part
      <4>. QED BY <4>1, <4>2, <4>3 DEF Followed
    <3>3. CASE i # 1
      <4> DEFINE p == SubSeq(c, 1, i - 1)
      <4>1. i - 1 \in 1 .. L /\ i - 1 < L /\ (i - 1) + 1 = i
        BY <3>0, <3>3, <1>1
      <4>2. Len(p) = i - 1 /\ p[i - 1] = c[i - 1] /\ p # <<>>
        BY <4>1, <1>1
      <4>3. h.next[c[i - 1]] = c[i] /\ c[i] # Null
        BY <4>1, <3>0, <1>1, ListFacts DEF After
      <4>4. Part(i) = Append(p, c[i])
        BY <4>1, <3>1, <1>1
      <4> HIDE DEF p
      <4>5. Followed(h, p) = Append(p, c[i])
        BY <4>2, <4>3 DEF Followed
      <4>. QED BY <3>1, <4>4, <4>5 DEF p
    <3>. QED BY <3>2, <3>3
  <2>2. CASE ~(i <= L)
    <3>1. Part(i) = c
      BY <1>1, <2>2
    <3>2. Part(i - 1) = c
      BY <1>1, <2>2
    <3>3. Followed(h, c) = c
      <4>1. CASE L = 0
        BY <4>1, <1>1, ListFacts DEF Followed, After
      <4>2. CASE L # 0
        <5>1. L \in 1 .. L /\ ~(L < L) /\ c # <<>>
          BY <4>2, <1>1
        <5>2. h.next[c[L]] = Null
          BY <5>1, ListFacts DEF After
        <5>. QED BY <5>1, <5>2 DEF Followed
      <4>. QED BY <4>1, <4>2
    <3> HIDE DEF Part
    <3>. QED BY <3>1, <3>2, <3>3
  <2>. QED BY <2>1, <2>2
<1> HIDE DEF Part
<1>4. g = Loop(g)
  <2> HIDE DEF N
  <2>1. \A i \in 0 .. N : i # 0 => i \in 1 .. N /\ i - 1 \in 0 .. N
    BY <1>1
  <2>. QED BY <1>2, <1>3, <2>1
<1>5. m = Loop(m)
  <2> HIDE DEF Loop
  <2>. QED BY <1>4
<1>6. Chain(h) = m[N]
  BY Zenon DEF Chain
<1> HIDE DEF m
<1>7. m[0] = <<>> /\ \A i \in 1 .. N : m[i] = Followed(h, m[i - 1])
  <2> HIDE DEF N
  <2>. QED BY <1>1, <1>5
<1> DEFINE T == {i \in 0 .. N : m[i] = Part(i)}
<1> HIDE DEF N
<1>8. 0 \in T
  BY <1>1, <1>2, <1>7
<1>9. ASSUME NEW i \in 1 .. N, i - 1 \in T PROVE i \in T
  BY <1>1, <1>3, <1>7, <1>9
<1>10. 0 .. N \subseteq T
  <2> HIDE DEF T
  <2>. QED BY ONLY <1>1, <1>8, <1>9, LoopInduct
<1>11. N \in 0 .. N /\ N \in T
  <2> HIDE DEF T
  <2>. QED BY <1>1, <1>10
<1>. QED BY <1>2, <1>6, <1>11

-----------------------------------------------------------------------------
(***************************************************************************)
(* Marking changes colours, the queue of gray objects and its capacity.    *)
(***************************************************************************)

Same(h, g) ==
    /\ g.body = h.body /\ g.next = h.next /\ g.accounted = h.accounted /\ g.head = h.head
    /\ g.count = h.count /\ g.total = h.total /\ g.phase = h.phase /\ g.current = h.current
    /\ g.previous = h.previous /\ g.pending = h.pending /\ g.finalized = h.finalized
    /\ g.pool = h.pool

Recolored(h, g) ==
    /\ g \in HeapOf /\ Same(h, g) /\ GrayOK(g)
    /\ White(g) \subseteq White(h) /\ Unscanned(g) \subseteq Unscanned(h)
    /\ Black(h) \subseteq Black(g) /\ h.capacity <= g.capacity
    /\ AllQueued(h) => AllQueued(g)
    /\ Tri(h) => Tri(g)

LEMMA RecoloredRefl ==
    ASSUME NEW h \in HeapOf, GrayOK(h)
    PROVE  Recolored(h, h)
<1>1. h.capacity \in Nat
  BY HeapFields
<1>. QED BY <1>1 DEF Recolored, Same

LEMMA RecoloredTrans ==
    ASSUME NEW h \in HeapOf, NEW g, NEW f, Recolored(h, g), Recolored(g, f)
    PROVE  Recolored(h, f)
<1>1. h.capacity \in Nat /\ g.capacity \in Nat /\ f.capacity \in Nat
  BY HeapFields DEF Recolored
<1>2. Same(h, f)
  BY DEF Recolored, Same
<1>3. h.capacity <= f.capacity
  BY <1>1 DEF Recolored
<1>. QED BY <1>2, <1>3 DEF Recolored

\* What depends on the body of an object alone.
LEMMA BodyFacts ==
    ASSUME NEW h, NEW g, NEW o, g.body[o] = h.body[o]
    PROVE  /\ Inner(g, o) = Inner(h, o) /\ \A stk : Refs(g, stk, o) = Refs(h, stk, o)
           /\ \A kind : Is(g, o, kind) = Is(h, o, kind)
           /\ o \in Live(g) <=> o \in Live(h)
<1>1. \A kind : Is(g, o, kind) = Is(h, o, kind)
  BY DEF Is
<1>2. \A stk : Refs(g, stk, o) = Refs(h, stk, o)
  BY DEF Refs
<1>. QED BY <1>1, <1>2 DEF Inner, Live

LEMMA SameBodies ==
    ASSUME NEW h, NEW g, g.body = h.body
    PROVE  /\ Live(g) = Live(h) /\ Big(g) = Big(h)
           /\ \A o : Inner(g, o) = Inner(h, o)
           /\ \A o, kind : Is(g, o, kind) = Is(h, o, kind)
<1>1. \A o, kind : Is(g, o, kind) = Is(h, o, kind)
  BY DEF Is
<1>2. \A o : Inner(g, o) = Inner(h, o)
  BY BodyFacts
<1>3. Live(g) = Live(h)
  BY <1>1 DEF Live
<1>. QED BY <1>1, <1>2, <1>3 DEF Big

LEMMA InnerInRefs ==
    ASSUME NEW h, NEW stk, NEW o
    PROVE  Inner(h, o) \subseteq Refs(h, stk, o)
  BY DEF Inner, Refs, Is

LEMMA MarkFields ==
    ASSUME NEW h \in HeapOf, NEW os, NEW m, m = markObject(h, os)
    PROVE  /\ m \in HeapOf /\ Same(h, m) /\ m.gray = h.gray \cup (os \cap White(h))
           /\ \A o \in Objects : m.color[o] = IF o \in os \cap White(h) THEN "Gray" ELSE h.color[o]
           /\ h.capacity <= m.capacity /\ Cardinality(m.gray) <= m.capacity
<1> DEFINE new == os \cap White(h)
           gray == h.gray \cup new
           cap == IF Cardinality(gray) > h.capacity THEN Cardinality(gray) ELSE h.capacity
           color == [o \in Objects |-> IF o \in new THEN "Gray" ELSE h.color[o]]
<1>1. m = [h EXCEPT !.gray = gray, !.color = color, !.capacity = cap]
  BY Zenon DEF markObject
<1>2. gray \in SUBSET Objects /\ Cardinality(gray) \in Nat
  <2>1. h.gray \in SUBSET Objects /\ White(h) \subseteq Objects
    BY HeapFields, LiveFacts
  <2>2. gray \in SUBSET Objects
    BY <2>1
  <2> HIDE DEF gray
  <2>. QED BY <2>2, LiveFacts
<1>3. color \in [Objects -> Colors]
  BY HeapFields DEF Colors
<1>4. cap \in Nat /\ h.capacity <= cap /\ Cardinality(gray) <= cap
  <2> HIDE DEF gray
  <2>1. h.capacity \in Nat
    BY HeapFields
  <2>. QED BY <1>2, <2>1
<1> HIDE DEF gray, color, cap
<1>5. m \in HeapOf
  BY <1>1, <1>2, <1>3, <1>4 DEF HeapOf
<1>6. m.gray = gray /\ m.color = color /\ m.capacity = cap /\ Same(h, m)
  BY <1>1 DEF HeapOf, Same
<1>. QED BY <1>4, <1>5, <1>6 DEF gray, color

LEMMA MarkLemma ==
    ASSUME NEW h \in HeapOf, GrayOK(h), NEW os
    PROVE  /\ Recolored(h, markObject(h, os))
           /\ White(markObject(h, os)) = White(h) \ os
<1> DEFINE m == markObject(h, os)
           new == os \cap White(h)
<1>1. /\ m \in HeapOf /\ Same(h, m) /\ m.gray = h.gray \cup new
      /\ \A o \in Objects : m.color[o] = IF o \in new THEN "Gray" ELSE h.color[o]
      /\ h.capacity <= m.capacity
  BY MarkFields
<1> HIDE DEF m
<1>2. m.body = h.body /\ Live(m) = Live(h) /\ \A o : Inner(m, o) = Inner(h, o)
  BY <1>1, SameBodies DEF Same
<1>3. \A o \in Live(h) : o \in Objects /\ m.color[o] = IF o \in new THEN "Gray" ELSE h.color[o]
  BY <1>1, LiveFacts
<1>4. White(m) = White(h) \ os
  BY <1>2, <1>3 DEF White
<1>5. GrayOK(m)
  BY <1>1, <1>2, <1>3, LiveFacts DEF GrayOK
<1>6. AllQueued(h) => AllQueued(m)
  BY <1>1, <1>2, <1>3 DEF AllQueued
<1>7. Tri(h) => Tri(m)
  BY <1>2, <1>3, <1>4 DEF Tri
<1>8. Unscanned(m) \subseteq Unscanned(h)
  BY <1>1, <1>4 DEF Unscanned
<1>9. White(m) \subseteq White(h)
  BY <1>4
<1>10. Black(h) \subseteq Black(m)
  BY <1>2, <1>3 DEF Black, White
<1>11. Recolored(h, m)
  BY <1>1, <1>5, <1>6, <1>7, <1>8, <1>9, <1>10 DEF Recolored
<1>. QED BY <1>4, <1>11 DEF m

\* A round blackens a gray object.
LEMMA ScanLemma ==
    ASSUME NEW h \in HeapOf, GrayOK(h), NEW stk, NEW o \in h.gray
    PROVE  Recolored(h, Scan(h, stk, o)) /\ Unscanned(Scan(h, stk, o)) \subseteq Unscanned(h) \ {o}
<1> DEFINE p == [h EXCEPT !.gray = @ \ {o}, !.color[o] = "Black"]
           os == Refs(h, stk, o)
           m == Scan(h, stk, o)
<1>1. m = markObject(p, os)
  BY Zenon DEF Scan
<1>2. o \in Objects /\ h.gray \in SUBSET Objects /\ h.color \in [Objects -> Colors] /\ o \in Live(h) /\ h.color[o] = "Gray"
  BY HeapFields DEF GrayOK
<1>3. /\ p \in HeapOf /\ Same(h, p) /\ p.gray = h.gray \ {o} /\ p.capacity = h.capacity
      /\ p.color = [h.color EXCEPT ![o] = "Black"]
  <2>1. p.color = [h.color EXCEPT ![o] = "Black"] /\ p.gray = h.gray \ {o} /\ p.capacity = h.capacity /\ Same(h, p)
    BY DEF HeapOf, Same
  <2>2. h.gray \ {o} \in SUBSET Objects /\ [h.color EXCEPT ![o] = "Black"] \in [Objects -> Colors]
    BY <1>2 DEF Colors
  <2>3. p \in HeapOf
    BY <2>2 DEF HeapOf
  <2>. QED BY <2>1, <2>3
<1> HIDE DEF p, os, m
<1>4. p.body = h.body /\ Live(p) = Live(h) /\ \A x : Inner(p, x) = Inner(h, x)
  BY <1>3, SameBodies DEF Same
<1>5. \A x \in Live(h) : p.color[x] = IF x = o THEN "Black" ELSE h.color[x]
  BY <1>2, <1>3, LiveFacts
<1>6. GrayOK(p)
  BY <1>3, <1>4, <1>5 DEF GrayOK
<1>7. White(p) = White(h)
  BY <1>2, <1>4, <1>5 DEF White
<1>8. /\ m \in HeapOf /\ Same(p, m) /\ m.gray = p.gray \cup (os \cap White(p))
      /\ \A x \in Objects : m.color[x] = IF x \in os \cap White(p) THEN "Gray" ELSE p.color[x]
      /\ p.capacity <= m.capacity
  <2>1. p \in HeapOf
    BY <1>3
  <2>. QED BY ONLY <1>1, <2>1, MarkFields
<1>9. Recolored(p, m) /\ White(m) = White(p) \ os
  BY <1>1, <1>3, <1>6, MarkLemma
<1>10. Live(m) = Live(h) /\ \A x : Inner(m, x) = Inner(h, x)
  <2>1. m.body = h.body
    BY <1>3, <1>8 DEF Same
  <2>. QED BY <2>1, SameBodies
<1>11. \A x \in Live(h) : m.color[x] = IF x \in os \cap White(h) THEN "Gray"
                                       ELSE IF x = o THEN "Black" ELSE h.color[x]
  BY <1>5, <1>7, <1>8, LiveFacts
<1>12. AllQueued(h) => AllQueued(m)
  BY <1>3, <1>7, <1>8, <1>10, <1>11 DEF AllQueued
<1>13. Tri(h) => Tri(m)
  <2>1. Inner(h, o) \cap White(m) = {}
    BY <1>9, InnerInRefs DEF os
  <2>. QED BY <1>7, <1>9, <1>10, <1>11, <2>1 DEF Tri
<1>14. Unscanned(m) \subseteq Unscanned(h) \ {o}
  <2>1. o \notin White(h)
    BY <1>2 DEF White
  <2>. QED BY <1>3, <1>7, <1>8, <1>9, <2>1 DEF Unscanned
<1>15. Same(h, m)
  BY <1>3, <1>8 DEF Same
<1>16. GrayOK(m) /\ White(m) \subseteq White(h) /\ h.capacity <= m.capacity
  BY <1>3, <1>7, <1>8, <1>9 DEF Recolored
<1>17. Black(h) \subseteq Black(m)
  BY <1>10, <1>11 DEF Black, White
<1>18. Recolored(h, m)
  BY <1>8, <1>12, <1>13, <1>14, <1>15, <1>16, <1>17 DEF Recolored
<1>. QED BY <1>14, <1>18 DEF m

\* The rounds of propagateMarks.
IsPropagation(m, h, stk) ==
    /\ m \in [0 .. Cardinality(Objects) -> HeapOf]
    /\ propagateMarks(h, stk) = m[Cardinality(Objects)] /\ m[0] = h
    /\ \A i \in 1 .. Cardinality(Objects) : m[i] = ScanNext(m[i - 1], stk)

LEMMA ScanNextType ==
    ASSUME NEW h \in HeapOf, NEW stk
    PROVE  ScanNext(h, stk) \in HeapOf
<1>1. CASE h.gray = {}
  BY <1>1 DEF ScanNext
<1>2. CASE h.gray # {}
  <2> DEFINE o == CHOOSE x \in h.gray : TRUE
             p == [h EXCEPT !.gray = @ \ {o}, !.color[o] = "Black"]
  <2>1. o \in h.gray
    BY <1>2
  <2> HIDE DEF o
  <2>2. o \in Objects /\ h.gray \in SUBSET Objects /\ h.color \in [Objects -> Colors]
    BY <2>1, HeapFields
  <2>3. h.gray \ {o} \in SUBSET Objects /\ [h.color EXCEPT ![o] = "Black"] \in [Objects -> Colors]
    BY <2>2 DEF Colors
  <2>4. p \in HeapOf
    BY <2>3 DEF HeapOf
  <2>5. ScanNext(h, stk) = markObject(p, Refs(h, stk, o))
    BY Zenon, <1>2 DEF ScanNext, Scan, o
  <2> HIDE DEF p
  <2>. QED BY ONLY <2>4, <2>5, MarkFields
<1>. QED BY <1>1, <1>2

LEMMA PropagationLoop ==
    ASSUME NEW h \in HeapOf, NEW stk
    PROVE  \E m : IsPropagation(m, h, stk)
<1> DEFINE N == Cardinality(Objects)
           V == HeapOf
           step == [x \in Nat \X V |-> ScanNext(x[2], stk)]
           Loop(f) == [i \in 0 .. N |-> IF i = 0 THEN h ELSE ScanNext(f[i - 1], stk)]
           m == CHOOSE f : f = Loop(f)
<1>1. N \in Nat /\ h \in V
  BY LiveFacts
<1>2. \A t \in V : ScanNext(t, stk) \in V
  BY ScanNextType
<1> HIDE DEF N, V
<1>3. IsStep(step, V)
  BY <1>2 DEF IsStep
<1>4. PICK g : IsLoop(g, N, V, h, step)
  <2> HIDE DEF step
  <2>. QED BY ONLY <1>1, <1>3, LoopExists
<1>5. /\ g \in [0 .. N -> V] /\ g[0] = h
      /\ \A i \in 1 .. N : g[i] = step[<<i - 1, g[i - 1]>>]
  <2> HIDE DEF step
  <2>. QED BY <1>4 DEF IsLoop
<1>6. \A i \in 1 .. N : g[i] = ScanNext(g[i - 1], stk)
  <2>1. ASSUME NEW i \in 1 .. N PROVE g[i] = ScanNext(g[i - 1], stk)
    <3>1. i - 1 \in Nat /\ i - 1 \in 0 .. N
      BY <1>1
    <3>2. g[i] = step[<<i - 1, g[i - 1]>>] /\ g[i - 1] \in V
      BY <1>5, <3>1
    <3>. QED BY <3>1, <3>2
  <2>. QED BY <2>1
<1>7. g = Loop(g)
  BY <1>1, <1>5, <1>6
<1>8. m = Loop(m)
  <2> HIDE DEF Loop
  <2>. QED BY <1>7
<1>9. propagateMarks(h, stk) = m[N]
  BY Zenon DEF propagateMarks, N
<1> HIDE DEF m
<1>10. DOMAIN m = 0 .. N /\ m[0] = h /\ \A i \in 1 .. N : m[i] = ScanNext(m[i - 1], stk)
  BY <1>1, <1>8
<1> DEFINE T == {i \in 0 .. N : m[i] \in V}
<1>11. 0 \in T
  BY <1>1, <1>10
<1>12. ASSUME NEW i \in 1 .. N, i - 1 \in T PROVE i \in T
  BY <1>1, <1>2, <1>10, <1>12
<1>13. 0 .. N \subseteq T
  <2> HIDE DEF T
  <2>. QED BY ONLY <1>1, <1>11, <1>12, LoopInduct
<1>14. m = [i \in 0 .. N |-> m[i]]
  BY <1>8, <1>10
<1>15. m \in [0 .. N -> V]
  BY <1>13, <1>14
<1>16. IsPropagation(m, h, stk)
  BY <1>9, <1>10, <1>15 DEF IsPropagation, N, V
<1>. QED BY <1>16

\* Every round takes an object from what is not yet black, so the rounds
\* suffice: no object stays gray.
LEMMA PropagateLemma ==
    ASSUME NEW h \in HeapOf, GrayOK(h), NEW stk
    PROVE  Recolored(h, propagateMarks(h, stk)) /\ propagateMarks(h, stk).gray = {}
<1> DEFINE N == Cardinality(Objects)
<1>1. PICK m : IsPropagation(m, h, stk)
  BY PropagationLoop
<1>2. /\ m \in [0 .. N -> HeapOf] /\ propagateMarks(h, stk) = m[N] /\ m[0] = h
      /\ \A i \in 1 .. N : m[i] = ScanNext(m[i - 1], stk)
  BY <1>1 DEF IsPropagation
<1>3. N \in Nat
  BY LiveFacts
<1>4. \A g \in HeapOf : Unscanned(g) \in SUBSET Objects
  BY HeapFields, LiveFacts DEF Unscanned
<1> DEFINE T == {i \in 0 .. N : /\ Recolored(h, m[i])
                                /\ m[i].gray # {} => Cardinality(Unscanned(m[i])) <= N - i}
<1> HIDE DEF N
<1>5. 0 \in T
  <2>1. Recolored(h, h)
    BY RecoloredRefl
  <2>2. Cardinality(Unscanned(h)) <= N
    <3>1. Unscanned(h) \subseteq Objects /\ IsFiniteSet(Objects)
      BY <1>4, ObjectListAssumption
    <3>2. Cardinality(Unscanned(h)) <= Cardinality(Objects)
      BY ONLY <3>1, FS_Subset
    <3>. QED BY <3>2 DEF N
  <2>3. 0 \in 0 .. N /\ N - 0 = N
    BY <1>3
  <2>. QED BY <1>2, <2>1, <2>2, <2>3
<1>6. ASSUME NEW i \in 1 .. N, i - 1 \in T PROVE i \in T
  <2> DEFINE g == m[i - 1]
             o == CHOOSE x \in g.gray : TRUE
             f == Scan(g, stk, o)
  <2>1. i - 1 \in 0 .. N /\ i \in 0 .. N /\ N - (i - 1) = N - i + 1
    BY <1>3
  <2>2. g \in HeapOf /\ Recolored(h, g) /\ m[i] = ScanNext(g, stk)
    BY <1>2, <1>6, <2>1
  <2>3. g.gray # {} => Cardinality(Unscanned(g)) <= N - i + 1
    BY <1>6, <2>1
  <2> HIDE DEF g, T
  <2>4. CASE g.gray = {}
    <3>1. m[i] = g
      BY <2>2, <2>4 DEF ScanNext
    <3>. QED BY <2>1, <2>2, <2>4, <3>1 DEF T
  <2>5. CASE g.gray # {}
    <3>1. o \in g.gray
      BY <2>5
    <3>2. m[i] = f
      BY Zenon, <2>2, <2>5 DEF ScanNext
    <3> HIDE DEF o, f
    <3>3. GrayOK(g)
      BY <2>2 DEF Recolored
    <3>4. Recolored(g, f) /\ Unscanned(f) \subseteq Unscanned(g) \ {o}
      BY ONLY <2>2, <3>1, <3>3, ScanLemma DEF f
    <3>5. Recolored(h, f)
      BY <2>2, <3>4, RecoloredTrans
    <3>6. Cardinality(Unscanned(f)) <= N - i
      <4> DEFINE U == Unscanned(g)
                 rest == U \ {o}
      <4>1. IsFiniteSet(U) /\ Cardinality(U) \in Nat /\ o \in U
        BY <1>4, <2>2, <3>1, LiveFacts DEF Unscanned
      <4> HIDE DEF U
      <4>2. IsFiniteSet(rest) /\ Cardinality(rest) = Cardinality(U) - 1
        BY ONLY <4>1, FS_RemoveElement
      <4>3. Unscanned(f) \subseteq rest
        BY <3>4 DEF U
      <4> HIDE DEF rest
      <4>4. Cardinality(Unscanned(f)) <= Cardinality(rest) /\ Cardinality(Unscanned(f)) \in Nat
        BY ONLY <4>2, <4>3, FS_Subset, FS_CardinalityType
      <4>5. Cardinality(U) <= N - i + 1
        BY <2>3, <2>5 DEF U
      <4>. QED BY <1>3, <4>1, <4>2, <4>4, <4>5
    <3>. QED BY <2>1, <3>2, <3>5, <3>6 DEF T
  <2>. QED BY <2>4, <2>5
<1>7. 0 .. N \subseteq T
  <2> HIDE DEF T
  <2>. QED BY ONLY <1>3, <1>5, <1>6, LoopInduct
<1>8. N \in 0 .. N /\ N - N = 0
  BY <1>3
<1>9. Recolored(h, m[N]) /\ (m[N].gray # {} => Cardinality(Unscanned(m[N])) <= 0)
  BY <1>7, <1>8
<1>10. m[N].gray = {}
  <2> DEFINE U == Unscanned(m[N])
  <2>1. IsFiniteSet(U) /\ Cardinality(U) \in Nat
    BY <1>2, <1>4, <1>8, LiveFacts
  <2>2. Cardinality(U) = 0 => U = {}
    BY <2>1, FS_EmptySet
  <2>3. U = {} => m[N].gray = {}
    BY DEF Unscanned
  <2> HIDE DEF U
  <2>. QED BY <1>9, <2>1, <2>2, <2>3 DEF U
<1>. QED BY <1>2, <1>9, <1>10

-----------------------------------------------------------------------------
(***************************************************************************)
(* What keeps a heap good.                                                 *)
(***************************************************************************)

LEMMA CardinalitySubset ==
    ASSUME NEW S \in SUBSET Objects, NEW T \in SUBSET S
    PROVE  Cardinality(T) <= Cardinality(S)
<1>1. IsFiniteSet(S)
  BY LiveFacts
<1>. QED BY ONLY <1>1, FS_Subset

LEMMA UnscannedObjects ==
    ASSUME NEW h \in HeapOf
    PROVE  Unscanned(h) \in SUBSET Objects
  BY HeapFields, LiveFacts DEF Unscanned

\* What does not depend on colours.
LEMMA SameKeeps ==
    ASSUME NEW h, NEW g, Same(h, g)
    PROVE  /\ Counted(h) => Counted(g)
           /\ PoolOK(h) => PoolOK(g)
           /\ QueueOK(h) => QueueOK(g)
           /\ \A c : IsList(h, c) => IsList(g, c)
           /\ \A c, k : Cursor(h, c, k) => Cursor(g, c, k)
           /\ \A hold, K : Keeps(h, hold, K) => Keeps(g, hold, K)
           /\ Live(g) = Live(h) /\ \A o, kind : Is(g, o, kind) = Is(h, o, kind)
           /\ Marking(g) <=> Marking(h)
<1>1. g.body = h.body
  BY DEF Same
<1>2. /\ Live(g) = Live(h) /\ Big(g) = Big(h) /\ \A o : Inner(g, o) = Inner(h, o)
      /\ \A o, kind : Is(g, o, kind) = Is(h, o, kind)
  BY <1>1, SameBodies
<1>3. Counted(h) => Counted(g)
  BY <1>2 DEF Same, Counted
<1>4. PoolOK(h) => PoolOK(g)
  BY DEF Same, PoolOK
<1>5. QueueOK(h) => QueueOK(g)
  BY <1>2 DEF Same, QueueOK
<1>6. \A c : IsList(h, c) => IsList(g, c)
  BY <1>2 DEF Same, IsList
<1>7. \A c, k : Cursor(h, c, k) => Cursor(g, c, k)
  BY <1>2 DEF Same, Cursor
<1>8. \A hold, K : Keeps(h, hold, K) => Keeps(g, hold, K)
  BY <1>2 DEF Same, Keeps
<1>9. Marking(g) <=> Marking(h)
  BY DEF Same, Marking
<1>. QED BY <1>2, <1>3, <1>4, <1>5, <1>6, <1>7, <1>8, <1>9

LEMMA SoundRecolored ==
    ASSUME NEW h, NEW g, Sound(h), Recolored(h, g), h.phase = "Sweep" => g.gray = {}
    PROVE  Sound(g)
<1>1. g \in HeapOf /\ h \in HeapOf /\ Same(h, g)
  BY DEF Sound, Recolored
<1>2. Counted(g) /\ QueueOK(g) /\ (Marking(g) <=> Marking(h))
  BY <1>1, SameKeeps DEF Sound
<1>3. GrayOK(g)
  BY DEF Recolored
<1>4. g.phase = "Sweep" => g.gray = {}
  BY <1>1 DEF Same
<1>5. ASSUME Marking(g) PROVE AllQueued(g) /\ Tri(g) /\ Cardinality(Unscanned(g)) <= g.capacity
  <2>1. AllQueued(h) /\ Tri(h) /\ Cardinality(Unscanned(h)) <= h.capacity
    BY <1>2, <1>5 DEF Sound, ColorOK
  <2>2. /\ AllQueued(g) /\ Tri(g) /\ h.capacity <= g.capacity
        /\ Unscanned(g) \subseteq Unscanned(h)
    BY <2>1 DEF Recolored
  <2>3. Unscanned(h) \in SUBSET Objects /\ Unscanned(g) \in SUBSET Objects
    BY <1>1, UnscannedObjects
  <2>4. Cardinality(Unscanned(g)) <= Cardinality(Unscanned(h))
    BY <2>2, <2>3, CardinalitySubset
  <2>5. /\ Cardinality(Unscanned(g)) \in Nat /\ Cardinality(Unscanned(h)) \in Nat
        /\ h.capacity \in Nat /\ g.capacity \in Nat
    BY <1>1, <2>3, LiveFacts, HeapFields
  <2>6. Cardinality(Unscanned(g)) <= g.capacity
    BY <2>1, <2>2, <2>4, <2>5
  <2>. QED BY <2>2, <2>6
<1>6. ColorOK(g)
  BY <1>3, <1>4, <1>5 DEF ColorOK
<1>. QED BY <1>1, <1>2, <1>6 DEF Sound

LEMMA GoodRecolored ==
    ASSUME NEW h, NEW g, NEW hold, NEW c, NEW k, NEW K, Good(h, hold, c, k, K),
           Recolored(h, g), h.phase = "Sweep" => g.gray = {}
    PROVE  Good(g, hold, c, k, K)
<1>1. Same(h, g) /\ Sound(h)
  BY DEF Good, Recolored
<1>2. Sound(g)
  BY <1>1, SoundRecolored
<1>3. IsList(h, c) /\ Cursor(h, c, k) /\ Keeps(h, hold, K) /\ c \in Seq(Objects)
  BY DEF Good, IsList
<1>4. /\ IsList(g, c) /\ Cursor(g, c, k) /\ Keeps(g, hold, K)
      /\ Live(g) = Live(h) /\ \A o, kind : Is(g, o, kind) = Is(h, o, kind)
  BY <1>1, <1>3, SameKeeps
<1>5. ASSUME g.phase = "Sweep" PROVE Ahead(g, c, k, K)
  <2>1. Ahead(h, c, k, K) /\ k \in 0 .. Len(c)
    BY <1>1, <1>3, <1>5 DEF Good, Same, Cursor
  <2>2. \A i \in k + 1 .. Len(c) : i \in 1 .. Len(c) /\ c[i] \in Live(h)
    BY <1>3, <2>1, ListFacts
  <2>3. \A o \in Live(h) : g.color[o] = "White" => h.color[o] = "White"
    BY <1>4 DEF Recolored, White
  <2>4. g.finalized = h.finalized
    BY <1>1 DEF Same
  <2>. QED BY <1>4, <2>1, <2>2, <2>3, <2>4 DEF Ahead
<1>. QED BY <1>2, <1>4, <1>5 DEF Good

\* Giving a cycle up keeps everything.
LEMMA ResetFields ==
    ASSUME NEW h \in HeapOf, NEW r, r = resetIncrementalCycle(h)
    PROVE  /\ r \in HeapOf /\ r.phase = "Pause" /\ r.current = Null /\ r.previous = Null
           /\ r.gray = {} /\ r.body = h.body /\ r.next = h.next /\ r.accounted = h.accounted
           /\ r.head = h.head /\ r.count = h.count /\ r.total = h.total /\ r.color = h.color
           /\ r.pending = h.pending /\ r.finalized = h.finalized /\ r.pool = h.pool
           /\ r.capacity = h.capacity
<1>1. r = [h EXCEPT !.phase = "Pause", !.current = Null, !.previous = Null, !.gray = {}]
  BY DEF resetIncrementalCycle
<1>. QED BY <1>1 DEF HeapOf, Phases, MaybeObject

LEMMA ResetSound ==
    ASSUME NEW h, Sound(h)
    PROVE  Sound(resetIncrementalCycle(h))
<1> DEFINE r == resetIncrementalCycle(h)
<1>1. /\ r \in HeapOf /\ r.phase = "Pause" /\ r.current = Null /\ r.previous = Null
      /\ r.gray = {} /\ r.body = h.body /\ r.accounted = h.accounted
      /\ r.count = h.count /\ r.total = h.total
      /\ r.pending = h.pending /\ r.finalized = h.finalized /\ r.pool = h.pool
  BY ResetFields DEF Sound
<1> HIDE DEF r
<1>2. Live(r) = Live(h) /\ Big(r) = Big(h)
  BY <1>1, SameBodies
<1>3. Counted(r) /\ QueueOK(r)
  BY <1>1, <1>2 DEF Sound, Counted, QueueOK
<1>4. ColorOK(r)
  BY <1>1 DEF ColorOK, GrayOK, Marking
<1>. QED BY <1>1, <1>3, <1>4 DEF Sound, r

LEMMA GoodReset ==
    ASSUME NEW h, NEW hold, NEW c, NEW k, NEW K, Sound(h), IsList(h, c), Keeps(h, hold, K)
    PROVE  Good(resetIncrementalCycle(h), hold, c, 0, K)
<1> DEFINE r == resetIncrementalCycle(h)
<1>1. /\ r \in HeapOf /\ r.phase = "Pause" /\ r.current = Null /\ r.previous = Null
      /\ r.body = h.body /\ r.next = h.next /\ r.head = h.head
  BY ResetFields DEF Sound
<1>2. Sound(r)
  BY ResetSound
<1> HIDE DEF r
<1>3. Live(r) = Live(h) /\ \A o : Inner(r, o) = Inner(h, o)
  BY <1>1, SameBodies
<1>4. IsList(r, c) /\ Keeps(r, hold, K)
  BY <1>1, <1>3 DEF IsList, Keeps
<1>5. Cursor(r, c, 0)
  BY <1>1, <1>4, ListFacts DEF Cursor
<1>6. Good(r, hold, c, 0, K)
  BY <1>1, <1>2, <1>4, <1>5 DEF Good
<1>. QED BY <1>6 DEF r

\* What is held may change within K, and K may grow by an object that the
\* sweep will not free.
LEMMA GoodHold ==
    ASSUME NEW h, NEW hold, NEW c, NEW k, NEW K, Good(h, hold, c, k, K),
           NEW other, other \ {Null} \subseteq K
    PROVE  Good(h, other, c, k, K)
  BY DEF Good, Keeps

LEMMA GoodMore ==
    ASSUME NEW h, NEW hold, NEW c, NEW k, NEW K, Good(h, hold, c, k, K),
           NEW o \in Live(h), Inner(h, o) \subseteq K \cup {o},
           h.phase = "Sweep" => \A i \in k + 1 .. Len(c) : c[i] = o => h.color[o] # "White"
    PROVE  Good(h, hold, c, k, K \cup {o})
<1>1. Keeps(h, hold, K \cup {o})
  BY DEF Good, Keeps
<1>2. h.phase = "Sweep" => Ahead(h, c, k, K \cup {o})
  BY DEF Good, Ahead
<1>. QED BY <1>1, <1>2 DEF Good

-----------------------------------------------------------------------------
(***************************************************************************)
(* An object that is registered becomes the first of the list.             *)
(***************************************************************************)

Fresh == {b \in Bodies : b.kind \in {"string", "userdata", "open"} \/ b = Closure(Null)}

LEMMA FreshFacts ==
    ASSUME NEW h, NEW o, h.body[o] \in Fresh
    PROVE  Inner(h, o) = {} /\ getSize(h.body[o]) = 1 /\ ~Is(h, o, "free")
  BY DEF Fresh, Inner, Refs, Is, getSize, Closure

\* o was registered in h with body b, and nothing was marked yet.
IsLinked(h, g, o, b) ==
    /\ g \in HeapOf /\ g.body = [h.body EXCEPT ![o] = b] /\ g.next = [h.next EXCEPT ![o] = h.head]
    /\ g.head = o
    /\ g.color = [h.color EXCEPT ![o] = IF h.phase = "Pause" THEN "White" ELSE "Black"]
    /\ g.accounted = [h.accounted EXCEPT ![o] = 1] /\ g.total = h.total + 1 /\ g.count = h.count + 1
    /\ g.previous = IF h.phase = "Sweep" /\ h.previous = Null THEN o ELSE h.previous
    /\ g.phase = h.phase /\ g.current = h.current /\ g.gray = h.gray /\ g.capacity = h.capacity
    /\ g.pending = h.pending /\ g.finalized = h.finalized /\ g.pool = h.pool

LEMMA LinkedFields ==
    ASSUME NEW h \in HeapOf, NEW o \in Objects, NEW b \in Fresh, NEW stk
    PROVE  \E g : /\ IsLinked(h, g, o, b)
                  /\ registerObject(h, stk, o, b) = Published(g, stk, o)
<1> DEFINE h1 == IF h.phase = "Sweep" /\ h.previous = Null THEN [h EXCEPT !.previous = o] ELSE h
           g == Linked(h1, o, b)
           color == [h.color EXCEPT ![o] = IF h.phase = "Pause" THEN "White" ELSE "Black"]
<1>1. /\ h1 \in HeapOf
      /\ h1.previous = IF h.phase = "Sweep" /\ h.previous = Null THEN o ELSE h.previous
      /\ h1.body = h.body /\ h1.next = h.next /\ h1.accounted = h.accounted /\ h1.head = h.head
      /\ h1.count = h.count /\ h1.total = h.total /\ h1.phase = h.phase /\ h1.current = h.current
      /\ h1.pending = h.pending /\ h1.finalized = h.finalized /\ h1.pool = h.pool
      /\ h1.color = h.color /\ h1.gray = h.gray /\ h1.capacity = h.capacity
  BY DEF HeapOf, MaybeObject
<1>2. registerObject(h, stk, o, b) = Published(g, stk, o)
  BY Zenon DEF registerObject
<1> HIDE DEF h1
<1>3. getSize(b) = 1 /\ b \in Bodies
  BY DEF Fresh, getSize, Closure
<1>4. g = [h1 EXCEPT !.body[o] = b, !.next[o] = h1.head, !.head = o,
                     !.color[o] = IF h1.phase = "Pause" THEN "White" ELSE "Black",
                     !.accounted[o] = 1, !.total = @ + 1, !.count = @ + 1]
  BY <1>3 DEF Linked
<1> HIDE DEF g
<1>5. /\ [h1.body EXCEPT ![o] = b] \in [Objects -> Bodies]
      /\ [h1.next EXCEPT ![o] = h1.head] \in [Objects -> MaybeObject]
      /\ [h1.accounted EXCEPT ![o] = 1] \in [Objects -> Int]
      /\ [h1.color EXCEPT ![o] = IF h1.phase = "Pause" THEN "White" ELSE "Black"] \in [Objects -> Colors]
      /\ h1.total + 1 \in Int /\ h1.count + 1 \in Int /\ o \in MaybeObject
  BY <1>1, <1>3, HeapFields DEF MaybeObject, Colors
<1>6. g \in HeapOf
  BY <1>1, <1>4, <1>5 DEF HeapOf
<1>7. /\ g.body = [h1.body EXCEPT ![o] = b] /\ g.next = [h1.next EXCEPT ![o] = h1.head]
      /\ g.head = o
      /\ g.color = [h1.color EXCEPT ![o] = IF h1.phase = "Pause" THEN "White" ELSE "Black"]
      /\ g.accounted = [h1.accounted EXCEPT ![o] = 1] /\ g.total = h1.total + 1 /\ g.count = h1.count + 1
      /\ g.previous = h1.previous
      /\ g.phase = h1.phase /\ g.current = h1.current /\ g.gray = h1.gray /\ g.capacity = h1.capacity
      /\ g.pending = h1.pending /\ g.finalized = h1.finalized /\ g.pool = h1.pool
  BY <1>1, <1>4 DEF HeapOf
<1>8. IsLinked(h, g, o, b)
  BY <1>1, <1>6, <1>7 DEF IsLinked
<1>. QED BY <1>2, <1>8

\* d is the list c with o before it.
IsCons(c, o, d) ==
    /\ d \in Seq(Objects) /\ Len(d) = Len(c) + 1 /\ d[1] = o
    /\ \A i \in 1 .. Len(c) : d[i + 1] = c[i]
    /\ \A j \in 1 .. Len(d) : j = 1 \/ (j - 1 \in 1 .. Len(c) /\ d[j] = c[j - 1] /\ (j - 1) + 1 = j)
    /\ \A i \in 0 .. Len(c) : After(d, i + 1) = After(c, i) /\ After(d, 0) = o
    /\ \A i \in 0 .. Len(c) : Upto(d, i + 1) = IF i = 0 THEN o ELSE Upto(c, i)

LEMMA ConsFacts ==
    ASSUME NEW c \in Seq(Objects), NEW o \in Objects
    PROVE  IsCons(c, o, <<o>> \o c)
<1> DEFINE d == <<o>> \o c
<1>1. d \in Seq(Objects) /\ Len(d) = Len(c) + 1 /\ d[1] = o /\ Len(c) \in Nat
  OBVIOUS
<1>2. ASSUME NEW i \in 1 .. Len(c) PROVE d[i + 1] = c[i]
  OBVIOUS
<1> HIDE DEF d
<1>3. ASSUME NEW j \in 1 .. Len(d), j # 1
      PROVE  j - 1 \in 1 .. Len(c) /\ d[j] = c[j - 1] /\ (j - 1) + 1 = j
  <2>1. j - 1 \in 1 .. Len(c) /\ (j - 1) + 1 = j
    BY <1>1, <1>3
  <2>2. d[(j - 1) + 1] = c[j - 1]
    BY ONLY <1>2, <2>1
  <2>. QED BY <2>1, <2>2
<1>4. ASSUME NEW i \in 0 .. Len(c) PROVE After(d, i + 1) = After(c, i) /\ After(d, 0) = o
  <2>1. CASE i < Len(c)
    <3>1. i + 1 \in 1 .. Len(c) /\ i + 1 < Len(d)
      BY <1>1, <2>1
    <3>2. d[(i + 1) + 1] = c[i + 1]
      BY ONLY <1>2, <3>1
    <3>. QED BY <1>1, <2>1, <3>1, <3>2 DEF After
  <2>2. CASE ~(i < Len(c))
    <3>1. ~(i + 1 < Len(d))
      BY <1>1, <2>2
    <3>. QED BY <1>1, <2>2, <3>1 DEF After
  <2>. QED BY <2>1, <2>2
<1>5. ASSUME NEW i \in 0 .. Len(c) PROVE Upto(d, i + 1) = IF i = 0 THEN o ELSE Upto(c, i)
  <2>1. CASE i = 0
    BY <1>1, <2>1 DEF Upto
  <2>2. CASE i # 0
    <3>1. i \in 1 .. Len(c) /\ i + 1 # 0
      BY <1>1, <2>2
    <3>2. d[i + 1] = c[i]
      BY ONLY <1>2, <3>1
    <3>. QED BY <2>2, <3>1, <3>2 DEF Upto
  <2>. QED BY <2>1, <2>2
<1>. QED BY <1>1, <1>2, <1>3, <1>4, <1>5 DEF IsCons, d

LEMMA LinkedGood ==
    ASSUME NEW h, NEW hold, NEW c, NEW k, NEW K, Good(h, hold, c, k, K),
           NEW o \in Objects, o \notin Live(h), NEW b \in Fresh, NEW g, IsLinked(h, g, o, b)
    PROVE  Good(g, hold, <<o>> \o c, k + 1, K \cup {o})
<1> DEFINE d == <<o>> \o c
           n == Len(c)
<1>1. /\ h \in HeapOf /\ Counted(h) /\ QueueOK(h) /\ ColorOK(h)
      /\ IsList(h, c) /\ Cursor(h, c, k) /\ Keeps(h, hold, K)
      /\ h.phase = "Sweep" => Ahead(h, c, k, K)
  BY DEF Good, Sound
<1>2. c \in Seq(Objects) /\ n \in Nat /\ k \in 0 .. n /\ o # Null /\ o \in Objects
  BY <1>1, ListFacts, ObjectListAssumption DEF Cursor
<1>d. IsCons(c, o, d)
  BY ONLY <1>2, ConsFacts
<1> HIDE DEF d
<1>3. /\ d \in Seq(Objects) /\ Len(d) = n + 1 /\ d[1] = o
      /\ \A i \in 1 .. n : d[i + 1] = c[i]
      /\ \A j \in 1 .. Len(d) : j = 1 \/ (j - 1 \in 1 .. n /\ d[j] = c[j - 1] /\ (j - 1) + 1 = j)
      /\ \A i \in 0 .. n : After(d, i + 1) = After(c, i) /\ After(d, 0) = o
      /\ \A i \in 0 .. n : Upto(d, i + 1) = IF i = 0 THEN o ELSE Upto(c, i)
  BY ONLY <1>d DEF IsCons
<1> HIDE DEF n
<1>4. \A i \in 1 .. n : c[i] \in Live(h) /\ c[i] # o /\ c[i] \in Objects /\ c[i] # Null
  BY <1>1, ListFacts DEF n
\* The bodies.
<1>5. /\ g \in HeapOf /\ g.body[o] = b /\ \A x \in Objects : x # o => g.body[x] = h.body[x]
      /\ h.body \in [Objects -> Bodies] /\ g.body \in [Objects -> Bodies]
  BY <1>1, HeapFields DEF IsLinked
<1>6. Inner(g, o) = {} /\ getSize(g.body[o]) = 1 /\ ~Is(g, o, "free")
  BY <1>5, FreshFacts
<1>7. \A x \in Objects : x # o => /\ Inner(g, x) = Inner(h, x) /\ (x \in Live(g) <=> x \in Live(h))
                                  /\ \A kind : Is(g, x, kind) = Is(h, x, kind)
  <2>1. ASSUME NEW x \in Objects, x # o PROVE g.body[x] = h.body[x]
    BY <1>5, <2>1
  <2>. QED BY <2>1, BodyFacts
<1>8. Live(g) = Live(h) \cup {o} /\ Live(h) \subseteq Objects
  BY <1>6, <1>7, LiveFacts DEF Live
<1>9. Big(g) = Big(h)
  BY <1>5, <1>6, <1>8 DEF Big
<1>10. Counted(g)
  <2>1. IsFiniteSet(Live(h)) /\ o \notin Live(h)
    BY <1>8, LiveFacts
  <2>2. Cardinality(Live(h) \cup {o}) = Cardinality(Live(h)) + 1
    BY ONLY <2>1, FS_AddElement
  <2>3. Cardinality(Live(h)) \in Nat /\ Cardinality(Big(h)) \in Nat
    BY LiveFacts, <1>8
  <2>4. g.count = Cardinality(Live(g)) /\ g.total = Cardinality(Live(g)) + Cardinality(Big(g))
    BY <1>1, <1>8, <1>9, <2>2, <2>3 DEF Counted, IsLinked
  <2>5. \A x \in Live(g) : g.accounted[x] = getSize(g.body[x])
    <3>1. h.accounted \in [Objects -> Int] /\ g.accounted = [h.accounted EXCEPT ![o] = 1]
      BY <1>1, HeapFields DEF IsLinked
    <3>2. \A x \in Objects : g.accounted[x] = IF x = o THEN 1 ELSE h.accounted[x]
      BY <3>1
    <3>. QED BY <1>1, <1>5, <1>6, <1>8, <3>2 DEF Counted
  <2>. QED BY <2>4, <2>5 DEF Counted
<1>11. QueueOK(g)
  BY <1>1, <1>8 DEF QueueOK, IsLinked
\* The colours.
<1>12. \A x \in Objects : g.color[x] = IF x = o THEN IF h.phase = "Pause" THEN "White" ELSE "Black"
                                       ELSE h.color[x]
  <2>1. h.color \in [Objects -> Colors]
    BY <1>1, HeapFields
  <2>. QED BY <2>1 DEF IsLinked
<1>13. g.gray = h.gray /\ g.phase = h.phase /\ g.capacity = h.capacity /\ g.finalized = h.finalized
  BY DEF IsLinked
<1>14. ColorOK(g)
  <2>1. GrayOK(g)
    BY <1>1, <1>8, <1>12, <1>13 DEF ColorOK, GrayOK
  <2>2. ASSUME Marking(g) PROVE AllQueued(g) /\ Tri(g) /\ Cardinality(Unscanned(g)) <= g.capacity
    <3>1. Marking(h) /\ h.phase # "Pause"
      BY <1>13, <2>2 DEF Marking
    <3>2. AllQueued(h) /\ Tri(h) /\ Cardinality(Unscanned(h)) <= h.capacity
      BY <1>1, <3>1 DEF ColorOK
    <3>3. White(g) = White(h)
      BY <1>8, <1>12, <3>1 DEF White
    <3>4. AllQueued(g)
      BY <1>8, <1>12, <1>13, <3>1, <3>2 DEF AllQueued
    <3>5. Tri(g)
      BY <1>6, <1>7, <1>8, <1>12, <3>2, <3>3 DEF Tri
    <3>6. Unscanned(g) = Unscanned(h)
      BY <1>13, <3>3 DEF Unscanned
    <3>. QED BY <1>13, <3>2, <3>4, <3>5, <3>6
  <2>. QED BY <1>1, <1>13, <2>1, <2>2 DEF ColorOK
\* The list.
<1>15. IsList(g, d)
  <2>1. Range(d) = Live(g)
    <3>1. Range(c) = {c[i] : i \in 1 .. n} /\ Range(c) = Live(h)
      BY <1>1, <1>2, SeqFacts, ListFacts DEF n
    <3>2. Range(d) = {d[i] : i \in 1 .. Len(d)}
      BY <1>3, SeqFacts
    <3>3. Range(d) \subseteq Range(c) \cup {o}
      BY <1>3, <3>1, <3>2
    <3>4. o \in Range(d)
      BY <1>2, <1>3, <3>2
    <3>5. ASSUME NEW i \in 1 .. n PROVE c[i] \in Range(d)
      <4>1. i + 1 \in 1 .. Len(d) /\ d[i + 1] = c[i]
        BY <1>2, <1>3
      <4>. QED BY <3>2, <4>1
    <3>. QED BY <1>8, <3>1, <3>3, <3>4, <3>5
  <2>2. ASSUME NEW i \in 1 .. Len(d), NEW j \in 1 .. Len(d), d[i] = d[j] PROVE i = j
    <3>1. \A p, q \in 1 .. n : c[p] = c[q] => p = q
      BY <1>1 DEF IsList, n
    <3>2. i = 1 \/ (i - 1 \in 1 .. n /\ d[i] = c[i - 1] /\ (i - 1) + 1 = i)
      BY <1>3
    <3>3. j = 1 \/ (j - 1 \in 1 .. n /\ d[j] = c[j - 1] /\ (j - 1) + 1 = j)
      BY <1>3
    <3>4. \A p \in 1 .. n : c[p] # o
      BY <1>4
    <3>. QED BY <1>3, <2>2, <3>1, <3>2, <3>3, <3>4
  <2>3. g.head = After(d, 0)
    BY <1>2, <1>3 DEF IsLinked
  <2>4. ASSUME NEW i \in 1 .. Len(d) PROVE g.next[d[i]] = After(d, i)
    <3>1. h.next \in [Objects -> MaybeObject] /\ g.next = [h.next EXCEPT ![o] = h.head]
      BY <1>1, HeapFields DEF IsLinked
    <3>2. CASE i = 1
      <4>1. g.next[d[i]] = h.head
        BY <1>3, <3>1, <3>2
      <4>2. h.head = After(c, 0) /\ After(d, 0 + 1) = After(c, 0)
        BY <1>1, <1>2, <1>3, ListFacts
      <4>. QED BY <3>2, <4>1, <4>2
    <3>3. CASE i # 1
      <4>1. i - 1 \in 1 .. n /\ i - 1 \in 0 .. n /\ d[i] = c[i - 1] /\ (i - 1) + 1 = i
        BY <1>3, <3>3
      <4>2. g.next[d[i]] = h.next[c[i - 1]]
        BY <1>4, <3>1, <4>1
      <4>3. h.next[c[i - 1]] = After(c, i - 1)
        BY <1>1, <4>1, ListFacts DEF n
      <4>4. After(d, (i - 1) + 1) = After(c, i - 1)
        BY ONLY <1>3, <4>1
      <4>. QED BY <4>1, <4>2, <4>3, <4>4
    <3>. QED BY <3>2, <3>3
  <2>. QED BY <1>3, <2>1, <2>2, <2>3, <2>4 DEF IsList
<1>16. Cursor(g, d, k + 1)
  <2>1. k + 1 \in 0 .. Len(d)
    BY <1>2, <1>3
  <2>2. /\ g.phase = h.phase /\ g.current = h.current
        /\ g.previous = IF h.phase = "Sweep" /\ h.previous = Null THEN o ELSE h.previous
    BY DEF IsLinked
  <2>3. ASSUME h.phase = "Sweep" PROVE g.previous = Upto(d, k + 1) /\ g.current = After(d, k + 1)
    <3>1. h.previous = Upto(c, k) /\ h.current = After(c, k)
      BY <1>1, <2>3 DEF Cursor
    <3>2. k = 0 <=> h.previous = Null
      BY <1>2, <1>4, <3>1 DEF Upto
    <3>3. After(d, k + 1) = After(c, k) /\ Upto(d, k + 1) = IF k = 0 THEN o ELSE Upto(c, k)
      BY <1>2, <1>3
    <3>. QED BY <2>2, <2>3, <3>1, <3>2, <3>3
  <2>. QED BY <1>1, <1>8, <2>1, <2>2, <2>3 DEF Cursor
<1>17. Keeps(g, hold, K \cup {o})
  BY <1>1, <1>6, <1>7, <1>8 DEF Keeps
<1>18. ASSUME g.phase = "Sweep" PROVE Ahead(g, d, k + 1, K \cup {o})
  <2>1. Ahead(h, c, k, K)
    BY <1>1, <1>13, <1>18
  <2>2. ASSUME NEW i \in (k + 1) + 1 .. Len(d), g.color[d[i]] = "White"
        PROVE  d[i] \notin K \cup {o} /\ (Is(g, d[i], "userdata") => d[i] \in g.finalized)
    <3>1. i \in 1 .. Len(d) /\ i # 1
      BY <1>2, <1>3
    <3>2. i - 1 \in 1 .. n /\ d[i] = c[i - 1]
      BY <1>3, <3>1
    <3>3. i - 1 \in k + 1 .. n
      BY <1>2, <1>3, <3>2
    <3>4. c[i - 1] \in Objects /\ c[i - 1] # o
      BY <1>4, <3>2
    <3>5. h.color[c[i - 1]] = "White"
      BY <1>12, <2>2, <3>2, <3>4
    <3>6. c[i - 1] \notin K /\ (Is(h, c[i - 1], "userdata") => c[i - 1] \in h.finalized)
      BY <2>1, <3>3, <3>5 DEF Ahead, n
    <3>. QED BY <1>7, <1>13, <3>2, <3>4, <3>6
  <2>. QED BY <2>2 DEF Ahead
<1>. QED BY <1>5, <1>10, <1>11, <1>14, <1>15, <1>16, <1>17, <1>18 DEF Good, Sound, d

\* What registerObject leaves as it was.
IsRegistered(h, g, o, b) ==
    /\ g.body = [h.body EXCEPT ![o] = b] /\ g.pool = h.pool /\ g.pending = h.pending
    /\ g.finalized = h.finalized /\ g.phase = h.phase
    /\ h.phase # "Pause" => o \in Black(g)

LEMMA PublishedLemma ==
    ASSUME NEW h, Sound(h), NEW stk, NEW o
    PROVE  LET g == Published(h, stk, o)
           IN  Recolored(h, g) /\ (h.phase # "Pause" => g.gray = {})
<1> DEFINE g == Published(h, stk, o)
           m == markObject(h, Refs(h, stk, o))
<1>1. h \in HeapOf /\ GrayOK(h)
  BY DEF Sound, ColorOK
<1>2. CASE h.phase = "Pause"
  <2>1. g = h
    BY <1>2 DEF Published
  <2>2. Recolored(h, h)
    BY <1>1, RecoloredRefl
  <2>. QED BY <1>2, <2>1, <2>2
<1>3. CASE h.phase # "Pause"
  <2>1. g = propagateMarks(m, stk)
    BY <1>3 DEF Published
  <2>2. Recolored(h, m)
    BY <1>1, MarkLemma
  <2> HIDE DEF m, g
  <2>3. m \in HeapOf /\ GrayOK(m)
    BY <2>2 DEF Recolored
  <2>4. Recolored(m, g) /\ g.gray = {}
    BY <2>1, <2>3, PropagateLemma
  <2>5. Recolored(h, g)
    BY <1>1, <2>2, <2>4, RecoloredTrans
  <2>. QED BY <2>4, <2>5 DEF g
<1>. QED BY <1>2, <1>3

LEMMA RegisterLemma ==
    ASSUME NEW h, NEW hold, NEW c, NEW k, NEW K, Good(h, hold, c, k, K),
           NEW o \in Objects, o \notin Live(h), NEW b \in Fresh, NEW stk
    PROVE  /\ Good(registerObject(h, stk, o, b), hold, <<o>> \o c, k + 1, K \cup {o})
           /\ IsRegistered(h, registerObject(h, stk, o, b), o, b)
<1> DEFINE f == registerObject(h, stk, o, b)
<1>1. h \in HeapOf
  BY DEF Good, Sound
<1>2. PICK g : IsLinked(h, g, o, b) /\ f = Published(g, stk, o)
  BY <1>1, LinkedFields
<1> HIDE DEF f
<1>3. Good(g, hold, <<o>> \o c, k + 1, K \cup {o})
  BY <1>2, LinkedGood
<1>4. Sound(g)
  BY <1>3 DEF Good
<1>5. Recolored(g, f) /\ (g.phase # "Pause" => f.gray = {})
  BY ONLY <1>2, <1>4, PublishedLemma
<1>6. Good(f, hold, <<o>> \o c, k + 1, K \cup {o})
  BY <1>3, <1>5, GoodRecolored
<1>7. h.phase # "Pause" => o \in Black(f)
  <2>1. o \in Live(g)
    <3>1. o \in K \cup {o} /\ K \cup {o} \subseteq Live(g)
      BY <1>3 DEF Good, Keeps
    <3>. QED BY <3>1
  <2>2. h.phase # "Pause" => g.color[o] = "Black"
    BY <1>1, <1>2, HeapFields DEF IsLinked
  <2>. QED BY <1>5, <2>1, <2>2 DEF Black, Recolored
<1>8. IsRegistered(h, f, o, b)
  BY <1>2, <1>5, <1>7 DEF IsRegistered, Recolored, Same, IsLinked
<1>. QED BY <1>6, <1>8 DEF f

\* The write barrier: afterwards a black owner does not refer to a white child.
LEMMA BarrierLemma ==
    ASSUME NEW h, Sound(h), NEW stk, NEW owner, NEW child, child # Null => child \in Live(h)
    PROVE  LET g == writeBarrier(h, stk, owner, child)
           IN  /\ Recolored(h, g) /\ (h.gray = {} => g.gray = {})
               /\ owner \in Live(h) /\ g.color[owner] = "Black" => child \notin White(g)
<1> DEFINE g == writeBarrier(h, stk, owner, child)
           m == markObject(h, {child})
<1>1. h \in HeapOf /\ GrayOK(h)
  BY DEF Sound, ColorOK
<1>2. CASE child # Null /\ h.color[owner] = "Black" /\ child \in White(h)
  <2>1. g = propagateMarks(m, stk)
    BY <1>2 DEF writeBarrier
  <2>2. Recolored(h, m) /\ White(m) = White(h) \ {child}
    BY <1>1, MarkLemma
  <2> HIDE DEF m, g
  <2>3. m \in HeapOf /\ GrayOK(m)
    BY <2>2 DEF Recolored
  <2>4. Recolored(m, g) /\ g.gray = {}
    BY <2>1, <2>3, PropagateLemma
  <2>5. Recolored(h, g)
    BY <1>1, <2>2, <2>4, RecoloredTrans
  <2>6. child \notin White(g)
    BY <2>2, <2>4 DEF Recolored
  <2>. QED BY <2>4, <2>5, <2>6 DEF g
<1>3. CASE ~(child # Null /\ h.color[owner] = "Black" /\ child \in White(h))
  <2>1. g = h
    BY <1>3 DEF writeBarrier
  <2>2. Recolored(h, h)
    BY <1>1, RecoloredRefl
  <2>3. Null \notin White(h)
    BY LiveFacts, ObjectListAssumption
  <2> HIDE DEF g
  <2>. QED BY <1>3, <2>1, <2>2, <2>3 DEF g
<1>. QED BY <1>2, <1>3

-----------------------------------------------------------------------------
(***************************************************************************)
(* An object that refers to something else.                                *)
(***************************************************************************)

IsRebodied(h, g, o, b) ==
    /\ g \in HeapOf /\ g.body = [h.body EXCEPT ![o] = b]
    /\ g.accounted = [h.accounted EXCEPT ![o] = getSize(b)]
    /\ g.total = h.total + getSize(b) - getSize(h.body[o])
    /\ g.next = h.next /\ g.head = h.head /\ g.count = h.count /\ g.phase = h.phase
    /\ g.current = h.current /\ g.previous = h.previous /\ g.pending = h.pending
    /\ g.finalized = h.finalized /\ g.pool = h.pool
    /\ g.color = h.color /\ g.gray = h.gray /\ g.capacity = h.capacity

Links == {b \in Bodies : b.kind \in {"open", "closed", "closure"}}

LEMMA SizeFacts ==
    ASSUME NEW b
    PROVE  getSize(b) \in {1, 2}
  BY DEF getSize

LEMMA RebodyCounts ==
    ASSUME NEW h \in HeapOf, Counted(h), NEW o \in Live(h), NEW b \in Links, NEW g, IsRebodied(h, g, o, b)
    PROVE  Counted(g) /\ Live(g) = Live(h)
<1>1. o \in Objects /\ h.body \in [Objects -> Bodies] /\ h.accounted \in [Objects -> Int]
  BY HeapFields, LiveFacts
<1>2. /\ g.body[o] = b /\ \A x \in Objects : x # o => g.body[x] = h.body[x]
      /\ \A x \in Objects : g.accounted[x] = IF x = o THEN getSize(b) ELSE h.accounted[x]
  BY <1>1 DEF IsRebodied
<1>3. Live(g) = Live(h) /\ Live(h) \subseteq Objects
  <2>1. ~Is(g, o, "free")
    BY <1>2 DEF Links, Is
  <2>2. \A x \in Objects : x # o => (x \in Live(g) <=> x \in Live(h))
    BY <1>2, BodyFacts
  <2>. QED BY <1>1, <2>1, <2>2, LiveFacts DEF Live
<1>4. \A x \in Live(g) : g.accounted[x] = getSize(g.body[x])
  BY <1>2, <1>3 DEF Counted
<1> DEFINE rest == Big(h) \ {o}
<1>5. IsFiniteSet(rest) /\ Cardinality(rest) \in Nat /\ o \notin rest
  BY <1>3, LiveFacts
<1>6. Cardinality(rest \cup {o}) = Cardinality(rest) + 1
  <2> HIDE DEF rest
  <2>. QED BY ONLY <1>5, FS_AddElement
<1>7. Big(h) = IF getSize(h.body[o]) = 2 THEN rest \cup {o} ELSE rest
  BY DEF Big
<1>8. Big(g) = IF getSize(b) = 2 THEN rest \cup {o} ELSE rest
  BY <1>2, <1>3 DEF Big
<1>9. getSize(b) \in {1, 2} /\ getSize(h.body[o]) \in {1, 2}
  BY SizeFacts
<1>10. Cardinality(Big(h)) = Cardinality(rest) + getSize(h.body[o]) - 1
  <2> HIDE DEF rest
  <2>. QED BY <1>5, <1>6, <1>7, <1>9
<1>11. Cardinality(Big(g)) = Cardinality(rest) + getSize(b) - 1
  <2> HIDE DEF rest
  <2>. QED BY <1>5, <1>6, <1>8, <1>9
<1>12. Cardinality(Live(h)) \in Nat
  BY LiveFacts
<1>13. g.count = Cardinality(Live(g))
  BY <1>3 DEF Counted, IsRebodied
<1>14. g.total = Cardinality(Live(g)) + Cardinality(Big(g))
  <2>1. h.total = Cardinality(Live(h)) + Cardinality(Big(h))
    BY DEF Counted
  <2>2. g.total = h.total + getSize(b) - getSize(h.body[o])
    BY DEF IsRebodied
  <2> HIDE DEF rest
  <2>. QED BY <1>3, <1>5, <1>9, <1>10, <1>11, <1>12, <2>1, <2>2
<1>. QED BY <1>3, <1>4, <1>13, <1>14 DEF Counted

LEMMA RebodyGood ==
    ASSUME NEW h, NEW hold, NEW c, NEW k, NEW K, Good(h, hold, c, k, K),
           NEW o \in Live(h), h.body[o] \in Links, NEW b \in Links, NEW g, IsRebodied(h, g, o, b),
           o \in K => Inner(g, o) \subseteq K,
           Marking(h) /\ h.color[o] = "Black" => Inner(g, o) \cap White(h) = {}
    PROVE  Good(g, hold, c, k, K)
<1>1. /\ h \in HeapOf /\ Counted(h) /\ QueueOK(h) /\ ColorOK(h)
      /\ IsList(h, c) /\ Cursor(h, c, k) /\ Keeps(h, hold, K) /\ Live(h) \subseteq Objects
      /\ h.phase = "Sweep" => Ahead(h, c, k, K)
  BY LiveFacts DEF Good, Sound
<1>2. Counted(g) /\ Live(g) = Live(h)
  BY <1>1, RebodyCounts
<1>3. /\ g.body[o] = b /\ \A x \in Objects : x # o => g.body[x] = h.body[x]
  BY <1>1, HeapFields DEF IsRebodied
<1>4. \A x \in Objects : x # o => Inner(g, x) = Inner(h, x)
  <2>1. ASSUME NEW x \in Objects, x # o PROVE g.body[x] = h.body[x]
    BY <1>3, <2>1
  <2>. QED BY <2>1, BodyFacts
<1>5. /\ g \in HeapOf /\ g.next = h.next /\ g.head = h.head /\ g.phase = h.phase
      /\ g.current = h.current /\ g.previous = h.previous /\ g.pending = h.pending
      /\ g.finalized = h.finalized /\ g.color = h.color /\ g.gray = h.gray /\ g.capacity = h.capacity
  BY DEF IsRebodied
<1>6. QueueOK(g) /\ IsList(g, c) /\ Cursor(g, c, k)
  BY <1>1, <1>2, <1>5 DEF QueueOK, IsList, Cursor
<1>7. White(g) = White(h) /\ Unscanned(g) = Unscanned(h) /\ (Marking(g) <=> Marking(h))
  BY <1>2, <1>5 DEF White, Unscanned, Marking
<1>8. ColorOK(g)
  <2>1. GrayOK(g)
    BY <1>1, <1>2, <1>5 DEF ColorOK, GrayOK
  <2>2. ASSUME Marking(g) PROVE AllQueued(g) /\ Tri(g) /\ Cardinality(Unscanned(g)) <= g.capacity
    <3>1. AllQueued(h) /\ Tri(h) /\ Cardinality(Unscanned(h)) <= h.capacity
      BY <1>1, <1>7, <2>2 DEF ColorOK
    <3>2. AllQueued(g)
      BY <1>2, <1>5, <3>1 DEF AllQueued
    <3>3. Tri(g)
      BY <1>1, <1>2, <1>4, <1>5, <1>7, <2>2, <3>1 DEF Tri
    <3>. QED BY <1>5, <1>7, <3>1, <3>2, <3>3
  <2>. QED BY <1>1, <1>5, <2>1, <2>2 DEF ColorOK
<1>9. Keeps(g, hold, K)
  BY <1>1, <1>2, <1>4 DEF Keeps
<1>10. ASSUME g.phase = "Sweep" PROVE Ahead(g, c, k, K)
  <2>1. Ahead(h, c, k, K) /\ k \in 0 .. Len(c)
    BY <1>1, <1>5, <1>10 DEF Cursor
  <2>2. \A i \in k + 1 .. Len(c) : c[i] \in Objects
    BY <1>1, <2>1, ListFacts
  <2>3. \A x \in Objects : Is(g, x, "userdata") => Is(h, x, "userdata")
    BY <1>3 DEF Is, Links
  <2>. QED BY <1>5, <2>1, <2>2, <2>3 DEF Ahead
<1>. QED BY <1>2, <1>5, <1>6, <1>8, <1>9, <1>10 DEF Good, Sound

-----------------------------------------------------------------------------
(***************************************************************************)
(* An object that is unlinked and freed.                                   *)
(***************************************************************************)

Without(c, k) == [i \in 1 .. Len(c) - 1 |-> IF i <= k THEN c[i] ELSE c[i + 1]]

\* d is the list c without the element after the k-th.
IsWithout(c, k, d) ==
    /\ d \in Seq(Objects) /\ Len(d) \in Nat /\ Len(d) + 1 = Len(c) /\ k \in 0 .. Len(d)
    /\ \A i \in 1 .. k : d[i] = c[i] /\ i \in 1 .. Len(c)
    /\ \A i \in k + 1 .. Len(d) : d[i] = c[i + 1] /\ i + 1 \in 1 .. Len(c)
    /\ \A i \in 0 .. k - 1 : After(d, i) = After(c, i)
    /\ \A i \in k .. Len(d) : After(d, i) = After(c, i + 1)
    /\ Upto(d, k) = Upto(c, k)
    /\ OneEach(c) => OneEach(d) /\ Range(d) = Range(c) \ {c[k + 1]}

LEMMA WithoutFacts ==
    ASSUME NEW c \in Seq(Objects), NEW k \in Nat, k < Len(c)
    PROVE  IsWithout(c, k, Without(c, k))
<1> DEFINE d == Without(c, k)
           n == Len(c)
<1>1. n \in Nat /\ \A i \in 1 .. n : c[i] \in Objects
  BY SeqFacts
<1>2. d \in Seq(Objects) /\ Len(d) = n - 1
  <2>1. d \in [1 .. n - 1 -> Objects] /\ n - 1 \in Nat
    BY <1>1 DEF Without
  <2> HIDE DEF d, n
  <2>. QED BY <2>1
<1>3. \A i \in 1 .. n - 1 : d[i] = IF i <= k THEN c[i] ELSE c[i + 1]
  BY DEF Without
<1> HIDE DEF d
<1>4. Len(d) \in Nat /\ Len(d) + 1 = n /\ k \in 0 .. Len(d) /\ n - 1 = Len(d)
  BY <1>1, <1>2
<1> HIDE DEF n
<1>5. ASSUME NEW i \in 1 .. k PROVE d[i] = c[i] /\ i \in 1 .. n
  BY <1>3, <1>4
<1>6. ASSUME NEW i \in k + 1 .. Len(d) PROVE d[i] = c[i + 1] /\ i + 1 \in 1 .. n
  <2>1. i \in 1 .. n - 1 /\ ~(i <= k) /\ i + 1 \in 1 .. n
    BY <1>4
  <2>. QED BY <1>3, <2>1
<1>7. ASSUME NEW i \in 0 .. k - 1 PROVE After(d, i) = After(c, i)
  <2>1. i + 1 \in 1 .. k /\ i < Len(d) /\ i < n
    BY <1>4
  <2>2. d[i + 1] = c[i + 1]
    BY ONLY <1>5, <2>1
  <2>. QED BY <2>1, <2>2 DEF After, n
<1>8. ASSUME NEW i \in k .. Len(d) PROVE After(d, i) = After(c, i + 1)
  <2>1. CASE i < Len(d)
    <3>1. i + 1 \in k + 1 .. Len(d) /\ i + 1 < n
      BY <1>4, <2>1
    <3>2. d[i + 1] = c[(i + 1) + 1]
      BY ONLY <1>6, <3>1
    <3>. QED BY <2>1, <3>1, <3>2 DEF After, n
  <2>2. CASE ~(i < Len(d))
    <3>1. ~(i + 1 < n)
      BY <1>4, <2>2
    <3>. QED BY <2>2, <3>1 DEF After, n
  <2>. QED BY <2>1, <2>2
<1>9. Upto(d, k) = Upto(c, k)
  <2>1. CASE k = 0
    BY <2>1 DEF Upto
  <2>2. CASE k # 0
    <3>1. k \in 1 .. k
      BY <2>2
    <3>2. d[k] = c[k]
      BY ONLY <1>5, <3>1
    <3>. QED BY <2>2, <3>2 DEF Upto
  <2>. QED BY <2>1, <2>2
<1>10. ASSUME OneEach(c) PROVE OneEach(d) /\ Range(d) = Range(c) \ {c[k + 1]}
  <2>1. \A i, j \in 1 .. n : c[i] = c[j] => i = j
    BY <1>10 DEF OneEach, n
  <2> DEFINE f(i) == IF i <= k THEN i ELSE i + 1
  <2>2. ASSUME NEW i \in 1 .. Len(d) PROVE d[i] = c[f(i)] /\ f(i) \in 1 .. n /\ f(i) # k + 1
    <3>1. CASE i <= k
      <4>1. i \in 1 .. k /\ f(i) = i
        BY <3>1
      <4>2. d[i] = c[i] /\ i \in 1 .. n
        BY ONLY <1>5, <4>1
      <4>. QED BY <3>1, <4>1, <4>2
    <3>2. CASE ~(i <= k)
      <4>1. i \in k + 1 .. Len(d) /\ f(i) = i + 1 /\ i + 1 # k + 1
        BY <1>4, <3>2
      <4>2. d[i] = c[i + 1] /\ i + 1 \in 1 .. n
        BY ONLY <1>6, <4>1
      <4>. QED BY <4>1, <4>2
    <3>. QED BY <3>1, <3>2
  <2>3. \A i, j \in 1 .. Len(d) : f(i) = f(j) => i = j
    BY <1>4
  <2>4. ASSUME NEW i \in 1 .. n, i # k + 1 PROVE \E j \in 1 .. Len(d) : d[j] = c[i]
    <3>1. CASE i <= k
      <4>1. i \in 1 .. Len(d) /\ i \in 1 .. k
        BY <1>4, <3>1
      <4>. QED BY <1>5, <4>1
    <3>2. CASE ~(i <= k)
      <4>1. i - 1 \in k + 1 .. Len(d) /\ (i - 1) + 1 = i /\ i - 1 \in 1 .. Len(d)
        BY <1>4, <2>4, <3>2
      <4>2. d[i - 1] = c[(i - 1) + 1]
        BY ONLY <1>6, <4>1
      <4>. QED BY <4>1, <4>2
    <3>. QED BY <3>1, <3>2
  <2> HIDE DEF f
  <2>5. k + 1 \in 1 .. n
    BY <1>4
  <2>6. OneEach(d)
    <3>1. ASSUME NEW i \in 1 .. Len(d), NEW j \in 1 .. Len(d), d[i] = d[j] PROVE i = j
      <4>1. f(i) = f(j)
        BY <2>1, <2>2, <3>1
      <4>. QED BY <2>3, <4>1
    <3>. QED BY <3>1 DEF OneEach
  <2>7. Range(d) = {d[i] : i \in 1 .. Len(d)} /\ Range(c) = {c[i] : i \in 1 .. n}
    BY <1>2, SeqFacts DEF n
  <2>8. Range(d) \subseteq Range(c) \ {c[k + 1]}
    <3>1. ASSUME NEW i \in 1 .. Len(d) PROVE d[i] \in Range(c) \ {c[k + 1]}
      BY <2>1, <2>2, <2>5, <2>7
    <3>. QED BY <2>7, <3>1
  <2>9. Range(c) \ {c[k + 1]} \subseteq Range(d)
    BY <2>4, <2>7
  <2>. QED BY <2>6, <2>8, <2>9
<1>. QED BY <1>2, <1>4, <1>5, <1>6, <1>7, <1>8, <1>9, <1>10 DEF IsWithout, n, d

IsDestroyed(h, g, before, o) ==
    /\ g \in HeapOf /\ g.body = [h.body EXCEPT ![o] = Free]
    /\ g.next = [(IF before = Null THEN h.next ELSE [h.next EXCEPT ![before] = h.next[o]]) EXCEPT ![o] = Null]
    /\ g.head = IF before = Null THEN h.next[o] ELSE h.head
    /\ g.color = [h.color EXCEPT ![o] = "White"] /\ g.gray = h.gray \ {o}
    /\ g.pending = Selected(h.pending, Objects \ {o}) /\ g.finalized = h.finalized \ {o}
    /\ g.pool = [s \in Contents |-> IF h.pool[s] = o THEN Null ELSE h.pool[s]]
    /\ g.total = h.total - h.accounted[o] /\ g.accounted = [h.accounted EXCEPT ![o] = 0]
    /\ g.count = h.count - 1
    /\ g.phase = h.phase /\ g.current = h.current /\ g.previous = h.previous /\ g.capacity = h.capacity

LEMMA DestroyFields ==
    ASSUME NEW h \in HeapOf, NEW before \in MaybeObject, NEW o \in Objects
    PROVE  IsDestroyed(h, destroyObject(Unlink(h, before, o), o), before, o)
<1> DEFINE u == Unlink(h, before, o)
           g == destroyObject(u, o)
           next == IF before = Null THEN h.next ELSE [h.next EXCEPT ![before] = h.next[o]]
           head == IF before = Null THEN h.next[o] ELSE h.head
           pending == Selected(h.pending, Objects \ {o})
           pool == [s \in Contents |-> IF h.pool[s] = o THEN Null ELSE h.pool[s]]
<1>1. /\ h.next \in [Objects -> MaybeObject] /\ h.body \in [Objects -> Bodies] /\ h.color \in [Objects -> Colors]
      /\ h.accounted \in [Objects -> Int] /\ h.total \in Int /\ h.count \in Int /\ h.head \in MaybeObject
      /\ h.pending \in Seq(Objects) /\ h.pool \in [Contents -> MaybeObject]
      /\ h.gray \in SUBSET Objects /\ h.finalized \in SUBSET Objects
  BY HeapFields
<1>2. next \in [Objects -> MaybeObject] /\ head \in MaybeObject
  BY <1>1 DEF MaybeObject
<1>3. /\ u \in HeapOf /\ u.next = next /\ u.head = head
      /\ u.body = h.body /\ u.color = h.color /\ u.accounted = h.accounted
      /\ u.count = h.count /\ u.total = h.total /\ u.phase = h.phase /\ u.current = h.current
      /\ u.previous = h.previous /\ u.gray = h.gray /\ u.capacity = h.capacity
      /\ u.pending = h.pending /\ u.finalized = h.finalized /\ u.pool = h.pool
  <2>1. CASE before = Null
    BY <1>1, <1>2, <2>1 DEF Unlink, HeapOf
  <2>2. CASE before # Null
    BY <1>1, <1>2, <2>2 DEF Unlink, HeapOf
  <2>. QED BY <2>1, <2>2
<1>4. pending \in Seq(Objects)
  BY <1>1, SelectedFacts
<1>5. pool \in [Contents -> MaybeObject]
  BY <1>1 DEF MaybeObject
<1>6. g = [u EXCEPT !.body = [u.body EXCEPT ![o] = Free], !.color = [u.color EXCEPT ![o] = "White"],
                    !.next = [u.next EXCEPT ![o] = Null], !.gray = u.gray \ {o},
                    !.pending = Selected(u.pending, Objects \ {o}), !.finalized = u.finalized \ {o},
                    !.pool = [s \in Contents |-> IF u.pool[s] = o THEN Null ELSE u.pool[s]],
                    !.total = u.total - u.accounted[o],
                    !.accounted = [u.accounted EXCEPT ![o] = 0], !.count = u.count - 1]
  BY DEF destroyObject
<1> HIDE DEF u, g, next, head, pending
<1>7. g = [u EXCEPT !.body = [h.body EXCEPT ![o] = Free], !.color = [h.color EXCEPT ![o] = "White"],
                    !.next = [next EXCEPT ![o] = Null], !.gray = h.gray \ {o},
                    !.pending = pending, !.finalized = h.finalized \ {o},
                    !.pool = pool,
                    !.total = h.total - h.accounted[o],
                    !.accounted = [h.accounted EXCEPT ![o] = 0], !.count = h.count - 1]
  BY <1>3, <1>6 DEF pending
<1> HIDE DEF pool
<1>8. /\ [h.body EXCEPT ![o] = Free] \in [Objects -> Bodies]
      /\ [h.color EXCEPT ![o] = "White"] \in [Objects -> Colors]
      /\ [next EXCEPT ![o] = Null] \in [Objects -> MaybeObject]
      /\ [h.accounted EXCEPT ![o] = 0] \in [Objects -> Int]
      /\ h.total - h.accounted[o] \in Int /\ h.count - 1 \in Int
      /\ h.gray \ {o} \in SUBSET Objects /\ h.finalized \ {o} \in SUBSET Objects
  <2>1. Free \in Bodies
    BY DEF Free, Bodies
  <2>. QED BY <1>1, <1>2, <2>1 DEF Colors, MaybeObject
<1>9. g \in HeapOf
  BY <1>3, <1>4, <1>5, <1>7, <1>8 DEF HeapOf
<1>10. /\ g.body = [h.body EXCEPT ![o] = Free] /\ g.color = [h.color EXCEPT ![o] = "White"]
       /\ g.next = [next EXCEPT ![o] = Null] /\ g.gray = h.gray \ {o} /\ g.pending = pending
       /\ g.finalized = h.finalized \ {o} /\ g.pool = pool /\ g.total = h.total - h.accounted[o]
       /\ g.accounted = [h.accounted EXCEPT ![o] = 0] /\ g.count = h.count - 1
       /\ g.head = u.head /\ g.phase = u.phase /\ g.current = u.current /\ g.previous = u.previous
       /\ g.capacity = u.capacity
  BY <1>3, <1>7 DEF HeapOf
<1>. QED BY <1>3, <1>9, <1>10 DEF IsDestroyed, g, u, next, head, pending, pool

\* The object after the k-th can be destroyed; and what is so afterwards.
MayGo(h, hold, c, k, K) ==
    /\ Sound(h) /\ h.gray = {} /\ ~Marking(h) /\ IsList(h, c) /\ Keeps(h, hold, K)
    /\ k \in Nat /\ k < Len(c) /\ c[k + 1] \notin K
IsGone(h, g, hold, c, k, K) ==
    /\ Sound(g) /\ IsList(g, Without(c, k)) /\ Keeps(g, hold, K)
    /\ Live(g) = Live(h) \ {c[k + 1]} /\ g.gray = {} /\ ~Marking(g)
    /\ g.finalized = h.finalized \cap Live(g) /\ Range(g.pending) = Range(h.pending) \ {c[k + 1]}
    /\ PoolOK(h) => PoolOK(g)

LEMMA DestroyLemma ==
    ASSUME NEW h, NEW hold, NEW c, NEW k, NEW K, MayGo(h, hold, c, k, K),
           NEW g, IsDestroyed(h, g, Upto(c, k), c[k + 1])
    PROVE  IsGone(h, g, hold, c, k, K)
<1> DEFINE n == Len(c)
           d == Without(c, k)
           before == Upto(c, k)
           o == c[k + 1]
<1>0. /\ Sound(h) /\ h.gray = {} /\ ~Marking(h) /\ IsList(h, c) /\ Keeps(h, hold, K)
      /\ k \in Nat /\ k < Len(c) /\ o \notin K
  BY DEF MayGo
<1>1. /\ h \in HeapOf /\ Counted(h) /\ QueueOK(h) /\ c \in Seq(Objects) /\ n \in Nat /\ Range(c) = Live(h)
      /\ OneEach(c) /\ h.head = After(c, 0) /\ \A i \in 1 .. n : h.next[c[i]] = After(c, i)
      /\ \A i \in 1 .. n : c[i] \in Live(h) /\ c[i] \in Objects /\ c[i] # Null
  BY <1>0, ListFacts DEF Sound
<1>2. k + 1 \in 1 .. n /\ o = c[k + 1] /\ o \in Live(h) /\ o \in Objects /\ k \in Nat /\ k < n
  BY <1>0, <1>1
<1>3. IsWithout(c, k, d)
  BY ONLY <1>0, <1>1, WithoutFacts
<1> HIDE DEF d, n, before, o
<1>4. /\ g \in HeapOf /\ g.body = [h.body EXCEPT ![o] = Free]
      /\ g.next = [(IF before = Null THEN h.next ELSE [h.next EXCEPT ![before] = h.next[o]]) EXCEPT ![o] = Null]
      /\ g.head = IF before = Null THEN h.next[o] ELSE h.head
      /\ g.gray = {}
      /\ g.pending = Selected(h.pending, Objects \ {o}) /\ g.finalized = h.finalized \ {o}
      /\ g.pool = [s \in Contents |-> IF h.pool[s] = o THEN Null ELSE h.pool[s]]
      /\ g.total = h.total - h.accounted[o] /\ g.accounted = [h.accounted EXCEPT ![o] = 0]
      /\ g.count = h.count - 1 /\ g.phase = h.phase
  BY <1>0 DEF IsDestroyed, before, o
<1>5. /\ h.body \in [Objects -> Bodies] /\ h.next \in [Objects -> MaybeObject]
      /\ h.accounted \in [Objects -> Int] /\ h.pending \in Seq(Objects)
      /\ h.pool \in [Contents -> MaybeObject] /\ h.total \in Int
  BY <1>1, HeapFields
\* The bodies.
<1>6. g.body[o] = Free /\ \A x \in Objects : x # o => g.body[x] = h.body[x]
  BY <1>2, <1>4, <1>5
<1>7. \A x \in Objects : x # o => /\ Inner(g, x) = Inner(h, x) /\ (x \in Live(g) <=> x \in Live(h))
                                  /\ \A kind : Is(g, x, kind) = Is(h, x, kind)
  <2>1. ASSUME NEW x \in Objects, x # o
        PROVE  /\ Inner(g, x) = Inner(h, x) /\ (x \in Live(g) <=> x \in Live(h))
               /\ \A kind : Is(g, x, kind) = Is(h, x, kind)
    <3>1. g.body[x] = h.body[x]
      BY <1>6, <2>1
    <3>. QED BY ONLY <3>1, BodyFacts
  <2>. QED BY ONLY <2>1
<1>8. Live(g) = Live(h) \ {o} /\ Live(h) \subseteq Objects
  <2>1. Is(g, o, "free")
    BY <1>6 DEF Is, Free
  <2>. QED BY <1>7, <2>1, LiveFacts DEF Live
<1>9. Big(g) = Big(h) \ {o}
  BY <1>6, <1>8 DEF Big
<1>10. Counted(g)
  <2>1. IsFiniteSet(Live(h)) /\ IsFiniteSet(Big(h)) /\ Cardinality(Live(h)) \in Nat /\ Cardinality(Big(h)) \in Nat
    BY <1>8, LiveFacts
  <2>2. Cardinality(Live(g)) = Cardinality(Live(h)) - 1
    <3>1. IsFiniteSet(Live(h)) /\ o \in Live(h)
      BY <1>2, <2>1
    <3>2. Cardinality(Live(h) \ {o}) = Cardinality(Live(h)) - 1
      BY ONLY <3>1, FS_RemoveElement
    <3>. QED BY <1>8, <3>2
  <2>3. h.accounted[o] = getSize(h.body[o]) /\ getSize(h.body[o]) \in {1, 2}
    BY <1>1, <1>2, SizeFacts DEF Counted
  <2>4. Cardinality(Big(g)) = Cardinality(Big(h)) - (h.accounted[o] - 1)
    <3>1. CASE o \in Big(h)
      <4>1. Cardinality(Big(g)) = Cardinality(Big(h)) - 1
        BY ONLY <1>9, <2>1, <3>1, FS_RemoveElement
      <4>. QED BY <2>1, <2>3, <3>1, <4>1 DEF Big
    <3>2. CASE o \notin Big(h)
      <4>1. Big(g) = Big(h) /\ h.accounted[o] = 1
        BY <1>2, <1>9, <2>3, <3>2 DEF Big
      <4>. QED BY <2>1, <4>1
    <3>. QED BY <3>1, <3>2
  <2>5. \A x \in Live(g) : g.accounted[x] = getSize(g.body[x])
    <3>1. \A x \in Objects : x # o => g.accounted[x] = h.accounted[x]
      BY <1>4, <1>5
    <3>. QED BY <1>1, <1>6, <1>8, <3>1 DEF Counted
  <2>6. g.count = Cardinality(Live(g))
    BY <1>1, <1>4, <2>1, <2>2 DEF Counted
  <2>7. g.total = Cardinality(Live(g)) + Cardinality(Big(g))
    <3>1. h.total = Cardinality(Live(h)) + Cardinality(Big(h)) /\ g.total = h.total - h.accounted[o]
      BY <1>1, <1>4 DEF Counted
    <3>. QED BY <2>1, <2>2, <2>3, <2>4, <3>1
  <2>. QED BY <2>5, <2>6, <2>7 DEF Counted
<1>11. Range(g.pending) = Range(h.pending) \ {o} /\ (OneEach(h.pending) => OneEach(g.pending))
  <2>1. Range(g.pending) = Range(h.pending) \cap (Objects \ {o}) /\ (OneEach(h.pending) => OneEach(g.pending))
    BY <1>4, <1>5, SelectedFacts
  <2>2. Range(h.pending) \subseteq Objects
    BY <1>5, SeqFacts
  <2>. QED BY <2>1, <2>2
<1>12. QueueOK(g) /\ g.finalized = h.finalized \cap Live(g)
  <2>1. OneEach(h.pending) /\ Range(h.pending) \subseteq h.finalized /\ h.finalized \subseteq Live(h)
    BY <1>1 DEF QueueOK, OneEach
  <2>2. OneEach(g.pending) /\ Range(g.pending) \subseteq g.finalized /\ g.finalized \subseteq Live(g)
    BY <1>4, <1>8, <1>11, <2>1
  <2>. QED BY <1>4, <1>8, <2>1, <2>2 DEF QueueOK, OneEach
<1>13. ~Marking(g)
  BY <1>0, <1>4 DEF Marking
<1>14. ColorOK(g)
  BY <1>4, <1>13 DEF ColorOK, GrayOK
<1>15. Keeps(g, hold, K)
  BY <1>0, <1>7, <1>8 DEF Keeps
\* The list.
<1>16. /\ d \in Seq(Objects) /\ Len(d) \in Nat /\ Len(d) + 1 = n /\ k \in 0 .. Len(d)
       /\ \A i \in 1 .. k : d[i] = c[i] /\ i \in 1 .. n
       /\ \A i \in k + 1 .. Len(d) : d[i] = c[i + 1] /\ i + 1 \in 1 .. n
       /\ \A i \in 0 .. k - 1 : After(d, i) = After(c, i)
       /\ \A i \in k .. Len(d) : After(d, i) = After(c, i + 1)
       /\ OneEach(d) /\ Range(d) = Range(c) \ {o}
  BY <1>1, <1>2, <1>3 DEF IsWithout, n
<1>17. \A p, q \in 1 .. n : c[p] = c[q] => p = q
  BY <1>1 DEF OneEach, n
<1>18. h.next[o] = After(c, k + 1)
  BY <1>1, <1>2
<1>19. g.head = After(d, 0)
  <2>1. CASE k = 0
    <3>1. before = Null
      BY <2>1 DEF before, Upto
    <3>2. 0 \in k .. Len(d)
      BY <1>16, <2>1
    <3>3. After(d, 0) = After(c, 0 + 1)
      BY ONLY <1>16, <3>2
    <3>. QED BY <1>4, <1>18, <2>1, <3>1, <3>3
  <2>2. CASE k # 0
    <3>1. k \in 1 .. n /\ 0 \in 0 .. k - 1
      BY <1>1, <1>2, <2>2
    <3>2. before # Null
      BY <1>1, <2>2, <3>1 DEF before, Upto
    <3>. QED BY <1>1, <1>4, <1>16, <3>1, <3>2
  <2>. QED BY <2>1, <2>2
<1>20. ASSUME NEW i \in 1 .. Len(d) PROVE g.next[d[i]] = After(d, i)
  <2>0. before = Null \/ (k \in 1 .. n /\ before = c[k] /\ before \in Objects)
    <3>1. k = 0 \/ k \in 1 .. n
      BY <1>1, <1>2
    <3>. QED BY <1>1, <3>1 DEF before, Upto
  <2>1. CASE i < k
    <3>1. i \in 1 .. k /\ i \in 0 .. k - 1
      BY <1>16, <2>1
    <3>2. d[i] = c[i] /\ i \in 1 .. n /\ After(d, i) = After(c, i)
      BY ONLY <1>16, <3>1
    <3>3. c[i] # o /\ c[i] # before /\ c[i] \in Objects
      BY <1>1, <1>2, <1>17, <2>0, <2>1, <3>2
    <3>4. g.next[c[i]] = h.next[c[i]]
      BY <1>4, <1>5, <3>3
    <3>. QED BY <1>1, <3>2, <3>4
  <2>2. CASE i = k
    <3>1. i \in 1 .. k /\ i \in k .. Len(d)
      BY <1>16, <2>2
    <3>2. d[i] = c[i] /\ i \in 1 .. n /\ After(d, i) = After(c, i + 1)
      BY ONLY <1>16, <3>1
    <3>3. c[i] # o /\ c[i] = before /\ c[i] # Null /\ c[i] \in Objects
      BY <1>1, <1>2, <1>17, <2>2, <3>2 DEF before, Upto
    <3>4. g.next[c[i]] = h.next[o]
      BY <1>2, <1>4, <1>5, <3>3
    <3>. QED BY <1>18, <2>2, <3>2, <3>4
  <2>3. CASE i > k
    <3>1. i \in k + 1 .. Len(d) /\ i \in k .. Len(d)
      BY <1>16, <2>3
    <3>2. d[i] = c[i + 1] /\ i + 1 \in 1 .. n /\ After(d, i) = After(c, i + 1)
      BY ONLY <1>16, <3>1
    <3>0. i + 1 # k + 1 /\ i + 1 # k
      BY <1>16, <2>3
    <3>3. c[i + 1] # o /\ c[i + 1] # before /\ c[i + 1] \in Objects
      BY <1>1, <1>2, <1>17, <2>0, <3>0, <3>2
    <3>4. g.next[c[i + 1]] = h.next[c[i + 1]]
      BY <1>4, <1>5, <3>3
    <3>. QED BY <1>1, <3>2, <3>4
  <2>. QED BY <1>16, <2>1, <2>2, <2>3
<1>21. IsList(g, d)
  BY <1>1, <1>8, <1>16, <1>19, <1>20 DEF IsList, OneEach
\* The pool.
<1>22. ASSUME PoolOK(h) PROVE PoolOK(g)
  <2>1. ASSUME NEW s \in Contents PROVE {x \in Objects : g.body[x] = String(s)} = {g.pool[s]} \ {Null}
    <3>1. {x \in Objects : h.body[x] = String(s)} = {h.pool[s]} \ {Null}
      BY <1>22 DEF PoolOK
    <3>2. Free # String(s)
      BY DEF Free, String
    <3>3. g.pool[s] = IF h.pool[s] = o THEN Null ELSE h.pool[s]
      BY <1>4
    <3>4. {x \in Objects : g.body[x] = String(s)} = {x \in Objects : h.body[x] = String(s)} \ {o}
      BY <1>6, <3>2
    <3>. QED BY <3>1, <3>3, <3>4
  <2>. QED BY <2>1 DEF PoolOK
<1>. QED BY <1>0, <1>4, <1>8, <1>10, <1>11, <1>12, <1>13, <1>14, <1>15, <1>21, <1>22 DEF IsGone, Sound, d, o

-----------------------------------------------------------------------------
(***************************************************************************)
(* Sweeping.                                                               *)
(***************************************************************************)

\* What a sweep frees is not kept, and a userdata only once it is finalized.
Freed(h, g, K) ==
    /\ \A o \in Objects :
        \/ g.body[o] = h.body[o]
        \/ /\ g.body[o] = Free /\ o \notin K /\ ~Is(h, o, "open")
           /\ Is(h, o, "userdata") => o \in h.finalized
    /\ g.finalized = h.finalized \cap Live(g) /\ Range(g.pending) = Range(h.pending)
    /\ PoolOK(h) => PoolOK(g)

\* From the j-th on, the list d is what the list c is from the i-th on.
Behind(d, j, c, i) ==
    /\ d \in Seq(Objects) /\ j \in 0 .. Len(d) /\ Len(d) - j = Len(c) - i
    /\ \A p \in i + 1 .. Len(c) : d[j + (p - i)] = c[p]

LEMMA FreedRefl ==
    ASSUME NEW h, NEW K, Sound(h)
    PROVE  Freed(h, h, K)
  BY DEF Freed, Sound, QueueOK

LEMMA FreedTrans ==
    ASSUME NEW h, NEW g, NEW f, NEW K, Freed(h, g, K), Freed(g, f, K)
    PROVE  Freed(h, f, K)
<1>1. ASSUME NEW o \in Objects
      PROVE  \/ f.body[o] = h.body[o]
             \/ /\ f.body[o] = Free /\ o \notin K /\ ~Is(h, o, "open")
                /\ Is(h, o, "userdata") => o \in h.finalized
  <2>1. g.body[o] = h.body[o] => \A kind : Is(g, o, kind) = Is(h, o, kind)
    BY DEF Is
  <2>2. g.finalized \subseteq h.finalized
    BY DEF Freed
  <2>3. f.body[o] = g.body[o] \/ (f.body[o] = Free /\ o \notin K /\ ~Is(g, o, "open") /\ (Is(g, o, "userdata") => o \in g.finalized))
    BY DEF Freed
  <2>4. g.body[o] = h.body[o] \/ (g.body[o] = Free /\ o \notin K /\ ~Is(h, o, "open") /\ (Is(h, o, "userdata") => o \in h.finalized))
    BY DEF Freed
  <2>. QED BY <2>1, <2>2, <2>3, <2>4
<1>2. Live(f) \subseteq Live(g)
  <2>1. ASSUME NEW o \in Live(f) PROVE o \in Live(g)
    <3>1. o \in Objects /\ ~Is(f, o, "free")
      BY DEF Live
    <3>2. f.body[o] # Free
      BY <3>1 DEF Is, Free
    <3>3. f.body[o] = g.body[o]
      BY <3>1, <3>2 DEF Freed
    <3>. QED BY <3>1, <3>3 DEF Live, Is
  <2>. QED BY <2>1
<1>3. f.finalized = h.finalized \cap Live(f)
  BY <1>2 DEF Freed
<1>4. Range(f.pending) = Range(h.pending) /\ (PoolOK(h) => PoolOK(f))
  BY DEF Freed
<1>. QED BY <1>1, <1>3, <1>4 DEF Freed

LEMMA SweepOne ==
    ASSUME NEW h, NEW hold, NEW c, NEW k, NEW K, Sweeping(h, hold, c, k, K), k < Len(c)
    PROVE  \E d, j : /\ Sweeping(SweepObject(h, c[k + 1]), hold, d, j, K) /\ Behind(d, j, c, k + 1)
                     /\ Freed(h, SweepObject(h, c[k + 1]), K) /\ SweepObject(h, c[k + 1]).phase = h.phase
<1> DEFINE o == c[k + 1]
           g == SweepObject(h, o)
           n == Len(c)
<1>1. /\ Sound(h) /\ h \in HeapOf /\ h.gray = {} /\ ~Marking(h) /\ IsList(h, c) /\ Keeps(h, hold, K)
      /\ Ahead(h, c, k, K) /\ h.previous = Upto(c, k) /\ k \in Nat /\ k < n /\ n \in Nat
      /\ c \in Seq(Objects) /\ Range(h.pending) \subseteq K
      /\ QueueOK(h) /\ h.finalized \subseteq Live(h)
  BY ListFacts DEF Sweeping, Sound, QueueOK
<1>2. /\ k + 1 \in 1 .. n /\ k + 1 \in k + 1 .. n /\ o \in Live(h) /\ o \in Objects
      /\ \A i \in 1 .. n : c[i] \in Live(h) /\ c[i] \in Objects
  BY <1>1, ListFacts
<1>3. h.previous \in MaybeObject
  BY <1>1, HeapFields
<1>4. CASE Swept(h, o)
  <2> DEFINE d == Without(c, k)
  <2>1. g = destroyObject(Unlink(h, h.previous, o), o)
    BY <1>4 DEF SweepObject
  <2>2. IsDestroyed(h, g, Upto(c, k), o)
    <3> HIDE DEF g, o
    <3>1. IsDestroyed(h, destroyObject(Unlink(h, h.previous, o), o), h.previous, o)
      BY ONLY <1>1, <1>2, <1>3, DestroyFields
    <3>. QED BY <1>1, <2>1, <3>1
  <2>3. h.color[o] = "White" /\ ~Is(h, o, "open")
    BY <1>4 DEF Swept, White
  <2>4. o \notin K /\ (Is(h, o, "userdata") => o \in h.finalized)
    BY <1>1, <1>2, <2>3 DEF Ahead
  <2>5. IsWithout(c, k, d)
    BY ONLY <1>1, WithoutFacts
  <2>o. o = c[k + 1]
    OBVIOUS
  <2> HIDE DEF g, o, d, n
  <2>6. /\ Sound(g) /\ IsList(g, d) /\ Keeps(g, hold, K)
        /\ Live(g) = Live(h) \ {o} /\ g.gray = {} /\ ~Marking(g)
        /\ g.finalized = h.finalized \cap Live(g) /\ Range(g.pending) = Range(h.pending) \ {o}
        /\ PoolOK(h) => PoolOK(g)
    <3>1. MayGo(h, hold, c, k, K)
      BY <1>1, <2>o, <2>4 DEF MayGo, n
    <3>2. IsDestroyed(h, g, Upto(c, k), c[k + 1])
      BY <2>2, <2>o
    <3>3. IsGone(h, g, hold, c, k, K)
      BY ONLY <3>1, <3>2, DestroyLemma
    <3>. QED BY <2>o, <3>3 DEF IsGone, d
  <2>7. /\ d \in Seq(Objects) /\ Len(d) \in Nat /\ Len(d) + 1 = n /\ k \in 0 .. Len(d)
        /\ \A i \in k + 1 .. Len(d) : d[i] = c[i + 1] /\ i + 1 \in 1 .. n
        /\ Upto(d, k) = Upto(c, k)
    BY ONLY <2>5 DEF IsWithout, n
  <2>8. /\ g.previous = h.previous /\ g.phase = h.phase /\ g.current = h.current
        /\ h.body \in [Objects -> Bodies] /\ h.color \in [Objects -> Colors]
        /\ g.body[o] = Free /\ \A x \in Objects : x # o => g.body[x] = h.body[x] /\ g.color[x] = h.color[x]
    <3>1. h.body \in [Objects -> Bodies] /\ h.color \in [Objects -> Colors]
      BY <1>1, HeapFields
    <3>2. /\ g.previous = h.previous /\ g.phase = h.phase /\ g.current = h.current
          /\ g.body = [h.body EXCEPT ![o] = Free] /\ g.color = [h.color EXCEPT ![o] = "White"]
      BY ONLY <2>2 DEF IsDestroyed
    <3>. QED BY <1>2, <3>1, <3>2
  <2>9. Ahead(g, d, k, K)
    <3>1. ASSUME NEW i \in k + 1 .. Len(d), g.color[d[i]] = "White"
          PROVE  d[i] \notin K /\ (Is(g, d[i], "userdata") => d[i] \in g.finalized)
      <4>1. d[i] = c[i + 1] /\ i + 1 \in 1 .. n /\ i + 1 \in k + 1 .. n /\ i \in 1 .. Len(d)
        BY <2>7
      <4>2. d[i] \in Live(g) /\ d[i] # o /\ d[i] \in Objects
        BY <1>2, <2>6, <4>1, ListFacts
      <4>3. h.color[d[i]] = "White" /\ g.body[d[i]] = h.body[d[i]]
        BY <2>8, <3>1, <4>2
      <4>4. d[i] \notin K /\ (Is(h, d[i], "userdata") => d[i] \in h.finalized)
        BY <1>1, <4>1, <4>3 DEF Ahead, n
      <4>. QED BY <2>6, <4>2, <4>3, <4>4 DEF Is
    <3>. QED BY <3>1 DEF Ahead
  <2>10. Range(g.pending) = Range(h.pending)
    BY <1>1, <2>4, <2>6
  <2>11. Sweeping(g, hold, d, k, K)
    BY <1>1, <2>6, <2>7, <2>8, <2>9, <2>10 DEF Sweeping
  <2>12. Behind(d, k, c, k + 1)
    <3>1. ASSUME NEW p \in (k + 1) + 1 .. n PROVE d[k + (p - (k + 1))] = c[p]
      <4>1. p - 1 \in k + 1 .. Len(d) /\ k + (p - (k + 1)) = p - 1 /\ (p - 1) + 1 = p
        BY <1>1, <2>7
      <4>2. d[p - 1] = c[(p - 1) + 1]
        BY ONLY <2>7, <4>1
      <4>. QED BY <4>1, <4>2
    <3>2. Len(d) - k = n - (k + 1)
      BY <1>1, <2>7
    <3>. QED BY <2>7, <3>1, <3>2 DEF Behind, n
  <2>13. Freed(h, g, K)
    BY <2>3, <2>4, <2>6, <2>8, <2>10 DEF Freed
  <2>. QED BY <2>8, <2>11, <2>12, <2>13 DEF g, o
<1>5. CASE ~Swept(h, o)
  <2>1. g = [h EXCEPT !.color[o] = "White", !.previous = o]
    BY <1>5 DEF SweepObject
  <2>2. [h.color EXCEPT ![o] = "White"] \in [Objects -> Colors] /\ h.color \in [Objects -> Colors] /\ o \in MaybeObject
    BY <1>1, <1>2, HeapFields DEF Colors, MaybeObject
  <2>o. o = c[k + 1]
    OBVIOUS
  <2> HIDE DEF o, g, n
  <2>3. /\ g \in HeapOf /\ g.body = h.body /\ g.next = h.next /\ g.accounted = h.accounted /\ g.head = h.head
        /\ g.count = h.count /\ g.total = h.total /\ g.phase = h.phase /\ g.current = h.current
        /\ g.previous = o /\ g.gray = h.gray /\ g.capacity = h.capacity
        /\ g.pending = h.pending /\ g.finalized = h.finalized /\ g.pool = h.pool
        /\ g.color = [h.color EXCEPT ![o] = "White"]
    BY <1>1, <2>1, <2>2 DEF HeapOf
  <2>4. Live(g) = Live(h) /\ Big(g) = Big(h) /\ \A x : Inner(g, x) = Inner(h, x)
    BY <2>3, SameBodies
  <2>5. /\ Counted(g) /\ QueueOK(g) /\ IsList(g, c) /\ Keeps(g, hold, K) /\ ~Marking(g)
        /\ PoolOK(h) => PoolOK(g)
    <3>1. Counted(g)
      BY <1>1, <2>3, <2>4 DEF Sound, Counted
    <3>2. QueueOK(g)
      BY <1>1, <2>3, <2>4 DEF Sound, QueueOK
    <3>3. IsList(g, c)
      BY <1>1, <2>3, <2>4 DEF IsList
    <3>4. Keeps(g, hold, K)
      BY <1>1, <2>4 DEF Keeps
    <3>5. ~Marking(g) /\ (PoolOK(h) => PoolOK(g))
      BY <1>1, <2>3 DEF Marking, PoolOK
    <3> QED
      BY <3>1, <3>2, <3>3, <3>4, <3>5
  <2>6. ColorOK(g)
    BY <1>1, <2>3, <2>5 DEF ColorOK, GrayOK
  <2>7. Sound(g)
    BY <2>3, <2>5, <2>6 DEF Sound
  <2>8. Ahead(g, c, k + 1, K)
    <3>1. ASSUME NEW i \in (k + 1) + 1 .. n, g.color[c[i]] = "White"
          PROVE  c[i] \notin K /\ (Is(g, c[i], "userdata") => c[i] \in g.finalized)
      <4>1. i \in k + 1 .. n /\ i \in 1 .. n /\ i # k + 1
        BY <1>1
      <4>2. c[i] \in Objects /\ c[i] # o
        <5>1. \A p, q \in 1 .. n : c[p] = c[q] => p = q
          BY <1>1 DEF IsList, n
        <5>. QED BY <1>2, <2>o, <4>1, <5>1
      <4>3. h.color[c[i]] = "White"
        BY <2>2, <2>3, <3>1, <4>2
      <4>4. c[i] \notin K /\ (Is(h, c[i], "userdata") => c[i] \in h.finalized)
        BY <1>1, <4>1, <4>3 DEF Ahead, n
      <4>. QED BY <2>3, <4>4 DEF Is
    <3>. QED BY <3>1 DEF Ahead, n
  <2>9. k + 1 \in 0 .. Len(c) /\ g.previous = Upto(c, k + 1)
    BY <1>1, <2>3, <2>o DEF Upto, n
  <2>10. Sweeping(g, hold, c, k + 1, K)
    BY <1>1, <2>3, <2>5, <2>7, <2>8, <2>9 DEF Sweeping
  <2>11. Behind(c, k + 1, c, k + 1)
    <3>1. ASSUME NEW p \in (k + 1) + 1 .. Len(c) PROVE (k + 1) + (p - (k + 1)) = p
      BY <1>1 DEF n
    <3>. QED BY <1>1, <2>9, <3>1 DEF Behind
  <2>12. Freed(h, g, K)
    BY <1>1, <2>3, <2>4, <2>5 DEF Freed
  <2>. QED BY <2>3, <2>10, <2>11, <2>12 DEF g, o
<1>. QED BY <1>4, <1>5

\* One object after the other, a slice at a time: the phase ends with the list.
IsRephased(h, g, after) ==
    /\ g \in HeapOf /\ g.current = after /\ g.phase = IF after = Null THEN "Finalize" ELSE "Sweep"
    /\ g.body = h.body /\ g.next = h.next /\ g.accounted = h.accounted /\ g.head = h.head
    /\ g.count = h.count /\ g.total = h.total /\ g.previous = h.previous /\ g.gray = h.gray
    /\ g.capacity = h.capacity /\ g.pending = h.pending /\ g.finalized = h.finalized
    /\ g.pool = h.pool /\ g.color = h.color

LEMMA RephaseLemma ==
    ASSUME NEW h, NEW hold, NEW c, NEW k, NEW K, Sweeping(h, hold, c, k, K),
           NEW g, IsRephased(h, g, After(c, k))
    PROVE  Good(g, hold, c, k, K) /\ (\A L : Freed(h, g, L))
<1>1. /\ Sound(h) /\ h.gray = {} /\ IsList(h, c) /\ Keeps(h, hold, K) /\ Ahead(h, c, k, K)
      /\ k \in 0 .. Len(c) /\ h.previous = Upto(c, k) /\ Counted(h) /\ QueueOK(h)
  BY DEF Sweeping, Sound
<1>2. Live(g) = Live(h) /\ Big(g) = Big(h) /\ (\A o : Inner(g, o) = Inner(h, o)) /\ (\A o, kind : Is(g, o, kind) = Is(h, o, kind))
  <2>1. g.body = h.body
    BY DEF IsRephased
  <2>. QED BY <2>1, SameBodies
<1>3. /\ Counted(g) /\ QueueOK(g) /\ IsList(g, c) /\ Keeps(g, hold, K) /\ Ahead(g, c, k, K)
      /\ PoolOK(h) => PoolOK(g)
  BY <1>1, <1>2 DEF IsRephased, Counted, QueueOK, IsList, Keeps, Ahead, PoolOK
<1>4. ColorOK(g)
  BY <1>1 DEF IsRephased, ColorOK, GrayOK, Marking
<1>5. Upto(c, k) \in Live(h) \cup {Null}
  <2>1. k = 0 \/ k \in 1 .. Len(c)
    BY <1>1
  <2>. QED BY <1>1, <2>1, ListFacts DEF Upto
<1>6. Cursor(g, c, k)
  BY <1>1, <1>2, <1>5 DEF IsRephased, Cursor
<1>7. Sound(g)
  BY <1>3, <1>4 DEF Sound, IsRephased
<1>8. ASSUME NEW L PROVE Freed(h, g, L)
  BY <1>1, <1>2, <1>3 DEF Freed, IsRephased, QueueOK
<1>. QED BY <1>3, <1>6, <1>7, <1>8 DEF Good

LEMMA GoodSweeping ==
    ASSUME NEW h, NEW hold, NEW c, NEW k, NEW K, Good(h, hold, c, k, K), h.phase = "Sweep",
           Range(h.pending) \subseteq K
    PROVE  Sweeping(h, hold, c, k, K) /\ h.current = After(c, k) /\ c \in Seq(Objects)
  BY DEF Good, Sweeping, Sound, ColorOK, Cursor, Marking, IsList

LEMMA SweepStepLemma ==
    ASSUME NEW h, NEW hold, NEW c, NEW k, NEW K, Good(h, hold, c, k, K), h.phase = "Sweep",
           h.current # Null, Range(h.pending) \subseteq K
    PROVE  (\E d, j : Good(sweepStep(h), hold, d, j, K)) /\ Freed(h, sweepStep(h), K)
<1> DEFINE o == h.current
           s == SweepObject(h, o)
           after == h.next[o]
           g == sweepStep(h)
<1>1. Sweeping(h, hold, c, k, K) /\ o = After(c, k) /\ c \in Seq(Objects)
  BY GoodSweeping
<1>2. IsList(h, c) /\ k \in 0 .. Len(c) /\ h \in HeapOf
  BY <1>1 DEF Sweeping, Sound
<1>3. k \in Nat /\ k < Len(c) /\ o = c[k + 1]
  BY <1>1, <1>2 DEF After
<1>4. PICK d, j : /\ Sweeping(SweepObject(h, c[k + 1]), hold, d, j, K) /\ Behind(d, j, c, k + 1)
                  /\ Freed(h, SweepObject(h, c[k + 1]), K) /\ SweepObject(h, c[k + 1]).phase = h.phase
  BY ONLY <1>1, <1>3, SweepOne
<1>5. Sweeping(s, hold, d, j, K) /\ Freed(h, s, K) /\ s.phase = "Sweep" /\ s \in HeapOf
  BY <1>3, <1>4 DEF Sweeping, Sound
<1>6. after = After(c, k + 1)
  <2>1. k + 1 \in 1 .. Len(c)
    BY <1>2, <1>3
  <2>. QED BY <1>2, <1>3, <2>1, ListFacts
<1>7. After(c, k + 1) = After(d, j)
  <2>1. /\ Len(c) \in Nat /\ Len(d) \in Nat /\ j \in 0 .. Len(d) /\ Len(d) - j = Len(c) - (k + 1)
        /\ \A p \in (k + 1) + 1 .. Len(c) : d[j + (p - (k + 1))] = c[p]
    BY <1>1, <1>4 DEF Behind
  <2>2. CASE k + 1 < Len(c)
    <3>1. (k + 1) + 1 \in (k + 1) + 1 .. Len(c) /\ j < Len(d) /\ j + (((k + 1) + 1) - (k + 1)) = j + 1
      BY <1>3, <2>1, <2>2
    <3>2. d[j + (((k + 1) + 1) - (k + 1))] = c[(k + 1) + 1]
      BY ONLY <2>1, <3>1
    <3>. QED BY <2>2, <3>1, <3>2 DEF After
  <2>3. CASE ~(k + 1 < Len(c))
    <3>1. ~(j < Len(d))
      BY <1>3, <2>1, <2>3
    <3>. QED BY <2>3, <3>1 DEF After
  <2>. QED BY <2>2, <2>3
<1>8. after \in MaybeObject
  <2>1. o \in Objects /\ h.next \in [Objects -> MaybeObject]
    <3>1. h.current \in MaybeObject
      BY <1>2, HeapFields
    <3>. QED BY <1>2, <3>1, HeapFields DEF MaybeObject
  <2>. QED BY <2>1
<1>9. g = [s EXCEPT !.current = after, !.phase = IF after = Null THEN "Finalize" ELSE @]
  BY Zenon DEF sweepStep
<1> HIDE DEF o, s, after, g
<1>10. IsRephased(s, g, after)
  BY <1>5, <1>8, <1>9 DEF IsRephased, HeapOf, Phases
<1>11. Good(g, hold, d, j, K) /\ Freed(s, g, K)
  <2>1. IsRephased(s, g, After(d, j))
    BY <1>6, <1>7, <1>10
  <2>. QED BY ONLY <1>5, <2>1, RephaseLemma
<1>12. Freed(h, g, K)
  BY ONLY <1>5, <1>11, FreedTrans
<1>. QED BY <1>11, <1>12 DEF g

\* The rounds of sweep.
IsSweep(m, h, c) ==
    /\ m \in [0 .. Len(c) -> HeapOf] /\ sweep(h) = m[Len(c)] /\ m[0] = h
    /\ \A i \in 1 .. Len(c) : m[i] = SweepObject(m[i - 1], c[i])

LEMMA SweepType ==
    ASSUME NEW h \in HeapOf, NEW o \in Objects
    PROVE  SweepObject(h, o) \in HeapOf
<1> DEFINE g == SweepObject(h, o)
<1>1. CASE Swept(h, o)
  <2>1. g = destroyObject(Unlink(h, h.previous, o), o)
    BY <1>1 DEF SweepObject
  <2>2. h.previous \in MaybeObject
    BY HeapFields
  <2>3. IsDestroyed(h, destroyObject(Unlink(h, h.previous, o), o), h.previous, o)
    BY <2>2, DestroyFields
  <2>. QED BY <2>1, <2>3 DEF IsDestroyed
<1>2. CASE ~Swept(h, o)
  <2>1. g = [h EXCEPT !.color[o] = "White", !.previous = o]
    BY <1>2 DEF SweepObject
  <2>2. [h.color EXCEPT ![o] = "White"] \in [Objects -> Colors] /\ o \in MaybeObject
    BY HeapFields DEF Colors, MaybeObject
  <2>3. g \in HeapOf
    BY <2>1, <2>2 DEF HeapOf
  <2>. QED BY <2>3
<1>. QED BY <1>1, <1>2

LEMMA SweepLoop ==
    ASSUME NEW h \in HeapOf, NEW c \in Seq(Objects), Chain(h) = c
    PROVE  \E m : IsSweep(m, h, c)
<1> DEFINE N == Len(c)
           V == HeapOf
           Turn(i, t) == SweepObject(t, c[i])
           step == [x \in Nat \X V |-> IF x[1] + 1 \in 1 .. N THEN Turn(x[1] + 1, x[2]) ELSE x[2]]
           Loop(f) == [i \in 0 .. N |-> IF i = 0 THEN h ELSE Turn(i, f[i - 1])]
           m == CHOOSE f : f = Loop(f)
<1>1. N \in Nat /\ h \in V
  OBVIOUS
<1>2. ASSUME NEW i \in 1 .. N, NEW t \in V PROVE Turn(i, t) \in V
  <2>1. c[i] \in Objects
    OBVIOUS
  <2>. QED BY <2>1, SweepType
<1>3. IsStep(step, V)
  <2> HIDE DEF Turn, V, N
  <2>. QED BY <1>2 DEF IsStep
<1>4. PICK g : IsLoop(g, N, V, h, step)
  <2> HIDE DEF step, V, N
  <2>. QED BY ONLY <1>1, <1>3, LoopExists
<1>5. /\ g \in [0 .. N -> V] /\ g[0] = h
      /\ \A i \in 1 .. N : g[i] = step[<<i - 1, g[i - 1]>>]
  <2> HIDE DEF step, V, N
  <2>. QED BY <1>4 DEF IsLoop
<1>6. \A i \in 1 .. N : g[i] = Turn(i, g[i - 1])
  <2> HIDE DEF Turn, V
  <2>1. ASSUME NEW i \in 1 .. N PROVE g[i] = Turn(i, g[i - 1])
    <3>1. i - 1 \in Nat /\ i - 1 \in 0 .. N /\ (i - 1) + 1 = i
      BY <1>1
    <3>. QED BY <1>5, <3>1
  <2>. QED BY <2>1
<1>7. g = Loop(g)
  <2> HIDE DEF Turn, V, N
  <2>. QED BY <1>1, <1>5, <1>6
<1>8. m = Loop(m)
  <2> HIDE DEF Loop
  <2>. QED BY <1>7
<1>9. sweep(h) = m[N]
  BY Zenon DEF sweep
<1> HIDE DEF m
<1>10. DOMAIN m = 0 .. N /\ m[0] = h /\ \A i \in 1 .. N : m[i] = Turn(i, m[i - 1])
  <2> HIDE DEF Turn, N
  <2>. QED BY <1>1, <1>8
<1>11. \A i \in 0 .. N : m[i] \in V
  <2> DEFINE T == {i \in 0 .. N : m[i] \in V}
  <2>1. 0 \in T
    <3> HIDE DEF V, N
    <3>. QED BY <1>1, <1>10
  <2>2. ASSUME NEW i \in 1 .. N, i - 1 \in T PROVE i \in T
    <3> HIDE DEF Turn, V
    <3>. QED BY <1>1, <1>2, <1>10, <2>2
  <2>3. 0 .. N \subseteq T
    <3> HIDE DEF T, N
    <3>. QED BY ONLY <1>1, <2>1, <2>2, LoopInduct
  <2>. QED BY <2>3
<1>12. m = [i \in 0 .. N |-> m[i]]
  BY <1>8, <1>10
<1>13. m \in [0 .. N -> V]
  BY <1>11, <1>12
<1>14. IsSweep(m, h, c)
  BY <1>9, <1>10, <1>13 DEF IsSweep
<1>. QED BY <1>14

LEMMA SweepLemma ==
    ASSUME NEW h, NEW hold, NEW c, NEW K, Sweeping(h, hold, c, 0, K)
    PROVE  (\E d, j : Sweeping(sweep(h), hold, d, j, K)) /\ Freed(h, sweep(h), K)
<1> DEFINE N == Len(c)
<1>1. h \in HeapOf /\ Sound(h) /\ IsList(h, c) /\ c \in Seq(Objects) /\ N \in Nat /\ Chain(h) = c
  BY ListFacts, ChainIsList DEF Sweeping, Sound
<1>2. PICK m : IsSweep(m, h, c)
  BY ONLY <1>1, SweepLoop
<1>3. /\ m \in [0 .. N -> HeapOf] /\ sweep(h) = m[N] /\ m[0] = h
      /\ \A i \in 1 .. N : m[i] = SweepObject(m[i - 1], c[i])
  BY <1>2 DEF IsSweep
<1> DEFINE Fine(i) == (\E d, j : Sweeping(m[i], hold, d, j, K) /\ Behind(d, j, c, i)) /\ Freed(h, m[i], K)
           T == {i \in 0 .. N : Fine(i)}
<1> HIDE DEF N
<1>4. 0 \in T
  <2>1. Freed(h, h, K)
    BY <1>1, FreedRefl
  <2>2. Behind(c, 0, c, 0)
    <3>1. \A p \in 0 + 1 .. N : 0 + (p - 0) = p
      BY <1>1
    <3>. QED BY <1>1, <3>1 DEF Behind, N
  <2>3. Fine(0)
    BY <1>3, <2>1, <2>2
  <2>. QED BY <1>1, <2>3
<1>5. ASSUME NEW i \in 1 .. N, i - 1 \in T PROVE i \in T
  <2> DEFINE g == m[i - 1]
  <2>0. i - 1 \in Nat /\ i \in 0 .. N /\ i - 1 \in 0 .. N
    BY <1>1
  <2>1. PICK d, j : Sweeping(g, hold, d, j, K) /\ Behind(d, j, c, i - 1)
    BY <1>5
  <2>2. Freed(h, g, K)
    BY <1>5
  <2>3. m[i] = SweepObject(g, c[i])
    BY <1>3
  <2> HIDE DEF g
  <2>4. /\ d \in Seq(Objects) /\ Len(d) \in Nat /\ j \in 0 .. Len(d) /\ Len(d) - j = N - (i - 1)
        /\ \A p \in (i - 1) + 1 .. N : d[j + (p - (i - 1))] = c[p]
    BY <2>1 DEF Behind, N
  <2>5. j < Len(d) /\ j \in Nat
    BY <1>1, <2>0, <2>4
  <2>6. d[j + 1] = c[i]
    <3>1. i \in (i - 1) + 1 .. N /\ j + (i - (i - 1)) = j + 1
      BY <1>1, <2>4
    <3>2. d[j + (i - (i - 1))] = c[i]
      BY ONLY <2>4, <3>1
    <3>. QED BY <3>1, <3>2
  <2>7. PICK e, l : /\ Sweeping(SweepObject(g, d[j + 1]), hold, e, l, K) /\ Behind(e, l, d, j + 1)
                    /\ Freed(g, SweepObject(g, d[j + 1]), K) /\ SweepObject(g, d[j + 1]).phase = g.phase
    BY ONLY <2>1, <2>5, SweepOne
  <2>8. Sweeping(m[i], hold, e, l, K) /\ Freed(g, m[i], K)
    BY <2>3, <2>6, <2>7
  <2>9. Freed(h, m[i], K)
    BY ONLY <2>2, <2>8, FreedTrans
  <2>10. Behind(e, l, c, i)
    <3>1. /\ e \in Seq(Objects) /\ Len(e) \in Nat /\ l \in 0 .. Len(e) /\ Len(e) - l = Len(d) - (j + 1)
          /\ \A p \in (j + 1) + 1 .. Len(d) : e[l + (p - (j + 1))] = d[p]
      BY <2>7 DEF Behind
    <3>2. ASSUME NEW p \in i + 1 .. N PROVE e[l + (p - i)] = c[p]
      <4> DEFINE q == j + (p - (i - 1))
      <4>1. p \in (i - 1) + 1 .. N /\ q \in (j + 1) + 1 .. Len(d)
        BY <1>1, <2>4
      <4>2. d[q] = c[p]
        BY ONLY <2>4, <4>1
      <4>3. l + (q - (j + 1)) = l + (p - i)
        BY <1>1, <2>4, <3>1
      <4> HIDE DEF q
      <4>4. e[l + (q - (j + 1))] = d[q]
        BY ONLY <3>1, <4>1
      <4>. QED BY <4>2, <4>3, <4>4
    <3>3. Len(e) - l = N - i
      <4>1. Len(d) - j = N - (i - 1) /\ Len(e) - l = Len(d) - (j + 1)
        BY ONLY <2>4, <3>1
      <4>2. Len(d) \in Int /\ j \in Int /\ N \in Int /\ i \in Int /\ Len(e) \in Int /\ l \in Int
        BY <1>1, <2>4, <3>1
      <4>. QED BY ONLY <4>1, <4>2
    <3>. QED BY <3>1, <3>2, <3>3 DEF Behind, N
  <2>11. Fine(i)
    BY <2>8, <2>9, <2>10
  <2>. QED BY <2>0, <2>11
<1>6. 0 .. N \subseteq T
  <2> HIDE DEF T
  <2>. QED BY ONLY <1>1, <1>4, <1>5, LoopInduct
<1>7. N \in 0 .. N
  BY <1>1
<1>8. Fine(N)
  BY <1>6, <1>7
<1>. QED BY <1>3, <1>8

-----------------------------------------------------------------------------
(***************************************************************************)
(* Closing upvalues.                                                       *)
(***************************************************************************)

\* The barrier of an upvalue that closes: the child is queued or the cycle is
\* given up.
LEMMA DeferredLemma ==
    ASSUME NEW h, NEW hold, NEW c, NEW k, NEW K, Good(h, hold, c, k, K), NEW owner, NEW child
    PROVE  LET g == writeBarrierDeferredNoexcept(h, owner, child)
           IN  /\ \E j : Good(g, hold, c, j, K)
               /\ g.body = h.body /\ g.pool = h.pool /\ g.pending = h.pending /\ g.finalized = h.finalized
               /\ Marking(g) /\ g.color[owner] = "Black" => child \notin White(g)
<1> DEFINE g == writeBarrierDeferredNoexcept(h, owner, child)
           r == resetIncrementalCycle(h)
           q == [h EXCEPT !.gray = @ \cup {child}, !.color[child] = "Gray"]
           Due == child # Null /\ h.color[owner] = "Black" /\ child \in White(h)
           Full == h.phase = "Sweep" \/ Cardinality(h.gray) >= h.capacity
<1>1. h \in HeapOf /\ Sound(h) /\ GrayOK(h) /\ IsList(h, c) /\ Keeps(h, hold, K)
  BY DEF Good, Sound, ColorOK
<1>2. CASE ~Due
  <2>1. g = h
    BY <1>2 DEF writeBarrierDeferredNoexcept
  <2>2. Null \notin White(h)
    BY LiveFacts, ObjectListAssumption
  <2> HIDE DEF g
  <2>. QED BY <1>2, <2>1, <2>2 DEF g
<1>3. CASE Due /\ Full
  <2>1. g = r
    BY <1>3 DEF writeBarrierDeferredNoexcept
  <2>2. Good(r, hold, c, 0, K)
    BY <1>1, GoodReset
  <2>3. r.body = h.body /\ r.pool = h.pool /\ r.pending = h.pending /\ r.finalized = h.finalized /\ r.phase = "Pause"
    BY <1>1, ResetFields
  <2>4. ~Marking(r)
    BY <2>3 DEF Marking
  <2> HIDE DEF g, r
  <2>. QED BY <2>1, <2>2, <2>3, <2>4 DEF g
<1>4. CASE Due /\ ~Full
  <2>1. g = q
    BY <1>4 DEF writeBarrierDeferredNoexcept
  <2>2. child \in Live(h) /\ child \in Objects /\ child \in White(h) /\ h.color[child] = "White" /\ h.phase # "Sweep"
    BY <1>4, LiveFacts DEF White
  <2>3. h.gray \in SUBSET Objects /\ h.color \in [Objects -> Colors] /\ h.capacity \in Nat
    BY <1>1, HeapFields
  <2>4. h.gray \cup {child} \in SUBSET Objects /\ [h.color EXCEPT ![child] = "Gray"] \in [Objects -> Colors]
    BY <2>2, <2>3 DEF Colors
  <2>5. /\ q \in HeapOf /\ Same(h, q) /\ q.gray = h.gray \cup {child} /\ q.capacity = h.capacity
        /\ q.color = [h.color EXCEPT ![child] = "Gray"]
    BY <1>1, <2>4 DEF HeapOf, Same
  <2> HIDE DEF g, q, Due, Full
  <2>6. \A x \in Objects : q.color[x] = IF x = child THEN "Gray" ELSE h.color[x]
    BY <2>3, <2>5
  <2>7. q.body = h.body /\ Live(q) = Live(h) /\ \A x : Inner(q, x) = Inner(h, x)
    BY <2>5, SameBodies DEF Same
  <2>8. White(q) = White(h) \ {child} /\ Live(h) \subseteq Objects
    BY <2>6, <2>7, LiveFacts DEF White
  <2>9. GrayOK(q)
    BY <1>1, <2>2, <2>5, <2>6, <2>7, <2>8 DEF GrayOK
  <2>10. Unscanned(q) \subseteq Unscanned(h) /\ Black(h) \subseteq Black(q)
    BY <2>2, <2>5, <2>6, <2>7, <2>8 DEF Unscanned, Black
  <2>11. AllQueued(h) => AllQueued(q)
    BY <2>5, <2>6, <2>7, <2>8 DEF AllQueued
  <2>12. Tri(h) => Tri(q)
    BY <2>6, <2>7, <2>8 DEF Tri
  <2>13. Recolored(h, q)
    BY <2>3, <2>5, <2>8, <2>9, <2>10, <2>11, <2>12 DEF Recolored
  <2>14. Good(q, hold, c, k, K)
    BY <2>2, <2>13, GoodRecolored
  <2>15. q.body = h.body /\ q.pool = h.pool /\ q.pending = h.pending /\ q.finalized = h.finalized
    BY <2>5 DEF Same
  <2>. QED BY <2>1, <2>8, <2>14, <2>15 DEF g
<1>. QED BY <1>2, <1>3, <1>4

OpenIn(h) ==
    /\ open \in [Slots -> MaybeObject]
    /\ \A s \in Slots : open[s] # Null => h.body[open[s]] = OpenUpvalue(s)

LEMMA CloseSlotLemma ==
    ASSUME NEW h, NEW hold, NEW c, NEW k, NEW K, Good(h, hold, c, k, K), StackOK,
           NEW s \in Slots, open[s] \in Objects, stack[s] \in hold, h.body[open[s]] = OpenUpvalue(s)
    PROVE  /\ \E j : Good(CloseSlot(h, s), hold, c, j, K)
           /\ CloseSlot(h, s).body = [h.body EXCEPT ![open[s]] = ClosedUpvalue(stack[s])]
           /\ CloseSlot(h, s).pool = h.pool /\ CloseSlot(h, s).pending = h.pending
           /\ CloseSlot(h, s).finalized = h.finalized
<1> DEFINE u == open[s]
           v == stack[s]
           b == ClosedUpvalue(v)
           w == writeBarrierDeferredNoexcept(h, u, v)
           g == CloseSlot(h, s)
<1>1. u \in Objects /\ u # Null /\ v \in MaybeObject /\ v \in hold /\ h.body[u] = OpenUpvalue(s)
  BY ObjectListAssumption DEF StackOK
<1>2. g = [w EXCEPT !.body[u] = b]
  BY <1>1 DEF CloseSlot
<1>3. /\ \E j : Good(w, hold, c, j, K)
      /\ w.body = h.body /\ w.pool = h.pool /\ w.pending = h.pending /\ w.finalized = h.finalized
      /\ Marking(w) /\ w.color[u] = "Black" => v \notin White(w)
  <2> HIDE DEF u, v
  <2>. QED BY DeferredLemma
<1>4. PICK j : Good(w, hold, c, j, K)
  BY <1>3
<1> HIDE DEF w, g, u, v
<1>5. w \in HeapOf /\ Counted(w) /\ Keeps(w, hold, K) /\ w.body[u] = OpenUpvalue(s)
  BY <1>1, <1>3, <1>4 DEF Good, Sound
<1>6. u \in Live(w) /\ w.body[u] \in Links /\ getSize(w.body[u]) = 1
  <2>1. w.body[u] \in Bodies
    BY <1>1, <1>5, HeapFields
  <2>. QED BY <1>1, <1>5, <2>1 DEF Live, Is, OpenUpvalue, Links, getSize
<1>7. b \in Links /\ getSize(b) = 1 /\ b \in Bodies
  BY <1>1 DEF ClosedUpvalue, Links, Bodies, getSize, MaybeObject
<1>8. w.accounted[u] = 1 /\ w.accounted \in [Objects -> Int] /\ w.total \in Int /\ w.body \in [Objects -> Bodies]
  BY <1>5, <1>6, HeapFields DEF Counted
<1> HIDE DEF b
<1>9. IsRebodied(w, g, u, b)
  <2>1. [w.body EXCEPT ![u] = b] \in [Objects -> Bodies]
    BY <1>7, <1>8
  <2>2. [w.accounted EXCEPT ![u] = 1] = w.accounted /\ w.total = w.total + 1 - 1
    BY <1>1, <1>8
  <2>3. g \in HeapOf
    BY <1>2, <1>5, <2>1 DEF HeapOf
  <2>4. /\ g.body = [w.body EXCEPT ![u] = b] /\ g.accounted = w.accounted /\ g.total = w.total
        /\ g.next = w.next /\ g.head = w.head /\ g.count = w.count /\ g.phase = w.phase
        /\ g.current = w.current /\ g.previous = w.previous /\ g.pending = w.pending
        /\ g.finalized = w.finalized /\ g.pool = w.pool
        /\ g.color = w.color /\ g.gray = w.gray /\ g.capacity = w.capacity
    BY <1>2, <1>5 DEF HeapOf
  <2>. QED BY <1>6, <1>7, <2>2, <2>3, <2>4 DEF IsRebodied
<1>10. Inner(g, u) = {v} \ {Null}
  <2>1. g.body[u] = b
    BY <1>1, <1>8, <1>9 DEF IsRebodied
  <2>2. g.body[u].kind = "closed" /\ g.body[u].value = v
    BY <2>1 DEF b, ClosedUpvalue
  <2>. QED BY <2>2 DEF Inner, Refs, Is
<1>11. Inner(g, u) \subseteq K
  BY <1>1, <1>5, <1>10 DEF Keeps
<1>12. Marking(w) /\ w.color[u] = "Black" => Inner(g, u) \cap White(w) = {}
  BY <1>3, <1>10
<1>13. Good(g, hold, c, j, K)
  BY ONLY <1>4, <1>6, <1>7, <1>9, <1>11, <1>12, RebodyGood
<1>14. g.body = [h.body EXCEPT ![u] = b] /\ g.pool = h.pool /\ g.pending = h.pending /\ g.finalized = h.finalized
  BY <1>3, <1>9 DEF IsRebodied
<1>. QED BY <1>13, <1>14 DEF g, u, v, b

LEMMA CloseSlotType ==
    ASSUME StackOK, open \in [Slots -> MaybeObject], NEW h \in HeapOf, NEW s \in Slots
    PROVE  CloseSlot(h, s) \in HeapOf
<1> DEFINE u == open[s]
           v == stack[s]
           w == writeBarrierDeferredNoexcept(h, u, v)
<1>1. CASE u = Null
  BY <1>1 DEF CloseSlot
<1>2. CASE u # Null
  <2>1. u \in Objects /\ v \in MaybeObject
    BY <1>2 DEF MaybeObject, StackOK
  <2>2. CloseSlot(h, s) = [w EXCEPT !.body[u] = ClosedUpvalue(v)]
    BY <1>2 DEF CloseSlot
  <2>3. w \in HeapOf
    <3>1. resetIncrementalCycle(h) \in HeapOf
      BY ResetFields
    <3>2. v # Null /\ v \in White(h) => [h EXCEPT !.gray = @ \cup {v}, !.color[v] = "Gray"] \in HeapOf
      <4>1. ASSUME v \in White(h) PROVE [h EXCEPT !.gray = @ \cup {v}, !.color[v] = "Gray"] \in HeapOf
        <5>1. v \in Objects
          BY <4>1, LiveFacts
        <5>2. h.gray \cup {v} \in SUBSET Objects /\ [h.color EXCEPT ![v] = "Gray"] \in [Objects -> Colors]
          BY <5>1, HeapFields DEF Colors
        <5> HIDE DEF v
        <5>. QED BY <5>2 DEF HeapOf
      <4>. QED BY <4>1
    <3> HIDE DEF u, v
    <3>. QED BY <3>1, <3>2 DEF writeBarrierDeferredNoexcept
  <2> HIDE DEF w, u, v
  <2>4. ClosedUpvalue(v) \in Bodies
    BY <2>1 DEF ClosedUpvalue, Bodies, MaybeObject
  <2>5. [w.body EXCEPT ![u] = ClosedUpvalue(v)] \in [Objects -> Bodies]
    BY <2>3, <2>4, HeapFields
  <2>6. [w EXCEPT !.body[u] = ClosedUpvalue(v)] \in HeapOf
    BY <2>3, <2>5 DEF HeapOf
  <2>. QED BY <2>2, <2>6
<1>. QED BY <1>1, <1>2

ClosedAt(h, i, level) ==
    IF StackSize + 1 - i >= level THEN CloseSlot(h, StackSize + 1 - i) ELSE h

IsClosing(m, h, level) ==
    /\ m \in [0 .. StackSize -> HeapOf] /\ Closed(h, level) = m[StackSize] /\ m[0] = h
    /\ \A i \in 1 .. StackSize : m[i] = ClosedAt(m[i - 1], i, level)

LEMMA ClosedLoop ==
    ASSUME StackOK, open \in [Slots -> MaybeObject], NEW h \in HeapOf, NEW level \in Nat
    PROVE  \E m : IsClosing(m, h, level)
<1> DEFINE N == StackSize
           V == HeapOf
           Turn(i, t) == ClosedAt(t, i, level)
           step == [x \in Nat \X V |-> IF x[1] + 1 \in 1 .. N THEN Turn(x[1] + 1, x[2]) ELSE x[2]]
           Loop(f) == [i \in 0 .. N |-> IF i = 0 THEN h ELSE Turn(i, f[i - 1])]
           m == CHOOSE f : f = Loop(f)
<1>1. N \in Nat /\ h \in V
  BY ObjectListAssumption
<1>2. ASSUME NEW i \in 1 .. N, NEW t \in V PROVE Turn(i, t) \in V
  <2>1. N + 1 - i \in Slots
    BY <1>1 DEF Slots
  <2>. QED BY <2>1, CloseSlotType DEF ClosedAt
<1>3. IsStep(step, V)
  <2> HIDE DEF Turn, V, N
  <2>. QED BY <1>2 DEF IsStep
<1>4. PICK g : IsLoop(g, N, V, h, step)
  <2> HIDE DEF step, V, N
  <2>. QED BY ONLY <1>1, <1>3, LoopExists
<1>5. /\ g \in [0 .. N -> V] /\ g[0] = h
      /\ \A i \in 1 .. N : g[i] = step[<<i - 1, g[i - 1]>>]
  <2> HIDE DEF step, V, N
  <2>. QED BY <1>4 DEF IsLoop
<1>6. \A i \in 1 .. N : g[i] = Turn(i, g[i - 1])
  <2> HIDE DEF Turn, V
  <2>1. ASSUME NEW i \in 1 .. N PROVE g[i] = Turn(i, g[i - 1])
    <3>1. i - 1 \in Nat /\ i - 1 \in 0 .. N /\ (i - 1) + 1 = i
      BY <1>1
    <3>. QED BY <1>5, <3>1
  <2>. QED BY <2>1
<1>7. g = Loop(g)
  <2> HIDE DEF Turn, V, N
  <2>. QED BY <1>1, <1>5, <1>6
<1>8. m = Loop(m)
  <2> HIDE DEF Loop
  <2>. QED BY <1>7
<1>9. Closed(h, level) = m[N]
  BY Zenon DEF Closed, ClosedAt
<1> HIDE DEF m
<1>10. DOMAIN m = 0 .. N /\ m[0] = h /\ \A i \in 1 .. N : m[i] = Turn(i, m[i - 1])
  <2> HIDE DEF Turn, N
  <2>. QED BY <1>1, <1>8
<1>11. \A i \in 0 .. N : m[i] \in V
  <2> DEFINE T == {i \in 0 .. N : m[i] \in V}
  <2>1. 0 \in T
    <3> HIDE DEF V, N
    <3>. QED BY <1>1, <1>10
  <2>2. ASSUME NEW i \in 1 .. N, i - 1 \in T PROVE i \in T
    <3> HIDE DEF Turn, V
    <3>. QED BY <1>1, <1>2, <1>10, <2>2
  <2>3. 0 .. N \subseteq T
    <3> HIDE DEF T, N
    <3>. QED BY ONLY <1>1, <2>1, <2>2, LoopInduct
  <2>. QED BY <2>3
<1>12. m = [i \in 0 .. N |-> m[i]]
  BY <1>8, <1>10
<1>13. m \in [0 .. N -> V]
  BY <1>11, <1>12
<1>14. IsClosing(m, h, level)
  BY <1>9, <1>10, <1>13 DEF IsClosing
<1>. QED BY <1>14

\* The upvalues of the slots above n, from a level on, have been closed.
ClosedAbove(h, g, level, n) ==
    /\ g.pool = h.pool /\ g.pending = h.pending /\ g.finalized = h.finalized
    /\ \A o \in Objects :
        \/ g.body[o] = h.body[o]
        \/ g.body[o].kind = "closed" /\ \E s \in Slots : s >= level /\ s > n /\ open[s] = o
    /\ \A s \in Slots : s >= level /\ s > n /\ open[s] # Null => g.body[open[s]] = ClosedUpvalue(stack[s])

LEMMA ClosedLemma ==
    ASSUME NEW h, NEW hold, NEW c, NEW k, NEW K, Good(h, hold, c, k, K), StackOK, OpenIn(h),
           \A s \in Slots : stack[s] \in hold, NEW level \in Nat
    PROVE  (\E j : Good(Closed(h, level), hold, c, j, K)) /\ ClosedAbove(h, Closed(h, level), level, 0)
<1> DEFINE N == StackSize
<1>1. h \in HeapOf /\ N \in Nat /\ Slots = 1 .. N
  BY ObjectListAssumption DEF Good, Sound, Slots
<1>2. open \in [Slots -> MaybeObject] /\ \A s \in Slots : open[s] # Null => h.body[open[s]] = OpenUpvalue(s)
  BY DEF OpenIn
<1>3. PICK m : IsClosing(m, h, level)
  BY <1>1, <1>2, ClosedLoop
<1>4. /\ m \in [0 .. N -> HeapOf] /\ Closed(h, level) = m[N] /\ m[0] = h
      /\ \A i \in 1 .. N : m[i] = ClosedAt(m[i - 1], i, level)
  BY <1>3 DEF IsClosing
<1> DEFINE Fine(i) == (\E j : Good(m[i], hold, c, j, K)) /\ ClosedAbove(h, m[i], level, N - i)
           T == {i \in 0 .. N : Fine(i)}
<1> HIDE DEF N
<1>5. 0 \in T
  <2>1. ClosedAbove(h, h, level, N - 0)
    <3>1. \A s \in Slots : ~(s > N - 0)
      BY <1>1
    <3>. QED BY <3>1 DEF ClosedAbove
  <2>2. Fine(0)
    BY <1>4, <2>1
  <2>. QED BY <1>1, <2>2
<1>6. ASSUME NEW i \in 1 .. N, i - 1 \in T PROVE i \in T
  <2> DEFINE g == m[i - 1]
             s == N + 1 - i
             u == open[s]
             f == CloseSlot(g, s)
  <2>0. /\ i - 1 \in 0 .. N /\ i \in 0 .. N /\ N - (i - 1) = s /\ N - i = s - 1 /\ s \in 1 .. N /\ s \in Slots
        /\ s \in Int /\ s - 1 \in Int
    BY <1>1
  <2>1. PICK j : Good(g, hold, c, j, K)
    BY <1>6
  <2>2. ClosedAbove(h, g, level, s)
    BY <1>6, <2>0
  <2>3. m[i] = IF s >= level THEN f ELSE g
    BY <1>4 DEF ClosedAt, N
  <2>4. \A o \in Objects : g.body[o] = h.body[o] \/
           (g.body[o].kind = "closed" /\ \E t \in Slots : t >= level /\ t > s /\ open[t] = o)
    BY <2>2 DEF ClosedAbove
  <2> HIDE DEF g, s, f, u
  <2>5. \A o \in Objects : g.body[o] = h.body[o] \/
           (g.body[o].kind = "closed" /\ \E t \in Slots : t >= level /\ t > s - 1 /\ open[t] = o)
    <3>1. \A t \in Slots : t > s => t > s - 1
      BY <1>1, <2>0
    <3>. QED BY <2>4, <3>1
  <2>8. ASSUME NEW t \in Slots, t >= level, t > s, open[t] # Null PROVE g.body[open[t]] = ClosedUpvalue(stack[t])
    BY <2>2, <2>8 DEF ClosedAbove
  <2>9. ASSUME NEW t \in Slots, t > s - 1, t # s PROVE t > s
    BY <1>1, <2>0, <2>9
  <2>6. CASE ~(s >= level) \/ u = Null
    <3>1. m[i] = g
      BY <2>3, <2>6 DEF CloseSlot, f, u
    <3>3. ASSUME NEW t \in Slots, t >= level, t > s - 1, open[t] # Null PROVE g.body[open[t]] = ClosedUpvalue(stack[t])
      <4>1. t # s
        BY <2>6, <3>3 DEF u
      <4>. QED BY <2>8, <2>9, <3>3, <4>1
    <3>4. ClosedAbove(h, g, level, s - 1)
      BY <2>2, <2>5, <3>3 DEF ClosedAbove
    <3>2. Fine(i)
      BY <2>0, <2>1, <3>1, <3>4
    <3>. QED BY <2>0, <3>2
  <2>7. CASE s >= level /\ u # Null
    <3>1. u \in Objects /\ h.body[u] = OpenUpvalue(s)
      BY <1>2, <2>0, <2>7 DEF u, MaybeObject
    <3>2. g.body[u] = OpenUpvalue(s)
      <4>1. ASSUME NEW t \in Slots, t > s, open[t] = u PROVE FALSE
        <5>1. h.body[u] = OpenUpvalue(t)
          BY <1>2, <2>7, <4>1
        <5>2. t = s
          BY <3>1, <5>1 DEF OpenUpvalue
        <5>. QED BY <2>0, <4>1, <5>2
      <4>. QED BY <2>4, <3>1, <4>1
    <3>3. /\ \E l : Good(f, hold, c, l, K)
          /\ f.body = [g.body EXCEPT ![u] = ClosedUpvalue(stack[s])]
          /\ f.pool = g.pool /\ f.pending = g.pending /\ f.finalized = g.finalized
      BY <2>0, <2>1, <3>1, <3>2, CloseSlotLemma DEF f, u
    <3>4. g.body \in [Objects -> Bodies]
      BY <2>1, HeapFields DEF Good, Sound
    <3>5. ClosedAbove(h, f, level, s - 1)
      <4>1. f.pool = h.pool /\ f.pending = h.pending /\ f.finalized = h.finalized
        BY <2>2, <3>3 DEF ClosedAbove
      <4>2. ASSUME NEW o \in Objects
            PROVE  \/ f.body[o] = h.body[o]
                   \/ f.body[o].kind = "closed" /\ \E t \in Slots : t >= level /\ t > s - 1 /\ open[t] = o
        <5>1. CASE o = u
          <6>1. f.body[o] = ClosedUpvalue(stack[s])
            BY <3>1, <3>3, <3>4, <5>1
          <6>2. f.body[o].kind = "closed" /\ s > s - 1
            BY <2>0, <6>1 DEF ClosedUpvalue
          <6>. QED BY <2>0, <2>7, <5>1, <6>2 DEF u
        <5>2. CASE o # u
          <6>1. f.body[o] = g.body[o]
            BY <3>3, <3>4, <5>2
          <6>2. \/ g.body[o] = h.body[o]
                \/ g.body[o].kind = "closed" /\ \E t \in Slots : t >= level /\ t > s - 1 /\ open[t] = o
            BY <2>5
          <6>. QED BY <6>1, <6>2
        <5>. QED BY <5>1, <5>2
      <4>3. ASSUME NEW t \in Slots, t >= level, t > s - 1, open[t] # Null
            PROVE  f.body[open[t]] = ClosedUpvalue(stack[t])
        <5>1. CASE t = s
          BY <3>1, <3>3, <3>4, <5>1 DEF u
        <5>2. CASE t # s
          <6>1. t > s /\ g.body[open[t]] = ClosedUpvalue(stack[t])
            BY <2>8, <2>9, <4>3, <5>2
          <6>2. open[t] \in Objects
            BY <1>2, <4>3 DEF MaybeObject
          <6>3. open[t] # u
            BY <3>2, <6>1 DEF OpenUpvalue, ClosedUpvalue
          <6>. QED BY <3>3, <3>4, <6>1, <6>2, <6>3
        <5>. QED BY <5>1, <5>2
      <4>. QED BY <4>1, <4>2, <4>3 DEF ClosedAbove
    <3>6. Fine(i)
      BY <2>0, <2>3, <2>7, <3>3, <3>5
    <3>. QED BY <2>0, <3>6
  <2>. QED BY <2>6, <2>7
<1>7. 0 .. N \subseteq T
  <2> HIDE DEF T
  <2>. QED BY ONLY <1>1, <1>5, <1>6, LoopInduct
<1>8. N \in 0 .. N /\ N - N = 0
  BY <1>1
<1>9. Fine(N)
  BY <1>7, <1>8
<1>. QED BY <1>4, <1>8, <1>9

-----------------------------------------------------------------------------
(***************************************************************************)
(* A cycle: it begins with everything white and ends with what is reached  *)
(* black.                                                                  *)
(***************************************************************************)

IsWhitened(h, w) ==
    /\ w \in HeapOf /\ w.body = h.body /\ w.next = h.next /\ w.accounted = h.accounted
    /\ w.head = h.head /\ w.count = h.count /\ w.total = h.total /\ w.pending = h.pending
    /\ w.finalized = h.finalized /\ w.pool = h.pool
    /\ w.phase = "Pause" /\ w.current = Null /\ w.previous = Null /\ w.gray = {}
    /\ w.capacity = Reserve(h) /\ \A o \in Objects : w.color[o] = "White"

LEMMA WhitenedFields ==
    ASSUME NEW h, Sound(h), NEW w, w = Whitened([h EXCEPT !.phase = "Pause", !.capacity = Reserve(h)])
    PROVE  IsWhitened(h, w)
<1> DEFINE r == [h EXCEPT !.phase = "Pause", !.capacity = Reserve(h)]
<1>1. h \in HeapOf /\ h.count \in Nat /\ h.capacity \in Nat
  <2>1. Cardinality(Live(h)) \in Nat
    BY LiveFacts
  <2>. QED BY <2>1, HeapFields DEF Sound, Counted
<1>2. Reserve(h) \in Nat
  BY <1>1 DEF Reserve
<1>3. /\ r \in HeapOf /\ r.phase = "Pause" /\ r.capacity = Reserve(h)
      /\ r.body = h.body /\ r.next = h.next /\ r.accounted = h.accounted
      /\ r.head = h.head /\ r.count = h.count /\ r.total = h.total /\ r.pending = h.pending
      /\ r.finalized = h.finalized /\ r.pool = h.pool
  BY <1>1, <1>2 DEF HeapOf, Phases
<1>4. w = Whitened(r)
  OBVIOUS
<1> HIDE DEF r
<1>5. w = [r EXCEPT !.color = [o \in Objects |-> "White"], !.gray = {}, !.current = Null, !.previous = Null]
  BY <1>4 DEF Whitened
<1>6. [o \in Objects |-> "White"] \in [Objects -> Colors]
  BY DEF Colors
<1>7. w \in HeapOf
  BY <1>3, <1>5, <1>6 DEF HeapOf, MaybeObject
<1>8. /\ w.body = r.body /\ w.next = r.next /\ w.accounted = r.accounted
      /\ w.head = r.head /\ w.count = r.count /\ w.total = r.total /\ w.pending = r.pending
      /\ w.finalized = r.finalized /\ w.pool = r.pool
      /\ w.phase = r.phase /\ w.current = Null /\ w.previous = Null /\ w.gray = {}
      /\ w.capacity = r.capacity /\ w.color = [o \in Objects |-> "White"]
  BY <1>3, <1>5 DEF HeapOf
<1>. QED BY <1>3, <1>7, <1>8 DEF IsWhitened

LEMMA WhitenedFacts ==
    ASSUME NEW h, Sound(h), NEW w, IsWhitened(h, w), NEW c, IsList(h, c)
    PROVE  /\ Sound(w) /\ AllQueued(w) /\ Tri(w) /\ Cardinality(Unscanned(w)) <= w.capacity
           /\ IsList(w, c) /\ Live(w) = Live(h) /\ \A hold, K : Keeps(h, hold, K) => Keeps(w, hold, K)
<1>1. w.body = h.body
  BY DEF IsWhitened
<1>2. Live(w) = Live(h) /\ Big(w) = Big(h) /\ (\A o : Inner(w, o) = Inner(h, o)) /\ Live(h) \subseteq Objects
  BY <1>1, SameBodies, LiveFacts
<1>3. Counted(w) /\ QueueOK(w) /\ IsList(w, c) /\ \A hold, K : Keeps(h, hold, K) => Keeps(w, hold, K)
  BY <1>2 DEF IsWhitened, Sound, Counted, QueueOK, IsList, Keeps
<1>4. ColorOK(w)
  BY DEF IsWhitened, ColorOK, GrayOK, Marking
<1>5. Sound(w)
  BY <1>3, <1>4 DEF IsWhitened, Sound
<1>6. AllQueued(w) /\ Tri(w)
  BY <1>2 DEF IsWhitened, AllQueued, Tri
<1>7. Unscanned(w) \subseteq Live(w)
  BY DEF IsWhitened, Unscanned, White
<1>8. Cardinality(Unscanned(w)) <= w.capacity
  <2>1. Live(w) \in SUBSET Objects /\ Unscanned(w) \in SUBSET Live(w) /\ Unscanned(w) \in SUBSET Objects
    BY <1>2, <1>7
  <2>2. Cardinality(Unscanned(w)) <= Cardinality(Live(w))
    BY <2>1, CardinalitySubset
  <2>3. Cardinality(Live(w)) \in Nat /\ Cardinality(Unscanned(w)) \in Nat
    BY <2>1, LiveFacts
  <2>4. h.count = Cardinality(Live(w)) /\ h.capacity \in Nat /\ w.capacity = IF h.count > h.capacity THEN h.count ELSE h.capacity
    BY <1>2, HeapFields DEF Sound, Counted, IsWhitened, Reserve
  <2>. QED BY <2>2, <2>3, <2>4
<1>. QED BY <1>2, <1>3, <1>5, <1>6, <1>8

LEMMA BeginLemma ==
    ASSUME NEW hold, NEW c, NEW k, NEW K, Good(heap, hold, c, k, K), heap.phase = "Pause"
    PROVE  LET g == beginIncrementalMark(heap)
           IN  /\ Good(g, hold, c, 0, K) /\ g.body = heap.body /\ g.pool = heap.pool
               /\ g.pending = heap.pending /\ g.finalized = heap.finalized
<1> DEFINE h == heap
           w == Whitened([h EXCEPT !.phase = "Pause", !.capacity = Reserve(h)])
           m == markObject(w, Roots)
           g == beginIncrementalMark(h)
<1>1. h \in HeapOf /\ Sound(h) /\ IsList(h, c) /\ Keeps(h, hold, K)
  BY DEF Good, Sound
<1>2. [h EXCEPT !.phase = "Pause", !.capacity = Reserve(h)] = [h EXCEPT !.capacity = Reserve(h)]
  BY <1>1 DEF HeapOf
<1>3. g = [m EXCEPT !.phase = "Propagate"]
  BY <1>2 DEF beginIncrementalMark
<1>4. IsWhitened(h, w)
  BY <1>1, WhitenedFields
<1> HIDE DEF h, w, m, g
<1>5. /\ Sound(w) /\ AllQueued(w) /\ Tri(w) /\ Cardinality(Unscanned(w)) <= w.capacity
      /\ IsList(w, c) /\ Keeps(w, hold, K) /\ w \in HeapOf /\ GrayOK(w) /\ w.phase = "Pause"
  BY <1>1, <1>4, WhitenedFacts DEF Sound, ColorOK, IsWhitened
<1>6. Recolored(w, m)
  BY ONLY <1>5, MarkLemma DEF m
<1>7. m \in HeapOf /\ Same(w, m) /\ AllQueued(m) /\ Tri(m) /\ m.phase = "Pause"
  BY <1>5, <1>6 DEF Recolored, Same
<1>8. Sound(m)
  BY ONLY <1>5, <1>6, <1>7, SoundRecolored
<1>9. IsList(m, c) /\ Keeps(m, hold, K)
  BY <1>5, <1>7, SameKeeps
<1>10. /\ g \in HeapOf /\ g.phase = "Propagate"
       /\ g.body = m.body /\ g.next = m.next /\ g.accounted = m.accounted /\ g.head = m.head
       /\ g.count = m.count /\ g.total = m.total /\ g.current = m.current /\ g.previous = m.previous
       /\ g.gray = m.gray /\ g.capacity = m.capacity /\ g.pending = m.pending
       /\ g.finalized = m.finalized /\ g.pool = m.pool /\ g.color = m.color
  BY <1>3, <1>7 DEF HeapOf, Phases
<1>11. Live(g) = Live(m) /\ Big(g) = Big(m) /\ \A o : Inner(g, o) = Inner(m, o)
  BY <1>10, SameBodies
<1>12. Counted(g) /\ QueueOK(g) /\ IsList(g, c) /\ Keeps(g, hold, K)
  BY <1>8, <1>9, <1>10, <1>11 DEF Sound, Counted, QueueOK, IsList, Keeps
<1>13. ColorOK(g)
  <2>1. GrayOK(g) /\ AllQueued(g) /\ Tri(g) /\ White(g) = White(m)
    BY <1>7, <1>8, <1>10, <1>11 DEF Sound, ColorOK, GrayOK, AllQueued, Tri, White
  <2>2. Unscanned(g) = Unscanned(m) /\ Unscanned(m) \subseteq Unscanned(w) /\ w.capacity <= g.capacity
    BY <1>6, <1>10, <2>1 DEF Unscanned, Recolored
  <2>3. Unscanned(g) \in SUBSET Unscanned(w) /\ Unscanned(w) \in SUBSET Objects /\ Unscanned(g) \in SUBSET Objects
    BY <1>5, <2>2, UnscannedObjects
  <2>4. Cardinality(Unscanned(g)) <= Cardinality(Unscanned(w))
    BY <2>3, CardinalitySubset
  <2>5. Cardinality(Unscanned(g)) \in Nat /\ Cardinality(Unscanned(w)) \in Nat /\ w.capacity \in Nat /\ g.capacity \in Nat
    BY <1>5, <1>10, <2>3, LiveFacts, HeapFields
  <2>6. Cardinality(Unscanned(g)) <= g.capacity
    BY <1>5, <2>2, <2>4, <2>5
  <2>. QED BY <1>10, <2>1, <2>6 DEF ColorOK
<1>14. Sound(g)
  BY <1>10, <1>12, <1>13 DEF Sound
<1>15. Cursor(g, c, 0)
  <2>1. g.current = Null /\ g.previous = Null
    BY <1>4, <1>7, <1>10 DEF Same, IsWhitened
  <2>. QED BY <1>10, <1>12, <2>1, ListFacts DEF Cursor
<1>16. Good(g, hold, c, 0, K)
  BY <1>10, <1>12, <1>14, <1>15 DEF Good
<1>17. g.body = h.body /\ g.pool = h.pool /\ g.pending = h.pending /\ g.finalized = h.finalized
  BY <1>4, <1>7, <1>10 DEF Same, IsWhitened
<1>. QED BY <1>16, <1>17 DEF g, h

LEMMA ConcatFacts ==
    ASSUME NEW s \in Seq(Objects), NEW t \in Seq(Objects)
    PROVE  /\ s \o t \in Seq(Objects) /\ Range(s \o t) = Range(s) \cup Range(t)
           /\ OneEach(s) /\ OneEach(t) /\ Range(s) \cap Range(t) = {} => OneEach(s \o t)
<1> DEFINE u == s \o t
           n == Len(s)
           m == Len(t)
<1>1. u \in Seq(Objects) /\ n \in Nat /\ m \in Nat /\ Len(u) = n + m
  OBVIOUS
<1>2. /\ Range(s) = {s[i] : i \in 1 .. n} /\ Range(t) = {t[i] : i \in 1 .. m}
      /\ Range(u) = {u[i] : i \in 1 .. Len(u)}
  BY <1>1, SeqFacts
<1>3. \A i \in 1 .. n : u[i] = s[i]
  OBVIOUS
<1>4. \A i \in 1 .. m : u[n + i] = t[i]
  OBVIOUS
<1> HIDE DEF u, n, m
<1>5. ASSUME NEW i \in 1 .. Len(u)
      PROVE  (i \in 1 .. n /\ u[i] = s[i]) \/ (i - n \in 1 .. m /\ u[i] = t[i - n] /\ i > n)
  <2>1. CASE i <= n
    <3>1. i \in 1 .. n
      BY <1>1, <2>1
    <3>. QED BY <1>3, <3>1
  <2>2. CASE ~(i <= n)
    <3>1. i - n \in 1 .. m /\ n + (i - n) = i /\ i > n
      BY <1>1, <2>2
    <3>2. u[n + (i - n)] = t[i - n]
      BY ONLY <1>4, <3>1
    <3>. QED BY <3>1, <3>2
  <2>. QED BY <2>1, <2>2
<1>6. Range(u) = Range(s) \cup Range(t)
  <2>1. Range(u) \subseteq Range(s) \cup Range(t)
    BY <1>2, <1>5
  <2>2. ASSUME NEW i \in 1 .. n PROVE s[i] \in Range(u)
    <3>1. i \in 1 .. Len(u)
      BY <1>1
    <3>. QED BY <1>2, <1>3, <3>1
  <2>3. ASSUME NEW i \in 1 .. m PROVE t[i] \in Range(u)
    <3>1. n + i \in 1 .. Len(u)
      BY <1>1
    <3>. QED BY <1>2, <1>4, <3>1
  <2>. QED BY <1>2, <2>1, <2>2, <2>3
<1>7. ASSUME OneEach(s), OneEach(t), Range(s) \cap Range(t) = {} PROVE OneEach(u)
  <2>1. ASSUME NEW i \in 1 .. Len(u), NEW j \in 1 .. Len(u), u[i] = u[j] PROVE i = j
    <3>1. (i \in 1 .. n /\ u[i] = s[i]) \/ (i - n \in 1 .. m /\ u[i] = t[i - n] /\ i > n)
      BY <1>5
    <3>2. (j \in 1 .. n /\ u[j] = s[j]) \/ (j - n \in 1 .. m /\ u[j] = t[j - n] /\ j > n)
      BY <1>5
    <3>3. \A p \in 1 .. n, q \in 1 .. m : s[p] # t[q]
      BY <1>2, <1>7
    <3>4. (\A p, q \in 1 .. n : s[p] = s[q] => p = q) /\ (\A p, q \in 1 .. m : t[p] = t[q] => p = q)
      BY <1>7 DEF OneEach, n, m
    <3>5. CASE i \in 1 .. n /\ u[i] = s[i]
      BY <2>1, <3>2, <3>3, <3>4, <3>5
    <3>6. CASE i - n \in 1 .. m /\ u[i] = t[i - n] /\ i > n
      <4>1. j - n \in 1 .. m /\ u[j] = t[j - n]
        BY <2>1, <3>2, <3>3, <3>6
      <4>2. i - n = j - n
        BY <2>1, <3>4, <3>6, <4>1
      <4>. QED BY <1>1, <4>2
    <3>. QED BY <3>1, <3>5, <3>6
  <2>. QED BY <2>1 DEF OneEach
<1>. QED BY <1>1, <1>6, <1>7 DEF u

\* The userdata of D were queued for their finalizers.
IsQueued(h, g, D) ==
    /\ g.body = h.body /\ g.pool = h.pool /\ D \cap h.finalized = {}
    /\ g.pending \in Seq(Objects) /\ Range(g.pending) = Range(h.pending) \cup D
    /\ OneEach(g.pending) /\ g.finalized = h.finalized \cup D
    /\ D \subseteq Live(h) /\ \A o \in D : Is(h, o, "userdata")
    /\ g.next = h.next /\ g.accounted = h.accounted /\ g.head = h.head
    /\ g.count = h.count /\ g.total = h.total /\ g.phase = h.phase /\ g.current = h.current
    /\ g.previous = h.previous

LEMMA PrepareLemma ==
    ASSUME NEW h, Sound(h), h.phase # "Sweep", NEW c, IsList(h, c), NEW D,
           D = {o \in White(h) \ h.finalized : Is(h, o, "userdata")}
    PROVE  LET g == prepareFinalizers(h)
           IN  /\ g \in HeapOf /\ IsQueued(h, g, D) /\ GrayOK(g) /\ White(g) = White(h) \ D
               /\ AllQueued(h) => AllQueued(g)
               /\ Tri(h) => Tri(g)
<1> DEFINE due == Selected(c, D)
           q == [h EXCEPT !.pending = @ \o due, !.finalized = @ \cup Range(due)]
           m == markObject(q, Range(due))
           g == prepareFinalizers(h)
<1>1. Chain(h) = c
  BY ChainIsList
<1>2. g = m
  BY <1>1 DEF prepareFinalizers
<1>3. h \in HeapOf /\ GrayOK(h) /\ QueueOK(h) /\ c \in Seq(Objects) /\ Range(c) = Live(h) /\ OneEach(c)
  BY ListFacts DEF Sound, ColorOK
<1>4. D \subseteq Live(h) /\ Live(h) \subseteq Objects /\ D \cap h.finalized = {} /\ D \subseteq White(h)
  BY LiveFacts
<1>5. due \in Seq(Objects) /\ Range(due) = D /\ OneEach(due)
  BY <1>3, <1>4, SelectedFacts
<1>6. h.pending \in Seq(Objects) /\ h.finalized \in SUBSET Objects
  BY <1>3, HeapFields
<1>7. OneEach(h.pending) /\ Range(h.pending) \subseteq h.finalized
  BY <1>3 DEF QueueOK, OneEach
<1> HIDE DEF due
<1>8. h.pending \o due \in Seq(Objects) /\ Range(h.pending \o due) = Range(h.pending) \cup D /\ OneEach(h.pending \o due)
  BY <1>4, <1>5, <1>6, <1>7, ConcatFacts
<1>9. /\ q \in HeapOf /\ q.pending = h.pending \o due /\ q.finalized = h.finalized \cup D
      /\ q.body = h.body /\ q.next = h.next /\ q.accounted = h.accounted /\ q.head = h.head
      /\ q.count = h.count /\ q.total = h.total /\ q.phase = h.phase /\ q.current = h.current
      /\ q.previous = h.previous /\ q.gray = h.gray /\ q.capacity = h.capacity
      /\ q.pool = h.pool /\ q.color = h.color
  <2>1. h.finalized \cup D \in SUBSET Objects
    BY <1>4, <1>6
  <2>. QED BY <1>3, <1>5, <1>8, <2>1 DEF HeapOf
<1> HIDE DEF q
<1>10. Live(q) = Live(h) /\ \A o : Inner(q, o) = Inner(h, o)
  BY <1>9, SameBodies
<1>11. GrayOK(q) /\ (AllQueued(h) => AllQueued(q)) /\ (Tri(h) => Tri(q)) /\ White(q) = White(h)
  BY <1>3, <1>9, <1>10 DEF GrayOK, AllQueued, Tri, White
<1>12. Recolored(q, m) /\ White(m) = White(q) \ D
  BY <1>5, <1>9, <1>11, MarkLemma
<1> HIDE DEF m
<1>13. /\ m \in HeapOf /\ GrayOK(m) /\ White(m) = White(h) \ D
       /\ AllQueued(h) => AllQueued(m)
       /\ Tri(h) => Tri(m)
  BY <1>11, <1>12 DEF Recolored
<1>14. IsQueued(h, m, D)
  BY <1>4, <1>8, <1>9, <1>12 DEF IsQueued, Recolored, Same
<1> HIDE DEF g
<1>. QED BY <1>2, <1>13, <1>14 DEF g

\* Marking from the roots leaves D and whatever leads to it.
Leaves(h, W) == Roots \cap W = {} /\ \A o \in Live(h) \ W : Inner(h, o) \cap W = {}
Unreached(h, D) == \E W : Leaves(h, W) /\ D \subseteq W

\* At the end of marking everything is black but what was not reached.
IsMarked(h, m, D) ==
    /\ Unreached(h, D)
    /\ m \in HeapOf /\ IsQueued(h, m, D) /\ m.gray = {} /\ AllQueued(m) /\ Tri(m)
    /\ Roots \cap White(m) = {} /\ D \cap White(m) = {}
    /\ \A o \in White(m) : Is(m, o, "userdata") => o \in m.finalized

LEMMA MarkedLemma ==
    ASSUME NEW h, Sound(h), h.phase # "Sweep", NEW c, IsList(h, c), AllQueued(h), Tri(h)
    PROVE  \E D : IsMarked(h, Marked(h), D)
<1> DEFINE a == markObject(h, Roots)
           b == propagateMarks(a, stack)
           p == prepareFinalizers(b)
           m == propagateMarks(p, stack)
           D == {o \in White(b) \ b.finalized : Is(b, o, "userdata")}
<1>1. Marked(h) = m
  BY DEF Marked
<1>2. h \in HeapOf /\ GrayOK(h)
  BY DEF Sound, ColorOK
<1>3. Recolored(h, a) /\ White(a) = White(h) \ Roots
  BY <1>2, MarkLemma
<1> HIDE DEF a
<1>4. a \in HeapOf /\ GrayOK(a)
  BY <1>3 DEF Recolored
<1>5. Recolored(a, b) /\ b.gray = {}
  BY <1>4, PropagateLemma
<1> HIDE DEF b
<1>6. Recolored(h, b)
  BY ONLY <1>2, <1>3, <1>5, RecoloredTrans
<1>7. Sound(b)
  BY ONLY Sound(h), <1>5, <1>6, SoundRecolored
<1>8. Same(h, b) /\ AllQueued(b) /\ Tri(b) /\ b.phase # "Sweep"
  BY <1>6 DEF Recolored, Same
<1>9. IsList(b, c)
  BY <1>8, SameKeeps
<1>d. D = {o \in White(b) \ b.finalized : Is(b, o, "userdata")}
  OBVIOUS
<1> HIDE DEF D, p
<1>10. /\ p \in HeapOf /\ IsQueued(b, p, D) /\ GrayOK(p) /\ White(p) = White(b) \ D
       /\ AllQueued(p) /\ Tri(p)
  BY <1>7, <1>8, <1>9, <1>d, PrepareLemma DEF p
<1>11. Recolored(p, m) /\ m.gray = {}
  BY <1>10, PropagateLemma
<1> HIDE DEF m
<1>12. /\ m \in HeapOf /\ AllQueued(m) /\ Tri(m) /\ White(m) \subseteq White(b) \ D /\ Same(p, m)
  BY <1>10, <1>11 DEF Recolored
<1>13. IsQueued(h, m, D)
  <2>1. Live(b) = Live(h) /\ \A o, kind : Is(b, o, kind) = Is(h, o, kind)
    BY <1>8, SameKeeps
  <2>2. /\ p.body = b.body /\ p.pool = b.pool /\ D \cap b.finalized = {}
        /\ p.pending \in Seq(Objects) /\ Range(p.pending) = Range(b.pending) \cup D
        /\ OneEach(p.pending) /\ p.finalized = b.finalized \cup D
        /\ D \subseteq Live(b) /\ \A o \in D : Is(b, o, "userdata")
        /\ p.next = b.next /\ p.accounted = b.accounted /\ p.head = b.head
        /\ p.count = b.count /\ p.total = b.total /\ p.phase = b.phase /\ p.current = b.current
        /\ p.previous = b.previous
    BY ONLY <1>10 DEF IsQueued
  <2>3. /\ m.body = h.body /\ m.pool = h.pool /\ m.pending = p.pending /\ m.finalized = p.finalized
        /\ b.finalized = h.finalized /\ b.pending = h.pending
        /\ m.next = h.next /\ m.accounted = h.accounted /\ m.head = h.head
        /\ m.count = h.count /\ m.total = h.total /\ m.phase = h.phase /\ m.current = h.current
        /\ m.previous = h.previous
    BY ONLY <1>8, <1>12, <2>2 DEF Same
  <2>. QED BY <2>1, <2>2, <2>3 DEF IsQueued
<1>14. Roots \cap White(m) = {}
  <2>1. White(b) \subseteq White(a)
    BY <1>5 DEF Recolored
  <2>. QED BY <1>3, <1>12, <2>1
<1>15. D \cap White(m) = {}
  BY <1>12
<1>16. \A o \in White(m) : Is(m, o, "userdata") => o \in m.finalized
  <2>1. m.body = b.body /\ b.finalized \subseteq m.finalized
    BY <1>8, <1>10, <1>12 DEF IsQueued, Same
  <2>2. \A o : Is(m, o, "userdata") = Is(b, o, "userdata")
    BY <2>1 DEF Is
  <2>. QED BY <1>12, <1>d, <2>1, <2>2
<1>18. Unreached(h, D)
  <2>1. Live(b) = Live(h) /\ \A o : Inner(b, o) = Inner(h, o)
    BY <1>8, SameBodies DEF Same
  <2>2. Roots \cap White(b) = {}
    BY <1>3, <1>5 DEF Recolored
  <2>3. ASSUME NEW o \in Live(h) \ White(b) PROVE Inner(h, o) \cap White(b) = {}
    <3>1. o \in Live(b) /\ o \in Objects /\ o \notin White(b)
      BY <2>1, LiveFacts
    <3>2. b.color[o] \in Colors
      BY <1>7, <3>1, HeapFields DEF Sound
    <3>3. b.color[o] # "White" /\ b.color[o] # "Gray"
      BY <1>5, <1>8, <3>1 DEF AllQueued, White
    <3>4. b.color[o] = "Black"
      BY <3>2, <3>3 DEF Colors
    <3>. QED BY <1>8, <2>1, <3>1, <3>4 DEF Tri
  <2>4. Leaves(h, White(b)) /\ D \subseteq White(b)
    BY <1>d, <2>2, <2>3 DEF Leaves
  <2>. QED BY <2>4 DEF Unreached
<1>17. IsMarked(h, m, D)
  BY <1>11, <1>12, <1>13, <1>14, <1>15, <1>16, <1>18 DEF IsMarked
<1>. QED BY <1>1, <1>17

LEMMA TypedKept ==
    ASSUME NEW h, NEW g, NEW hold, NEW K, Typed(h, K), Keeps(h, hold, K),
           \A o \in K : g.body[o] = h.body[o] \/ (h.body[o].kind \in Upvalues /\ g.body[o].kind \in Upvalues)
    PROVE  Typed(g, K)
<1>1. ASSUME NEW o \in K, Is(g, o, "closure"), g.body[o].up # Null
      PROVE  g.body[g.body[o].up].kind \in Upvalues
  <2>1. g.body[o] = h.body[o] /\ Is(h, o, "closure")
    BY <1>1 DEF Is, Upvalues
  <2>2. h.body[o].up \in Refs(h, <<>>, o) /\ ~Is(h, o, "open")
    BY <1>1, <2>1 DEF Refs, Is
  <2>3. h.body[o].up \in K
    BY <2>2 DEF Keeps, Inner
  <2>4. h.body[h.body[o].up].kind \in Upvalues
    BY <1>1, <2>1 DEF Typed
  <2>. QED BY <2>1, <2>3, <2>4
<1>. QED BY <1>1 DEF Typed

LEMMA TypedSame ==
    ASSUME NEW h, NEW g, NEW K, Typed(h, K), g.body = h.body
    PROVE  Typed(g, K)
  BY DEF Typed, Is

\* What is held, with the queue of h.
HeldIn(h) == {stack[s] : s \in Slots} \cup {callback} \cup Range(h.pending)

Queued(h, g, D) ==
    /\ g.body = h.body /\ g.pool = h.pool /\ D \cap h.finalized = {}
    /\ Range(g.pending) = Range(h.pending) \cup D /\ g.finalized = h.finalized \cup D
    /\ D \subseteq Live(h) /\ \A o \in D : Is(h, o, "userdata")

\* A step of the collector queues the userdata of a set D, and then frees some
\* of what is not in K; between the two the heap is m.
IsCollected(h, g, m, D, K) ==
    /\ Queued(h, m, D) /\ Freed(m, g, K)
    /\ Range(m.pending) \subseteq K /\ (callback # Null => callback \in K)
    /\ Parted(h, D) /\ Typed(g, K) /\ \E c, k : Good(g, HeldIn(g), c, k, K)
Collected(h, g) == \E m, D, K : IsCollected(h, g, m, D, K)

LEMMA QueuedRefl ==
    ASSUME NEW h
    PROVE  Queued(h, h, {})
  BY DEF Queued

\* What is kept when marking ends.
LEMMA MarkedKeeps ==
    ASSUME NEW c, NEW K, NEW h, NEW m, NEW D, Keeps(h, Held, K), Typed(h, K), Sound(h), IsList(h, c),
           Range(h.pending) = Range(heap.pending), IsMarked(h, m, D)
    PROVE  LET L == (K \ White(m)) \cup D
           IN  /\ Typed(m, L) /\ Keeps(m, HeldIn(m), L) /\ Range(m.pending) \subseteq L /\ (callback # Null => callback \in L)
               /\ Ahead(m, c, 0, L) /\ Counted(m) /\ QueueOK(m) /\ IsList(m, c) /\ Queued(h, m, D)
<1> DEFINE L == (K \ White(m)) \cup D
<1>1. /\ m \in HeapOf /\ IsQueued(h, m, D) /\ m.gray = {} /\ AllQueued(m) /\ Tri(m)
      /\ Roots \cap White(m) = {} /\ D \cap White(m) = {}
      /\ \A o \in White(m) : Is(m, o, "userdata") => o \in m.finalized
  BY DEF IsMarked
<1>2. /\ m.body = h.body /\ m.pool = h.pool /\ D \cap h.finalized = {}
      /\ m.pending \in Seq(Objects) /\ Range(m.pending) = Range(h.pending) \cup D
      /\ OneEach(m.pending) /\ m.finalized = h.finalized \cup D
      /\ D \subseteq Live(h) /\ \A o \in D : Is(h, o, "userdata")
      /\ m.next = h.next /\ m.accounted = h.accounted /\ m.head = h.head
      /\ m.count = h.count /\ m.total = h.total
  BY ONLY <1>1 DEF IsQueued
<1>3. Live(m) = Live(h) /\ Big(m) = Big(h) /\ \A o : Inner(m, o) = Inner(h, o)
  BY <1>2, SameBodies
<1>4. Counted(m) /\ IsList(m, c)
  BY <1>2, <1>3 DEF Sound, Counted, IsList
<1>5. QueueOK(m)
  BY <1>2, <1>3 DEF Sound, QueueOK, OneEach
<1>6. Queued(h, m, D)
  BY <1>2 DEF Queued
<1>7. Held \ {Null} \subseteq K /\ K \subseteq Live(h) /\ \A o \in K : Inner(h, o) \subseteq K
  BY DEF Keeps
<1>8. Held = Roots /\ Held = {stack[s] : s \in Slots} \cup {callback} \cup Range(heap.pending)
  BY DEF Held, Roots
<1>9. Range(h.pending) \subseteq Objects /\ Null \notin Objects
  <2>1. h.pending \in Seq(Objects)
    BY HeapFields DEF Sound
  <2>. QED BY <2>1, SeqFacts, ObjectListAssumption
<1>10. Held \ {Null} \subseteq L
  BY <1>1, <1>7, <1>8
<1>11. Range(m.pending) \subseteq L
  <2>1. Range(h.pending) \subseteq Held \ {Null}
    BY <1>8, <1>9
  <2>. QED BY <1>2, <1>10, <2>1
<1>12. callback # Null => callback \in L
  <2>1. callback \in Held
    BY <1>8
  <2>. QED BY <1>10, <2>1
<1>13. HeldIn(m) \ {Null} \subseteq L
  <2>1. HeldIn(m) = {stack[s] : s \in Slots} \cup {callback} \cup Range(m.pending)
    BY DEF HeldIn
  <2>. QED BY <1>8, <1>10, <1>11, <2>1
<1>14. L \subseteq Live(m)
  BY <1>2, <1>3, <1>7
<1>15. ASSUME NEW o \in L PROVE Inner(m, o) \subseteq L
  <2>1. CASE o \in D
    <3>1. Is(m, o, "userdata")
      BY <1>2, <2>1 DEF Is
    <3>2. Inner(m, o) = {}
      BY <3>1 DEF Inner, Refs, Is
    <3>. QED BY <3>2
  <2>2. CASE o \in K \ White(m)
    <3>1. o \in Live(m) /\ o \in Objects /\ m.color[o] \in Colors
      BY <1>1, <1>14, LiveFacts, HeapFields
    <3>2. m.color[o] = "Black"
      BY <1>1, <2>2, <3>1 DEF AllQueued, White, Colors
    <3>3. Inner(m, o) \cap White(m) = {}
      BY <1>1, <3>1, <3>2 DEF Tri
    <3>. QED BY <1>3, <1>7, <2>2, <3>3
  <2>. QED BY <2>1, <2>2
<1>16. Keeps(m, HeldIn(m), L)
  BY <1>13, <1>14, <1>15 DEF Keeps
<1>17. Ahead(m, c, 0, L)
  <2>1. ASSUME NEW i \in 0 + 1 .. Len(c), m.color[c[i]] = "White"
        PROVE  c[i] \notin L /\ (Is(m, c[i], "userdata") => c[i] \in m.finalized)
    <3>1. i \in 1 .. Len(c)
      OBVIOUS
    <3>2. c[i] \in White(m)
      BY <1>4, <2>1, <3>1, ListFacts DEF White
    <3>. QED BY <1>1, <3>2
  <2>. QED BY <2>1 DEF Ahead
<1>19. Typed(m, L)
  <2>1. ASSUME NEW o \in L, Is(m, o, "closure") PROVE o \in K
    BY <1>2, <2>1 DEF Is
  <2>. QED BY <1>2, <2>1 DEF Typed, Is
<1> HIDE DEF L
<1>18. /\ Typed(m, L) /\ Keeps(m, HeldIn(m), L) /\ Range(m.pending) \subseteq L /\ (callback # Null => callback \in L)
       /\ Ahead(m, c, 0, L) /\ Counted(m) /\ QueueOK(m) /\ IsList(m, c) /\ Queued(h, m, D)
  BY <1>4, <1>5, <1>6, <1>11, <1>12, <1>16, <1>17, <1>19
<1>. QED BY <1>18 DEF L

\* The open upvalues are objects, and open.
LEMMA OpenedFacts ==
    ASSUME NEW h, OpenIn(h)
    PROVE  \A o \in {open[s] : s \in Slots} \ {Null} : o \in Objects /\ Is(h, o, "open")
<1>1. ASSUME NEW s \in Slots, open[s] # Null PROVE open[s] \in Objects /\ Is(h, open[s], "open")
  <2>1. open[s] \in Objects /\ h.body[open[s]] = OpenUpvalue(s)
    BY <1>1 DEF OpenIn, MaybeObject
  <2>. QED BY <2>1 DEF Is, OpenUpvalue
<1>. QED BY <1>1

\* What was unmarked when userdata were queued is out of reach.
LEMMA PartedLemma ==
    ASSUME NEW h, NEW K, NEW m, NEW D, Keeps(h, Held, K), OpenIn(h), IsMarked(h, m, D)
    PROVE  Parted(h, D)
<1>1. PICK W : Leaves(h, W) /\ D \subseteq W
  BY DEF IsMarked, Unreached
<1> DEFINE opened == {open[s] : s \in Slots} \ {Null}
           X == (K \ W) \cup opened
<1>2. Held \ {Null} \subseteq K /\ K \subseteq Live(h) /\ \A o \in K : Inner(h, o) \subseteq K
  BY DEF Keeps
<1>3. Roots \cap W = {} /\ \A o \in Live(h) \ W : Inner(h, o) \cap W = {}
  BY <1>1 DEF Leaves
<1>4. \A o \in opened : o \in Objects /\ Is(h, o, "open")
  BY OpenedFacts
<1>5. \A o \in D : Is(h, o, "userdata")
  BY DEF IsMarked, IsQueued
<1> HIDE DEF opened
<1>6. X \subseteq Objects
  BY <1>2, <1>4, LiveFacts
<1>7. InHand \ {Null} \subseteq X
  <2>1. Held = Roots /\ {stack[s] : s \in Slots} \cup {callback} \subseteq Held
    BY DEF Held, Roots
  <2>2. InHand \ {Null} \subseteq (Held \ {Null}) \cup opened
    BY <2>1 DEF InHand, opened
  <2>. QED BY <1>2, <1>3, <2>1, <2>2
<1>8. ASSUME NEW o \in X PROVE Inner(h, o) \subseteq X
  <2>1. CASE o \in K \ W
    BY <1>2, <1>3, <2>1
  <2>2. CASE o \in opened
    BY <1>4, <2>2 DEF Inner
  <2>. QED BY <2>1, <2>2
<1>9. X \cap D = {}
  <2>1. opened \cap D = {}
    BY <1>4, <1>5 DEF Is
  <2>. QED BY <1>1, <2>1
<1>10. Encloses(h, X)
  BY <1>6, <1>7, <1>8 DEF Encloses
<1>. QED BY <1>9, <1>10 DEF Parted

\* Nothing is trivially out of reach.
LEMMA NothingParted ==
    ASSUME NEW h, NEW K, Keeps(h, Held, K), OpenIn(h)
    PROVE  Parted(h, {})
<1> DEFINE opened == {open[s] : s \in Slots} \ {Null}
           X == K \cup opened
<1>1. Held \ {Null} \subseteq K /\ K \subseteq Live(h) /\ \A o \in K : Inner(h, o) \subseteq K
  BY DEF Keeps
<1>2. \A o \in opened : o \in Objects /\ Is(h, o, "open")
  BY OpenedFacts
<1>3. InHand \ {Null} \subseteq (Held \ {Null}) \cup opened
  BY DEF InHand, Held
<1> HIDE DEF opened
<1>4. X \subseteq Objects
  BY <1>1, <1>2, LiveFacts
<1>5. \A o \in X : Inner(h, o) \subseteq X
  BY <1>1, <1>2 DEF Inner
<1>6. Encloses(h, X)
  BY <1>1, <1>3, <1>4, <1>5 DEF Encloses
<1>. QED BY <1>6 DEF Parted

LEMMA PartedSame ==
    ASSUME NEW h, NEW g, g.body = h.body, NEW D, Parted(h, D)
    PROVE  Parted(g, D)
<1>1. \A o : Inner(g, o) = Inner(h, o)
  BY SameBodies
<1>2. PICK X : Encloses(h, X) /\ X \cap D = {}
  BY DEF Parted
<1>3. Encloses(g, X)
  BY <1>1, <1>2 DEF Encloses
<1>. QED BY <1>2, <1>3 DEF Parted

LEMMA AtomicLemma ==
    ASSUME NEW c, NEW k, NEW K, Good(heap, Held, c, k, K), Typed(heap, K), heap.phase = "Atomic", OpenIn(heap)
    PROVE  Collected(heap, performIncrementalAtomic(heap))
<1> DEFINE m == Marked(heap)
           g == performIncrementalAtomic(heap)
<1>1. Sound(heap) /\ IsList(heap, c) /\ Keeps(heap, Held, K) /\ AllQueued(heap) /\ Tri(heap) /\ heap.phase # "Sweep"
  BY DEF Good, Sound, ColorOK, Marking
<1>2. PICK D : IsMarked(heap, m, D)
  BY <1>1, MarkedLemma
<1>3. g = [m EXCEPT !.phase = "Sweep", !.current = m.head, !.previous = Null]
  BY DEF performIncrementalAtomic
<1> DEFINE L == (K \ White(m)) \cup D
<1> HIDE DEF m, g
<1>4. /\ Typed(m, L) /\ Keeps(m, HeldIn(m), L) /\ Range(m.pending) \subseteq L /\ (callback # Null => callback \in L)
      /\ Ahead(m, c, 0, L) /\ Counted(m) /\ QueueOK(m) /\ IsList(m, c) /\ Queued(heap, m, D)
  BY <1>1, <1>2, MarkedKeeps
<1> HIDE DEF L
<1>5. m \in HeapOf /\ m.gray = {}
  BY <1>2 DEF IsMarked
<1>6. m.head \in MaybeObject
  BY <1>5, HeapFields
<1>7. /\ g \in HeapOf /\ g.phase = "Sweep" /\ g.current = m.head /\ g.previous = Null
      /\ g.body = m.body /\ g.next = m.next /\ g.accounted = m.accounted /\ g.head = m.head
      /\ g.count = m.count /\ g.total = m.total /\ g.gray = m.gray /\ g.capacity = m.capacity
      /\ g.pending = m.pending /\ g.finalized = m.finalized /\ g.pool = m.pool /\ g.color = m.color
  BY <1>3, <1>5, <1>6 DEF HeapOf, Phases, MaybeObject
<1>8. /\ Live(g) = Live(m) /\ Big(g) = Big(m) /\ (\A o : Inner(g, o) = Inner(m, o))
      /\ (\A o, kind : Is(g, o, kind) = Is(m, o, kind))
  BY <1>7, SameBodies
<1>9. HeldIn(g) = HeldIn(m)
  BY <1>7 DEF HeldIn
<1>10. /\ Counted(g) /\ QueueOK(g) /\ IsList(g, c) /\ Keeps(g, HeldIn(g), L) /\ Ahead(g, c, 0, L)
       /\ PoolOK(m) => PoolOK(g)
  BY <1>4, <1>7, <1>8, <1>9 DEF Counted, QueueOK, IsList, Keeps, Ahead, PoolOK
<1>11. Sound(g)
  BY <1>5, <1>7, <1>10 DEF Sound, ColorOK, GrayOK, Marking
<1>12. Cursor(g, c, 0)
  BY <1>7, <1>10, ListFacts DEF Cursor, Upto
<1>13. Good(g, HeldIn(g), c, 0, L)
  BY <1>10, <1>11, <1>12 DEF Good
<1>14. Freed(m, g, L)
  BY <1>7, <1>8, <1>10 DEF Freed, QueueOK
<1>16. Typed(g, L)
  BY <1>4, <1>7, TypedSame
<1>17. Parted(heap, D)
  BY <1>1, <1>2, PartedLemma
<1>15. IsCollected(heap, g, m, D, L)
  BY <1>4, <1>13, <1>14, <1>16, <1>17 DEF IsCollected
<1>. QED BY <1>15 DEF Collected, g

LEMMA CollectLemma ==
    ASSUME NEW c, NEW k, NEW K, Good(heap, Held, c, k, K), Typed(heap, K), OpenIn(heap)
    PROVE  Collected(heap, collectMarkSweep(heap)) /\ Sound(collectMarkSweep(heap))
<1> DEFINE w == Whitened([heap EXCEPT !.phase = "Pause", !.capacity = Reserve(heap)])
           m == Marked(w)
           s == sweep(m)
           g == collectMarkSweep(heap)
<1>1. Sound(heap) /\ IsList(heap, c) /\ Keeps(heap, Held, K)
  BY DEF Good
<1>2. IsWhitened(heap, w)
  BY <1>1, WhitenedFields
<1>3. g = resetIncrementalCycle(s)
  BY DEF collectMarkSweep
<1> HIDE DEF w
<1>4. /\ Sound(w) /\ AllQueued(w) /\ Tri(w) /\ IsList(w, c) /\ Keeps(w, Held, K)
  BY <1>1, <1>2, WhitenedFacts
<1>22. Typed(w, K)
  BY <1>2, TypedSame DEF IsWhitened
<1>5. w.phase = "Pause" /\ w.previous = Null /\ w.pending = heap.pending
  BY <1>2 DEF IsWhitened
<1>6. PICK D : IsMarked(w, m, D)
  BY <1>4, <1>5, MarkedLemma
<1> DEFINE L == (K \ White(m)) \cup D
<1> HIDE DEF m
<1>7. /\ Typed(m, L) /\ Keeps(m, HeldIn(m), L) /\ Range(m.pending) \subseteq L /\ (callback # Null => callback \in L)
      /\ Ahead(m, c, 0, L) /\ Counted(m) /\ QueueOK(m) /\ IsList(m, c) /\ Queued(w, m, D)
  BY <1>4, <1>5, <1>6, <1>22, MarkedKeeps
<1> HIDE DEF L
<1>8. m \in HeapOf /\ m.gray = {} /\ m.phase = "Pause" /\ m.previous = Null
  BY <1>5, <1>6 DEF IsMarked, IsQueued
<1>9. Sound(m) /\ ~Marking(m)
  BY <1>7, <1>8 DEF Sound, ColorOK, GrayOK, Marking
<1>10. Sweeping(m, HeldIn(m), c, 0, L)
  <2>1. 0 \in 0 .. Len(c) /\ Upto(c, 0) = Null
    BY <1>7, ListFacts DEF Upto
  <2>. QED BY <1>7, <1>8, <1>9, <2>1 DEF Sweeping
<1>11. (\E d, j : Sweeping(s, HeldIn(m), d, j, L)) /\ Freed(m, s, L)
  BY <1>10, SweepLemma
<1> HIDE DEF s, g
<1>12. PICK d, j : Sweeping(s, HeldIn(m), d, j, L)
  BY <1>11
<1>13. Sound(s) /\ IsList(s, d) /\ Keeps(s, HeldIn(m), L) /\ s \in HeapOf /\ QueueOK(s)
  BY <1>12 DEF Sweeping, Sound
<1>14. Good(g, HeldIn(m), d, 0, L)
  BY <1>3, <1>13, GoodReset
<1>15. g.body = s.body /\ g.pending = s.pending /\ g.finalized = s.finalized /\ g.pool = s.pool
  BY <1>3, <1>13, ResetFields
<1>16. Freed(s, g, L)
  <2>1. Live(g) = Live(s)
    BY <1>15, SameBodies
  <2>. QED BY <1>13, <1>15, <2>1 DEF Freed, QueueOK, PoolOK
<1>17. Freed(m, g, L)
  BY ONLY <1>11, <1>16, FreedTrans
<1>18. HeldIn(g) = HeldIn(m)
  BY <1>17 DEF HeldIn, Freed
<1>19. Queued(heap, m, D)
  <2>1. w.body = heap.body /\ w.pool = heap.pool /\ w.pending = heap.pending /\ w.finalized = heap.finalized
    BY <1>2 DEF IsWhitened
  <2>2. Live(w) = Live(heap) /\ \A o, kind : Is(w, o, kind) = Is(heap, o, kind)
    BY <2>1, SameBodies
  <2>. QED BY <1>7, <2>1, <2>2 DEF Queued
<1>23. Typed(g, L)
  <2>1. L \subseteq Objects
    BY <1>7, LiveFacts DEF Keeps
  <2>2. \A o \in L : g.body[o] = m.body[o]
    BY <1>17, <2>1 DEF Freed
  <2>. QED BY <1>7, <2>2, TypedKept
<1>24. Parted(heap, D)
  <2>1. w.body = heap.body /\ OpenIn(w)
    BY <1>2 DEF IsWhitened, OpenIn
  <2>2. Parted(w, D)
    BY <1>4, <1>6, <2>1, PartedLemma
  <2>. QED BY ONLY <2>1, <2>2, PartedSame
<1>20. IsCollected(heap, g, m, D, L)
  BY <1>7, <1>14, <1>17, <1>18, <1>19, <1>23, <1>24 DEF IsCollected
<1>21. Sound(g)
  BY <1>14 DEF Good
<1>. QED BY <1>20, <1>21 DEF Collected, g

-----------------------------------------------------------------------------
(***************************************************************************)
(* Everything is destroyed when the state is closed.                       *)
(***************************************************************************)

\* The rounds of destroyAll.
Destroyed(h, o) == destroyObject(Unlink(h, Null, o), o)
IsClearing(m, h, c) ==
    /\ m \in [0 .. Len(c) -> HeapOf] /\ destroyAll(h) = m[Len(c)] /\ m[0] = h
    /\ \A i \in 1 .. Len(c) : m[i] = Destroyed(m[i - 1], c[i])

LEMMA DestroyedType ==
    ASSUME NEW h \in HeapOf, NEW o \in Objects
    PROVE  Destroyed(h, o) \in HeapOf /\ IsDestroyed(h, Destroyed(h, o), Null, o)
<1>1. Null \in MaybeObject
  BY DEF MaybeObject
<1>2. IsDestroyed(h, destroyObject(Unlink(h, Null, o), o), Null, o)
  BY <1>1, DestroyFields
<1>. QED BY <1>2 DEF Destroyed, IsDestroyed

LEMMA ClearingLoop ==
    ASSUME NEW h \in HeapOf, NEW c \in Seq(Objects), Chain(h) = c
    PROVE  \E m : IsClearing(m, h, c)
<1> DEFINE N == Len(c)
           V == HeapOf
           Turn(i, t) == Destroyed(t, c[i])
           step == [x \in Nat \X V |-> IF x[1] + 1 \in 1 .. N THEN Turn(x[1] + 1, x[2]) ELSE x[2]]
           Loop(f) == [i \in 0 .. N |-> IF i = 0 THEN h ELSE Turn(i, f[i - 1])]
           m == CHOOSE f : f = Loop(f)
<1>1. N \in Nat /\ h \in V
  OBVIOUS
<1>2. ASSUME NEW i \in 1 .. N, NEW t \in V PROVE Turn(i, t) \in V
  <2>1. c[i] \in Objects
    OBVIOUS
  <2>. QED BY <2>1, DestroyedType
<1>3. IsStep(step, V)
  <2> HIDE DEF Turn, V, N
  <2>. QED BY <1>2 DEF IsStep
<1>4. PICK g : IsLoop(g, N, V, h, step)
  <2> HIDE DEF step, V, N
  <2>. QED BY ONLY <1>1, <1>3, LoopExists
<1>5. /\ g \in [0 .. N -> V] /\ g[0] = h
      /\ \A i \in 1 .. N : g[i] = step[<<i - 1, g[i - 1]>>]
  <2> HIDE DEF step, V, N
  <2>. QED BY <1>4 DEF IsLoop
<1>6. \A i \in 1 .. N : g[i] = Turn(i, g[i - 1])
  <2> HIDE DEF Turn, V
  <2>1. ASSUME NEW i \in 1 .. N PROVE g[i] = Turn(i, g[i - 1])
    <3>1. i - 1 \in Nat /\ i - 1 \in 0 .. N /\ (i - 1) + 1 = i
      BY <1>1
    <3>. QED BY <1>5, <3>1
  <2>. QED BY <2>1
<1>7. g = Loop(g)
  <2> HIDE DEF Turn, V, N
  <2>. QED BY <1>1, <1>5, <1>6
<1>8. m = Loop(m)
  <2> HIDE DEF Loop
  <2>. QED BY <1>7
<1>9. destroyAll(h) = m[N]
  BY Zenon DEF destroyAll, Destroyed
<1> HIDE DEF m
<1>10. DOMAIN m = 0 .. N /\ m[0] = h /\ \A i \in 1 .. N : m[i] = Turn(i, m[i - 1])
  <2> HIDE DEF Turn, N
  <2>. QED BY <1>1, <1>8
<1>11. \A i \in 0 .. N : m[i] \in V
  <2> DEFINE T == {i \in 0 .. N : m[i] \in V}
  <2>1. 0 \in T
    <3> HIDE DEF V, N
    <3>. QED BY <1>1, <1>10
  <2>2. ASSUME NEW i \in 1 .. N, i - 1 \in T PROVE i \in T
    <3> HIDE DEF Turn, V
    <3>. QED BY <1>1, <1>2, <1>10, <2>2
  <2>3. 0 .. N \subseteq T
    <3> HIDE DEF T, N
    <3>. QED BY ONLY <1>1, <2>1, <2>2, LoopInduct
  <2>. QED BY <2>3
<1>12. m = [i \in 0 .. N |-> m[i]]
  BY <1>8, <1>10
<1>13. m \in [0 .. N -> V]
  BY <1>11, <1>12
<1>14. IsClearing(m, h, c)
  BY <1>9, <1>10, <1>13 DEF IsClearing
<1>. QED BY <1>14

\* A heap of which c is what is left to destroy.
Clearing(h, c) ==
    /\ Sound(h) /\ IsList(h, c) /\ Keeps(h, {Null}, {}) /\ h.gray = {} /\ h.pending = <<>>
    /\ h.phase = "Pause" /\ h.current = Null /\ h.previous = Null

LEMMA ClearingOne ==
    ASSUME NEW h, NEW c, Clearing(h, c), Len(c) > 0
    PROVE  /\ Clearing(Destroyed(h, c[1]), Without(c, 0))
           /\ IsWithout(c, 0, Without(c, 0)) /\ (PoolOK(h) => PoolOK(Destroyed(h, c[1])))
<1> DEFINE o == c[1]
           g == Destroyed(h, o)
<1>1. /\ Sound(h) /\ IsList(h, c) /\ Keeps(h, {Null}, {}) /\ h.gray = {} /\ h.pending = <<>>
      /\ h.phase = "Pause" /\ h.current = Null /\ h.previous = Null /\ h \in HeapOf
      /\ c \in Seq(Objects) /\ Len(c) \in Nat
  BY ListFacts DEF Clearing, Sound
<1>2. 0 \in Nat /\ 0 < Len(c) /\ 0 + 1 = 1 /\ o \in Objects /\ 1 \in 1 .. Len(c)
  BY <1>1, ListFacts
<1>3. IsDestroyed(h, g, Null, o)
  BY <1>1, <1>2, DestroyedType
<1>4. c[0 + 1] = o /\ Upto(c, 0) = Null
  BY <1>2 DEF Upto
<1> HIDE DEF o, g
<1>5. MayGo(h, {Null}, c, 0, {})
  BY <1>1, <1>2 DEF MayGo, Marking
<1>6. IsDestroyed(h, g, Upto(c, 0), c[0 + 1])
  BY <1>3, <1>4
<1>7. IsGone(h, g, {Null}, c, 0, {})
  BY ONLY <1>5, <1>6, DestroyLemma
<1>8. g.phase = h.phase /\ g.current = h.current /\ g.previous = h.previous /\ g.pending = Selected(h.pending, Objects \ {o})
  BY <1>3 DEF IsDestroyed
<1>9. g.pending = <<>>
  <2>1. Selected(<<>>, Objects \ {o}) \in Seq(Objects) /\ Range(Selected(<<>>, Objects \ {o})) = Range(<<>>) \cap (Objects \ {o})
    <3>1. <<>> \in Seq(Objects)
      OBVIOUS
    <3>. QED BY ONLY <3>1, SelectedFacts
  <2>2. \A x : x \notin Range(<<>>)
    BY DEF Range
  <2>3. g.pending \in Seq(Objects) /\ \A x : x \notin Range(g.pending)
    BY <1>1, <1>8, <2>1, <2>2
  <2>4. Len(g.pending) \in Nat /\ \A i \in 1 .. Len(g.pending) : g.pending[i] \in Range(g.pending)
    BY ONLY <2>3, SeqFacts
  <2>5. Len(g.pending) = 0
    BY ONLY <2>3, <2>4
  <2>. QED BY ONLY <2>3, <2>5
<1>10. Clearing(g, Without(c, 0))
  BY <1>1, <1>7, <1>8, <1>9 DEF IsGone, Clearing
<1>11. IsWithout(c, 0, Without(c, 0))
  BY ONLY <1>1, <1>2, WithoutFacts
<1>12. PoolOK(h) => PoolOK(g)
  BY <1>7 DEF IsGone
<1>. QED BY <1>10, <1>11, <1>12 DEF g, o

LEMMA DestroyAllLemma ==
    ASSUME NEW h, NEW c, Clearing(h, c), PoolOK(h)
    PROVE  LET g == destroyAll(h)
           IN  /\ Clearing(g, <<>>) /\ Live(g) = {} /\ PoolOK(g)
               /\ Good(g, {Null}, <<>>, 0, {})
<1> DEFINE N == Len(c)
           g == destroyAll(h)
<1>1. h \in HeapOf /\ Sound(h) /\ IsList(h, c) /\ c \in Seq(Objects) /\ N \in Nat /\ Chain(h) = c
  BY ListFacts, ChainIsList DEF Clearing, Sound
<1>2. PICK m : IsClearing(m, h, c)
  BY ONLY <1>1, ClearingLoop
<1>3. /\ m \in [0 .. N -> HeapOf] /\ g = m[N] /\ m[0] = h
      /\ \A i \in 1 .. N : m[i] = Destroyed(m[i - 1], c[i])
  BY <1>2 DEF IsClearing
<1> DEFINE Fine(i) == (\E d : Clearing(m[i], d) /\ Behind(d, 0, c, i)) /\ PoolOK(m[i])
           T == {i \in 0 .. N : Fine(i)}
<1> HIDE DEF N, g
<1>4. 0 \in T
  <2>2. Behind(c, 0, c, 0)
    <3>1. \A p \in 0 + 1 .. N : 0 + (p - 0) = p
      BY <1>1
    <3>. QED BY <1>1, <3>1 DEF Behind, N
  <2>3. Fine(0)
    BY <1>3, <2>2
  <2>. QED BY <1>1, <2>3
<1>5. ASSUME NEW i \in 1 .. N, i - 1 \in T PROVE i \in T
  <2> DEFINE f == m[i - 1]
  <2>0. i - 1 \in Nat /\ i \in 0 .. N /\ i - 1 \in 0 .. N
    BY <1>1
  <2>1. PICK d : Clearing(f, d) /\ Behind(d, 0, c, i - 1)
    BY <1>5
  <2>2. PoolOK(f)
    BY <1>5
  <2>3. m[i] = Destroyed(f, c[i])
    BY <1>3
  <2> HIDE DEF f
  <2>4. /\ d \in Seq(Objects) /\ Len(d) \in Nat /\ Len(d) - 0 = N - (i - 1)
        /\ \A p \in (i - 1) + 1 .. N : d[0 + (p - (i - 1))] = c[p]
    BY <2>1 DEF Behind, N
  <2>5. Len(d) > 0
    BY <1>1, <2>0, <2>4
  <2>6. d[1] = c[i]
    <3>1. i \in (i - 1) + 1 .. N /\ 0 + (i - (i - 1)) = 1
      BY <1>1
    <3>2. d[0 + (i - (i - 1))] = c[i]
      BY ONLY <2>4, <3>1
    <3>. QED BY <3>1, <3>2
  <2> DEFINE e == Without(d, 0)
  <2>7. /\ Clearing(Destroyed(f, d[1]), e) /\ IsWithout(d, 0, e)
        /\ (PoolOK(f) => PoolOK(Destroyed(f, d[1])))
    BY ONLY <2>1, <2>5, ClearingOne
  <2> HIDE DEF e
  <2>8. Clearing(m[i], e) /\ PoolOK(m[i])
    BY <2>2, <2>3, <2>6, <2>7
  <2>9. /\ e \in Seq(Objects) /\ Len(e) \in Nat /\ Len(e) + 1 = Len(d)
        /\ \A q \in 0 + 1 .. Len(e) : e[q] = d[q + 1]
    BY <2>7 DEF IsWithout
  <2>10. Behind(e, 0, c, i)
    <3>2. ASSUME NEW p \in i + 1 .. N PROVE e[0 + (p - i)] = c[p]
      <4> DEFINE q == p - i
      <4>1. /\ p \in (i - 1) + 1 .. N /\ q \in 0 + 1 .. Len(e) /\ 0 + (p - i) = q
            /\ 0 + (p - (i - 1)) = q + 1
        BY <1>1, <2>4, <2>9
      <4>2. d[0 + (p - (i - 1))] = c[p]
        BY ONLY <2>4, <4>1
      <4> HIDE DEF q
      <4>3. e[q] = d[q + 1]
        BY ONLY <2>9, <4>1
      <4>. QED BY <4>1, <4>2, <4>3
    <3>3. Len(e) - 0 = N - i /\ 0 \in 0 .. Len(e)
      <4>1. Len(d) - 0 = N - (i - 1) /\ Len(e) + 1 = Len(d)
        BY ONLY <2>4, <2>9
      <4>2. Len(d) \in Nat /\ Len(e) \in Nat /\ N \in Nat /\ i \in Int
        BY <1>1, <2>4, <2>9
      <4>. QED BY ONLY <4>1, <4>2
    <3>. QED BY <2>9, <3>2, <3>3 DEF Behind, N
  <2>11. Fine(i)
    BY <2>8, <2>10
  <2>. QED BY <2>0, <2>11
<1>6. 0 .. N \subseteq T
  <2> HIDE DEF T
  <2>. QED BY ONLY <1>1, <1>4, <1>5, LoopInduct
<1>7. N \in 0 .. N
  BY <1>1
<1>8. Fine(N)
  BY <1>6, <1>7
<1>9. PICK d : Clearing(g, d) /\ Behind(d, 0, c, N)
  BY <1>3, <1>8
<1>10. d = <<>>
  <2>1. d \in Seq(Objects) /\ Len(d) - 0 = N - N /\ Len(d) \in Nat
    BY <1>9 DEF Behind, N
  <2>2. Len(d) = 0
    BY <1>1, <2>1
  <2>. QED BY <2>1, <2>2
<1>11. Clearing(g, <<>>) /\ PoolOK(g)
  BY <1>3, <1>8, <1>9, <1>10
<1>12. Live(g) = {} /\ IsList(g, <<>>) /\ Sound(g) /\ Keeps(g, {Null}, {})
  <2>1. IsList(g, <<>>)
    BY <1>11 DEF Clearing
  <2>2. Range(<<>>) = Live(g)
    BY <2>1 DEF IsList
  <2>3. \A x : x \notin Range(<<>>)
    BY DEF Range
  <2>4. Live(g) = {}
    BY ONLY <2>2, <2>3
  <2>. QED BY <1>11, <2>1, <2>4 DEF Clearing
<1>13. Cursor(g, <<>>, 0)
  BY <1>11 DEF Cursor, Clearing
<1>14. Good(g, {Null}, <<>>, 0, {})
  BY <1>11, <1>12, <1>13 DEF Good, Clearing
<1>. QED BY <1>11, <1>12, <1>14 DEF g

-----------------------------------------------------------------------------
(***************************************************************************)
(* The pool, the open upvalues and what was finalized.                     *)
(***************************************************************************)

\* FinalsOK of the heap h, when fin counts the finalizers and that of cb runs.
FinalsIn(h, fin, cb) ==
    /\ fin \in [Objects -> {0, 1}]
    /\ \A o \in Live(h) : Is(h, o, "userdata") =>
          fin[o] = IF o \in h.finalized /\ (o \notin Range(h.pending) \/ o = cb) THEN 1 ELSE 0
    /\ cb # Null => Is(h, cb, "userdata") /\ cb \in h.finalized
    /\ \A o \in h.finalized : Is(h, o, "userdata")

\* A userdata that goes was finalized.
Once(h, g, fin) == \A o \in Objects : Is(h, o, "userdata") /\ ~Is(g, o, "userdata") => fin[o] = 1

\* Neither strings nor userdata come or go.
Plain(h, g) ==
    /\ g.pool = h.pool /\ Range(g.pending) = Range(h.pending) /\ g.finalized = h.finalized
    /\ \A o \in Objects :
        \/ g.body[o] = h.body[o]
        \/ h.body[o].kind \notin {"string", "userdata"} /\ g.body[o].kind \notin {"string", "userdata"}
\* Open upvalues stay.
StayOpen(h, g) == \A o \in Objects : Is(h, o, "open") => g.body[o] = h.body[o]

LEMMA PlainRefl ==
    ASSUME NEW h, NEW g, g.body = h.body, g.pool = h.pool, g.pending = h.pending, g.finalized = h.finalized
    PROVE  Plain(h, g) /\ StayOpen(h, g)
  BY DEF Plain, StayOpen

LEMMA PlainTrans ==
    ASSUME NEW h, NEW g, NEW f, Plain(h, g), Plain(g, f)
    PROVE  Plain(h, f)
  BY DEF Plain

LEMMA OpenStays ==
    ASSUME NEW h, NEW g, StayOpen(h, g), OpenIn(h)
    PROVE  OpenIn(g)
<1>1. ASSUME NEW s \in Slots, open[s] # Null PROVE g.body[open[s]] = OpenUpvalue(s)
  <2>1. open[s] \in Objects /\ h.body[open[s]] = OpenUpvalue(s)
    BY <1>1 DEF OpenIn, MaybeObject
  <2>2. Is(h, open[s], "open")
    BY <2>1 DEF Is, OpenUpvalue
  <2>. QED BY <2>1, <2>2 DEF StayOpen
<1>. QED BY <1>1 DEF OpenIn

LEMMA PlainFacts ==
    ASSUME NEW h, NEW g, Plain(h, g), NEW fin, NEW cb, h.finalized \subseteq Live(h)
    PROVE  /\ PoolOK(h) => PoolOK(g)
           /\ FinalsIn(h, fin, cb) => FinalsIn(g, fin, cb)
           /\ Once(h, g, fin)
<1>1. /\ g.pool = h.pool /\ Range(g.pending) = Range(h.pending) /\ g.finalized = h.finalized
      /\ \A o \in Objects :
          \/ g.body[o] = h.body[o]
          \/ h.body[o].kind \notin {"string", "userdata"} /\ g.body[o].kind \notin {"string", "userdata"}
  BY DEF Plain
<1>2. \A o \in Objects : Is(g, o, "userdata") <=> Is(h, o, "userdata")
  BY <1>1 DEF Is
<1>3. \A o \in Objects : \A s : g.body[o] = String(s) <=> h.body[o] = String(s)
  BY <1>1 DEF String
<1>4. PoolOK(h) => PoolOK(g)
  BY <1>1, <1>3 DEF PoolOK
<1>5. \A o \in Objects : Is(g, o, "userdata") => o \in Live(g) /\ o \in Live(h)
  BY <1>2 DEF Live, Is
<1>6. ASSUME FinalsIn(h, fin, cb) PROVE FinalsIn(g, fin, cb)
  <2>1. /\ fin \in [Objects -> {0, 1}]
        /\ \A o \in Live(h) : Is(h, o, "userdata") =>
              fin[o] = IF o \in h.finalized /\ (o \notin Range(h.pending) \/ o = cb) THEN 1 ELSE 0
        /\ cb # Null => Is(h, cb, "userdata") /\ cb \in h.finalized
        /\ \A o \in h.finalized : Is(h, o, "userdata")
    BY <1>6 DEF FinalsIn
  <2>2. h.finalized \subseteq Objects /\ Live(g) \subseteq Objects
    BY LiveFacts
  <2>. QED BY <1>1, <1>2, <1>5, <2>1, <2>2 DEF FinalsIn
<1>7. Once(h, g, fin)
  BY <1>2 DEF Once
<1>. QED BY <1>4, <1>6, <1>7

LEMMA CollectedFacts ==
    ASSUME NEW h, NEW g, Collected(h, g), Sound(h), PoolOK(h), OpenIn(h), NEW fin,
           FinalsIn(h, fin, callback)
    PROVE  /\ \E c, k, K : Good(g, HeldIn(g), c, k, K) /\ Typed(g, K)
           /\ PoolOK(g) /\ OpenIn(g) /\ FinalsIn(g, fin, callback) /\ Once(h, g, fin)
           /\ Range(h.pending) \subseteq Range(g.pending)
           /\ callback # Null /\ callback \notin Range(h.pending) => callback \notin Range(g.pending)
<1>1. PICK m, D, K : IsCollected(h, g, m, D, K)
  BY DEF Collected
<1>2. /\ Queued(h, m, D) /\ Freed(m, g, K) /\ Range(m.pending) \subseteq K
      /\ (callback # Null => callback \in K) /\ Typed(g, K) /\ \E c, k : Good(g, HeldIn(g), c, k, K)
  BY <1>1 DEF IsCollected
<1>3. /\ m.body = h.body /\ m.pool = h.pool /\ D \cap h.finalized = {}
      /\ Range(m.pending) = Range(h.pending) \cup D /\ m.finalized = h.finalized \cup D
      /\ D \subseteq Live(h) /\ \A o \in D : Is(h, o, "userdata")
  BY <1>2 DEF Queued
<1>4. /\ \A o \in Objects :
          \/ g.body[o] = m.body[o]
          \/ /\ g.body[o] = Free /\ o \notin K /\ ~Is(m, o, "open")
             /\ Is(m, o, "userdata") => o \in m.finalized
      /\ g.finalized = m.finalized \cap Live(g) /\ Range(g.pending) = Range(m.pending)
      /\ PoolOK(m) => PoolOK(g)
  BY <1>2 DEF Freed
<1>5. \A o, kind : Is(m, o, kind) = Is(h, o, kind)
  BY <1>3, SameBodies
<1>6. PoolOK(g)
  BY <1>3, <1>4 DEF PoolOK
<1>7. OpenIn(g)
  BY <1>3, <1>4, <1>5, OpenStays DEF StayOpen
<1>8. h.finalized \subseteq Live(h) /\ Live(h) \subseteq Objects /\ Live(g) \subseteq Objects
  BY LiveFacts DEF Sound, QueueOK
<1>9. /\ fin \in [Objects -> {0, 1}]
      /\ \A o \in Live(h) : Is(h, o, "userdata") =>
            fin[o] = IF o \in h.finalized /\ (o \notin Range(h.pending) \/ o = callback) THEN 1 ELSE 0
      /\ callback # Null => Is(h, callback, "userdata") /\ callback \in h.finalized
      /\ \A o \in h.finalized : Is(h, o, "userdata")
  BY DEF FinalsIn
<1>10. \A o \in Live(g) : g.body[o] = h.body[o] /\ o \in Live(h) /\ \A kind : Is(g, o, kind) = Is(h, o, kind)
  BY <1>3, <1>4, <1>8 DEF Live, Is, Free
<1>11. FinalsIn(g, fin, callback)
  <2>1. ASSUME NEW o \in Live(g), Is(g, o, "userdata")
        PROVE  fin[o] = IF o \in g.finalized /\ (o \notin Range(g.pending) \/ o = callback) THEN 1 ELSE 0
    <3>1. o \in Live(h) /\ Is(h, o, "userdata")
      BY <1>10, <2>1
    <3>2. fin[o] = IF o \in h.finalized /\ (o \notin Range(h.pending) \/ o = callback) THEN 1 ELSE 0
      BY <1>9, <3>1
    <3>3. callback \in D => callback = Null
      BY <1>3, <1>9
    <3>4. o # Null
      BY <1>8, <3>1, ObjectListAssumption
    <3>. QED BY <1>3, <1>4, <3>2, <3>3, <3>4
  <2>2. ASSUME callback # Null PROVE Is(g, callback, "userdata") /\ callback \in g.finalized
    <3>1. callback \in Objects /\ callback \in K /\ Is(h, callback, "userdata") /\ callback \in h.finalized
      BY <1>2, <1>8, <1>9, <2>2
    <3>2. g.body[callback] = h.body[callback]
      BY <1>3, <1>4, <3>1
    <3>3. callback \in Live(g) /\ Is(g, callback, "userdata")
      BY <3>1, <3>2 DEF Is, Live
    <3>. QED BY <1>3, <1>4, <3>1, <3>3
  <2>3. \A o \in g.finalized : Is(g, o, "userdata")
    BY <1>3, <1>4, <1>9, <1>10
  <2>. QED BY <1>9, <2>1, <2>2, <2>3 DEF FinalsIn
<1>12. Once(h, g, fin)
  <2>1. ASSUME NEW o \in Objects, Is(h, o, "userdata"), ~Is(g, o, "userdata") PROVE fin[o] = 1
    <3>1. o \in Live(h)
      BY <2>1 DEF Live, Is
    <3>2. g.body[o] # m.body[o]
      BY <1>3, <2>1 DEF Is
    <3>3. o \notin K /\ o \in m.finalized
      BY <1>4, <1>5, <2>1, <3>2
    <3>4. o \notin D /\ o \notin Range(h.pending) /\ o \in h.finalized
      BY <1>2, <1>3, <3>3
    <3>. QED BY <1>9, <2>1, <3>1, <3>4
  <2>. QED BY <2>1 DEF Once
<1>13. Range(h.pending) \subseteq Range(g.pending)
  BY <1>3, <1>4
<1>14. callback # Null /\ callback \notin Range(h.pending) => callback \notin Range(g.pending)
  BY <1>3, <1>4, <1>9
<1>. QED BY <1>2, <1>6, <1>7, <1>11, <1>12, <1>13, <1>14

-----------------------------------------------------------------------------
(***************************************************************************)
(* The steps of the collector.                                             *)
(***************************************************************************)

OnceStep ==
    \A o \in Objects :
        Is(heap, o, "userdata") /\ ~Is(heap', o, "userdata") =>
            finals[o] = 1 \/ (stage' = "closed" /\ entered = DrainLimit)

LEMMA IInvFacts ==
    ASSUME IInv
    PROVE  /\ \E c, k, K : Good(heap, Held, c, k, K) /\ Typed(heap, K)
           /\ Sound(heap) /\ heap \in HeapOf /\ heap.finalized \subseteq Live(heap)
           /\ PoolOK(heap) /\ StackOK /\ OpenIn(heap) /\ StageOK /\ DrainOK
           /\ FinalsIn(heap, finals, callback) /\ Held = HeldIn(heap)
<1>1. PICK c, k, K : Good(heap, Held, c, k, K) /\ Typed(heap, K)
  BY DEF IInv
<1>2. Sound(heap) /\ heap \in HeapOf /\ heap.finalized \subseteq Live(heap)
  BY <1>1 DEF Good, Sound, QueueOK
<1>3. OpenIn(heap) /\ FinalsIn(heap, finals, callback) /\ Held = HeldIn(heap)
  BY DEF IInv, OpenOK, OpenIn, FinalsOK, FinalsIn, Held, HeldIn
<1>. QED BY <1>1, <1>2, <1>3 DEF IInv

LEMMA RunsFacts ==
    ASSUME IInv, Runs
    PROVE  stage # "closed" /\ (drain # Null => callback # Null /\ stage = "running")
<1>1. StageOK /\ DrainOK
  BY DEF IInv
<1>. QED BY <1>1 DEF Runs, StageOK, DrainOK

\* Every step of the collector is of the form Collected.
LEMMA CollectedSame ==
    ASSUME IInv, NEW g, NEW c, NEW k, NEW d, NEW j, NEW K, Good(heap, Held, c, k, K), Typed(heap, K), Good(g, Held, d, j, K),
           g.body = heap.body, g.pool = heap.pool, g.pending = heap.pending, g.finalized = heap.finalized
    PROVE  Collected(heap, g)
<1>1. Queued(heap, heap, {})
  BY QueuedRefl
<1>2. Live(g) = Live(heap) /\ heap.finalized \subseteq Live(heap)
  BY SameBodies, IInvFacts
<1>3. Freed(heap, g, K)
  BY <1>2 DEF Freed, PoolOK
<1>4. Held = HeldIn(g) /\ Held = {stack[s] : s \in Slots} \cup {callback} \cup Range(heap.pending)
  BY DEF Held, HeldIn
<1>5. Held \ {Null} \subseteq K
  BY DEF Good, Keeps
<1>6. Range(heap.pending) \subseteq Objects
  BY IInvFacts, HeapFields, SeqFacts
<1>7. Range(heap.pending) \subseteq K /\ (callback # Null => callback \in K)
  BY <1>4, <1>5, <1>6, ObjectListAssumption
<1>9. Typed(g, K)
  BY TypedSame
<1>10. Parted(heap, {})
  BY IInvFacts, NothingParted DEF Good
<1>8. IsCollected(heap, g, heap, {}, K)
  BY <1>9, <1>1, <1>3, <1>4, <1>7, <1>10 DEF IsCollected
<1>. QED BY <1>8 DEF Collected

Rest ==
    /\ \E c, k, K : Good(heap, Held, c, k, K) /\ Typed(heap, K)
    /\ PoolOK(heap) /\ StackOK /\ OpenOK /\ StageOK /\ FinalsOK

LEMMA CollectorKeeps ==
    ASSUME IInv, stage # "closed", UNCHANGED idle, Collected(heap, heap')
    PROVE  /\ Rest' /\ OnceStep /\ Range(heap.pending) \subseteq Range(heap'.pending)
           /\ drain' = drain => DrainOK'
<1>1. /\ Sound(heap) /\ PoolOK(heap) /\ StackOK /\ OpenIn(heap) /\ StageOK /\ DrainOK
      /\ FinalsIn(heap, finals, callback)
  BY IInvFacts
<1>2. stack' = stack /\ open' = open /\ callback' = callback /\ stage' = stage /\ entered' = entered /\ finals' = finals
  BY DEF idle
<1>3. /\ \E c, k, K : Good(heap', HeldIn(heap'), c, k, K) /\ Typed(heap', K)
      /\ PoolOK(heap') /\ OpenIn(heap') /\ FinalsIn(heap', finals, callback) /\ Once(heap, heap', finals)
      /\ Range(heap.pending) \subseteq Range(heap'.pending)
      /\ callback # Null /\ callback \notin Range(heap.pending) => callback \notin Range(heap'.pending)
  BY <1>1, CollectedFacts
<1>4. Held' = HeldIn(heap')
  BY <1>2 DEF Held, HeldIn
<1>5. (\E c, k, K : Good(heap, Held, c, k, K) /\ Typed(heap, K))' /\ PoolOK(heap)' /\ StackOK'
  BY <1>1, <1>2, <1>3, <1>4 DEF StackOK
<1>6. OpenOK' /\ FinalsOK'
  BY <1>2, <1>3 DEF OpenOK, OpenIn, FinalsOK, FinalsIn
<1>7. Range(heap'.pending) \subseteq Objects
  <2>1. heap' \in HeapOf
    BY <1>3 DEF Good, Sound
  <2>. QED BY <2>1, HeapFields, SeqFacts
<1>8. StageOK'
  BY <1>1, <1>2, <1>3, <1>7, ObjectListAssumption DEF StageOK, Emptied
<1>9. OnceStep
  BY <1>3 DEF OnceStep, Once
<1>10. ASSUME drain' = drain PROVE DrainOK'
  BY <1>1, <1>2, <1>3, <1>10 DEF DrainOK
<1>11. Rest'
  BY <1>5, <1>6, <1>8 DEF Rest
<1>. QED BY <1>3, <1>9, <1>10, <1>11

LEMMA RestDrain ==
    ASSUME Rest', DrainOK'
    PROVE  IInv'
  BY DEF Rest, IInv

LEMMA BeginCollected ==
    ASSUME IInv, Begin
    PROVE  Collected(heap, heap')
<1>1. heap.phase = "Pause" /\ heap' = beginIncrementalMark(heap)
  BY DEF Begin
<1>2. PICK c, k, K : Good(heap, Held, c, k, K) /\ Typed(heap, K)
  BY IInvFacts
<1>3. /\ Good(heap', Held, c, 0, K) /\ heap'.body = heap.body /\ heap'.pool = heap.pool
      /\ heap'.pending = heap.pending /\ heap'.finalized = heap.finalized
  BY <1>1, <1>2, BeginLemma
<1>. QED BY <1>2, <1>3, CollectedSame

LEMMA AtomicCollected ==
    ASSUME IInv, Atomic
    PROVE  Collected(heap, heap')
<1>1. heap.phase = "Atomic" /\ heap' = performIncrementalAtomic(heap)
  BY DEF Atomic
<1>2. PICK c, k, K : Good(heap, Held, c, k, K) /\ Typed(heap, K)
  BY IInvFacts
<1>. QED BY <1>1, <1>2, AtomicLemma, IInvFacts

LEMMA PropagateCollected ==
    ASSUME IInv, Propagate
    PROVE  Collected(heap, heap')
<1>1. heap.phase = "Propagate"
  BY DEF Propagate
<1>2. PICK h \in IF heap.gray = {} THEN {heap} ELSE {Scan(heap, stack, o) : o \in heap.gray} :
        heap' = [h EXCEPT !.phase = IF h.gray = {} THEN "Atomic" ELSE @]
  BY DEF Propagate
<1>3. PICK c, k, K : Good(heap, Held, c, k, K) /\ Typed(heap, K)
  BY IInvFacts
<1>4. heap \in HeapOf /\ GrayOK(heap)
  BY <1>3 DEF Good, Sound, ColorOK
<1>5. Recolored(heap, h)
  BY <1>2, <1>4, RecoloredRefl, ScanLemma
<1>6. Good(h, Held, c, k, K)
  <2>1. heap.phase = "Sweep" => h.gray = {}
    BY <1>1
  <2>. QED BY ONLY <1>3, <1>5, <2>1, GoodRecolored
<1>7. h \in HeapOf /\ Same(heap, h)
  BY <1>5 DEF Recolored
<1> DEFINE g == heap'
<1>8. /\ g \in HeapOf /\ g.phase \in {"Propagate", "Atomic"}
      /\ g.body = h.body /\ g.next = h.next /\ g.accounted = h.accounted /\ g.head = h.head
      /\ g.count = h.count /\ g.total = h.total /\ g.current = h.current /\ g.previous = h.previous
      /\ g.pending = h.pending /\ g.finalized = h.finalized /\ g.pool = h.pool
      /\ g.color = h.color /\ g.gray = h.gray /\ g.capacity = h.capacity
  <2>1. h.phase = "Propagate"
    BY <1>1, <1>7 DEF Same
  <2>2. "Atomic" \in Phases
    BY DEF Phases
  <2>. QED BY <1>2, <1>7, <2>1, <2>2 DEF HeapOf
<1>9. /\ h.phase = "Propagate" /\ heap'.body = heap.body /\ heap'.pool = heap.pool
      /\ heap'.pending = heap.pending /\ heap'.finalized = heap.finalized
  BY <1>1, <1>7, <1>8 DEF Same
<1> HIDE DEF g
<1>10. Good(g, Held, c, k, K)
  <2>1. /\ Sound(h) /\ IsList(h, c) /\ Cursor(h, c, k) /\ Keeps(h, Held, K)
    BY <1>6 DEF Good
  <2>2. Live(g) = Live(h) /\ Big(g) = Big(h) /\ (\A o : Inner(g, o) = Inner(h, o))
    BY <1>8, SameBodies
  <2>3. White(g) = White(h)
    BY <1>8, <2>2 DEF White
  <2>4. Counted(g) /\ QueueOK(g) /\ IsList(g, c) /\ Keeps(g, Held, K)
    BY <1>8, <2>1, <2>2 DEF Counted, QueueOK, IsList, Keeps, Sound
  <2>5. ColorOK(g)
    BY <1>8, <1>9, <2>1, <2>2, <2>3 DEF Sound, ColorOK, GrayOK, Marking, AllQueued, Tri, Unscanned
  <2>6. Cursor(g, c, k)
    BY <1>8, <1>9, <2>1, <2>2 DEF Cursor
  <2>. QED BY <1>8, <2>4, <2>5, <2>6 DEF Good, Sound
<1>. QED BY <1>3, <1>9, <1>10, CollectedSame DEF g

LEMMA PendingKept ==
    ASSUME IInv, NEW c, NEW k, NEW K, Good(heap, Held, c, k, K)
    PROVE  Range(heap.pending) \subseteq K /\ (callback # Null => callback \in K)
<1>1. Held = {stack[s] : s \in Slots} \cup {callback} \cup Range(heap.pending)
  BY DEF Held
<1>2. Held \ {Null} \subseteq K
  BY DEF Good, Keeps
<1>3. Range(heap.pending) \subseteq Objects
  BY IInvFacts, HeapFields, SeqFacts
<1>. QED BY <1>1, <1>2, <1>3, ObjectListAssumption

LEMMA SweepStepCollected ==
    ASSUME IInv, SweepStep
    PROVE  Collected(heap, heap')
<1>1. /\ heap.phase = "Sweep"
      /\ heap' = IF heap.current = Null THEN [heap EXCEPT !.phase = "Finalize"] ELSE sweepStep(heap)
  BY DEF SweepStep
<1>2. PICK c, k, K : Good(heap, Held, c, k, K) /\ Typed(heap, K)
  BY IInvFacts
<1>3. Range(heap.pending) \subseteq K /\ (callback # Null => callback \in K)
  BY <1>2, PendingKept
<1>4. Sweeping(heap, Held, c, k, K) /\ heap.current = After(c, k)
  BY <1>1, <1>2, <1>3, GoodSweeping
<1>5. (\E d, j : Good(heap', Held, d, j, K)) /\ Freed(heap, heap', K)
  <2>1. CASE heap.current # Null
    <3>1. heap' = sweepStep(heap)
      BY <1>1, <2>1
    <3>. QED BY <1>1, <1>2, <1>3, <2>1, <3>1, SweepStepLemma
  <2>2. CASE heap.current = Null
    <3>1. heap' = [heap EXCEPT !.phase = "Finalize"] /\ heap \in HeapOf /\ "Finalize" \in Phases
      BY <1>1, <2>2, IInvFacts DEF Phases
    <3>2. IsRephased(heap, heap', After(c, k))
      BY <1>4, <2>2, <3>1 DEF IsRephased, HeapOf
    <3>. QED BY <1>4, <3>2, RephaseLemma
  <2>. QED BY <2>1, <2>2
<1>6. Held = HeldIn(heap')
  BY <1>5 DEF Held, HeldIn, Freed
<1>10. Typed(heap', K)
  <2>1. K \subseteq Objects /\ Keeps(heap, Held, K)
    BY <1>2, LiveFacts DEF Good, Keeps
  <2>2. \A o \in K : heap'.body[o] = heap.body[o]
    BY <1>5, <2>1 DEF Freed
  <2>. QED BY <1>2, <2>1, <2>2, TypedKept
<1>11. Parted(heap, {})
  BY <1>2, IInvFacts, NothingParted DEF Good
<1>7. IsCollected(heap, heap', heap, {}, K)
  BY <1>10, <1>11, <1>3, <1>5, <1>6, QueuedRefl DEF IsCollected
<1>. QED BY <1>7 DEF Collected

\* The four steps of a cycle before its finalizers.
CycleStep == Begin \/ Propagate \/ Atomic \/ SweepStep

LEMMA CycleCollected ==
    ASSUME IInv, CycleStep
    PROVE  Collected(heap, heap') /\ Runs /\ UNCHANGED idle /\ drain' = drain
<1>1. Collected(heap, heap')
  BY BeginCollected, PropagateCollected, AtomicCollected, SweepStepCollected DEF CycleStep
<1>2. Runs /\ UNCHANGED idle /\ drain' = drain
  BY DEF CycleStep, Begin, Propagate, Atomic, SweepStep
<1>. QED BY <1>1, <1>2

LEMMA CycleKeeps ==
    ASSUME IInv, CycleStep
    PROVE  IInv' /\ OnceStep
<1>1. Collected(heap, heap') /\ Runs /\ UNCHANGED idle /\ drain' = drain
  BY CycleCollected
<1>2. stage # "closed"
  BY <1>1, RunsFacts
<1>. QED BY <1>1, <1>2, CollectorKeeps, RestDrain

LEMMA CollectedReset ==
    ASSUME NEW h, Collected(heap, h)
    PROVE  Collected(heap, resetIncrementalCycle(h))
<1> DEFINE r == resetIncrementalCycle(h)
<1>1. PICK m, D, K : IsCollected(heap, h, m, D, K)
  BY DEF Collected
<1>2. /\ Queued(heap, m, D) /\ Freed(m, h, K) /\ Range(m.pending) \subseteq K
      /\ (callback # Null => callback \in K) /\ Typed(h, K) /\ \E c, k : Good(h, HeldIn(h), c, k, K)
      /\ Parted(heap, D)
  BY <1>1 DEF IsCollected
<1>3. PICK c, k : Good(h, HeldIn(h), c, k, K)
  BY <1>2
<1>4. Sound(h) /\ IsList(h, c) /\ Keeps(h, HeldIn(h), K) /\ h \in HeapOf /\ QueueOK(h)
  BY <1>3 DEF Good, Sound
<1>5. Good(r, HeldIn(h), c, 0, K)
  BY <1>4, GoodReset
<1>6. r.body = h.body /\ r.pending = h.pending /\ r.finalized = h.finalized /\ r.pool = h.pool
  BY <1>4, ResetFields
<1> HIDE DEF r
<1>7. Live(r) = Live(h)
  BY <1>6, SameBodies
<1>8. Freed(h, r, K)
  BY <1>4, <1>6, <1>7 DEF Freed, QueueOK, PoolOK
<1>9. Freed(m, r, K)
  BY ONLY <1>2, <1>8, FreedTrans
<1>10. HeldIn(r) = HeldIn(h)
  BY <1>6 DEF HeldIn
<1>12. Typed(r, K)
  BY <1>2, <1>6, TypedSame
<1>11. IsCollected(heap, r, m, D, K)
  BY <1>12, <1>2, <1>5, <1>9, <1>10 DEF IsCollected
<1>. QED BY <1>11 DEF Collected, r

\* The copy of the queue.
LEMMA ScheduledFacts ==
    ASSUME NEW h \in HeapOf, QueueOK(h)
    PROVE  /\ Scheduled(h) \in Seq(Objects) /\ Range(Scheduled(h)) \subseteq Range(h.pending)
           /\ OneEach(Scheduled(h))
<1> DEFINE s == h.pending
           n == IF Len(s) < DrainLimit THEN Len(s) ELSE DrainLimit
           t == SubSeq(s, 1, n)
<1>1. s \in Seq(Objects) /\ Len(s) \in Nat /\ DrainLimit \in Nat
  BY HeapFields, ObjectListAssumption
<1>2. n \in Nat /\ n <= Len(s)
  BY <1>1
<1>3. Scheduled(h) = t
  BY DEF Scheduled
<1>4. \A i, j \in 1 .. Len(s) : s[i] = s[j] => i = j
  BY DEF QueueOK
<1> HIDE DEF s, n
<1>5. t \in Seq(Objects) /\ Len(t) = n /\ \A i \in 1 .. n : t[i] = s[i] /\ i \in 1 .. Len(s)
  BY <1>1, <1>2
<1> HIDE DEF t
<1>6. Range(t) \subseteq Range(s)
  <2>1. ASSUME NEW x \in Range(t) PROVE x \in Range(s)
    <3>1. PICK i \in 1 .. Len(t) : t[i] = x
      BY <1>5, SeqFacts
    <3>2. t[i] = s[i] /\ i \in 1 .. Len(s)
      BY <1>5, <3>1
    <3>. QED BY <1>1, <3>1, <3>2, SeqFacts
  <2>. QED BY <2>1
<1>7. OneEach(t)
  BY <1>4, <1>5 DEF OneEach
<1>. QED BY <1>3, <1>5, <1>6, <1>7 DEF s

LEMMA RunFinalizersKeeps ==
    ASSUME IInv, Runs, UNCHANGED idle, NEW h, NEW byStep \in BOOLEAN, Collected(heap, h),
           RunFinalizers(h, byStep)
    PROVE  IInv' /\ OnceStep
<1>1. stage # "closed" /\ DrainOK
  BY RunsFacts, IInvFacts
<1>2. CASE drain = Null /\ stage = "running" /\ Scheduled(h) # <<>>
  <2>1. heap' = h /\ drain' = [left |-> Scheduled(h), byStep |-> byStep]
    BY <1>2 DEF RunFinalizers
  <2>2. Rest' /\ OnceStep
    BY <1>1, <2>1, CollectorKeeps
  <2>3. h \in HeapOf /\ QueueOK(h)
    <3>1. PICK m, D, K : IsCollected(heap, h, m, D, K)
      BY DEF Collected
    <3>2. PICK c, k : Good(h, HeldIn(h), c, k, K)
      BY <3>1 DEF IsCollected
    <3>. QED BY <3>2 DEF Good, Sound
  <2>4. /\ Scheduled(h) \in Seq(Objects) /\ Range(Scheduled(h)) \subseteq Range(h.pending)
        /\ OneEach(Scheduled(h))
    BY <2>3, ScheduledFacts
  <2>5. callback = Null /\ callback' = Null /\ stage' = "running"
    BY <1>1, <1>2 DEF DrainOK, idle
  <2>6. drain'.left = Scheduled(h) /\ drain' \in [left : Seq(Objects), byStep : BOOLEAN]
    BY <2>1, <2>4
  <2>7. DrainOK'
    BY <1>2, <2>1, <2>4, <2>5, <2>6 DEF DrainOK, OneEach
  <2>. QED BY <2>2, <2>7, RestDrain
<1>3. CASE ~(drain = Null /\ stage = "running" /\ Scheduled(h) # <<>>)
  <2>1. heap' = resetIncrementalCycle(h) /\ drain' = drain
    BY <1>3 DEF RunFinalizers
  <2>2. Collected(heap, heap')
    BY <2>1, CollectedReset
  <2>. QED BY <1>1, <2>1, <2>2, CollectorKeeps, RestDrain
<1>. QED BY <1>2, <1>3

\* What is done before the finalizers of a cycle or of a collection.
LEMMA FinalizeCollected ==
    ASSUME IInv, Finalize \/ Collect
    PROVE  /\ Runs /\ UNCHANGED idle
           /\ \E h : Collected(heap, h) /\ \E byStep \in BOOLEAN : RunFinalizers(h, byStep)
<1>1. PICK c, k, K : Good(heap, Held, c, k, K) /\ Typed(heap, K)
  BY IInvFacts
<1>2. CASE Finalize
  <2>1. Runs /\ RunFinalizers(heap, TRUE) /\ UNCHANGED idle
    BY <1>2 DEF Finalize
  <2>2. Collected(heap, heap)
    BY <1>1, CollectedSame
  <2>. QED BY <2>1, <2>2
<1>3. CASE Collect
  <2>1. Runs /\ RunFinalizers(collectMarkSweep(heap), FALSE) /\ UNCHANGED idle
    BY <1>3 DEF Collect
  <2>2. Collected(heap, collectMarkSweep(heap))
    BY <1>1, CollectLemma, IInvFacts
  <2>. QED BY <2>1, <2>2
<1>. QED BY <1>2, <1>3

LEMMA FinalizeKeeps ==
    ASSUME IInv, Finalize \/ Collect
    PROVE  IInv' /\ OnceStep
  BY FinalizeCollected, RunFinalizersKeeps

\* So does the whole step.
LEMMA StepCollected ==
    ASSUME IInv, Collector
    PROVE  Collected(heap, heap') /\ UNCHANGED idle
<1>1. CASE CycleStep
  BY <1>1, CycleCollected
<1>2. CASE Finalize \/ Collect
  <2>1. PICK h : Collected(heap, h) /\ \E byStep \in BOOLEAN : RunFinalizers(h, byStep)
    BY <1>2, FinalizeCollected
  <2>2. heap' = h \/ heap' = resetIncrementalCycle(h)
    BY <2>1 DEF RunFinalizers
  <2>3. Collected(heap, heap')
    BY <2>1, <2>2, CollectedReset
  <2>. QED BY <1>2, <2>3, FinalizeCollected
<1>. QED BY <1>1, <1>2 DEF Collector, CycleStep

-----------------------------------------------------------------------------
(***************************************************************************)
(* The steps of finalizers.                                                *)
(***************************************************************************)

IsRequeued(h, g, p, F) ==
    /\ g \in HeapOf /\ g.pending = p /\ g.finalized = F
    /\ g.body = h.body /\ g.color = h.color /\ g.next = h.next /\ g.accounted = h.accounted
    /\ g.head = h.head /\ g.count = h.count /\ g.total = h.total /\ g.phase = h.phase
    /\ g.current = h.current /\ g.previous = h.previous /\ g.gray = h.gray
    /\ g.capacity = h.capacity /\ g.pool = h.pool

LEMMA RequeueGood ==
    ASSUME NEW h, NEW hold, NEW c, NEW k, NEW K, Good(h, hold, c, k, K),
           NEW g, NEW p, NEW F, IsRequeued(h, g, p, F), h.finalized \subseteq F, F \subseteq Live(h),
           Range(p) \subseteq F, OneEach(p)
    PROVE  Good(g, hold, c, k, K)
<1>1. /\ g \in HeapOf /\ g.pending = p /\ g.finalized = F
      /\ g.body = h.body /\ g.color = h.color /\ g.next = h.next /\ g.accounted = h.accounted
      /\ g.head = h.head /\ g.count = h.count /\ g.total = h.total /\ g.phase = h.phase
      /\ g.current = h.current /\ g.previous = h.previous /\ g.gray = h.gray
      /\ g.capacity = h.capacity /\ g.pool = h.pool
  BY DEF IsRequeued
<1>2. /\ Live(g) = Live(h) /\ Big(g) = Big(h) /\ (\A o : Inner(g, o) = Inner(h, o))
      /\ (\A o, kind : Is(g, o, kind) = Is(h, o, kind))
  BY <1>1, SameBodies
<1>3. White(g) = White(h)
  BY <1>1, <1>2 DEF White
<1>4. Sound(h) /\ IsList(h, c) /\ Cursor(h, c, k) /\ Keeps(h, hold, K) /\ (h.phase = "Sweep" => Ahead(h, c, k, K))
  BY DEF Good
<1>5. Counted(g) /\ IsList(g, c) /\ Cursor(g, c, k) /\ Keeps(g, hold, K)
  BY <1>1, <1>2, <1>4 DEF Sound, Counted, IsList, Cursor, Keeps
<1>6. QueueOK(g)
  BY <1>1, <1>2 DEF QueueOK, OneEach
<1>7. ColorOK(g)
  BY <1>1, <1>2, <1>3, <1>4 DEF Sound, ColorOK, GrayOK, Marking, AllQueued, Tri, Unscanned
<1>8. h.phase = "Sweep" => Ahead(g, c, k, K)
  BY <1>1, <1>2, <1>4 DEF Ahead
<1>. QED BY <1>1, <1>5, <1>6, <1>7, <1>8 DEF Good, Sound

LEMMA StillPendingFacts ==
    ASSUME NEW h \in HeapOf, QueueOK(h), NEW u
    PROVE  LET g == StillPending(h, u)
           IN  /\ IsRequeued(h, g, g.pending, h.finalized) /\ OneEach(g.pending)
               /\ Range(g.pending) = Range(h.pending) \ {u}
<1> DEFINE g == StillPending(h, u)
           p == Selected(h.pending, Objects \ {u})
<1>1. h.pending \in Seq(Objects) /\ OneEach(h.pending) /\ Range(h.pending) \subseteq Objects
  <2>1. h.pending \in Seq(Objects)
    BY HeapFields
  <2>. QED BY <2>1, SeqFacts DEF QueueOK, OneEach
<1>2. /\ p \in Seq(Objects) /\ Range(p) = Range(h.pending) \cap (Objects \ {u})
      /\ OneEach(h.pending) => OneEach(p)
  BY ONLY <1>1, SelectedFacts
<1>3. g = [h EXCEPT !.pending = p]
  BY DEF StillPending
<1> HIDE DEF p
<1>4. IsRequeued(h, g, g.pending, h.finalized) /\ g.pending = p
  BY <1>2, <1>3 DEF IsRequeued, HeapOf
<1>5. Range(p) = Range(h.pending) \ {u}
  BY <1>1, <1>2
<1>. QED BY <1>1, <1>2, <1>4, <1>5

\* A finalizer ends: its userdata is no longer held.
LEMMA FinalizerEnds ==
    ASSUME IInv, stage = "running", callback # Null, NEW g, g = StillPending(heap, callback),
           heap' \in {g, resetIncrementalCycle(g)}, callback' = Null,
           UNCHANGED <<stack, open, stage, entered, finals>>
    PROVE  Rest' /\ OnceStep /\ Range(heap'.pending) = Range(heap.pending) \ {callback}
<1>1. /\ Sound(heap) /\ heap \in HeapOf /\ heap.finalized \subseteq Live(heap) /\ PoolOK(heap) /\ StackOK
      /\ OpenIn(heap) /\ StageOK /\ FinalsIn(heap, finals, callback) /\ QueueOK(heap)
  BY IInvFacts DEF Sound
<1>2. PICK c, k, K : Good(heap, Held, c, k, K) /\ Typed(heap, K)
  BY IInvFacts
<1>3. /\ IsRequeued(heap, g, g.pending, heap.finalized) /\ OneEach(g.pending)
      /\ Range(g.pending) = Range(heap.pending) \ {callback}
  BY <1>1, StillPendingFacts
<1>4. Good(g, Held, c, k, K)
  <2>1. Range(g.pending) \subseteq heap.finalized /\ heap.finalized \subseteq heap.finalized
    BY <1>1, <1>3 DEF QueueOK
  <2>. QED BY ONLY <1>1, <1>2, <1>3, <2>1, RequeueGood
<1>5. /\ g \in HeapOf /\ g.finalized = heap.finalized /\ g.body = heap.body /\ g.pool = heap.pool
      /\ Sound(g) /\ IsList(g, c) /\ Keeps(g, Held, K)
  BY <1>3, <1>4 DEF IsRequeued, Good
<1>6. \E d, j : Good(heap', Held, d, j, K)
  BY <1>4, <1>5, GoodReset
<1>7. /\ heap'.body = heap.body /\ heap'.pool = heap.pool /\ heap'.finalized = heap.finalized
      /\ heap'.pending = g.pending
  BY <1>5, ResetFields
<1>8. Live(heap') = Live(heap) /\ \A o, kind : Is(heap', o, kind) = Is(heap, o, kind)
  BY <1>7, SameBodies
<1>9. stack' = stack /\ open' = open /\ stage' = stage /\ entered' = entered /\ finals' = finals
  OBVIOUS
<1>10. (\E d, j, L : Good(heap, Held, d, j, L) /\ Typed(heap, L))'
  <2>1. PICK d, j : Good(heap', Held, d, j, K)
    BY <1>6
  <2>2. Held = {stack[s] : s \in Slots} \cup {callback} \cup Range(heap.pending)
    BY DEF Held
  <2>3. Held' = {stack[s] : s \in Slots} \cup {Null} \cup Range(heap'.pending)
    BY <1>9 DEF Held
  <2>4. Held \ {Null} \subseteq K
    BY <2>1 DEF Good, Keeps
  <2>5. Held' \ {Null} \subseteq K
    BY <1>3, <1>7, <2>2, <2>3, <2>4
  <2>6. Good(heap', Held', d, j, K)
    BY ONLY <2>1, <2>5, GoodHold
  <2>7. Typed(heap', K)
    BY <1>2, <1>7, TypedSame
  <2>. QED BY <2>6, <2>7
<1>11. PoolOK(heap)' /\ StackOK' /\ OpenOK'
  BY <1>1, <1>7, <1>9 DEF PoolOK, StackOK, OpenOK, OpenIn
<1>12. StageOK'
  BY <1>1, <1>8, <1>9 DEF StageOK
<1>13. FinalsOK'
  <2>1. /\ finals \in [Objects -> {0, 1}]
        /\ \A o \in Live(heap) : Is(heap, o, "userdata") =>
              finals[o] = IF o \in heap.finalized /\ (o \notin Range(heap.pending) \/ o = callback) THEN 1 ELSE 0
        /\ \A o \in heap.finalized : Is(heap, o, "userdata")
    BY <1>1 DEF FinalsIn
  <2>2. Null \notin Live(heap)
    BY LiveFacts, ObjectListAssumption
  <2>3. Range(heap'.pending) = Range(heap.pending) \ {callback}
    BY <1>3, <1>7
  <2>4. ASSUME NEW o \in Live(heap), Is(heap, o, "userdata")
        PROVE  finals[o] = IF o \in heap.finalized /\ (o \notin Range(heap'.pending) \/ o = Null) THEN 1 ELSE 0
    BY <2>1, <2>2, <2>3, <2>4
  <2>. QED BY <1>7, <1>8, <1>9, <2>1, <2>4 DEF FinalsOK
<1>14. OnceStep
  BY <1>8 DEF OnceStep
<1>. QED BY <1>3, <1>7, <1>10, <1>11, <1>12, <1>13, <1>14 DEF Rest

LEMMA FinalizerReturnsKeeps ==
    ASSUME IInv, FinalizerReturns
    PROVE  IInv' /\ OnceStep
<1> DEFINE left == Tail(drain.left)
           g == StillPending(heap, callback)
<1>1. /\ stage = "running" /\ callback # Null /\ callback' = Null
      /\ UNCHANGED <<stack, open, stage, entered, finals>>
      /\ drain' = IF left = <<>> THEN Null ELSE [drain EXCEPT !.left = left]
      /\ heap' \in {g, resetIncrementalCycle(g)}
  BY DEF FinalizerReturns
<1>2. Rest' /\ OnceStep /\ Range(heap'.pending) = Range(heap.pending) \ {callback}
  BY <1>1, FinalizerEnds
<1>3. /\ drain \in [left : Seq(Objects), byStep : BOOLEAN] /\ drain.left # <<>>
      /\ Range(drain.left) \subseteq Range(heap.pending)
      /\ \A i, j \in 1 .. Len(drain.left) : drain.left[i] = drain.left[j] => i = j
      /\ callback = drain.left[1]
  BY <1>1 DEF IInv, DrainOK
<1>4. DrainOK'
  <2>1. CASE left = <<>>
    BY <1>1, <2>1 DEF DrainOK
  <2>2. CASE left # <<>>
    <3>1. drain.left \in Seq(Objects)
      BY <1>3
    <3>2. /\ left \in Seq(Objects) /\ Len(left) + 1 = Len(drain.left) /\ Len(left) \in Nat
          /\ \A i \in 1 .. Len(left) : left[i] = drain.left[i + 1] /\ i + 1 \in 1 .. Len(drain.left) /\ i + 1 # 1
      BY <1>3, <3>1
    <3> HIDE DEF left
    <3>3. drain' = [drain EXCEPT !.left = left]
      BY <1>1, <2>2
    <3>4. drain' \in [left : Seq(Objects), byStep : BOOLEAN] /\ drain'.left = left
      BY <1>3, <3>2, <3>3
    <3>5. ASSUME NEW x \in Range(left) PROVE x \in Range(heap'.pending)
      <4>1. PICK i \in 1 .. Len(left) : left[i] = x
        BY <3>2, SeqFacts
      <4>2. x = drain.left[i + 1] /\ i + 1 \in 1 .. Len(drain.left) /\ i + 1 # 1 /\ 1 \in 1 .. Len(drain.left)
        BY <3>2, <4>1
      <4>3. x # callback
        BY <1>3, <4>2
      <4>4. x \in Range(drain.left)
        BY <3>1, <4>2, SeqFacts
      <4>. QED BY <1>2, <1>3, <4>3, <4>4
    <3>6. ASSUME NEW i \in 1 .. Len(left), NEW j \in 1 .. Len(left), left[i] = left[j] PROVE i = j
      <4>1. i + 1 = j + 1
        BY <1>3, <3>2, <3>6
      <4>. QED BY <3>2, <4>1
    <3>. QED BY <1>1, <2>2, <3>4, <3>5, <3>6 DEF DrainOK
  <2>. QED BY <2>1, <2>2
<1>. QED BY <1>2, <1>4, RestDrain

LEMMA FinalizerThrowsKeeps ==
    ASSUME IInv, FinalizerThrows
    PROVE  IInv' /\ OnceStep
<1> DEFINE g == StillPending(heap, callback)
<1>1. /\ stage = "running" /\ callback # Null /\ callback' = Null /\ drain' = Null
      /\ UNCHANGED <<stack, open, stage, entered, finals>>
      /\ heap' \in {g, resetIncrementalCycle(g)}
  BY DEF FinalizerThrows
<1>2. Rest' /\ OnceStep
  BY <1>1, FinalizerEnds
<1>3. DrainOK'
  BY <1>1 DEF DrainOK
<1>. QED BY <1>2, <1>3, RestDrain

\* The first of what is left to drain was queued and has not been finalized.
LEMMA HeadFacts ==
    ASSUME IInv, CallFinalizer
    PROVE  LET u == Head(drain.left)
           IN  /\ u = drain.left[1]
               /\ u \in Range(heap.pending) /\ u \in Objects /\ u # Null /\ u \in heap.finalized
               /\ Is(heap, u, "userdata") /\ finals[u] = 0 /\ u \in Live(heap)
<1> DEFINE u == Head(drain.left)
<1>1. stage = "running" /\ drain # Null /\ callback = Null
  BY DEF CallFinalizer
<1>2. /\ DrainOK /\ FinalsOK /\ heap.pending \in Seq(Objects)
      /\ QueueOK(heap) /\ heap.finalized \subseteq Live(heap)
  <2>1. heap.pending \in Seq(Objects)
    BY IInvFacts, HeapFields
  <2>. QED BY <2>1, IInvFacts DEF IInv, Sound
<1>4. /\ drain \in [left : Seq(Objects), byStep : BOOLEAN] /\ drain.left # <<>>
      /\ Range(drain.left) \subseteq Range(heap.pending)
  BY <1>1, <1>2 DEF DrainOK
<1>5. u = drain.left[1] /\ u \in Range(heap.pending)
  <2>1. drain.left \in Seq(Objects) /\ drain.left # <<>>
    BY <1>4
  <2>2. u = drain.left[1] /\ 1 \in 1 .. Len(drain.left)
    BY <2>1
  <2>. QED BY <1>4, <2>1, <2>2, SeqFacts
<1> HIDE DEF u
<1>6. u \in Objects /\ u # Null /\ u \in heap.finalized /\ Is(heap, u, "userdata") /\ finals[u] = 0 /\ u \in Live(heap)
  <2>1. u \in Objects /\ u \in heap.finalized /\ u \in Live(heap)
    BY <1>2, <1>5, SeqFacts DEF QueueOK
  <2>. QED BY <1>1, <1>2, <1>5, <2>1, ObjectListAssumption DEF FinalsOK
<1>. QED BY <1>5, <1>6 DEF u

LEMMA CallFinalizerKeeps ==
    ASSUME IInv, CallFinalizer
    PROVE  IInv' /\ OnceStep
<1> DEFINE u == Head(drain.left)
<1>1. /\ stage = "running" /\ drain # Null /\ callback = Null
      /\ finals' = [finals EXCEPT ![u] = @ + 1] /\ callback' = u
      /\ heap' = heap /\ stack' = stack /\ open' = open /\ drain' = drain /\ stage' = stage /\ entered' = entered
  BY DEF CallFinalizer, Called
<1>2. /\ PoolOK(heap) /\ StackOK /\ OpenOK /\ StageOK /\ DrainOK /\ FinalsOK /\ heap.pending \in Seq(Objects)
      /\ QueueOK(heap) /\ heap.finalized \subseteq Live(heap)
  <2>1. heap.pending \in Seq(Objects)
    BY IInvFacts, HeapFields
  <2>. QED BY <2>1, IInvFacts DEF IInv, Sound
<1>3. PICK c, k, K : Good(heap, Held, c, k, K) /\ Typed(heap, K)
  BY IInvFacts
<1>6. /\ u \in Range(heap.pending) /\ u \in Objects /\ u # Null /\ u \in heap.finalized
      /\ Is(heap, u, "userdata") /\ finals[u] = 0 /\ u \in Live(heap)
  BY HeadFacts
<1>5. u = drain.left[1] /\ u \in Range(heap.pending)
  BY HeadFacts
<1> HIDE DEF u
<1>7. FinalsOK'
  <2>1. /\ finals \in [Objects -> {0, 1}]
        /\ \A o \in Live(heap) : Is(heap, o, "userdata") =>
              finals[o] = IF o \in heap.finalized /\ (o \notin Range(heap.pending) \/ o = Null) THEN 1 ELSE 0
        /\ \A o \in heap.finalized : Is(heap, o, "userdata")
    BY <1>1, <1>2 DEF FinalsOK
  <2>2. finals' \in [Objects -> {0, 1}] /\ finals'[u] = 1 /\ \A o \in Objects : o # u => finals'[o] = finals[o]
    BY <1>1, <1>6, <2>1
  <2>3. Null \notin Live(heap) /\ Live(heap) \subseteq Objects
    BY LiveFacts, ObjectListAssumption
  <2>4. ASSUME NEW o \in Live(heap), Is(heap, o, "userdata")
        PROVE  finals'[o] = IF o \in heap.finalized /\ (o \notin Range(heap.pending) \/ o = u) THEN 1 ELSE 0
    BY <1>6, <2>1, <2>2, <2>3, <2>4
  <2>. QED BY <1>1, <1>6, <2>1, <2>2, <2>4 DEF FinalsOK
<1>8. (\E d, j, L : Good(heap, Held, d, j, L) /\ Typed(heap, L))'
  <2>1. Held = {stack[s] : s \in Slots} \cup {callback} \cup Range(heap.pending)
    BY DEF Held
  <2>2. Held' = {stack[s] : s \in Slots} \cup {u} \cup Range(heap.pending)
    BY <1>1 DEF Held
  <2>3. Held \ {Null} \subseteq K
    BY <1>3 DEF Good, Keeps
  <2>4. Held' \ {Null} \subseteq K
    BY <1>5, <1>6, <2>1, <2>2, <2>3
  <2>5. Good(heap, Held', c, k, K)
    BY ONLY <1>3, <2>4, GoodHold
  <2>. QED BY <1>1, <1>3, <2>5
<1>9. PoolOK(heap)' /\ StackOK' /\ OpenOK' /\ StageOK' /\ DrainOK'
  <2>1. PoolOK(heap)' /\ StackOK' /\ OpenOK'
    BY <1>1, <1>2 DEF PoolOK, StackOK, OpenOK
  <2>2. StageOK'
    BY <1>1, <1>2 DEF StageOK
  <2>3. DrainOK'
    BY <1>1, <1>2, <1>5 DEF DrainOK
  <2>. QED BY <2>1, <2>2, <2>3
<1>10. OnceStep
  BY <1>1 DEF OnceStep
<1>. QED BY <1>7, <1>8, <1>9, <1>10 DEF Rest, IInv

-----------------------------------------------------------------------------
(***************************************************************************)
(* Closing the state.                                                      *)
(***************************************************************************)

LEMMA NextFacts ==
    ASSUME IInv, NEW u, u = NextToClose(heap)
    PROVE  /\ u # Null => /\ u \in Live(heap) /\ u \in Objects /\ Is(heap, u, "userdata")
                          /\ u \in Range(heap.pending) \/ u \notin heap.finalized
           /\ u = Null => /\ heap.pending = <<>>
                          /\ \A o \in Live(heap) : Is(heap, o, "userdata") => o \in heap.finalized
<1> DEFINE p == heap.pending
           D == {o \in Objects \ heap.finalized : Is(heap, o, "userdata")}
<1>1. PICK c, k, K : Good(heap, Held, c, k, K) /\ Typed(heap, K)
  BY IInvFacts
<1>2. IsList(heap, c) /\ Chain(heap) = c /\ c \in Seq(Objects) /\ Range(c) = Live(heap)
  BY <1>1, ChainIsList, ListFacts DEF Good
<1>3. /\ p \in Seq(Objects) /\ Range(p) \subseteq heap.finalized /\ heap.finalized \subseteq Live(heap)
      /\ \A o \in heap.finalized : Is(heap, o, "userdata")
  <2>1. p \in Seq(Objects)
    BY IInvFacts, HeapFields
  <2>. QED BY <2>1, IInvFacts DEF Sound, QueueOK, FinalsIn
<1> DEFINE left == Selected(c, D)
<1>4. left \in Seq(Objects) /\ Range(left) = Range(c) \cap D
  <2> HIDE DEF D
  <2>. QED BY ONLY <1>2, SelectedFacts
<1>5. u = IF p # <<>> THEN p[Len(p)] ELSE IF left = <<>> THEN Null ELSE Head(left)
  BY <1>2 DEF NextToClose
<1> HIDE DEF p, left
<1>6. CASE p # <<>>
  <2>1. u = p[Len(p)] /\ Len(p) \in 1 .. Len(p)
    BY <1>3, <1>5, <1>6
  <2>2. u \in Range(p) /\ u \in Objects
    BY <1>3, <2>1, SeqFacts
  <2>3. u \in Live(heap) /\ Is(heap, u, "userdata") /\ u # Null
    BY <1>3, <2>2, ObjectListAssumption
  <2>. QED BY <2>2, <2>3 DEF p
<1>7. CASE p = <<>> /\ left # <<>>
  <2>1. u = left[1] /\ 1 \in 1 .. Len(left)
    BY <1>4, <1>5, <1>7
  <2>2. u \in Range(left) /\ u \in Objects
    BY <1>4, <2>1, SeqFacts
  <2>3. u \in Live(heap) /\ Is(heap, u, "userdata") /\ u # Null /\ u \notin heap.finalized
    BY <1>2, <1>4, <2>2, ObjectListAssumption
  <2>. QED BY <2>2, <2>3
<1>8. CASE p = <<>> /\ left = <<>>
  <2>1. u = Null
    BY <1>5, <1>8
  <2>2. \A x : x \notin Range(left)
    BY <1>8 DEF Range
  <2>3. \A o \in Live(heap) : Is(heap, o, "userdata") => o \in heap.finalized
    BY <1>2, <1>4, <2>2, LiveFacts
  <2>. QED BY <1>8, <2>1, <2>3 DEF p
<1>. QED BY <1>6, <1>7, <1>8

LEMMA CloseNextKeeps ==
    ASSUME IInv, CloseNext
    PROVE  IInv' /\ OnceStep
<1> DEFINE u == NextToClose(heap)
           s == StillPending(heap, u)
           F == heap.finalized \cup {u}
<1>1. /\ stage = "closing" /\ callback = Null /\ entered < DrainLimit /\ u # Null
      /\ heap' = [s EXCEPT !.finalized = @ \cup {u}]
      /\ finals' = [finals EXCEPT ![u] = @ + 1] /\ callback' = u /\ entered' = entered + 1
      /\ stack' = stack /\ open' = open /\ drain' = drain /\ stage' = stage
  BY DEF CloseNext, Called, Taken
<1>2. /\ u \in Live(heap) /\ u \in Objects /\ Is(heap, u, "userdata")
      /\ u \in Range(heap.pending) \/ u \notin heap.finalized
  BY <1>1, NextFacts
<1>3. /\ PoolOK(heap) /\ StackOK /\ OpenOK /\ StageOK /\ DrainOK /\ FinalsOK
      /\ QueueOK(heap) /\ heap.finalized \subseteq Live(heap) /\ heap \in HeapOf
  BY IInvFacts DEF IInv, Sound
<1>4. PICK c, k, K : Good(heap, Held, c, k, K) /\ Typed(heap, K)
  BY IInvFacts
<1> HIDE DEF u
<1>5. IsRequeued(heap, s, s.pending, heap.finalized) /\ OneEach(s.pending) /\ Range(s.pending) = Range(heap.pending) \ {u}
  BY <1>3, StillPendingFacts
<1> HIDE DEF s
<1>6. IsRequeued(heap, heap', s.pending, F) /\ heap'.pending = s.pending
  <2>1. F \in SUBSET Objects
    BY <1>2, <1>3, LiveFacts
  <2>. QED BY <1>1, <1>5, <2>1 DEF IsRequeued, HeapOf
<1>7. Held = {stack[x] : x \in Slots} \cup {callback} \cup Range(heap.pending)
  BY DEF Held
<1>8. Held \ {Null} \subseteq K /\ K \subseteq Live(heap)
  BY <1>4 DEF Good, Keeps
<1> DEFINE L == K \cup {u}
<1>9. Good(heap, Held, c, k, L)
  <2>1. CASE u \in Range(heap.pending)
    <3>1. u \in K
      BY <1>1, <1>7, <1>8, <2>1
    <3>2. L = K
      BY <3>1
    <3>. QED BY <1>4, <3>2
  <2>2. CASE u \notin heap.finalized
    <3>1. Inner(heap, u) \subseteq K \cup {u}
      BY <1>2 DEF Inner, Refs, Is
    <3>2. heap.phase = "Sweep" => \A i \in k + 1 .. Len(c) : c[i] = u => heap.color[u] # "White"
      BY <1>2, <1>4, <2>2 DEF Good, Ahead
    <3>. QED BY ONLY <1>2, <1>4, <3>1, <3>2, GoodMore
  <2>. QED BY <1>2, <2>1, <2>2
<1> HIDE DEF L
<1>10. Good(heap', Held, c, k, L)
  <2>1. heap.finalized \subseteq F /\ F \subseteq Live(heap) /\ Range(s.pending) \subseteq F
    BY <1>2, <1>3, <1>5 DEF QueueOK
  <2> HIDE DEF F
  <2>. QED BY ONLY <1>5, <1>6, <1>9, <2>1, RequeueGood
<1>11. (\E d, j, M : Good(heap, Held, d, j, M) /\ Typed(heap, M))'
  <2>1. Held' = {stack[x] : x \in Slots} \cup {u} \cup Range(s.pending)
    BY <1>1, <1>6 DEF Held
  <2>2. Held' \ {Null} \subseteq L
    BY <1>5, <1>7, <1>8, <2>1 DEF L
  <2>3. Good(heap', Held', c, k, L)
    BY ONLY <1>10, <2>2, GoodHold
  <2>4. Typed(heap, L)
    BY <1>2, <1>4 DEF Typed, Is, L
  <2>5. heap'.body = heap.body
    BY <1>6 DEF IsRequeued
  <2>6. Typed(heap', L)
    BY <2>4, <2>5, TypedSame
  <2>. QED BY <2>3, <2>6
<1>12. heap'.body = heap.body /\ heap'.pool = heap.pool /\ heap'.finalized = F
  BY <1>6 DEF IsRequeued
<1>13. Live(heap') = Live(heap) /\ \A o, kind : Is(heap', o, kind) = Is(heap, o, kind)
  BY <1>12, SameBodies
<1>14. FinalsOK'
  <2>1. /\ finals \in [Objects -> {0, 1}]
        /\ \A o \in Live(heap) : Is(heap, o, "userdata") =>
              finals[o] = IF o \in heap.finalized /\ (o \notin Range(heap.pending) \/ o = Null) THEN 1 ELSE 0
        /\ \A o \in heap.finalized : Is(heap, o, "userdata")
    BY <1>1, <1>3 DEF FinalsOK
  <2>2. finals[u] = 0
    BY <1>1, <1>2, <2>1
  <2>3. finals' \in [Objects -> {0, 1}] /\ finals'[u] = 1 /\ \A o \in Objects : o # u => finals'[o] = finals[o]
    BY <1>1, <1>2, <2>1, <2>2
  <2>4. Null \notin Live(heap) /\ Live(heap) \subseteq Objects
    BY LiveFacts, ObjectListAssumption
  <2>5. ASSUME NEW o \in Live(heap), Is(heap, o, "userdata")
        PROVE  finals'[o] = IF o \in F /\ (o \notin Range(heap'.pending) \/ o = u) THEN 1 ELSE 0
    BY <1>5, <1>6, <2>1, <2>3, <2>4, <2>5
  <2>. QED BY <1>1, <1>2, <1>12, <1>13, <2>1, <2>3, <2>5 DEF FinalsOK
<1>15. PoolOK(heap)' /\ StackOK' /\ OpenOK'
  BY <1>1, <1>3, <1>12 DEF PoolOK, StackOK, OpenOK
<1>16. StageOK'
  <2>1. entered \in 0 .. DrainLimit /\ DrainLimit \in Nat
    BY <1>3, ObjectListAssumption DEF StageOK
  <2>2. entered' \in 0 .. DrainLimit
    BY <1>1, <2>1
  <2>. QED BY <1>1, <1>5, <1>6, <2>2 DEF StageOK
<1>17. DrainOK'
  BY <1>1, <1>3 DEF DrainOK
<1>18. OnceStep
  BY <1>13 DEF OnceStep
<1>. QED BY <1>11, <1>14, <1>15, <1>16, <1>17, <1>18 DEF IInv

\* What closing upvalues leaves as it was.
LEMMA ClosedPlain ==
    ASSUME NEW h, NEW g, OpenIn(h), NEW level, ClosedAbove(h, g, level, 0)
    PROVE  /\ Plain(h, g)
           /\ \A s \in Slots : StillOpen(level)[s] # Null => g.body[StillOpen(level)[s]] = OpenUpvalue(s)
           /\ open \in [Slots -> MaybeObject] => StillOpen(level) \in [Slots -> MaybeObject]
<1>1. /\ g.pool = h.pool /\ g.pending = h.pending /\ g.finalized = h.finalized
      /\ \A o \in Objects :
          \/ g.body[o] = h.body[o]
          \/ g.body[o].kind = "closed" /\ \E s \in Slots : s >= level /\ s > 0 /\ open[s] = o
  BY DEF ClosedAbove
<1>2. /\ open \in [Slots -> MaybeObject]
      /\ \A s \in Slots : open[s] # Null => h.body[open[s]] = OpenUpvalue(s)
  BY DEF OpenIn
<1>3. ASSUME NEW o \in Objects, g.body[o] # h.body[o]
      PROVE  /\ h.body[o].kind = "open" /\ g.body[o].kind = "closed"
             /\ \E s \in Slots : s >= level /\ h.body[o] = OpenUpvalue(s)
  <2>1. g.body[o].kind = "closed"
    BY <1>1, <1>3
  <2>2. PICK s \in Slots : s >= level /\ open[s] = o
    BY <1>1, <1>3
  <2>3. h.body[o] = OpenUpvalue(s)
    BY <1>2, <2>2, ObjectListAssumption
  <2>. QED BY <2>1, <2>2, <2>3 DEF OpenUpvalue
<1>4. Plain(h, g)
  <2>1. ASSUME NEW o \in Objects, g.body[o] # h.body[o]
        PROVE  h.body[o].kind \notin {"string", "userdata"} /\ g.body[o].kind \notin {"string", "userdata"}
    BY <1>3, <2>1
  <2>. QED BY <1>1, <2>1 DEF Plain
<1>5. ASSUME NEW s \in Slots, StillOpen(level)[s] # Null
      PROVE  g.body[StillOpen(level)[s]] = OpenUpvalue(s)
  <2>1. ~(s >= level) /\ StillOpen(level)[s] = open[s] /\ open[s] # Null
    BY <1>5 DEF StillOpen
  <2>2. open[s] \in Objects /\ h.body[open[s]] = OpenUpvalue(s)
    BY <1>2, <2>1 DEF MaybeObject
  <2>3. ASSUME g.body[open[s]] # h.body[open[s]] PROVE FALSE
    <3>1. PICK t \in Slots : t >= level /\ h.body[open[s]] = OpenUpvalue(t)
      BY <1>3, <2>2, <2>3
    <3>2. s = t
      BY <2>2, <3>1 DEF OpenUpvalue
    <3>. QED BY <2>1, <3>1, <3>2
  <2>. QED BY <2>1, <2>2, <2>3
<1>6. StillOpen(level) \in [Slots -> MaybeObject]
  BY <1>2 DEF StillOpen, MaybeObject
<1>. QED BY <1>4, <1>5, <1>6

LEMMA ClosedTyped ==
    ASSUME NEW h, NEW f, NEW g, OpenIn(f), NEW hold, NEW K, Keeps(h, hold, K), Typed(h, K), NEW level,
           f.body = h.body, ClosedAbove(f, g, level, 0)
    PROVE  Typed(g, K)
<1>1. ASSUME NEW o \in K
      PROVE  g.body[o] = h.body[o] \/ (h.body[o].kind \in Upvalues /\ g.body[o].kind \in Upvalues)
  <2>1. o \in Objects
    BY LiveFacts DEF Keeps
  <2>2. CASE g.body[o].kind = "closed" /\ \E s \in Slots : s >= level /\ s > 0 /\ open[s] = o
    <3>1. PICK s \in Slots : open[s] = o
      BY <2>2
    <3>2. f.body[o] = OpenUpvalue(s)
      BY <2>1, <3>1, ObjectListAssumption DEF OpenIn
    <3>. QED BY <2>2, <3>2 DEF OpenUpvalue, Upvalues
  <2>. QED BY <2>1, <2>2 DEF ClosedAbove
<1>. QED BY <1>1, TypedKept

LEMMA CloseReturnsKeeps ==
    ASSUME IInv, CloseReturns
    PROVE  IInv' /\ OnceStep
<1>1. /\ stage = "closing" /\ callback # Null /\ callback' = Null /\ stack' = Emptied
      /\ heap' = heap /\ open' = open /\ drain' = drain /\ stage' = stage /\ entered' = entered /\ finals' = finals
  BY DEF CloseReturns
<1>2. PoolOK(heap) /\ OpenOK /\ StageOK /\ DrainOK /\ FinalsOK /\ heap.pending \in Seq(Objects)
  BY IInvFacts, HeapFields DEF IInv
<1>3. PICK c, k, K : Good(heap, Held, c, k, K) /\ Typed(heap, K)
  BY IInvFacts
<1>4. (\E d, j, L : Good(heap, Held, d, j, L) /\ Typed(heap, L))'
  <2>1. Held' \subseteq Held \cup {Null}
    BY <1>1 DEF Held, Emptied
  <2>2. Held \ {Null} \subseteq K
    BY <1>3 DEF Good, Keeps
  <2>3. Held' \ {Null} \subseteq K
    BY <2>1, <2>2
  <2>4. Good(heap, Held', c, k, K)
    BY ONLY <1>3, <2>3, GoodHold
  <2>. QED BY <1>1, <1>3, <2>4
<1>5. PoolOK(heap)' /\ OpenOK' /\ DrainOK'
  BY <1>1, <1>2 DEF PoolOK, OpenOK, DrainOK
<1>6. StackOK'
  BY <1>1 DEF StackOK, Emptied, MaybeObject
<1>7. StageOK'
  <2>1. Null \notin Range(heap.pending)
    BY <1>2, SeqFacts, ObjectListAssumption
  <2>2. stack' = Emptied'
    BY <1>1 DEF Emptied
  <2>. QED BY <1>1, <1>2, <2>1, <2>2 DEF StageOK
<1>8. FinalsOK'
  <2>1. callback \notin Range(heap.pending)
    BY <1>1, <1>2 DEF StageOK
  <2>2. /\ finals \in [Objects -> {0, 1}]
        /\ \A o \in Live(heap) : Is(heap, o, "userdata") =>
              finals[o] = IF o \in heap.finalized /\ (o \notin Range(heap.pending) \/ o = callback) THEN 1 ELSE 0
        /\ \A o \in heap.finalized : Is(heap, o, "userdata")
    BY <1>2 DEF FinalsOK
  <2>3. Null \notin Live(heap)
    BY LiveFacts, ObjectListAssumption
  <2>4. ASSUME NEW o \in Live(heap), Is(heap, o, "userdata")
        PROVE  finals[o] = IF o \in heap.finalized /\ (o \notin Range(heap.pending) \/ o = Null) THEN 1 ELSE 0
    BY <2>1, <2>2, <2>3, <2>4
  <2>. QED BY <1>1, <2>2, <2>4 DEF FinalsOK
<1>9. OnceStep
  BY <1>1 DEF OnceStep
<1>. QED BY <1>4, <1>5, <1>6, <1>7, <1>8, <1>9 DEF IInv

LEMMA FinalizeAllKeeps ==
    ASSUME IInv, finalizeAll
    PROVE  IInv' /\ OnceStep
<1> DEFINE r == resetIncrementalCycle(heap)
<1>1. /\ stage = "running" /\ drain = Null /\ heap' = Closed(r, 0) /\ open' = StillOpen(0)
      /\ stack' = Emptied /\ stage' = "closing"
      /\ drain' = drain /\ callback' = callback /\ entered' = entered /\ finals' = finals
  BY DEF finalizeAll
<1>2. /\ PoolOK(heap) /\ StackOK /\ OpenIn(heap) /\ StageOK /\ DrainOK /\ FinalsIn(heap, finals, callback)
      /\ heap \in HeapOf /\ Sound(heap) /\ heap.finalized \subseteq Live(heap)
  BY IInvFacts
<1>3. PICK c, k, K : Good(heap, Held, c, k, K) /\ Typed(heap, K)
  BY IInvFacts
<1>4. callback = Null
  BY <1>1, <1>2 DEF DrainOK
<1>5. Good(r, Held, c, 0, K)
  BY <1>3, GoodReset DEF Good
<1>6. r.body = heap.body /\ r.pending = heap.pending /\ r.finalized = heap.finalized /\ r.pool = heap.pool
  BY <1>2, ResetFields
<1> HIDE DEF r
<1>7. OpenIn(r) /\ (\A s \in Slots : stack[s] \in Held) /\ 0 \in Nat
  BY <1>2, <1>6 DEF OpenIn, Held
<1>8. (\E j : Good(heap', Held, c, j, K)) /\ ClosedAbove(r, heap', 0, 0)
  BY <1>1, <1>2, <1>5, <1>7, ClosedLemma
<1>9. /\ Plain(r, heap')
      /\ \A s \in Slots : StillOpen(0)[s] # Null => heap'.body[StillOpen(0)[s]] = OpenUpvalue(s)
      /\ StillOpen(0) \in [Slots -> MaybeObject]
  <2>1. open \in [Slots -> MaybeObject]
    BY <1>2 DEF OpenIn
  <2>2. OpenIn(r) /\ ClosedAbove(r, heap', 0, 0)
    BY <1>7, <1>8
  <2>. QED BY ONLY <2>1, <2>2, ClosedPlain
<1>10. Plain(heap, heap')
  BY <1>6, <1>9, PlainRefl, PlainTrans
<1>11. PoolOK(heap') /\ FinalsIn(heap', finals, callback) /\ Once(heap, heap', finals)
  BY <1>2, <1>10, PlainFacts
<1>12. Range(heap'.pending) = Range(heap.pending)
  BY <1>10 DEF Plain
<1>13. (\E d, j, L : Good(heap, Held, d, j, L) /\ Typed(heap, L))'
  <2>1. PICK j : Good(heap', Held, c, j, K)
    BY <1>8
  <2>2. Held' \subseteq Held \cup {Null}
    BY <1>1, <1>12 DEF Held, Emptied
  <2>3. Held \ {Null} \subseteq K
    BY <2>1 DEF Good, Keeps
  <2>4. Held' \ {Null} \subseteq K
    BY <2>2, <2>3
  <2>5. Good(heap', Held', c, j, K)
    BY ONLY <2>1, <2>4, GoodHold
  <2>6. Typed(heap', K)
    <3>1. /\ OpenIn(r) /\ Keeps(heap, Held, K) /\ Typed(heap, K) /\ r.body = heap.body
          /\ ClosedAbove(r, heap', 0, 0)
      BY <1>3, <1>6, <1>7, <1>8 DEF Good
    <3>. QED BY ONLY <3>1, ClosedTyped
  <2>. QED BY <2>5, <2>6
<1>14. PoolOK(heap)' /\ OpenOK' /\ DrainOK' /\ FinalsOK'
  BY <1>1, <1>4, <1>9, <1>11 DEF OpenOK, DrainOK, FinalsOK, FinalsIn
<1>15. StackOK'
  BY <1>1 DEF StackOK, Emptied, MaybeObject
<1>16. StageOK'
  <2>1. heap.pending \in Seq(Objects)
    BY <1>2, HeapFields
  <2>2. Null \notin Range(heap'.pending)
    BY <1>12, <2>1, SeqFacts, ObjectListAssumption
  <2>3. stack' = Emptied'
    BY <1>1 DEF Emptied
  <2>. QED BY <1>1, <1>2, <1>4, <2>2, <2>3 DEF StageOK
<1>17. OnceStep
  BY <1>11 DEF OnceStep, Once
<1>. QED BY <1>13, <1>14, <1>15, <1>16, <1>17 DEF IInv

LEMMA ClearAllKeeps ==
    ASSUME IInv, ClearAll
    PROVE  IInv' /\ OnceStep
<1> DEFINE r == resetIncrementalCycle(heap)
           q == [r EXCEPT !.pending = <<>>]
<1>1. /\ stage = "closing" /\ callback = Null /\ (entered = DrainLimit \/ NextToClose(heap) = Null)
      /\ heap' = destroyAll(q) /\ stage' = "closed" /\ open' = Emptied
      /\ stack' = stack /\ drain' = drain /\ callback' = callback /\ entered' = entered /\ finals' = finals
  BY DEF ClearAll
<1>2. /\ PoolOK(heap) /\ StackOK /\ StageOK /\ DrainOK /\ FinalsOK
      /\ heap \in HeapOf /\ Sound(heap) /\ heap.finalized \subseteq Live(heap)
  BY IInvFacts DEF IInv
<1>3. PICK c, k, K : Good(heap, Held, c, k, K) /\ Typed(heap, K)
  BY IInvFacts
<1>4. Good(r, Held, c, 0, K)
  BY <1>3, GoodReset DEF Good
<1>5. /\ r \in HeapOf /\ r.phase = "Pause" /\ r.current = Null /\ r.previous = Null /\ r.gray = {}
      /\ r.body = heap.body /\ r.finalized = heap.finalized /\ r.pool = heap.pool
  BY <1>2, ResetFields
<1> HIDE DEF r
<1>6. IsRequeued(r, q, <<>>, r.finalized) /\ q.pending = <<>>
  <2>1. <<>> \in Seq(Objects)
    OBVIOUS
  <2>2. q \in HeapOf
    BY <1>5, <2>1 DEF HeapOf
  <2>. QED BY <1>5, <2>2 DEF IsRequeued, HeapOf
<1> HIDE DEF q
<1>7. Good(q, Held, c, 0, K)
  <2>1. Live(r) = Live(heap)
    BY <1>5, SameBodies
  <2>2. r.finalized \subseteq r.finalized /\ r.finalized \subseteq Live(r)
    BY <1>2, <1>5, <2>1
  <2>3. Range(<<>>) \subseteq r.finalized /\ OneEach(<<>>)
    BY DEF Range, OneEach
  <2>. QED BY ONLY <1>4, <1>6, <2>2, <2>3, RequeueGood
<1>8. q.body = heap.body /\ q.pool = heap.pool /\ q.phase = "Pause" /\ q.current = Null /\ q.previous = Null /\ q.gray = {}
  BY <1>5, <1>6 DEF IsRequeued
<1>9. Clearing(q, c)
  <2>1. Keeps(q, {Null}, {})
    BY DEF Keeps
  <2>. QED BY <1>6, <1>7, <1>8, <2>1 DEF Clearing, Good
<1>10. PoolOK(q)
  BY <1>2, <1>8 DEF PoolOK
<1>11. Clearing(heap', <<>>) /\ Live(heap') = {} /\ PoolOK(heap') /\ Good(heap', {Null}, <<>>, 0, {})
  BY <1>1, <1>9, <1>10, DestroyAllLemma
<1>12. heap'.pending = <<>> /\ heap'.finalized = {} /\ Range(heap'.pending) = {}
  <2>1. heap'.pending = <<>> /\ heap'.finalized \subseteq Live(heap')
    BY <1>11 DEF Clearing, Sound, QueueOK
  <2>2. \A x : x \notin Range(<<>>)
    BY DEF Range
  <2>. QED BY <1>11, <2>1, <2>2
<1>13. (\E d, j, L : Good(heap, Held, d, j, L) /\ Typed(heap, L))'
  <2>1. stack = Emptied
    BY <1>1, <1>2 DEF StageOK
  <2>2. Held' \ {Null} \subseteq {}
    BY <1>1, <1>12, <2>1 DEF Held, Emptied
  <2>3. Good(heap', Held', <<>>, 0, {})
    BY ONLY <1>11, <2>2, GoodHold
  <2>4. Typed(heap', {})
    BY DEF Typed
  <2>. QED BY <2>3, <2>4
<1>14. PoolOK(heap)' /\ StackOK' /\ DrainOK'
  BY <1>1, <1>2, <1>11 DEF StackOK, DrainOK
<1>15. OpenOK'
  BY <1>1 DEF OpenOK, Emptied, MaybeObject
<1>16. StageOK'
  <2>1. Live(heap)' = {}
    BY <1>11 DEF Live
  <2>2. stack' = Emptied'
    BY <1>1, <1>2 DEF StageOK, Emptied
  <2>. QED BY <1>1, <1>2, <1>12, <2>1, <2>2 DEF StageOK
<1>17. FinalsOK'
  <2>1. finals \in [Objects -> {0, 1}]
    BY <1>2 DEF FinalsOK
  <2>2. Live(heap)' = {} /\ heap'.finalized = {}
    BY <1>11, <1>12 DEF Live
  <2>. QED BY <1>1, <2>1, <2>2 DEF FinalsOK
<1>18. OnceStep
  <2>1. ASSUME NEW o \in Objects, Is(heap, o, "userdata"), entered # DrainLimit PROVE finals[o] = 1
    <3>1. heap.pending = <<>> /\ \A x \in Live(heap) : Is(heap, x, "userdata") => x \in heap.finalized
      BY <1>1, <2>1, NextFacts
    <3>2. o \in Live(heap)
      BY <2>1 DEF Live, Is
    <3>3. o \notin Range(heap.pending)
      BY <3>1 DEF Range
    <3>. QED BY <1>2, <2>1, <3>1, <3>2, <3>3 DEF FinalsOK
  <2>. QED BY <1>1, <2>1 DEF OnceStep
<1>. QED BY <1>13, <1>14, <1>15, <1>16, <1>17, <1>18 DEF IInv

-----------------------------------------------------------------------------
(***************************************************************************)
(* The steps of the program that do not change the heap.                   *)
(***************************************************************************)

LEMMA BodyKinds ==
    ASSUME NEW b \in Bodies
    PROVE  /\ b.kind = "open" => b.at \in Slots /\ b = OpenUpvalue(b.at)
           /\ b.kind = "closed" => b.value \in MaybeObject /\ b = ClosedUpvalue(b.value)
           /\ b.kind = "closure" => b.up \in MaybeObject /\ b = Closure(b.up)
           /\ b.kind = "userdata" => b = Userdata
           /\ b.kind = "string" => b.text \in Contents /\ b = String(b.text)
  BY DEF Bodies, MaybeObject, OpenUpvalue, ClosedUpvalue, Closure, Userdata, String

\* The upvalue of the closure in slot t.
LEMMA UpvalueFacts ==
    ASSUME IInv, NEW c, NEW k, NEW K, Good(heap, Held, c, k, K), Typed(heap, K),
           NEW t \in Slots, UpvalueIn(t) # Null
    PROVE  /\ UpvalueIn(t) \in K /\ UpvalueIn(t) \in Live(heap) /\ UpvalueIn(t) \in Objects
           /\ heap.body[UpvalueIn(t)] \in Bodies /\ heap.body[UpvalueIn(t)].kind \in Upvalues
<1> DEFINE f == stack[t]
           u == UpvalueIn(t)
<1>1. f # Null /\ Is(heap, f, "closure") /\ u = heap.body[f].up
  BY DEF UpvalueIn
<1>2. Keeps(heap, Held, K) /\ heap.body \in [Objects -> Bodies]
  BY HeapFields DEF Good, Sound
<1>3. f \in Held
  BY DEF Held
<1>4. f \in K
  BY <1>1, <1>2, <1>3 DEF Keeps
<1>5. u \in Refs(heap, <<>>, f) /\ ~Is(heap, f, "open")
  BY <1>1 DEF Refs, Is
<1>6. u \in K /\ u \in Live(heap) /\ u \in Objects
  BY <1>2, <1>4, <1>5, LiveFacts DEF Keeps, Inner
<1>7. heap.body[u].kind \in Upvalues
  BY <1>1, <1>4 DEF Typed
<1>. QED BY <1>2, <1>6, <1>7

LEMMA StackKeeps ==
    ASSUME IInv, Runs, UNCHANGED <<heap, open, program, finals>>, stack' \in [Slots -> MaybeObject],
           NEW c, NEW k, NEW K, Good(heap, Held, c, k, K), Typed(heap, K),
           \A s \in Slots : stack'[s] \in K \cup {Null}
    PROVE  IInv' /\ OnceStep
<1>1. /\ heap' = heap /\ open' = open /\ drain' = drain /\ callback' = callback /\ stage' = stage
      /\ entered' = entered /\ finals' = finals
  BY DEF program
<1>2. PoolOK(heap) /\ OpenOK /\ StageOK /\ DrainOK /\ FinalsOK
  BY DEF IInv
<1>3. (\E d, j, L : Good(heap, Held, d, j, L) /\ Typed(heap, L))'
  <2>1. Held = {stack[s] : s \in Slots} \cup {callback} \cup Range(heap.pending)
    BY DEF Held
  <2>2. Held' = {stack'[s] : s \in Slots} \cup {callback} \cup Range(heap.pending)
    BY <1>1 DEF Held
  <2>3. Held \ {Null} \subseteq K
    BY DEF Good, Keeps
  <2>4. Held' \ {Null} \subseteq K
    BY <2>1, <2>2, <2>3
  <2>5. Good(heap, Held', c, k, K)
    BY ONLY Good(heap, Held, c, k, K), <2>4, GoodHold
  <2>. QED BY <1>1, <2>5
<1>4. PoolOK(heap)' /\ OpenOK' /\ DrainOK' /\ FinalsOK' /\ StackOK'
  BY <1>1, <1>2 DEF PoolOK, OpenOK, DrainOK, FinalsOK, StackOK
<1>5. stage = "running" \/ callback # Null
  BY DEF Runs
<1>6. StageOK'
  BY <1>1, <1>2, <1>5 DEF StageOK
<1>7. OnceStep
  BY <1>1 DEF OnceStep
<1>. QED BY <1>3, <1>4, <1>6, <1>7 DEF IInv

\* What a slot holds is kept.
LEMMA SlotsKept ==
    ASSUME IInv, NEW c, NEW k, NEW K, Good(heap, Held, c, k, K)
    PROVE  /\ stack \in [Slots -> MaybeObject] /\ \A s \in Slots : stack[s] \in K \cup {Null}
           /\ K \subseteq Live(heap) /\ K \subseteq Objects
<1>1. \A s \in Slots : stack[s] \in Held
  BY DEF Held
<1>2. K \subseteq Live(heap) /\ Held \ {Null} \subseteq K
  BY DEF Good, Keeps
<1>. QED BY <1>1, <1>2, LiveFacts DEF IInv, StackOK

LEMMA ClearKeeps ==
    ASSUME IInv, NEW s \in Slots, Clear(s)
    PROVE  IInv' /\ OnceStep
<1>1. Runs /\ UNCHANGED <<heap, open, program, finals>> /\ stack' = [stack EXCEPT ![s] = Null]
  BY DEF Clear
<1>2. PICK c, k, K : Good(heap, Held, c, k, K) /\ Typed(heap, K)
  BY IInvFacts
<1>3. stack \in [Slots -> MaybeObject] /\ \A x \in Slots : stack[x] \in K \cup {Null}
  BY <1>2, SlotsKept
<1>4. stack' \in [Slots -> MaybeObject] /\ \A x \in Slots : stack'[x] \in K \cup {Null}
  BY <1>1, <1>3 DEF MaybeObject
<1>. QED BY <1>1, <1>2, <1>4, StackKeeps

LEMMA ResurrectKeeps ==
    ASSUME IInv, NEW s \in Slots, Resurrect(s)
    PROVE  IInv' /\ OnceStep
<1>1. /\ callback # Null /\ Runs /\ UNCHANGED <<heap, open, program, finals>>
      /\ stack' = [stack EXCEPT ![s] = callback]
  BY DEF Resurrect, Runs
<1>2. PICK c, k, K : Good(heap, Held, c, k, K) /\ Typed(heap, K)
  BY IInvFacts
<1>3. /\ stack \in [Slots -> MaybeObject] /\ (\A x \in Slots : stack[x] \in K \cup {Null})
      /\ callback \in K /\ K \subseteq Objects
  BY <1>1, <1>2, SlotsKept, PendingKept
<1>4. stack' \in [Slots -> MaybeObject] /\ \A x \in Slots : stack'[x] \in K \cup {Null}
  BY <1>1, <1>3 DEF MaybeObject
<1>. QED BY <1>1, <1>2, <1>4, StackKeeps

LEMMA GetUpvalueKeeps ==
    ASSUME IInv, NEW s \in Slots, NEW t \in Slots, GetUpvalue(t, s)
    PROVE  IInv' /\ OnceStep
<1> DEFINE u == UpvalueIn(t)
           v == IF heap.body[u].kind = "open" THEN stack[heap.body[u].at] ELSE heap.body[u].value
<1>1. /\ Runs /\ UNCHANGED <<heap, open, program, finals>> /\ u # Null
      /\ stack' = [stack EXCEPT ![s] = v]
  BY DEF GetUpvalue
<1>2. PICK c, k, K : Good(heap, Held, c, k, K) /\ Typed(heap, K)
  BY IInvFacts
<1>3. /\ u \in K /\ u \in Live(heap) /\ u \in Objects
      /\ heap.body[u] \in Bodies /\ heap.body[u].kind \in Upvalues
  BY <1>1, <1>2, UpvalueFacts
<1>4. stack \in [Slots -> MaybeObject] /\ (\A x \in Slots : stack[x] \in K \cup {Null}) /\ K \subseteq Objects
  BY <1>2, SlotsKept
<1> HIDE DEF u
<1>5. v \in K \cup {Null}
  <2>1. CASE heap.body[u].kind = "open"
    BY <1>3, <1>4, <2>1, BodyKinds
  <2>2. CASE heap.body[u].kind = "closed"
    <3>1. v = heap.body[u].value
      BY <2>2
    <3>2. v = Null \/ v \in Inner(heap, u)
      BY <2>2, <3>1 DEF Inner, Refs, Is
    <3>3. Inner(heap, u) \subseteq K
      BY <1>2, <1>3 DEF Good, Keeps
    <3>. QED BY <3>2, <3>3
  <2>. QED BY <1>3, <2>1, <2>2 DEF Upvalues
<1> HIDE DEF v
<1>6. stack' \in [Slots -> MaybeObject] /\ \A x \in Slots : stack'[x] \in K \cup {Null}
  BY <1>1, <1>4, <1>5 DEF MaybeObject
<1>. QED BY <1>1, <1>2, <1>6, StackKeeps

\* A string that is found in the pool is not one that the sweep will free.
LEMMA InternKnownKeeps ==
    ASSUME IInv, ~InternsDoomed, NEW t \in Contents, NEW s \in Slots, InternKnown(t, s)
    PROVE  IInv' /\ OnceStep
<1> DEFINE o == heap.pool[t]
<1>1. /\ Runs /\ o # Null /\ ~Doomed(o) /\ UNCHANGED <<heap, open, program, finals>>
      /\ stack' = [stack EXCEPT ![s] = o]
  BY DEF InternKnown
<1>2. PICK c, k, K : Good(heap, Held, c, k, K) /\ Typed(heap, K)
  BY IInvFacts
<1>3. o \in Objects /\ heap.body[o] = String(t)
  BY <1>1, IInvFacts DEF PoolOK
<1>4. o \in Live(heap) /\ ~Is(heap, o, "open") /\ ~Is(heap, o, "closure") /\ Inner(heap, o) = {}
  BY <1>3 DEF Live, Is, String, Inner, Refs
<1>5. stack \in [Slots -> MaybeObject] /\ (\A x \in Slots : stack[x] \in K \cup {Null}) /\ K \subseteq Objects
  BY <1>2, SlotsKept
<1> HIDE DEF o
<1> DEFINE L == K \cup {o}
<1>6. ASSUME heap.phase = "Sweep", NEW i \in k + 1 .. Len(c), c[i] = o PROVE heap.color[o] # "White"
  <2>1. ASSUME heap.color[o] = "White" PROVE FALSE
    <3>1. IsList(heap, c) /\ Cursor(heap, c, k) /\ Chain(heap) = c /\ Len(c) \in Nat /\ DOMAIN c = 1 .. Len(c)
      BY <1>2, ChainIsList, ListFacts DEF Good
    <3>2. k \in 0 .. Len(c) /\ heap.current = After(c, k)
      BY <1>6, <3>1 DEF Cursor
    <3>3. k + 1 \in 1 .. i /\ k + 1 \in 1 .. Len(c) /\ i \in 1 .. Len(c) /\ k < Len(c)
      BY <3>1, <3>2
    <3>4. heap.current = c[k + 1] /\ heap.current # Null
      BY <3>1, <3>2, <3>3, ListFacts DEF After
    <3>5. Swept(heap, o)
      BY <1>4, <2>1 DEF Swept, White
    <3>6. o \in {c[x] : x \in {y \in DOMAIN c : \E z \in 1 .. y : c[z] = heap.current}}
      BY <1>6, <3>1, <3>3, <3>4
    <3>7. Doomed(o)
      BY <1>6, <3>1, <3>4, <3>5, <3>6 DEF Doomed
    <3>. QED BY <1>1, <3>7
  <2>. QED BY <2>1
<1>7. Good(heap, Held, c, k, L)
  <2>1. /\ o \in Live(heap) /\ Inner(heap, o) \subseteq K \cup {o}
        /\ heap.phase = "Sweep" => \A i \in k + 1 .. Len(c) : c[i] = o => heap.color[o] # "White"
    BY <1>4, <1>6
  <2>. QED BY ONLY <1>2, <2>1, GoodMore
<1>8. Typed(heap, L)
  BY <1>2, <1>4 DEF Typed
<1>9. stack' \in [Slots -> MaybeObject] /\ \A x \in Slots : stack'[x] \in L \cup {Null}
  BY <1>1, <1>3, <1>5 DEF MaybeObject
<1> HIDE DEF L
<1>. QED BY <1>1, <1>7, <1>8, <1>9, StackKeeps

-----------------------------------------------------------------------------
(***************************************************************************)
(* The steps of the program that allocate.                                 *)
(***************************************************************************)

\* An object that is not yet allocated.
LEMMA UnusedFacts ==
    ASSUME IInv, NEW o \in Unused
    PROVE  /\ o \in Objects /\ o # Null /\ o \notin Live(heap) /\ heap.body[o].kind = "free"
           /\ o \notin heap.finalized /\ o \notin Range(heap.pending)
           /\ \A s \in Slots : open[s] # o
<1>1. o \in Objects /\ o \notin Live(heap) /\ heap.body[o].kind = "free"
  BY DEF Unused, Live, Is
<1>2. heap.finalized \subseteq Live(heap) /\ Range(heap.pending) \subseteq heap.finalized
  BY IInvFacts DEF Sound, QueueOK
<1>3. ASSUME NEW s \in Slots PROVE open[s] # o
  <2>1. OpenIn(heap)
    BY IInvFacts
  <2>2. ASSUME open[s] # Null PROVE heap.body[open[s]].kind = "open"
    <3>1. heap.body[open[s]] = OpenUpvalue(s)
      BY <2>1, <2>2 DEF OpenIn
    <3>2. OpenUpvalue(s).kind = "open"
      BY DEF OpenUpvalue
    <3>. QED BY <3>1, <3>2
  <2>. QED BY <1>1, <2>2, ObjectListAssumption
<1>. QED BY <1>1, <1>2, <1>3, ObjectListAssumption

\* Objects that refer to something else; those of K keep upvalues.
LEMMA TypedNew ==
    ASSUME NEW h, NEW hold, NEW K, Keeps(h, hold, K), Typed(h, K), NEW o, o \notin Live(h),
           NEW g, NEW b, b.kind # "closure" \/ b.up = Null, h.body \in [Objects -> Bodies], o \in Objects,
           g.body = [h.body EXCEPT ![o] = b]
    PROVE  Typed(g, K \cup {o})
<1>1. \A x \in K : g.body[x] = h.body[x] \/ (h.body[x].kind \in Upvalues /\ g.body[x].kind \in Upvalues)
  BY LiveFacts DEF Keeps
<1>2. Typed(g, K)
  BY ONLY <1>1, Typed(h, K), Keeps(h, hold, K), TypedKept
<1>3. g.body[o] = b
  OBVIOUS
<1>. QED BY <1>2, <1>3 DEF Typed, Is

IsAllocated(g, o, b, fin) ==
    /\ g.body = [heap.body EXCEPT ![o] = b] /\ g.pending = heap.pending /\ g.finalized = heap.finalized
    /\ fin \in [Objects -> {0, 1}] /\ (\A x \in Objects : x # o => fin[x] = finals[x])
    /\ b.kind \in {"string", "userdata"} /\ (b.kind = "userdata" => fin[o] = 0)

LEMMA AllocFacts ==
    ASSUME IInv, NEW o \in Unused, NEW g, NEW b, NEW fin, IsAllocated(g, o, b, fin)
    PROVE  OpenIn(g) /\ FinalsIn(g, fin, callback) /\ Once(heap, g, finals)
<1>1. /\ OpenIn(heap) /\ FinalsIn(heap, finals, callback) /\ heap.finalized \subseteq Live(heap)
      /\ heap.body \in [Objects -> Bodies] /\ Live(heap) \subseteq Objects
  BY IInvFacts, HeapFields, LiveFacts
<1>2. /\ o \in Objects /\ o # Null /\ o \notin Live(heap) /\ heap.body[o].kind = "free"
      /\ o \notin heap.finalized /\ o \notin Range(heap.pending)
  BY UnusedFacts
<1>3. /\ g.pending = heap.pending /\ g.finalized = heap.finalized
      /\ fin \in [Objects -> {0, 1}] /\ (\A x \in Objects : x # o => fin[x] = finals[x])
      /\ b.kind \in {"string", "userdata"} /\ (b.kind = "userdata" => fin[o] = 0)
      /\ g.body[o] = b /\ \A x \in Objects : x # o => g.body[x] = heap.body[x]
  BY <1>1, <1>2 DEF IsAllocated
<1>4. StayOpen(heap, g)
  BY <1>2, <1>3 DEF StayOpen, Is
<1>5. OpenIn(g)
  BY <1>1, <1>4, OpenStays
<1>6. Once(heap, g, finals)
  BY <1>2, <1>3 DEF Once, Is
<1>7. FinalsIn(g, fin, callback)
  <2>1. /\ \A x \in Live(heap) : Is(heap, x, "userdata") =>
              finals[x] = IF x \in heap.finalized /\ (x \notin Range(heap.pending) \/ x = callback) THEN 1 ELSE 0
        /\ callback # Null => Is(heap, callback, "userdata") /\ callback \in heap.finalized
        /\ \A x \in heap.finalized : Is(heap, x, "userdata")
    BY <1>1 DEF FinalsIn
  <2>2. \A x \in Objects : x # o => (x \in Live(g) <=> x \in Live(heap)) /\ \A kind : Is(g, x, kind) = Is(heap, x, kind)
    BY <1>3 DEF Live, Is
  <2>3. ASSUME NEW x \in Live(g), Is(g, x, "userdata")
        PROVE  fin[x] = IF x \in g.finalized /\ (x \notin Range(g.pending) \/ x = callback) THEN 1 ELSE 0
    <3>0. x \in Objects
      BY LiveFacts
    <3>1. CASE x = o
      BY <1>2, <1>3, <2>3, <3>1 DEF Is
    <3>2. CASE x # o
      BY <1>3, <2>1, <2>2, <2>3, <3>0, <3>2
    <3>. QED BY <3>1, <3>2
  <2>4. callback # Null => Is(g, callback, "userdata") /\ callback \in g.finalized
    BY <1>1, <1>2, <1>3, <2>1, <2>2
  <2>5. \A x \in g.finalized : Is(g, x, "userdata")
    BY <1>1, <1>2, <1>3, <2>1, <2>2
  <2>. QED BY <1>3, <2>3, <2>4, <2>5 DEF FinalsIn
<1>. QED BY <1>5, <1>6, <1>7

\* A new object is put into a slot.
LEMMA AllocKeeps ==
    ASSUME IInv, Runs, NEW o \in Unused, NEW b, IsAllocated(heap', o, b, finals'),
           NEW s \in Slots, stack' = [stack EXCEPT ![s] = o], UNCHANGED <<open, program>>,
           NEW c, NEW k, NEW K, Good(heap, Held, c, k, K),
           NEW d, NEW j, Good(heap', Held, d, j, K \cup {o}), Typed(heap', K \cup {o}), PoolOK(heap')
    PROVE  IInv' /\ OnceStep
<1>1. OpenIn(heap') /\ FinalsIn(heap', finals', callback) /\ Once(heap, heap', finals)
  BY AllocFacts
<1>2. open' = open /\ drain' = drain /\ callback' = callback /\ stage' = stage /\ entered' = entered
  BY DEF program
<1>3. StageOK /\ DrainOK /\ stage # "closed" /\ (stage = "running" \/ callback # Null)
  BY IInvFacts, RunsFacts DEF Runs
<1>4. stack \in [Slots -> MaybeObject] /\ (\A x \in Slots : stack[x] \in K \cup {Null}) /\ o \in Objects
  BY SlotsKept, UnusedFacts
<1>5. stack' \in [Slots -> MaybeObject] /\ (\A x \in Slots : stack'[x] \in K \cup {o, Null})
  BY <1>4 DEF MaybeObject
<1>6. heap'.pending = heap.pending
  BY DEF IsAllocated
<1>7. (\E e, i, L : Good(heap, Held, e, i, L) /\ Typed(heap, L))'
  <2>1. Held = {stack[x] : x \in Slots} \cup {callback} \cup Range(heap.pending)
    BY DEF Held
  <2>2. Held' = {stack'[x] : x \in Slots} \cup {callback} \cup Range(heap.pending)
    BY <1>2, <1>6 DEF Held
  <2>3. Held \ {Null} \subseteq K
    BY DEF Good, Keeps
  <2>4. Held' \ {Null} \subseteq K \cup {o}
    BY <1>5, <2>1, <2>2, <2>3
  <2>5. Good(heap', Held', d, j, K \cup {o})
    BY ONLY Good(heap', Held, d, j, K \cup {o}), <2>4, GoodHold
  <2>. QED BY <2>5
<1>8. StackOK' /\ OpenOK' /\ FinalsOK'
  BY <1>1, <1>2, <1>5 DEF StackOK, OpenOK, OpenIn, FinalsOK, FinalsIn
<1>9. StageOK' /\ DrainOK'
  BY <1>2, <1>3, <1>6 DEF StageOK, DrainOK
<1>10. OnceStep
  BY <1>1 DEF OnceStep, Once
<1>. QED BY <1>7, <1>8, <1>9, <1>10 DEF IInv

\* The pool of a heap does not matter to its list.
IsPooled(h, g, t, o) == g = [h EXCEPT !.pool[t] = o]
Entered(h, g, t, o) ==
    /\ g.body = h.body /\ g.pending = h.pending /\ g.finalized = h.finalized
    /\ g.pool = [h.pool EXCEPT ![t] = o]
LEMMA PoolGood ==
    ASSUME NEW h, NEW hold, NEW c, NEW k, NEW K, Good(h, hold, c, k, K),
           NEW t \in Contents, NEW o \in Objects, NEW g, IsPooled(h, g, t, o)
    PROVE  Good(g, hold, c, k, K) /\ Entered(h, g, t, o)
<1>0. h \in HeapOf /\ h.pool \in [Contents -> MaybeObject]
  BY HeapFields DEF Good, Sound
<1>p. [h.pool EXCEPT ![t] = o] \in [Contents -> MaybeObject]
  BY <1>0 DEF MaybeObject
<1>1. /\ g \in HeapOf /\ g.pending = h.pending /\ g.finalized = h.finalized
      /\ g.body = h.body /\ g.color = h.color /\ g.next = h.next /\ g.accounted = h.accounted
      /\ g.head = h.head /\ g.count = h.count /\ g.total = h.total /\ g.phase = h.phase
      /\ g.current = h.current /\ g.previous = h.previous /\ g.gray = h.gray
      /\ g.capacity = h.capacity /\ g.pool = [h.pool EXCEPT ![t] = o]
  BY <1>0, <1>p DEF HeapOf, IsPooled
<1>2. /\ Live(g) = Live(h) /\ Big(g) = Big(h) /\ (\A x : Inner(g, x) = Inner(h, x))
      /\ (\A x, kind : Is(g, x, kind) = Is(h, x, kind))
  <2>1. g.body = h.body
    BY <1>1
  <2>. QED BY ONLY <2>1, SameBodies
<1>3. White(g) = White(h)
  BY <1>1, <1>2 DEF White
<1>4. Sound(h) /\ IsList(h, c) /\ Cursor(h, c, k) /\ Keeps(h, hold, K) /\ (h.phase = "Sweep" => Ahead(h, c, k, K))
  BY DEF Good
<1>5. Counted(g) /\ IsList(g, c) /\ Cursor(g, c, k) /\ Keeps(g, hold, K) /\ QueueOK(g)
  BY <1>1, <1>2, <1>4 DEF Sound, Counted, IsList, Cursor, Keeps, QueueOK
<1>7. ColorOK(g)
  BY <1>1, <1>2, <1>3, <1>4 DEF Sound, ColorOK, GrayOK, Marking, AllQueued, Tri, Unscanned
<1>8. h.phase = "Sweep" => Ahead(g, c, k, K)
  BY <1>1, <1>2, <1>4 DEF Ahead
<1>. QED BY <1>1, <1>5, <1>7, <1>8 DEF Good, Sound, Entered

LEMMA InternNewKeeps ==
    ASSUME IInv, NEW t \in Contents, NEW s \in Slots, InternNew(t, s)
    PROVE  IInv' /\ OnceStep
<1>1. Runs /\ heap.pool[t] = Null /\ UNCHANGED <<open, program, finals>>
  BY DEF InternNew
<1> DEFINE b == String(t)
<1>2. PICK o \in Unused : /\ heap' = [registerObject(heap, stack, o, b) EXCEPT !.pool[t] = o]
                          /\ stack' = [stack EXCEPT ![s] = o]
  BY DEF InternNew
<1> DEFINE g == registerObject(heap, stack, o, b)
<1>3. PICK c, k, K : Good(heap, Held, c, k, K) /\ Typed(heap, K)
  BY IInvFacts
<1>4. o \in Objects /\ o # Null /\ o \notin Live(heap) /\ heap.body[o].kind = "free"
  BY UnusedFacts
<1>5. b \in Fresh /\ b.kind = "string"
  BY DEF Fresh, Bodies, String
<1>6. Good(g, Held, <<o>> \o c, k + 1, K \cup {o}) /\ IsRegistered(heap, g, o, b)
  BY <1>3, <1>4, <1>5, RegisterLemma
<1>b. b = String(t)
  OBVIOUS
<1> HIDE DEF g, b
<1>7. /\ Good(heap', Held, <<o>> \o c, k + 1, K \cup {o}) /\ heap'.body = g.body /\ heap'.pending = g.pending
      /\ heap'.finalized = g.finalized /\ heap'.pool = [g.pool EXCEPT ![t] = o]
  <2>1. IsPooled(g, heap', t, o)
    BY <1>2 DEF g, IsPooled
  <2>2. Good(g, Held, <<o>> \o c, k + 1, K \cup {o}) /\ t \in Contents /\ o \in Objects
    BY <1>4, <1>6
  <2>3. Good(heap', Held, <<o>> \o c, k + 1, K \cup {o}) /\ Entered(g, heap', t, o)
    BY ONLY <2>1, <2>2, PoolGood
  <2>. QED BY <2>3 DEF Entered
<1>8. /\ heap'.body = [heap.body EXCEPT ![o] = b] /\ heap'.pending = heap.pending
      /\ heap'.finalized = heap.finalized /\ heap'.pool = [heap.pool EXCEPT ![t] = o]
  BY <1>6, <1>7 DEF IsRegistered
<1>9. heap.body \in [Objects -> Bodies] /\ heap.pool \in [Contents -> MaybeObject] /\ PoolOK(heap)
  BY IInvFacts, HeapFields
<1>10. Typed(heap', K \cup {o})
  <2>1. Keeps(heap, Held, K)
    BY <1>3 DEF Good
  <2>2. b.kind # "closure" \/ b.up = Null
    BY <1>5
  <2>. QED BY <1>3, <1>4, <1>8, <1>9, <2>1, <2>2, TypedNew
<1>11. PoolOK(heap')
  <2>1. heap'.body[o] = b /\ \A x \in Objects : x # o => heap'.body[x] = heap.body[x]
    BY <1>4, <1>8, <1>9
  <2>2. \A x \in Contents : heap.body[o] # String(x) /\ (String(x) = b => x = t)
    BY <1>4, <1>b DEF String
  <2>3. \A x \in Contents : {y \in Objects : heap.body[y] = String(x)} = {heap.pool[x]} \ {Null}
    BY <1>9 DEF PoolOK
  <2>4. ASSUME NEW x \in Contents
        PROVE  {y \in Objects : heap'.body[y] = String(x)} = {heap'.pool[x]} \ {Null}
    <3>1. CASE x = t
      <4>1. {y \in Objects : heap.body[y] = String(x)} = {}
        BY <1>1, <2>3, <3>1
      <4>2. {y \in Objects : heap'.body[y] = String(x)} = {o}
        BY <1>4, <1>b, <2>1, <3>1, <4>1
      <4>3. heap'.pool[x] = o
        BY <1>8, <1>9, <3>1
      <4>. QED BY <1>4, <4>2, <4>3
    <3>2. CASE x # t
      <4>1. {y \in Objects : heap'.body[y] = String(x)} = {y \in Objects : heap.body[y] = String(x)}
        BY <2>1, <2>2, <3>2
      <4>2. heap'.pool[x] = heap.pool[x]
        BY <1>8, <1>9, <3>2
      <4>. QED BY <2>3, <4>1, <4>2
    <3>. QED BY <3>1, <3>2
  <2>. QED BY <2>4 DEF PoolOK
<1>12. IsAllocated(heap', o, b, finals')
  <2>1. finals' = finals /\ finals \in [Objects -> {0, 1}]
    BY <1>1, IInvFacts DEF FinalsIn
  <2>. QED BY <1>5, <1>8, <2>1 DEF IsAllocated
<1>13. UNCHANGED <<open, program>>
  BY <1>1
<1>. QED BY <1>1, <1>2, <1>3, <1>7, <1>10, <1>11, <1>12, <1>13, AllocKeeps

LEMMA NewUserdataKeeps ==
    ASSUME IInv, NEW s \in Slots, NewUserdata(s)
    PROVE  IInv' /\ OnceStep
<1>1. Runs /\ UNCHANGED <<open, program>>
  BY DEF NewUserdata
<1> DEFINE b == Userdata
<1>2. PICK o \in Unused : /\ heap' = registerObject(heap, stack, o, b)
                          /\ stack' = [stack EXCEPT ![s] = o] /\ finals' = [finals EXCEPT ![o] = 0]
  BY DEF NewUserdata
<1>3. PICK c, k, K : Good(heap, Held, c, k, K) /\ Typed(heap, K)
  BY IInvFacts
<1>4. o \in Objects /\ o # Null /\ o \notin Live(heap) /\ heap.body[o].kind = "free"
  BY UnusedFacts
<1>5. b \in Fresh /\ b.kind = "userdata"
  BY DEF Fresh, Bodies, Userdata
<1>b. b = Userdata
  OBVIOUS
<1> HIDE DEF b
<1>6. Good(heap', Held, <<o>> \o c, k + 1, K \cup {o}) /\ IsRegistered(heap, heap', o, b)
  BY <1>2, <1>3, <1>4, <1>5, RegisterLemma
<1>8. /\ heap'.body = [heap.body EXCEPT ![o] = b] /\ heap'.pending = heap.pending
      /\ heap'.finalized = heap.finalized /\ heap'.pool = heap.pool
  BY <1>6 DEF IsRegistered
<1>9. heap.body \in [Objects -> Bodies] /\ PoolOK(heap)
  BY IInvFacts, HeapFields
<1>10. Typed(heap', K \cup {o})
  <2>1. Keeps(heap, Held, K)
    BY <1>3 DEF Good
  <2>2. b.kind # "closure" \/ b.up = Null
    BY <1>5
  <2>. QED BY <1>3, <1>4, <1>8, <1>9, <2>1, <2>2, TypedNew
<1>11. PoolOK(heap')
  <2>1. heap'.body[o] = b /\ \A x \in Objects : x # o => heap'.body[x] = heap.body[x]
    BY <1>4, <1>8, <1>9
  <2>2. \A x \in Contents : heap.body[o] # String(x) /\ String(x) # b
    BY <1>4, <1>5 DEF String
  <2>. QED BY <1>8, <1>9, <2>1, <2>2 DEF PoolOK
<1>12. IsAllocated(heap', o, b, finals')
  <2>1. finals \in [Objects -> {0, 1}]
    BY IInvFacts DEF FinalsIn
  <2>2. finals' \in [Objects -> {0, 1}] /\ finals'[o] = 0 /\ \A x \in Objects : x # o => finals'[x] = finals[x]
    BY <1>2, <1>4, <2>1
  <2>. QED BY <1>5, <1>8, <2>2 DEF IsAllocated
<1>. QED BY <1>1, <1>2, <1>3, <1>6, <1>10, <1>11, <1>12, AllocKeeps

-----------------------------------------------------------------------------
(***************************************************************************)
(* The steps of the program that change upvalues.                          *)
(***************************************************************************)

LEMMA PlainKeeps ==
    ASSUME IInv, Runs, UNCHANGED <<program, finals>>, Plain(heap, heap'), OpenOK',
           NEW K, Held \ {Null} \subseteq K,
           stack' \in [Slots -> MaybeObject], \A s \in Slots : stack'[s] \in K \cup {Null},
           NEW d, NEW j, Good(heap', Held, d, j, K), Typed(heap', K)
    PROVE  IInv' /\ OnceStep
<1>1. /\ drain' = drain /\ callback' = callback /\ stage' = stage /\ entered' = entered /\ finals' = finals
  BY DEF program
<1>2. /\ PoolOK(heap) /\ StageOK /\ DrainOK /\ FinalsIn(heap, finals, callback) /\ heap.finalized \subseteq Live(heap)
      /\ stage # "closed" /\ (stage = "running" \/ callback # Null)
  BY IInvFacts, RunsFacts DEF Runs
<1>3. PoolOK(heap') /\ FinalsIn(heap', finals, callback) /\ Once(heap, heap', finals)
  BY <1>2, PlainFacts
<1>4. Range(heap'.pending) = Range(heap.pending)
  BY DEF Plain
<1>5. (\E e, i, L : Good(heap, Held, e, i, L) /\ Typed(heap, L))'
  <2>1. Held = {stack[x] : x \in Slots} \cup {callback} \cup Range(heap.pending)
    BY DEF Held
  <2>2. Held' = {stack'[x] : x \in Slots} \cup {callback} \cup Range(heap.pending)
    BY <1>1, <1>4 DEF Held
  <2>3. Held' \ {Null} \subseteq K
    BY <2>1, <2>2
  <2>4. Good(heap', Held', d, j, K)
    BY ONLY Good(heap', Held, d, j, K), <2>3, GoodHold
  <2>. QED BY <2>4
<1>6. StackOK' /\ FinalsOK'
  BY <1>1, <1>3 DEF StackOK, FinalsOK, FinalsIn
<1>7. StageOK' /\ DrainOK'
  BY <1>1, <1>2, <1>4 DEF StageOK, DrainOK
<1>8. OnceStep
  BY <1>3 DEF OnceStep, Once
<1>. QED BY <1>3, <1>5, <1>6, <1>7, <1>8 DEF IInv

LEMMA LeaveBlockKeeps ==
    ASSUME IInv, NEW level \in Slots, LeaveBlock(level)
    PROVE  IInv' /\ OnceStep
<1>1. /\ Runs /\ heap' = Closed(heap, level) /\ open' = StillOpen(level) /\ stack' = stack
      /\ UNCHANGED <<program, finals>>
  BY DEF LeaveBlock
<1>2. StackOK /\ OpenIn(heap) /\ level \in Nat
  BY IInvFacts, ObjectListAssumption DEF Slots
<1>3. PICK c, k, K : Good(heap, Held, c, k, K) /\ Typed(heap, K)
  BY IInvFacts
<1>4. \A s \in Slots : stack[s] \in Held
  BY DEF Held
<1>5. (\E j : Good(heap', Held, c, j, K)) /\ ClosedAbove(heap, heap', level, 0)
  BY <1>1, <1>2, <1>3, <1>4, ClosedLemma
<1>6. /\ Plain(heap, heap')
      /\ \A s \in Slots : StillOpen(level)[s] # Null => heap'.body[StillOpen(level)[s]] = OpenUpvalue(s)
      /\ StillOpen(level) \in [Slots -> MaybeObject]
  <2>1. open \in [Slots -> MaybeObject]
    BY <1>2 DEF OpenIn
  <2>. QED BY <1>2, <1>5, <2>1, ClosedPlain
<1>7. OpenOK'
  BY <1>1, <1>6 DEF OpenOK
<1>8. Keeps(heap, Held, K) /\ Held \ {Null} \subseteq K
  BY <1>3 DEF Good, Keeps
<1>9. Typed(heap', K)
  <2>1. OpenIn(heap) /\ Keeps(heap, Held, K) /\ Typed(heap, K) /\ heap.body = heap.body /\ ClosedAbove(heap, heap', level, 0)
    BY <1>2, <1>3, <1>5, <1>8
  <2>. QED BY ONLY <2>1, ClosedTyped
<1>10. stack' \in [Slots -> MaybeObject] /\ \A s \in Slots : stack'[s] \in K \cup {Null}
  BY <1>1, <1>3, SlotsKept
<1>11. PICK j : Good(heap', Held, c, j, K)
  BY <1>5
<1>. QED BY <1>1, <1>6, <1>7, <1>8, <1>9, <1>10, <1>11, PlainKeeps

\* The barrier of a store keeps everything.
LEMMA BarrierGood ==
    ASSUME NEW h, NEW hold, NEW c, NEW k, NEW K, Good(h, hold, c, k, K),
           NEW stk, NEW owner \in Live(h), NEW child, child # Null => child \in Live(h),
           NEW g, g = writeBarrier(h, stk, owner, child)
    PROVE  /\ Good(g, hold, c, k, K) /\ Same(h, g) /\ Black(h) \subseteq Black(g)
           /\ g.color[owner] = "Black" => child \notin White(g)
<1>1. Sound(h)
  BY DEF Good
<1>2. /\ Recolored(h, g) /\ (h.gray = {} => g.gray = {})
      /\ owner \in Live(h) /\ g.color[owner] = "Black" => child \notin White(g)
  BY <1>1, BarrierLemma
<1>3. h.phase = "Sweep" => g.gray = {}
  BY <1>1, <1>2 DEF Sound, ColorOK
<1>4. Good(g, hold, c, k, K)
  BY ONLY <1>2, <1>3, Good(h, hold, c, k, K), GoodRecolored
<1>. QED BY <1>2, <1>4 DEF Recolored

LEMMA SetUpvalueKeeps ==
    ASSUME IInv, NEW s \in Slots, NEW t \in Slots, SetUpvalue(t, s)
    PROVE  IInv' /\ OnceStep
<1> DEFINE u == UpvalueIn(t)
           v == stack[s]
           h == writeBarrier(heap, stack, u, v)
           b == ClosedUpvalue(v)
<1>1. /\ Runs /\ u # Null /\ open' = open /\ UNCHANGED <<program, finals>>
      /\ Is(heap, u, "open") => heap' = h /\ stack' = [stack EXCEPT ![heap.body[u].at] = v]
      /\ ~Is(heap, u, "open") => heap' = [h EXCEPT !.body[u] = b] /\ stack' = stack
  BY DEF SetUpvalue
<1>2. PICK c, k, K : Good(heap, Held, c, k, K) /\ Typed(heap, K)
  BY IInvFacts
<1>3. /\ u \in K /\ u \in Live(heap) /\ u \in Objects
      /\ heap.body[u] \in Bodies /\ heap.body[u].kind \in Upvalues
  BY <1>1, <1>2, UpvalueFacts
<1>4. /\ stack \in [Slots -> MaybeObject] /\ (\A x \in Slots : stack[x] \in K \cup {Null})
      /\ K \subseteq Live(heap) /\ K \subseteq Objects /\ Keeps(heap, Held, K) /\ Held \ {Null} \subseteq K
  BY <1>2, SlotsKept DEF Good, Keeps
<1>5. v \in K \cup {Null} /\ (v # Null => v \in Live(heap)) /\ v \in MaybeObject
  BY <1>4
<1>b. b \in Links /\ b.kind = "closed" /\ getSize(b) = 1 /\ b = ClosedUpvalue(v) /\ b \in Bodies
  BY <1>5 DEF Links, Bodies, ClosedUpvalue, getSize, MaybeObject
<1> HIDE DEF u, v, b
<1>6. /\ Good(h, Held, c, k, K) /\ Same(heap, h)
      /\ h.color[u] = "Black" => v \notin White(h)
  BY <1>2, <1>3, <1>5, BarrierGood
<1> HIDE DEF h
<1>7. h.body = heap.body /\ h.pool = heap.pool /\ h.pending = heap.pending /\ h.finalized = heap.finalized
  BY <1>6 DEF Same
<1>8. OpenIn(heap) /\ heap.body \in [Objects -> Bodies]
  BY IInvFacts, HeapFields
<1>9. CASE Is(heap, u, "open")
  <2>1. heap.body[u].at \in Slots
    BY <1>3, <1>9, BodyKinds DEF Is
  <2>2. stack' \in [Slots -> MaybeObject] /\ \A x \in Slots : stack'[x] \in K \cup {Null}
    BY <1>1, <1>4, <1>5, <1>9, <2>1
  <2>3. Plain(heap, heap') /\ OpenOK'
    BY <1>1, <1>7, <1>8, <1>9, PlainRefl DEF OpenIn, OpenOK
  <2>4. Good(heap', Held, c, k, K) /\ Typed(heap', K)
    BY <1>1, <1>2, <1>6, <1>7, <1>9, TypedSame
  <2>. QED BY <1>1, <1>4, <2>2, <2>3, <2>4, PlainKeeps
<1>10. CASE ~Is(heap, u, "open")
  <2>1. heap' = [h EXCEPT !.body[u] = b] /\ stack' = stack
    BY <1>1, <1>10
  <2>2. heap.body[u].kind = "closed" /\ heap.body[u] \in Links /\ getSize(heap.body[u]) = 1
    BY <1>3, <1>10 DEF Is, Upvalues, Links, getSize
  <2>3. h \in HeapOf /\ Counted(h) /\ u \in Live(h) /\ Sound(h)
    BY <1>3, <1>6, <1>7, SameBodies DEF Good, Sound
  <2>4. IsRebodied(h, heap', u, b)
    <3>1. h.accounted \in [Objects -> Int] /\ h.accounted[u] = 1 /\ h.total \in Int /\ h.body \in [Objects -> Bodies]
      BY <1>7, <2>2, <2>3, HeapFields DEF Counted
    <3>2. h.accounted = [h.accounted EXCEPT ![u] = 1]
      BY <1>3, <3>1
    <3>3. h.total = h.total + getSize(b) - getSize(h.body[u])
      BY <1>b, <1>7, <2>2, <3>1
    <3>4. [h.body EXCEPT ![u] = b] \in [Objects -> Bodies]
      BY <1>b, <3>1
    <3>5. heap' \in HeapOf
      BY <2>1, <2>3, <3>4 DEF HeapOf
    <3>6. /\ heap'.body = [h.body EXCEPT ![u] = b] /\ heap'.accounted = h.accounted /\ heap'.total = h.total
          /\ heap'.next = h.next /\ heap'.head = h.head /\ heap'.count = h.count /\ heap'.phase = h.phase
          /\ heap'.current = h.current /\ heap'.previous = h.previous /\ heap'.pending = h.pending
          /\ heap'.finalized = h.finalized /\ heap'.pool = h.pool
          /\ heap'.color = h.color /\ heap'.gray = h.gray /\ heap'.capacity = h.capacity
      BY <2>1, <2>3 DEF HeapOf
    <3>. QED BY <1>b, <3>2, <3>3, <3>5, <3>6 DEF IsRebodied
  <2>5. /\ heap'.body[u] = b /\ (\A x \in Objects : x # u => heap'.body[x] = heap.body[x])
        /\ heap'.pool = heap.pool /\ heap'.pending = heap.pending /\ heap'.finalized = heap.finalized
    BY <1>3, <1>7, <1>8, <2>4 DEF IsRebodied
  <2>6. Inner(heap', u) \subseteq {v} \ {Null}
    <3>1. heap'.body[u] = ClosedUpvalue(v)
      BY <1>b, <2>5
    <3>. QED BY <3>1 DEF Inner, Refs, Is, ClosedUpvalue
  <2>7. Good(heap', Held, c, k, K)
    <3>1. u \in K => Inner(heap', u) \subseteq K
      BY <1>5, <2>6
    <3>2. Marking(h) /\ h.color[u] = "Black" => Inner(heap', u) \cap White(h) = {}
      BY <1>6, <2>6
    <3>3. Good(h, Held, c, k, K) /\ u \in Live(h) /\ h.body[u] \in Links /\ b \in Links /\ IsRebodied(h, heap', u, b)
      BY <1>b, <1>6, <1>7, <2>2, <2>3, <2>4
    <3>. QED BY ONLY <3>1, <3>2, <3>3, RebodyGood
  <2>8. Typed(heap', K)
    <3>1. \A x \in K : heap'.body[x] = heap.body[x] \/ (heap.body[x].kind \in Upvalues /\ heap'.body[x].kind \in Upvalues)
      BY <1>b, <1>3, <1>4, <2>5 DEF Upvalues
    <3>. QED BY <1>2, <1>4, <3>1, TypedKept
  <2>9. Plain(heap, heap') /\ StayOpen(heap, heap')
    BY <1>b, <1>10, <2>2, <2>5 DEF Plain, StayOpen
  <2>10. OpenIn(heap')
    BY <1>8, <2>9, OpenStays
  <2>11. OpenOK'
    BY <1>1, <2>10 DEF OpenOK, OpenIn
  <2>12. stack' \in [Slots -> MaybeObject] /\ \A x \in Slots : stack'[x] \in K \cup {Null}
    BY <1>4, <2>1
  <2>. QED BY <1>1, <1>4, <2>7, <2>8, <2>9, <2>11, <2>12, PlainKeeps
<1>. QED BY <1>9, <1>10

\* A closure f over slot s has been registered, and its upvalue u exists: it is
\* the open upvalue of s, or was registered as well.
IsReady(h, f, u, s) ==
    /\ h.body[f] = Closure(Null) /\ h.body[u] = OpenUpvalue(s)
    /\ (\A x \in Objects : x \notin {f, u} => h.body[x] = heap.body[x])
    /\ h.pool = heap.pool /\ h.pending = heap.pending /\ h.finalized = heap.finalized
    /\ h.phase # "Pause" => f \in Black(h)

LEMMA ReadyLemma ==
    ASSUME IInv, NEW c, NEW k, NEW K, Good(heap, Held, c, k, K), NEW s \in Slots,
           NEW f \in Unused, NEW u \in (IF open[s] = Null THEN Unused ELSE {open[s]}), f # u,
           NEW p, p = registerObject(heap, stack, f, Closure(Null)),
           NEW q, q = IF open[s] = Null THEN registerObject(p, stack, u, OpenUpvalue(s)) ELSE p
    PROVE  /\ IsReady(q, f, u, s) /\ u \in Objects
           /\ \E d, j, L : Good(q, Held, d, j, L) /\ K \cup {f} \subseteq L /\ L \subseteq K \cup {f, u}
<1> DEFINE b == Closure(Null)
           e == OpenUpvalue(s)
<1>1. /\ f \in Objects /\ f # Null /\ f \notin Live(heap) /\ heap.body[f].kind = "free"
      /\ heap.body \in [Objects -> Bodies] /\ OpenIn(heap)
  BY UnusedFacts, IInvFacts, HeapFields
<1>2. b \in Fresh /\ e \in Fresh /\ b.kind = "closure" /\ e.kind = "open"
  BY DEF Fresh, Bodies, Closure, OpenUpvalue
<1>b. b = Closure(Null) /\ e = OpenUpvalue(s)
  OBVIOUS
<1> HIDE DEF b, e
<1>3. Good(p, Held, <<f>> \o c, k + 1, K \cup {f}) /\ IsRegistered(heap, p, f, b)
  BY <1>1, <1>2, <1>b, RegisterLemma
<1>4. /\ p.body = [heap.body EXCEPT ![f] = b] /\ p.pool = heap.pool /\ p.pending = heap.pending
      /\ p.finalized = heap.finalized /\ p.phase = heap.phase
      /\ heap.phase # "Pause" => f \in Black(p)
  BY <1>3 DEF IsRegistered
<1>5. p.body[f] = b /\ (\A x \in Objects : x # f => p.body[x] = heap.body[x]) /\ p.body \in [Objects -> Bodies]
  <2>1. b \in Bodies
    BY <1>2 DEF Fresh
  <2>. QED BY <1>1, <1>4, <2>1
<1>6. CASE open[s] = Null
  <2>1. u \in Unused /\ q = registerObject(p, stack, u, e)
    BY <1>6, <1>b
  <2>2. u \in Objects /\ heap.body[u].kind = "free"
    BY <2>1, UnusedFacts
  <2>3. u \notin Live(p)
    BY <1>5, <2>2 DEF Live, Is
  <2>4. Good(q, Held, <<u>> \o (<<f>> \o c), (k + 1) + 1, (K \cup {f}) \cup {u}) /\ IsRegistered(p, q, u, e)
    BY <1>2, <1>3, <2>1, <2>2, <2>3, RegisterLemma
  <2>5. /\ q.body = [p.body EXCEPT ![u] = e] /\ q.pool = p.pool /\ q.pending = p.pending
        /\ q.finalized = p.finalized /\ q.phase = p.phase
    BY <2>4 DEF IsRegistered
  <2>6. q.body[u] = e /\ \A x \in Objects : x # u => q.body[x] = p.body[x]
    BY <1>5, <2>2, <2>5
  <2>7. q.phase # "Pause" => f \in Black(q)
    <3>1. ASSUME q.phase # "Pause" PROVE f \in Black(q)
      <4>1. f \in Black(p)
        BY <1>4, <2>5, <3>1
      <4>2. PICK g : IsLinked(p, g, u, e) /\ q = Published(g, stack, u)
        <5>1. p \in HeapOf
          BY <1>3 DEF Good, Sound
        <5>. QED BY <1>2, <2>1, <2>2, <5>1, LinkedFields
      <4>3. Sound(g)
        <5>1. Good(g, Held, <<u>> \o (<<f>> \o c), (k + 1) + 1, (K \cup {f}) \cup {u})
          BY <1>2, <1>3, <2>2, <2>3, <4>2, LinkedGood
        <5>. QED BY <5>1 DEF Good
      <4>4. f \in Black(g)
        <5>1. g.body = [p.body EXCEPT ![u] = e] /\ g.color = [p.color EXCEPT ![u] = IF p.phase = "Pause" THEN "White" ELSE "Black"]
          BY <4>2 DEF IsLinked
        <5>2. p.color \in [Objects -> Colors]
          BY <1>3, HeapFields DEF Good, Sound
        <5>3. g.body[f] = p.body[f] /\ g.color[f] = p.color[f]
          BY <1>1, <1>5, <5>1, <5>2
        <5>. QED BY <1>1, <4>1, <5>3 DEF Black, Live, Is
      <4>5. Recolored(g, q)
        BY <4>2, <4>3, PublishedLemma
      <4>. QED BY <4>4, <4>5 DEF Recolored
    <3>. QED BY <3>1
  <2>8. IsReady(q, f, u, s)
    BY <1>1, <1>4, <1>5, <1>b, <2>5, <2>6, <2>7 DEF IsReady
  <2>. QED BY <2>2, <2>4, <2>8
<1>7. CASE open[s] # Null
  <2>1. u = open[s] /\ q = p /\ u \in Objects
    BY <1>1, <1>7 DEF OpenIn, MaybeObject
  <2>2. heap.body[u] = e
    BY <1>1, <1>7, <1>b, <2>1 DEF OpenIn
  <2>3. IsReady(q, f, u, s)
    BY <1>4, <1>5, <1>b, <2>1, <2>2 DEF IsReady
  <2>. QED BY <1>3, <2>1, <2>3
<1>. QED BY <1>6, <1>7

LEMMA NewClosureKeeps ==
    ASSUME IInv, NEW s \in Slots, NEW t \in Slots, NewClosure(s, t)
    PROVE  IInv' /\ OnceStep
<1>1. Runs /\ UNCHANGED <<program, finals>>
  BY DEF NewClosure
<1>2. PICK f \in Unused, u \in (IF open[s] = Null THEN Unused ELSE {open[s]}) :
        LET p == registerObject(heap, stack, f, Closure(Null))
            q == IF open[s] = Null THEN registerObject(p, stack, u, OpenUpvalue(s)) ELSE p
        IN  /\ f # u /\ heap' = WithUpvalue(q, f, u)
            /\ open' = [open EXCEPT ![s] = u] /\ stack' = [stack EXCEPT ![t] = f]
  BY DEF NewClosure
<1> DEFINE p == registerObject(heap, stack, f, Closure(Null))
           q == IF open[s] = Null THEN registerObject(p, stack, u, OpenUpvalue(s)) ELSE p
           w == writeBarrier(q, stack, f, u)
           b == Closure(u)
<1>3. /\ f # u /\ heap' = accountObjectSizeChange([w EXCEPT !.body[f] = b], f)
      /\ open' = [open EXCEPT ![s] = u] /\ stack' = [stack EXCEPT ![t] = f]
  BY <1>2 DEF WithUpvalue
<1>4. PICK c, k, K : Good(heap, Held, c, k, K) /\ Typed(heap, K)
  BY IInvFacts
<1>5. /\ IsReady(q, f, u, s) /\ u \in Objects
      /\ \E d, j, L : Good(q, Held, d, j, L) /\ K \cup {f} \subseteq L /\ L \subseteq K \cup {f, u}
  BY <1>3, <1>4, ReadyLemma
<1> HIDE DEF p, q
<1>6. PICK d, j, M : Good(q, Held, d, j, M) /\ K \cup {f} \subseteq M /\ M \subseteq K \cup {f, u}
  BY <1>5
<1>7. /\ q.body[f] = Closure(Null) /\ q.body[u] = OpenUpvalue(s)
      /\ (\A x \in Objects : x \notin {f, u} => q.body[x] = heap.body[x])
      /\ q.pool = heap.pool /\ q.pending = heap.pending /\ q.finalized = heap.finalized
      /\ q.phase # "Pause" => f \in Black(q)
  BY <1>5 DEF IsReady
<1>8. /\ f \in Objects /\ f # Null /\ f \notin Live(heap) /\ heap.body[f].kind = "free"
      /\ (\A x \in Slots : open[x] # f) /\ heap.body \in [Objects -> Bodies] /\ OpenIn(heap) /\ u # Null
  BY <1>5, UnusedFacts, IInvFacts, HeapFields, ObjectListAssumption
<1>9. f \in Live(q) /\ u \in Live(q)
  BY <1>5, <1>7, <1>8 DEF Live, Is, Closure, OpenUpvalue
<1>10. /\ Good(w, Held, d, j, M) /\ Same(q, w) /\ Black(q) \subseteq Black(w)
       /\ w.color[f] = "Black" => u \notin White(w)
  BY <1>6, <1>9, BarrierGood
<1>b. b = Closure(u) /\ b \in Links /\ b.kind = "closure" /\ getSize(b) = 2 /\ b \in Bodies
  BY <1>5, <1>8 DEF Closure, Links, Bodies, getSize
<1> HIDE DEF w, b
<1>11. /\ w.body = q.body /\ w.pool = q.pool /\ w.pending = q.pending /\ w.finalized = q.finalized
       /\ w.phase = q.phase /\ Live(w) = Live(q)
  BY <1>10, SameBodies DEF Same
<1>12. w \in HeapOf /\ Sound(w) /\ Counted(w) /\ w.body \in [Objects -> Bodies]
  BY <1>10, HeapFields DEF Good, Sound
<1> DEFINE L == M \cup {u}
<1>13. Good(w, Held, d, j, L)
  <2>1. Inner(w, u) \subseteq M \cup {u}
    BY <1>7, <1>11 DEF Inner, Is, OpenUpvalue
  <2>2. w.phase = "Sweep" => \A i \in j + 1 .. Len(d) : d[i] = u => w.color[u] # "White"
    <3>1. ASSUME w.phase = "Sweep" PROVE w.color[u] # "White"
      <4>1. f \in Black(w)
        BY <1>7, <1>10, <1>11, <3>1
      <4>2. u \notin White(w)
        BY <1>10, <4>1 DEF Black
      <4>. QED BY <1>9, <1>11, <4>2 DEF White
    <3>. QED BY <3>1
  <2>3. Good(w, Held, d, j, M) /\ u \in Live(w)
    BY <1>9, <1>10, <1>11
  <2>. QED BY ONLY <2>1, <2>2, <2>3, GoodMore
<1>14. IsRebodied(w, heap', f, b)
  <2> DEFINE x == [w EXCEPT !.body[f] = b]
  <2>1. /\ x \in HeapOf /\ x.body = [w.body EXCEPT ![f] = b] /\ x.accounted = w.accounted /\ x.total = w.total
        /\ x.next = w.next /\ x.head = w.head /\ x.count = w.count /\ x.phase = w.phase
        /\ x.current = w.current /\ x.previous = w.previous /\ x.pending = w.pending
        /\ x.finalized = w.finalized /\ x.pool = w.pool
        /\ x.color = w.color /\ x.gray = w.gray /\ x.capacity = w.capacity
    <3>1. [w.body EXCEPT ![f] = b] \in [Objects -> Bodies]
      BY <1>b, <1>12
    <3>. QED BY <1>12, <3>1 DEF HeapOf
  <2>2. heap' = [x EXCEPT !.total = @ + getSize(x.body[f]) - x.accounted[f], !.accounted[f] = getSize(x.body[f])]
    BY <1>3 DEF accountObjectSizeChange
  <2> HIDE DEF x
  <2>3. x.body[f] = b
    BY <1>8, <1>12, <2>1
  <2>4. /\ w.accounted[f] = getSize(w.body[f]) /\ getSize(w.body[f]) = 1 /\ w.total \in Int
        /\ w.accounted \in [Objects -> Int]
    <3>1. w.accounted[f] = getSize(w.body[f]) /\ w.total \in Int /\ w.accounted \in [Objects -> Int]
      BY <1>9, <1>11, <1>12, HeapFields DEF Counted
    <3>2. getSize(w.body[f]) = 1
      BY <1>7, <1>11 DEF Closure, getSize
    <3>. QED BY <3>1, <3>2
  <2>5. heap' = [x EXCEPT !.total = w.total + 2 - 1, !.accounted[f] = 2]
    BY <1>b, <2>1, <2>2, <2>3, <2>4
  <2>6. w.total + 2 - 1 \in Int /\ [w.accounted EXCEPT ![f] = 2] \in [Objects -> Int]
    <3>1. w.total \in Int /\ w.accounted \in [Objects -> Int] /\ 2 \in Int
      BY <2>4
    <3>2. [w.accounted EXCEPT ![f] = 2] \in [Objects -> Int]
      BY <3>1
    <3>3. w.total + 2 - 1 \in Int
      BY <3>1
    <3>. QED BY <3>2, <3>3
  <2>7. heap' \in HeapOf
    BY <2>1, <2>5, <2>6 DEF HeapOf
  <2>8. /\ heap'.body = x.body /\ heap'.accounted = [w.accounted EXCEPT ![f] = 2] /\ heap'.total = w.total + 2 - 1
        /\ heap'.next = w.next /\ heap'.head = w.head /\ heap'.count = w.count /\ heap'.phase = w.phase
        /\ heap'.current = w.current /\ heap'.previous = w.previous /\ heap'.pending = w.pending
        /\ heap'.finalized = w.finalized /\ heap'.pool = w.pool
        /\ heap'.color = w.color /\ heap'.gray = w.gray /\ heap'.capacity = w.capacity
    BY <2>1, <2>5 DEF HeapOf
  <2>. QED BY <1>b, <2>1, <2>4, <2>7, <2>8 DEF IsRebodied
<1>15. /\ heap'.body = [w.body EXCEPT ![f] = b]
       /\ heap'.pool = heap.pool /\ heap'.pending = heap.pending /\ heap'.finalized = heap.finalized
  BY <1>7, <1>11, <1>14 DEF IsRebodied
<1>16. /\ heap'.body[f] = b /\ heap'.body[u] = OpenUpvalue(s)
       /\ \A x \in Objects : x \notin {f, u} => heap'.body[x] = heap.body[x]
  BY <1>3, <1>5, <1>7, <1>8, <1>11, <1>12, <1>15
<1>17. Inner(heap', f) \subseteq {u}
  <2>1. heap'.body[f] = Closure(u)
    BY <1>b, <1>16
  <2>. QED BY <2>1 DEF Inner, Refs, Is, Closure
<1>18. Good(heap', Held, d, j, L)
  <2>1. f \in L => Inner(heap', f) \subseteq L
    BY <1>17
  <2>2. Marking(w) /\ w.color[f] = "Black" => Inner(heap', f) \cap White(w) = {}
    BY <1>10, <1>17
  <2>3. Good(w, Held, d, j, L) /\ f \in Live(w) /\ w.body[f] \in Links /\ b \in Links /\ IsRebodied(w, heap', f, b)
    <3>1. w.body[f] \in Links
      BY <1>7, <1>11 DEF Links, Bodies, Closure
    <3>. QED BY <1>b, <1>9, <1>11, <1>13, <1>14, <3>1
  <2> HIDE DEF L
  <2>. QED BY ONLY <2>1, <2>2, <2>3, RebodyGood
<1>19. Keeps(heap, Held, K) /\ K \subseteq Live(heap) /\ K \subseteq Objects /\ Held \ {Null} \subseteq K
  BY <1>4, SlotsKept DEF Good, Keeps
<1>20. heap.body[u].kind \in {"free", "open"} /\ (heap.body[u].kind = "open" => heap.body[u] = OpenUpvalue(s) /\ u = open[s])
  <2>1. CASE open[s] = Null
    BY <2>1, UnusedFacts
  <2>2. CASE open[s] # Null
    BY <1>8, <2>2 DEF OpenIn, OpenUpvalue
  <2>. QED BY <2>1, <2>2
<1>21. Typed(heap', L)
  <2>1. Typed(heap', K)
    <3>1. ASSUME NEW x \in K
          PROVE  heap'.body[x] = heap.body[x] \/ (heap.body[x].kind \in Upvalues /\ heap'.body[x].kind \in Upvalues)
      <4>1. x # f /\ x \in Objects /\ heap.body[x].kind # "free"
        BY <1>8, <1>19 DEF Live, Is
      <4>2. CASE x = u
        BY <1>16, <1>20, <4>1, <4>2
      <4>3. CASE x # u
        BY <1>16, <4>1, <4>3
      <4>. QED BY <4>2, <4>3
    <3>. QED BY <1>4, <1>19, <3>1, TypedKept
  <2>2. heap'.body[f].up = u /\ heap'.body[u].kind = "open"
    BY <1>b, <1>16 DEF Closure, OpenUpvalue
  <2>3. \A x \in L : x \in K \/ x = f \/ x = u
    BY <1>6
  <2>. QED BY <2>1, <2>2, <2>3 DEF Typed, Is, Upvalues
<1>22. Plain(heap, heap')
  <2>1. ASSUME NEW x \in Objects
        PROVE  \/ heap'.body[x] = heap.body[x]
               \/ heap.body[x].kind \notin {"string", "userdata"} /\ heap'.body[x].kind \notin {"string", "userdata"}
    <3>1. CASE x = f
      BY <1>b, <1>8, <1>16, <3>1
    <3>2. CASE x = u
      <4>1. heap'.body[x].kind = "open"
        BY <1>16, <3>2 DEF OpenUpvalue
      <4>. QED BY <1>20, <3>2, <4>1
    <3>3. CASE x \notin {f, u}
      BY <1>16, <3>3
    <3>. QED BY <3>1, <3>2, <3>3
  <2>. QED BY <1>15, <2>1 DEF Plain
<1>23. OpenOK'
  <2>1. open \in [Slots -> MaybeObject] /\ \A x \in Slots : open[x] # Null => heap.body[open[x]] = OpenUpvalue(x)
    BY <1>8 DEF OpenIn
  <2>2. open' \in [Slots -> MaybeObject] /\ open'[s] = u /\ \A x \in Slots : x # s => open'[x] = open[x]
    BY <1>3, <1>5, <2>1 DEF MaybeObject
  <2>3. ASSUME NEW x \in Slots, open'[x] # Null PROVE heap'.body[open'[x]] = OpenUpvalue(x)
    <3>1. CASE x = s
      BY <1>16, <2>2, <3>1
    <3>2. CASE x # s
      <4>1. open'[x] = open[x] /\ open[x] \in Objects /\ heap.body[open[x]] = OpenUpvalue(x)
        BY <2>1, <2>2, <2>3, <3>2 DEF MaybeObject
      <4>2. open[x] # f /\ heap.body[open[x]].kind = "open"
        BY <1>8, <4>1 DEF OpenUpvalue
      <4>3. OpenUpvalue(x) # OpenUpvalue(s)
        BY <3>2 DEF OpenUpvalue
      <4>4. open[x] # u
        BY <1>20, <4>1, <4>2, <4>3
      <4>. QED BY <1>16, <4>1, <4>2, <4>4
    <3>. QED BY <3>1, <3>2
  <2>. QED BY <2>2, <2>3 DEF OpenOK
<1>24. stack' \in [Slots -> MaybeObject] /\ \A x \in Slots : stack'[x] \in L \cup {Null}
  <2>1. stack \in [Slots -> MaybeObject] /\ \A x \in Slots : stack[x] \in K \cup {Null}
    BY <1>4, SlotsKept
  <2>2. f \in L /\ K \subseteq L
    BY <1>6
  <2>. QED BY <1>3, <1>8, <2>1, <2>2 DEF MaybeObject
<1>25. Held \ {Null} \subseteq L
  BY <1>6, <1>19
<1> HIDE DEF L
<1>. QED BY <1>1, <1>18, <1>21, <1>22, <1>23, <1>24, <1>25, PlainKeeps

-----------------------------------------------------------------------------
(***************************************************************************)
(* The invariant is inductive.                                             *)
(***************************************************************************)

LEMMA InitIInv == Init => IInv
<1> SUFFICES ASSUME Init PROVE IInv
  OBVIOUS
<1>1. /\ heap = [body |-> [o \in Objects |-> Free], color |-> [o \in Objects |-> "White"],
                 next |-> [o \in Objects |-> Null], accounted |-> [o \in Objects |-> 0],
                 head |-> Null, count |-> 0, total |-> 0,
                 phase |-> "Pause", current |-> Null, previous |-> Null,
                 gray |-> {}, capacity |-> 0, pending |-> <<>>, finalized |-> {},
                 pool |-> [x \in Contents |-> Null]]
      /\ stack = [s \in Slots |-> Null] /\ open = [s \in Slots |-> Null]
      /\ drain = Null /\ callback = Null /\ stage = "running" /\ entered = 0
      /\ finals = [o \in Objects |-> 0]
  BY DEF Init
<1>2. /\ heap.body = [o \in Objects |-> Free] /\ heap.color = [o \in Objects |-> "White"]
      /\ heap.next = [o \in Objects |-> Null] /\ heap.accounted = [o \in Objects |-> 0]
      /\ heap.head = Null /\ heap.count = 0 /\ heap.total = 0
      /\ heap.phase = "Pause" /\ heap.current = Null /\ heap.previous = Null
      /\ heap.gray = {} /\ heap.capacity = 0 /\ heap.pending = <<>> /\ heap.finalized = {}
      /\ heap.pool = [x \in Contents |-> Null]
  BY <1>1
<1>3. heap \in HeapOf
  <2>1. Null \in MaybeObject /\ Free \in Bodies /\ "White" \in Colors /\ "Pause" \in Phases
    BY DEF MaybeObject, Bodies, Free, Colors, Phases
  <2>2. <<>> \in Seq(Objects) /\ {} \in SUBSET Objects /\ 0 \in Nat /\ 0 \in Int
    OBVIOUS
  <2>3. [o \in Objects |-> Free] \in [Objects -> Bodies] /\ [o \in Objects |-> "White"] \in [Objects -> Colors]
    BY <2>1
  <2>4. [o \in Objects |-> Null] \in [Objects -> MaybeObject] /\ [o \in Objects |-> 0] \in [Objects -> Int]
        /\ [x \in Contents |-> Null] \in [Contents -> MaybeObject]
    BY <2>1
  <2>. QED BY ONLY <1>1, <2>1, <2>2, <2>3, <2>4 DEF HeapOf
<1>4. Live(heap) = {} /\ Big(heap) = {} /\ White(heap) = {}
  <2>1. Live(heap) = {}
    BY <1>2 DEF Live, Is, Free
  <2>. QED BY <2>1 DEF Big, White
<1>5. Range(<<>>) = {}
  <2>1. \A x : x \notin Range(<<>>)
    BY DEF Range
  <2>. QED BY ONLY <2>1
<1>6. Cardinality({}) = 0
  BY FS_EmptySet
<1>7. Counted(heap)
  BY <1>2, <1>4, <1>6 DEF Counted
<1>8. QueueOK(heap) /\ ColorOK(heap)
  BY <1>2, <1>5 DEF QueueOK, ColorOK, GrayOK, Marking
<1>9. IsList(heap, <<>>)
  <2>1. <<>> \in Seq(Objects) /\ Len(<<>>) = 0
    OBVIOUS
  <2>2. heap.head = After(<<>>, 0)
    BY <1>2, <2>1 DEF After
  <2>. QED BY <1>4, <1>5, <2>1, <2>2 DEF IsList
<1>10. Cursor(heap, <<>>, 0)
  <2>1. 0 \in 0 .. Len(<<>>)
    OBVIOUS
  <2>. QED BY <1>2, <2>1 DEF Cursor
<1>11. Keeps(heap, Held, {}) /\ Typed(heap, {})
  <2>1. Held \ {Null} = {}
    BY <1>1, <1>2, <1>5 DEF Held
  <2>. QED BY <2>1 DEF Keeps, Typed
<1>12. Good(heap, Held, <<>>, 0, {}) /\ Typed(heap, {})
  BY <1>2, <1>3, <1>7, <1>8, <1>9, <1>10, <1>11 DEF Good, Sound
<1>13. PoolOK(heap)
  <2>1. ASSUME NEW t \in Contents PROVE {o \in Objects : heap.body[o] = String(t)} = {heap.pool[t]} \ {Null}
    <3>1. heap.pool[t] = Null
      BY <1>2
    <3>2. \A o \in Objects : heap.body[o] # String(t)
      BY <1>2 DEF Free, String
    <3>. QED BY <3>1, <3>2
  <2>. QED BY <2>1 DEF PoolOK
<1>14. StackOK /\ OpenOK
  BY <1>1 DEF StackOK, OpenOK, MaybeObject
<1>15. StageOK /\ DrainOK
  BY <1>1, ObjectListAssumption DEF StageOK, DrainOK
<1>16. FinalsOK
  BY <1>1, <1>2, <1>4 DEF FinalsOK
<1>. QED BY <1>12, <1>13, <1>14, <1>15, <1>16 DEF IInv

LEMMA NextIInv ==
    ASSUME ~InternsDoomed, IInv, Next
    PROVE  IInv' /\ OnceStep
<1>1. CASE Program
  <2>1. ASSUME NEW t \in Contents, NEW s \in Slots, InternKnown(t, s) \/ InternNew(t, s) PROVE IInv' /\ OnceStep
    BY <2>1, InternKnownKeeps, InternNewKeeps
  <2>2. ASSUME NEW s \in Slots, NewUserdata(s) \/ Clear(s) \/ LeaveBlock(s) \/ Resurrect(s) PROVE IInv' /\ OnceStep
    BY <2>2, NewUserdataKeeps, ClearKeeps, LeaveBlockKeeps, ResurrectKeeps
  <2>3. ASSUME NEW s \in Slots, NEW t \in Slots, NewClosure(s, t) \/ GetUpvalue(t, s) \/ SetUpvalue(t, s)
        PROVE  IInv' /\ OnceStep
    BY <2>3, NewClosureKeeps, GetUpvalueKeeps, SetUpvalueKeeps
  <2>. QED BY <1>1, <2>1, <2>2, <2>3 DEF Program
<1>2. CASE Collector
  BY <1>2, CycleKeeps, FinalizeKeeps DEF Collector, CycleStep
<1>3. CASE Finalizers
  BY <1>3, CallFinalizerKeeps, FinalizerReturnsKeeps, FinalizerThrowsKeeps DEF Finalizers
<1>4. CASE Closing
  BY <1>4, FinalizeAllKeeps, CloseNextKeeps, CloseReturnsKeeps, ClearAllKeeps DEF Closing
<1>. QED BY <1>1, <1>2, <1>3, <1>4 DEF Next

LEMMA StutterIInv ==
    ASSUME IInv, UNCHANGED vars
    PROVE  IInv' /\ OnceStep
<1>1. /\ heap' = heap /\ stack' = stack /\ open' = open /\ drain' = drain /\ callback' = callback
      /\ stage' = stage /\ entered' = entered /\ finals' = finals
  BY DEF vars
<1>2. IInv'
  <2>1. Held' = Held
    BY <1>1 DEF Held
  <2>2. \E c, k, K : Good(heap, Held, c, k, K) /\ Typed(heap, K)
    BY DEF IInv
  <2>3. \E c, k, K : Good(heap', Held', c, k, K) /\ Typed(heap', K)
    BY <2>1, <2>2, <1>1
  <2>4. PoolOK(heap') /\ StackOK'
    BY <1>1 DEF IInv, StackOK
  <2>5. OpenOK'
    BY <1>1 DEF IInv, OpenOK
  <2>6. StageOK'
    <3>1. StageOK
      BY DEF IInv
    <3>. QED BY <3>1, <1>1 DEF StageOK, Emptied
  <2>7. DrainOK'
    <3>1. DrainOK
      BY DEF IInv
    <3>. QED BY <3>1, <1>1 DEF DrainOK
  <2>8. FinalsOK'
    <3>1. FinalsOK
      BY DEF IInv
    <3>. QED BY <3>1, <1>1 DEF FinalsOK
  <2>. QED BY <2>3, <2>4, <2>5, <2>6, <2>7, <2>8 DEF IInv
<1>3. OnceStep
  BY <1>1 DEF OnceStep
<1>. QED BY <1>2, <1>3

LEMMA AlwaysIInv ==
    ASSUME ~InternsDoomed
    PROVE  Spec => []IInv
<1>1. Init => IInv
  BY InitIInv
<1>2. IInv /\ [Next]_vars => IInv'
  BY NextIInv, StutterIInv
<1>. QED BY <1>1, <1>2, PTL DEF Spec

-----------------------------------------------------------------------------
(***************************************************************************)
(* The theorems.  The invariant needs that no string is interned that the  *)
(* sweep is about to free: with one, PointersAlive is false.               *)
(***************************************************************************)

LEMMA TypeHolds == IInv => TypeOK
<1> SUFFICES ASSUME IInv PROVE TypeOK
  OBVIOUS
<1>1. PICK c, k, K : Good(heap, Held, c, k, K) /\ Typed(heap, K)
  BY DEF IInv
<1>2. heap \in HeapOf /\ GrayOK(heap) /\ Cursor(heap, c, k)
  BY <1>1 DEF Good, Sound, ColorOK
<1>3. /\ heap.body \in [Objects -> Bodies] /\ heap.color \in [Objects -> Colors]
      /\ heap.phase \in Phases /\ heap.finalized \in SUBSET Objects
  BY <1>2, HeapFields
<1>4. StackOK /\ OpenOK /\ StageOK /\ DrainOK
  BY DEF IInv
<1>5. heap.gray \subseteq Live(heap)
  BY <1>2 DEF GrayOK
<1>6. /\ heap.phase # "Sweep" => heap.current = Null
      /\ heap.phase \in {"Pause", "Propagate", "Atomic"} => heap.previous = Null
  BY <1>2 DEF Cursor
<1>7. stack \in [Slots -> MaybeObject] /\ open \in [Slots -> MaybeObject]
  BY <1>4 DEF StackOK, OpenOK
<1>8. stage \in {"running", "closing", "closed"} /\ entered \in 0 .. DrainLimit
  BY <1>4 DEF StageOK
<1>9. drain # Null => stage = "running" /\ drain.left # <<>>
  BY <1>4 DEF DrainOK
<1>. QED BY <1>3, <1>5, <1>6, <1>7, <1>8, <1>9 DEF TypeOK, Colors, Phases, MaybeObject

LEMMA ListHolds == IInv => ListIntact
<1> SUFFICES ASSUME IInv PROVE ListIntact
  OBVIOUS
<1>1. PICK c, k, K : Good(heap, Held, c, k, K) /\ Typed(heap, K)
  BY DEF IInv
<1>2. IsList(heap, c) /\ Counted(heap)
  BY <1>1 DEF Good, Sound
<1>3. Chain(heap) = c
  BY <1>2, ChainIsList
<1>4. Range(c) = Live(heap) /\ Len(c) = Cardinality(Live(heap))
  BY <1>2, ListFacts
<1>5. /\ heap.count = Cardinality(Live(heap))
      /\ heap.total = Cardinality(Live(heap)) + Cardinality({o \in Live(heap) : getSize(heap.body[o]) = 2})
      /\ \A o \in Live(heap) : heap.accounted[o] = getSize(heap.body[o])
  BY <1>2 DEF Counted, Big
<1>. QED BY <1>3, <1>4, <1>5, TypeHolds DEF ListIntact

\* What is reached is kept, but for the open upvalues, which refer to slots.
LEMMA ReachedKept ==
    ASSUME IInv, NEW c, NEW k, NEW K, Good(heap, Held, c, k, K)
    PROVE  Reached \subseteq Live(heap)
<1> DEFINE S == K \cup ({open[s] : s \in Slots} \ {Null})
<1>1. Keeps(heap, Held, K) /\ heap.body \in [Objects -> Bodies]
  BY HeapFields DEF Good, Sound
<1>2. OpenOK
  BY DEF IInv
<1>3. Held \ {Null} \subseteq K /\ K \subseteq Live(heap) /\ \A o \in K : Inner(heap, o) \subseteq K
  BY <1>1 DEF Keeps
<1>4. \A s \in Slots : stack[s] # Null => stack[s] \in K
  BY <1>3 DEF Held
<1>5. \A s \in Slots : open[s] # Null =>
        open[s] \in Live(heap) /\ Refs(heap, stack, open[s]) \subseteq K
  <2>1. SUFFICES ASSUME NEW s \in Slots, open[s] # Null
                 PROVE  open[s] \in Live(heap) /\ Refs(heap, stack, open[s]) \subseteq K
    OBVIOUS
  <2>2. heap.body[open[s]] = OpenUpvalue(s) /\ open[s] \in Objects
    BY <1>2, <2>1 DEF OpenOK, MaybeObject
  <2>3. heap.body[open[s]].kind = "open" /\ heap.body[open[s]].at = s
    BY <2>2 DEF OpenUpvalue
  <2>4. Refs(heap, stack, open[s]) = {stack[s]} \ {Null}
    BY <2>3 DEF Refs
  <2>5. open[s] \in Live(heap)
    BY <2>2, <2>3 DEF Live, Is
  <2>. QED BY <2>4, <2>5, <1>4
<1>6. \A o \in K : Refs(heap, stack, o) \subseteq K
  <2>1. SUFFICES ASSUME NEW o \in K PROVE Refs(heap, stack, o) \subseteq K
    OBVIOUS
  <2>2. heap.body[o] \in Bodies
    BY <1>1, <1>3, LiveFacts
  <2>3. CASE heap.body[o].kind = "open"
    <3>1. heap.body[o].at \in Slots
      BY <2>2, <2>3, BodyKinds
    <3>2. Refs(heap, stack, o) = {stack[heap.body[o].at]} \ {Null}
      BY <2>3 DEF Refs
    <3>. QED BY <3>1, <3>2, <1>4
  <2>4. CASE heap.body[o].kind # "open"
    <3>1. Refs(heap, stack, o) = Inner(heap, o)
      BY <2>4 DEF Refs, Inner, Is
    <3>. QED BY <3>1, <1>3
  <2>. QED BY <2>3, <2>4
<1>7. \A p \in S : Refs(heap, stack, p) \subseteq S
  BY <1>5, <1>6
<1>8. S \subseteq Live(heap) /\ S \in SUBSET Objects
  BY <1>3, <1>5, LiveFacts
<1>9. Holders \ {Null} \subseteq S
  BY <1>3 DEF Holders, Held
<1>10. Reached \subseteq S
  BY <1>7, <1>8, <1>9 DEF Reached
<1>. QED BY <1>8, <1>10

LEMMA PointersHold == IInv => PointersAlive
<1> SUFFICES ASSUME IInv PROVE PointersAlive
  OBVIOUS
<1>1. PICK c, k, K : Good(heap, Held, c, k, K) /\ Typed(heap, K)
  BY DEF IInv
<1>2. IsList(heap, c) /\ GrayOK(heap) /\ Cursor(heap, c, k)
  BY <1>1 DEF Good, Sound, ColorOK
<1>3. Reached \subseteq Live(heap)
  BY <1>1, ReachedKept
<1>4. heap.gray \subseteq Live(heap)
  BY <1>2 DEF GrayOK
<1>5. heap.previous \in Live(heap) \cup {Null}
  BY <1>2 DEF Cursor
<1>6. heap.current \in Live(heap) \cup {Null}
  <2>1. CASE heap.phase # "Sweep"
    BY <1>2, <2>1 DEF Cursor
  <2>2. CASE heap.phase = "Sweep"
    <3>1. heap.current = After(c, k) /\ k \in 0 .. Len(c)
      BY <1>2, <2>2 DEF Cursor
    <3>2. /\ Len(c) \in Nat /\ \A i \in 1 .. Len(c) : c[i] \in Live(heap)
      BY <1>2, ListFacts
    <3>3. k < Len(c) => k + 1 \in 1 .. Len(c)
      BY <3>1, <3>2
    <3>. QED BY <3>1, <3>2, <3>3 DEF After
  <2>. QED BY <2>1, <2>2
<1>7. OpenOK /\ PoolOK(heap)
  BY DEF IInv
<1>. QED BY <1>3, <1>4, <1>5, <1>6, <1>7 DEF PointersAlive, OpenOK, PoolOK

LEMMA GrayHolds == IInv => GrayFits
<1> SUFFICES ASSUME IInv, Marking(heap), White(heap) # {}
             PROVE  Cardinality(heap.gray) < heap.capacity
  BY DEF GrayFits, Marking
<1>1. PICK c, k, K : Good(heap, Held, c, k, K) /\ Typed(heap, K)
  BY DEF IInv
<1>2. ColorOK(heap) /\ heap \in HeapOf
  BY <1>1 DEF Good, Sound
<1>3. Cardinality(Unscanned(heap)) <= heap.capacity /\ heap.capacity \in Nat /\ GrayOK(heap)
  BY <1>2, HeapFields DEF ColorOK
<1>4. PICK w : w \in White(heap)
  OBVIOUS
<1>5. w \notin heap.gray
  BY <1>3, <1>4 DEF GrayOK, White
<1>6. Unscanned(heap) \in SUBSET Objects /\ w \in Unscanned(heap) /\ heap.gray \subseteq Unscanned(heap) \ {w}
  BY <1>2, <1>4, <1>5, LiveFacts, HeapFields DEF Unscanned
<1>7. /\ IsFiniteSet(Unscanned(heap)) /\ Cardinality(Unscanned(heap)) \in Nat
      /\ IsFiniteSet(heap.gray) /\ Cardinality(heap.gray) \in Nat
  BY <1>6, LiveFacts
<1>8. /\ IsFiniteSet(Unscanned(heap) \ {w})
      /\ Cardinality(Unscanned(heap) \ {w}) = Cardinality(Unscanned(heap)) - 1
  BY <1>6, <1>7, FS_RemoveElement
<1>9. Cardinality(heap.gray) <= Cardinality(Unscanned(heap) \ {w})
  BY <1>6, <1>8, FS_Subset
<1>. QED BY <1>3, <1>7, <1>8, <1>9

\* registerObject, the sweep by slices and destroyAll: the list has every
\* object once, from the head to Null, and the counters agree with it.
THEOREM ListAlwaysIntact ==
    ASSUME ~InternsDoomed
    PROVE  Spec => []ListIntact
<1>1. Spec => []IInv
  BY AlwaysIInv
<1>2. IInv => ListIntact
  BY ListHolds
<1>. QED BY <1>1, <1>2, PTL

\* The barriers, the pool's removal of swept strings and the repair of the
\* cursor: nothing is pointed to after it was freed.
THEOREM PointersAlwaysAlive ==
    ASSUME ~InternsDoomed
    PROVE  Spec => []PointersAlive
<1>1. Spec => []IInv
  BY AlwaysIInv
<1>2. IInv => PointersAlive
  BY PointersHold
<1>. QED BY <1>1, <1>2, PTL

\* reserveGrayQueue: a deferred barrier finds room in the gray queue.
THEOREM GrayAlwaysFits ==
    ASSUME ~InternsDoomed
    PROVE  Spec => []GrayFits
<1>1. Spec => []IInv
  BY AlwaysIInv
<1>2. IInv => GrayFits
  BY GrayHolds
<1>. QED BY <1>1, <1>2, PTL

\* runFinalizers and finalizeAll: __gc is called once for every userdata, and
\* before it is freed, but for those beyond the limit of finalizeAll.
THEOREM UserdataFinalizedOnce ==
    ASSUME ~InternsDoomed
    PROVE  Spec => FinalizedOnce
<1> DEFINE Step == \A o \in Objects :
              /\ finals'[o] <= 1
              /\ Is(heap, o, "userdata") /\ ~Is(heap', o, "userdata") =>
                  finals[o] = 1 \/ (stage' = "closed" /\ entered = DrainLimit)
<1>1. IInv /\ [Next]_vars => Step
  <2> SUFFICES ASSUME IInv, [Next]_vars PROVE Step
    OBVIOUS
  <2>1. IInv' /\ OnceStep
    BY NextIInv, StutterIInv
  <2>2. finals' \in [Objects -> {0, 1}]
    BY <2>1 DEF IInv, FinalsOK
  <2>3. \A o \in Objects : finals'[o] <= 1
    BY <2>2
  <2>. QED BY <2>1, <2>3 DEF OnceStep
<1>2. Spec => []IInv
  BY AlwaysIInv
<1>. QED BY <1>1, <1>2, PTL DEF Spec, FinalizedOnce

-----------------------------------------------------------------------------
(***************************************************************************)
(* The refinement: every step is one of Memory, or changes nothing that a  *)
(* program can see.  First, what the mapping is.                           *)
(***************************************************************************)

LEMMA MemNames ==
    /\ Mem!Slots = Slots /\ Mem!Emptied = Emptied /\ Mem!Free = Free /\ Mem!Userdata = Userdata
    /\ \A x : Mem!String(x) = String(x) /\ Mem!Closure(x) = Closure(x)
    /\ \A x : Mem!OpenUpvalue(x) = OpenUpvalue(x) /\ Mem!ClosedUpvalue(x) = ClosedUpvalue(x)
<1>1. Mem!Slots = Slots
  BY DEF Mem!Slots, Slots
<1>2. Mem!Emptied = Emptied
  BY <1>1 DEF Mem!Emptied, Emptied
<1>3. Mem!Free = Free /\ Mem!Userdata = Userdata
  BY DEF Mem!Free, Free, Mem!Userdata, Userdata
<1>4. \A x : Mem!String(x) = String(x) /\ Mem!Closure(x) = Closure(x)
  BY DEF Mem!String, String, Mem!Closure, Closure
<1>5. \A x : Mem!OpenUpvalue(x) = OpenUpvalue(x) /\ Mem!ClosedUpvalue(x) = ClosedUpvalue(x)
  BY DEF Mem!OpenUpvalue, OpenUpvalue, Mem!ClosedUpvalue, ClosedUpvalue
<1>. QED BY <1>1, <1>2, <1>3, <1>4, <1>5

LEMMA MemoryFacts ==
    ASSUME NEW h
    PROVE  DOMAIN MemoryOf(h) = Live(h) /\ \A o \in Live(h) : MemoryOf(h)[o] = h.body[o]
  BY DEF MemoryOf

\* Two heaps hold the same.
LEMMA MemorySame ==
    ASSUME NEW h, NEW g, g.body = h.body
    PROVE  MemoryOf(g) = MemoryOf(h)
<1>1. Live(g) = Live(h)
  BY SameBodies
<1>. QED BY <1>1 DEF MemoryOf

OwedIn(h, fin) == {o \in Objects : Is(h, o, "userdata") /\ fin[o] = 0}

LEMMA OwedSame ==
    ASSUME NEW h, NEW g, NEW fin, \A o \in Objects : Is(g, o, "userdata") <=> Is(h, o, "userdata")
    PROVE  OwedIn(g, fin) = OwedIn(h, fin)
  BY DEF OwedIn

LEMMA Mapped ==
    /\ MemoryOf(heap)' = MemoryOf(heap') /\ Owed = OwedIn(heap, finals) /\ Owed' = OwedIn(heap', finals')
<1>1. MemoryOf(heap)' = MemoryOf(heap')
  BY DEF MemoryOf, Live, Is
<1>2. Owed = OwedIn(heap, finals) /\ Owed' = OwedIn(heap', finals')
  BY DEF Owed, OwedIn, Is
<1>. QED BY <1>1, <1>2

\* The heap keeps its bodies.
LEMMA HeapSeenSame ==
    ASSUME heap'.body = heap.body, finals' = finals
    PROVE  MemoryOf(heap)' = MemoryOf(heap) /\ Owed' = Owed
<1>1. MemoryOf(heap') = MemoryOf(heap)
  BY MemorySame
<1>2. \A o \in Objects : Is(heap', o, "userdata") <=> Is(heap, o, "userdata")
  BY DEF Is
<1>3. OwedIn(heap', finals) = OwedIn(heap, finals)
  BY <1>2, OwedSame
<1>. QED BY <1>1, <1>3, Mapped

LEMMA MemRuns ==
    ASSUME Runs
    PROVE  Mem!Runs
  BY DEF Runs, Mem!Runs


\* What is lost to the program and waits for its finalizer: the set X around
\* what the program has in hand has none of it.
Lost == Parted(heap, Range(heap.pending) \ {callback})

LEMMA LostFacts ==
    ASSUME Lost
    PROVE  \E X : Encloses(heap, X) /\ X \cap (Range(heap.pending) \ {callback}) = {}
  BY DEF Lost, Parted

LEMMA EnclosesFacts ==
    ASSUME NEW h, NEW X, Encloses(h, X)
    PROVE  /\ X \subseteq Objects /\ (\A o \in X : Inner(h, o) \subseteq X)
           /\ (\A s \in Slots : stack[s] \in X \cup {Null} /\ open[s] \in X \cup {Null})
           /\ callback \in X \cup {Null}
<1>1. X \subseteq Objects /\ InHand \ {Null} \subseteq X /\ \A o \in X : Inner(h, o) \subseteq X
  BY DEF Encloses
<1>2. \A s \in Slots : stack[s] \in InHand /\ open[s] \in InHand
  BY DEF InHand
<1>3. callback \in InHand
  BY DEF InHand
<1>. QED BY <1>1, <1>2, <1>3

LEMMA LostNext ==
    ASSUME NEW X, X \subseteq Objects,
           \A s \in Slots : stack'[s] \in X \cup {Null} /\ open'[s] \in X \cup {Null},
           callback' \in X \cup {Null}, \A o \in X : Inner(heap', o) \subseteq X,
           X \cap (Range(heap'.pending) \ {callback'}) = {}
    PROVE  Lost'
<1>1. InHand' \ {Null} \subseteq X
  BY DEF InHand
<1>2. Encloses(heap, X)'
  BY <1>1 DEF Encloses, Inner, Is, Refs
<1>. QED BY <1>2 DEF Lost, Parted

\* A userdata waits, a string and what is not there does not.
LEMMA WaitingFacts ==
    ASSUME IInv
    PROVE  \A o \in Range(heap.pending) :
              o \in Objects /\ Is(heap, o, "userdata") /\ o \in Live(heap) /\ o # Null
<1>1. heap.finalized \subseteq Live(heap) /\ Range(heap.pending) \subseteq heap.finalized
  BY IInvFacts DEF Sound, QueueOK
<1>2. \A o \in heap.finalized : Is(heap, o, "userdata")
  BY IInvFacts DEF FinalsIn
<1>. QED BY <1>1, <1>2, LiveFacts, ObjectListAssumption

-----------------------------------------------------------------------------
(***************************************************************************)
(* The steps that change nothing but the stack.                            *)
(***************************************************************************)

LEMMA ClearLost ==
    ASSUME IInv, Lost, NEW s \in Slots, Clear(s)
    PROVE  Lost' /\ Mem!Clear(s)
<1>1. /\ Runs /\ stack[s] # Null /\ stack' = [stack EXCEPT ![s] = Null]
      /\ heap' = heap /\ open' = open /\ callback' = callback /\ stage' = stage /\ entered' = entered /\ finals' = finals
  BY DEF Clear, program
<1>2. MemoryOf(heap)' = MemoryOf(heap) /\ Owed' = Owed
  BY <1>1, HeapSeenSame
<1>3. Mem!Clear(s)
  BY <1>1, <1>2, MemRuns DEF Mem!Clear, Mem!Put, Mem!finalizing
<1>4. PICK X : Encloses(heap, X) /\ X \cap (Range(heap.pending) \ {callback}) = {}
  BY LostFacts
<1>5. stack \in [Slots -> MaybeObject]
  BY IInvFacts DEF StackOK
<1>6. \A x \in Slots : stack'[x] \in X \cup {Null}
  BY <1>1, <1>4, <1>5, EnclosesFacts
<1>7. Lost'
  BY <1>1, <1>4, <1>6, EnclosesFacts, LostNext
<1>. QED BY <1>3, <1>7

LEMMA ResurrectLost ==
    ASSUME IInv, Lost, NEW s \in Slots, Resurrect(s)
    PROVE  Lost' /\ Mem!Resurrect(s)
<1>1. /\ callback # Null /\ stack' = [stack EXCEPT ![s] = callback]
      /\ heap' = heap /\ open' = open /\ callback' = callback /\ stage' = stage /\ entered' = entered /\ finals' = finals
  BY DEF Resurrect, program
<1>2. MemoryOf(heap)' = MemoryOf(heap) /\ Owed' = Owed
  BY <1>1, HeapSeenSame
<1>3. Mem!Resurrect(s)
  BY <1>1, <1>2 DEF Mem!Resurrect, Mem!Put, Mem!finalizing
<1>4. PICK X : Encloses(heap, X) /\ X \cap (Range(heap.pending) \ {callback}) = {}
  BY LostFacts
<1>5. stack \in [Slots -> MaybeObject]
  BY IInvFacts DEF StackOK
<1>6. \A x \in Slots : stack'[x] \in X \cup {Null}
  BY <1>1, <1>4, <1>5, EnclosesFacts
<1>7. Lost'
  BY <1>1, <1>4, <1>6, EnclosesFacts, LostNext
<1>. QED BY <1>3, <1>7

\* The upvalue of a closure that the program has in hand.
LEMMA UpvalueSeen ==
    ASSUME IInv, NEW X, Encloses(heap, X), NEW t \in Slots, UpvalueIn(t) # Null
    PROVE  /\ UpvalueIn(t) \in X /\ UpvalueIn(t) \in Live(heap) /\ UpvalueIn(t) \in Objects
           /\ heap.body[UpvalueIn(t)] \in Bodies /\ heap.body[UpvalueIn(t)].kind \in Upvalues
           /\ Mem!UpvalueIn(t) = UpvalueIn(t) /\ MemoryOf(heap)[UpvalueIn(t)] = heap.body[UpvalueIn(t)]
<1> DEFINE f == stack[t]
           u == UpvalueIn(t)
<1>1. f # Null /\ Is(heap, f, "closure") /\ u = heap.body[f].up
  BY DEF UpvalueIn
<1>2. PICK c, k, K : Good(heap, Held, c, k, K) /\ Typed(heap, K)
  BY IInvFacts
<1>3. /\ u \in Live(heap) /\ u \in Objects /\ heap.body[u] \in Bodies /\ heap.body[u].kind \in Upvalues
  BY <1>2, UpvalueFacts
<1>4. f \in Live(heap)
  BY <1>1, <1>2, SlotsKept
<1>5. u \in Inner(heap, f)
  BY <1>1 DEF Inner, Refs, Is
<1>6. u \in X
  BY <1>1, <1>5, EnclosesFacts
<1>7. MemoryOf(heap)[f] = heap.body[f] /\ MemoryOf(heap)[u] = heap.body[u]
  BY <1>3, <1>4, MemoryFacts
<1>8. Mem!UpvalueIn(t) = u
  BY <1>1, <1>7 DEF Mem!UpvalueIn, Is
<1>. QED BY <1>3, <1>6, <1>7, <1>8

LEMMA GetUpvalueLost ==
    ASSUME IInv, Lost, NEW s \in Slots, NEW t \in Slots, GetUpvalue(t, s)
    PROVE  Lost' /\ Mem!GetUpvalue(t, s)
<1> DEFINE u == UpvalueIn(t)
           v == IF heap.body[u].kind = "open" THEN stack[heap.body[u].at] ELSE heap.body[u].value
<1>1. /\ Runs /\ u # Null /\ stack' = [stack EXCEPT ![s] = v]
      /\ heap' = heap /\ open' = open /\ callback' = callback /\ stage' = stage /\ entered' = entered /\ finals' = finals
  BY DEF GetUpvalue, program
<1>2. MemoryOf(heap)' = MemoryOf(heap) /\ Owed' = Owed
  BY <1>1, HeapSeenSame
<1>4. PICK X : Encloses(heap, X) /\ X \cap (Range(heap.pending) \ {callback}) = {}
  BY LostFacts
<1>5. /\ u \in X /\ u \in Live(heap) /\ heap.body[u] \in Bodies /\ heap.body[u].kind \in Upvalues
      /\ Mem!UpvalueIn(t) = u /\ MemoryOf(heap)[u] = heap.body[u]
  BY <1>1, <1>4, UpvalueSeen
<1>6. stack \in [Slots -> MaybeObject]
  BY IInvFacts DEF StackOK
<1> HIDE DEF u
<1>7. Mem!Value(heap.body[u]) = v
  BY DEF Mem!Value
<1>3. Mem!GetUpvalue(t, s)
  BY <1>1, <1>2, <1>5, <1>7, MemRuns DEF Mem!GetUpvalue, Mem!Put, Mem!finalizing
<1>8. v \in X \cup {Null}
  <2>1. CASE heap.body[u].kind = "open"
    <3>1. heap.body[u].at \in Slots
      BY <1>5, <2>1, BodyKinds
    <3>. QED BY <1>4, <2>1, <3>1, EnclosesFacts
  <2>2. CASE heap.body[u].kind = "closed"
    <3>1. v = heap.body[u].value
      BY <2>2
    <3>2. v = Null \/ v \in Inner(heap, u)
      BY <2>2, <3>1 DEF Inner, Refs, Is
    <3>. QED BY <1>4, <1>5, <3>2, EnclosesFacts
  <2>. QED BY <1>5, <2>1, <2>2 DEF Upvalues
<1> HIDE DEF v
<1>9. \A x \in Slots : stack'[x] \in X \cup {Null}
  BY <1>1, <1>4, <1>6, <1>8, EnclosesFacts
<1>10. Lost'
  BY <1>1, <1>4, <1>9, EnclosesFacts, LostNext
<1>. QED BY <1>3, <1>10

LEMMA InternKnownLost ==
    ASSUME IInv, Lost, NEW c \in Contents, NEW s \in Slots, InternKnown(c, s)
    PROVE  Lost' /\ Mem!Intern(c, s)
<1> DEFINE o == heap.pool[c]
<1>1. /\ Runs /\ o # Null /\ stack' = [stack EXCEPT ![s] = o]
      /\ heap' = heap /\ open' = open /\ callback' = callback /\ stage' = stage /\ entered' = entered /\ finals' = finals
  BY DEF InternKnown, program
<1>2. MemoryOf(heap)' = MemoryOf(heap) /\ Owed' = Owed
  BY <1>1, HeapSeenSame
<1>3. o \in Objects /\ heap.body[o] = String(c)
  BY <1>1, IInvFacts DEF PoolOK
<1>4. o \in Live(heap) /\ ~Is(heap, o, "userdata") /\ Inner(heap, o) = {}
  BY <1>3 DEF Live, Is, String, Inner, Refs
<1> HIDE DEF o
<1>5. o \in DOMAIN MemoryOf(heap) /\ MemoryOf(heap)[o] = Mem!String(c)
  BY <1>3, <1>4, MemoryFacts, MemNames
<1>6. Mem!Intern(c, s)
  <2>1. Mem!Put(s, o) /\ Mem!Runs
    BY <1>1, MemRuns DEF Mem!Put
  <2>. QED BY <1>1, <1>2, <1>3, <1>5, <2>1 DEF Mem!Intern, Mem!finalizing
<1>7. PICK X : Encloses(heap, X) /\ X \cap (Range(heap.pending) \ {callback}) = {}
  BY LostFacts
<1> DEFINE Y == X \cup {o}
<1>8. stack \in [Slots -> MaybeObject]
  BY IInvFacts DEF StackOK
<1>9. /\ \A x \in Slots : stack'[x] \in Y \cup {Null} /\ open'[x] \in Y \cup {Null}
      /\ callback' \in Y \cup {Null} /\ Y \subseteq Objects
  BY <1>1, <1>3, <1>7, <1>8, EnclosesFacts
<1>10. \A x \in Y : Inner(heap', x) \subseteq Y
  BY <1>1, <1>4, <1>7, EnclosesFacts
<1>11. Y \cap (Range(heap'.pending) \ {callback'}) = {}
  BY <1>1, <1>4, <1>7, WaitingFacts
<1> HIDE DEF Y
<1>12. Lost'
  BY <1>9, <1>10, <1>11, LostNext
<1>. QED BY <1>6, <1>12

-----------------------------------------------------------------------------
(***************************************************************************)
(* The steps that allocate.                                                *)
(***************************************************************************)

\* An object o with the body b appears in the memory.
Appears(o, b) ==
    /\ o \in Objects \ DOMAIN MemoryOf(heap)
    /\ MemoryOf(heap)' = [p \in DOMAIN MemoryOf(heap) \cup {o} |-> IF p = o THEN b ELSE MemoryOf(heap)[p]]

\* It is put into the slot s.
IsNew(o, b, s) ==
    /\ b.kind \in {"string", "userdata"}
    /\ heap'.body = [heap.body EXCEPT ![o] = b] /\ heap'.pending = heap.pending
    /\ stack' = [stack EXCEPT ![s] = o] /\ open' = open /\ callback' = callback

LEMMA AllocLost ==
    ASSUME IInv, Lost, NEW o \in Unused, NEW b, NEW s \in Slots, IsNew(o, b, s)
    PROVE  Lost' /\ Appears(o, b)
<1>0. /\ b.kind \in {"string", "userdata"}
      /\ heap'.body = [heap.body EXCEPT ![o] = b] /\ heap'.pending = heap.pending
      /\ stack' = [stack EXCEPT ![s] = o] /\ open' = open /\ callback' = callback
  BY DEF IsNew
<1>1. /\ o \in Objects /\ o \notin Live(heap) /\ o \notin Range(heap.pending)
      /\ heap.body \in [Objects -> Bodies] /\ stack \in [Slots -> MaybeObject]
  BY UnusedFacts, IInvFacts, HeapFields DEF StackOK
<1>2. heap'.body[o] = b /\ \A x \in Objects : x # o => heap'.body[x] = heap.body[x]
  BY <1>0, <1>1
<1>3. Live(heap') = Live(heap) \cup {o}
  BY <1>0, <1>1, <1>2 DEF Live, Is
<1>4. Inner(heap', o) = {} /\ \A x \in Objects : x # o => Inner(heap', x) = Inner(heap, x)
  BY <1>0, <1>2 DEF Inner, Refs, Is
<1>5. MemoryOf(heap') = [p \in Live(heap) \cup {o} |-> IF p = o THEN b ELSE MemoryOf(heap)[p]]
  <2>1. MemoryOf(heap') = [p \in Live(heap) \cup {o} |-> heap'.body[p]]
    BY <1>3 DEF MemoryOf
  <2>2. \A p \in Live(heap) : p # o /\ p \in Objects /\ MemoryOf(heap)[p] = heap'.body[p]
    BY <1>1, <1>2, MemoryFacts, LiveFacts
  <2>. QED BY <1>2, <2>1, <2>2
<1>6. Appears(o, b)
  <2>1. DOMAIN MemoryOf(heap) = Live(heap)
    BY MemoryFacts
  <2>. QED BY <1>1, <1>5, <2>1, Mapped DEF Appears
<1>7. PICK X : Encloses(heap, X) /\ X \cap (Range(heap.pending) \ {callback}) = {}
  BY LostFacts
<1> DEFINE Y == X \cup {o}
<1>9. /\ \A x \in Slots : stack'[x] \in Y \cup {Null} /\ open'[x] \in Y \cup {Null}
      /\ callback' \in Y \cup {Null} /\ Y \subseteq Objects
  BY <1>0, <1>1, <1>7, EnclosesFacts
<1>10. \A x \in Y : Inner(heap', x) \subseteq Y
  BY <1>4, <1>7, <1>9, EnclosesFacts
<1>11. Y \cap (Range(heap'.pending) \ {callback'}) = {}
  BY <1>0, <1>1, <1>7
<1> HIDE DEF Y
<1>12. Lost'
  BY <1>9, <1>10, <1>11, LostNext
<1>. QED BY <1>6, <1>12

LEMMA InternNewLost ==
    ASSUME IInv, Lost, NEW t \in Contents, NEW s \in Slots, InternNew(t, s)
    PROVE  Lost' /\ Mem!Intern(t, s)
<1>1. /\ Runs /\ heap.pool[t] = Null
      /\ open' = open /\ callback' = callback /\ stage' = stage /\ entered' = entered /\ finals' = finals
  BY DEF InternNew, program
<1> DEFINE b == String(t)
<1>2. PICK o \in Unused : /\ heap' = [registerObject(heap, stack, o, b) EXCEPT !.pool[t] = o]
                          /\ stack' = [stack EXCEPT ![s] = o]
  BY DEF InternNew
<1> DEFINE g == registerObject(heap, stack, o, b)
<1>3. PICK c, k, K : Good(heap, Held, c, k, K) /\ Typed(heap, K)
  BY IInvFacts
<1>4. o \in Objects /\ o # Null /\ o \notin Live(heap) /\ heap.body[o].kind = "free"
  BY UnusedFacts
<1>5. b \in Fresh /\ b.kind = "string"
  BY DEF Fresh, Bodies, String
<1>6. Good(g, Held, <<o>> \o c, k + 1, K \cup {o}) /\ IsRegistered(heap, g, o, b)
  BY <1>3, <1>4, <1>5, RegisterLemma
<1>b. b = String(t)
  OBVIOUS
<1> HIDE DEF g, b
<1>7. heap'.body = g.body /\ heap'.pending = g.pending
  <2>1. IsPooled(g, heap', t, o)
    BY <1>2 DEF g, IsPooled
  <2>2. Good(g, Held, <<o>> \o c, k + 1, K \cup {o}) /\ t \in Contents /\ o \in Objects
    BY <1>4, <1>6
  <2>3. Entered(g, heap', t, o)
    BY ONLY <2>1, <2>2, PoolGood
  <2>. QED BY <2>3 DEF Entered
<1>8. heap'.body = [heap.body EXCEPT ![o] = b] /\ heap'.pending = heap.pending
  BY <1>6, <1>7 DEF IsRegistered
<1>n. IsNew(o, b, s)
  BY <1>1, <1>2, <1>5, <1>8 DEF IsNew
<1>9. Lost' /\ Appears(o, b)
  BY <1>n, AllocLost
<1>10. Owed' = Owed
  <2>1. heap.body \in [Objects -> Bodies]
    BY IInvFacts, HeapFields
  <2>2. \A x \in Objects : Is(heap', x, "userdata") <=> Is(heap, x, "userdata")
    BY <1>4, <1>5, <1>8, <2>1 DEF Is
  <2>3. OwedIn(heap', finals) = OwedIn(heap, finals)
    BY <2>2, OwedSame
  <2>. QED BY <1>1, <2>3, Mapped
<1>11. ~\E p \in DOMAIN MemoryOf(heap) : MemoryOf(heap)[p] = Mem!String(t)
  <2>1. {p \in Objects : heap.body[p] = String(t)} = {}
    BY <1>1, IInvFacts DEF PoolOK
  <2>2. Live(heap) \subseteq Objects
    BY LiveFacts
  <2>. QED BY <2>1, <2>2, MemoryFacts, MemNames
<1>12. Mem!New(o) /\ Mem!Holds(o, Mem!String(t)) /\ Mem!Put(s, o) /\ Mem!Runs
  <2>1. Mem!String(t) = b
    BY <1>b, MemNames
  <2>. QED BY <1>1, <1>2, <1>9, <2>1, MemRuns DEF Appears, Mem!New, Mem!Holds, Mem!Put
<1>13. Mem!Intern(t, s)
  BY <1>1, <1>4, <1>10, <1>11, <1>12 DEF Mem!Intern, Mem!finalizing
<1>. QED BY <1>9, <1>13

LEMMA NewUserdataLost ==
    ASSUME IInv, Lost, NEW s \in Slots, NewUserdata(s)
    PROVE  Lost' /\ Mem!NewUserdata(s)
<1>1. Runs /\ open' = open /\ callback' = callback /\ stage' = stage /\ entered' = entered
  BY DEF NewUserdata, program
<1> DEFINE b == Userdata
<1>2. PICK o \in Unused : /\ heap' = registerObject(heap, stack, o, b)
                          /\ stack' = [stack EXCEPT ![s] = o] /\ finals' = [finals EXCEPT ![o] = 0]
  BY DEF NewUserdata
<1>3. PICK c, k, K : Good(heap, Held, c, k, K) /\ Typed(heap, K)
  BY IInvFacts
<1>4. o \in Objects /\ o # Null /\ o \notin Live(heap) /\ heap.body[o].kind = "free"
  BY UnusedFacts
<1>5. b \in Fresh /\ b.kind = "userdata"
  BY DEF Fresh, Bodies, Userdata
<1>b. b = Userdata
  OBVIOUS
<1> HIDE DEF b
<1>6. IsRegistered(heap, heap', o, b)
  BY <1>2, <1>3, <1>4, <1>5, RegisterLemma
<1>8. heap'.body = [heap.body EXCEPT ![o] = b] /\ heap'.pending = heap.pending
  BY <1>6 DEF IsRegistered
<1>n. IsNew(o, b, s)
  BY <1>1, <1>2, <1>5, <1>8 DEF IsNew
<1>9. Lost' /\ Appears(o, b)
  BY <1>n, AllocLost
<1>10. Owed' = Owed \cup {o}
  <2>1. heap.body \in [Objects -> Bodies] /\ finals \in [Objects -> {0, 1}]
    BY IInvFacts, HeapFields DEF FinalsIn
  <2>2. heap'.body[o] = b /\ finals'[o] = 0
    BY <1>2, <1>4, <1>8, <2>1
  <2>3. \A x \in Objects : x # o => heap'.body[x] = heap.body[x] /\ finals'[x] = finals[x]
    BY <1>2, <1>4, <1>8, <2>1
  <2>4. OwedIn(heap', finals') = OwedIn(heap, finals) \cup {o}
    BY <1>4, <1>5, <2>2, <2>3 DEF OwedIn, Is
  <2>. QED BY <2>4, Mapped
<1>12. Mem!New(o) /\ Mem!Holds(o, Mem!Userdata) /\ Mem!Put(s, o) /\ Mem!Runs
  <2>1. Mem!Userdata = b
    BY <1>b, MemNames
  <2>. QED BY <1>1, <1>2, <1>9, <2>1, MemRuns DEF Appears, Mem!New, Mem!Holds, Mem!Put
<1>13. Mem!NewUserdata(s)
  BY <1>1, <1>4, <1>10, <1>12 DEF Mem!NewUserdata, Mem!finalizing
<1>. QED BY <1>9, <1>13

\* The bodies after a closure f was made over slot s, with the upvalue u.
IsClosure(f, u, s) ==
    /\ f \in Unused /\ u \in (IF open[s] = Null THEN Unused ELSE {open[s]}) /\ f # u /\ u \in Objects
    /\ heap'.body[f] = Closure(u) /\ heap'.body[u] = OpenUpvalue(s)
    /\ (\A x \in Objects : x \notin {f, u} => heap'.body[x] = heap.body[x])
    /\ heap'.pending = heap.pending /\ open' = [open EXCEPT ![s] = u]

LEMMA NewClosureBodies ==
    ASSUME IInv, NEW s \in Slots, NEW t \in Slots, NewClosure(s, t)
    PROVE  \E f, u : IsClosure(f, u, s) /\ stack' = [stack EXCEPT ![t] = f]
<1>2. PICK f \in Unused, u \in (IF open[s] = Null THEN Unused ELSE {open[s]}) :
        LET p == registerObject(heap, stack, f, Closure(Null))
            q == IF open[s] = Null THEN registerObject(p, stack, u, OpenUpvalue(s)) ELSE p
        IN  /\ f # u /\ heap' = WithUpvalue(q, f, u)
            /\ open' = [open EXCEPT ![s] = u] /\ stack' = [stack EXCEPT ![t] = f]
  BY DEF NewClosure
<1> DEFINE p == registerObject(heap, stack, f, Closure(Null))
           q == IF open[s] = Null THEN registerObject(p, stack, u, OpenUpvalue(s)) ELSE p
           w == writeBarrier(q, stack, f, u)
           b == Closure(u)
           x == [w EXCEPT !.body[f] = b]
<1>3. /\ f # u /\ heap' = accountObjectSizeChange(x, f)
      /\ open' = [open EXCEPT ![s] = u] /\ stack' = [stack EXCEPT ![t] = f]
  BY <1>2 DEF WithUpvalue
<1>4. PICK c, k, K : Good(heap, Held, c, k, K) /\ Typed(heap, K)
  BY IInvFacts
<1>5. /\ IsReady(q, f, u, s) /\ u \in Objects
      /\ \E d, j, L : Good(q, Held, d, j, L) /\ K \cup {f} \subseteq L /\ L \subseteq K \cup {f, u}
  BY <1>3, <1>4, ReadyLemma
<1> HIDE DEF p, q
<1>6. PICK d, j, M : Good(q, Held, d, j, M)
  BY <1>5
<1>7. /\ q.body[f] = Closure(Null) /\ q.body[u] = OpenUpvalue(s)
      /\ (\A y \in Objects : y \notin {f, u} => q.body[y] = heap.body[y])
      /\ q.pending = heap.pending
  BY <1>5 DEF IsReady
<1>8. f \in Objects /\ f # Null
  BY UnusedFacts
<1>9. f \in Live(q) /\ u \in Live(q)
  BY <1>5, <1>7, <1>8 DEF Live, Is, Closure, OpenUpvalue
<1>10. Good(w, Held, d, j, M) /\ Same(q, w)
  BY <1>6, <1>9, BarrierGood
<1> HIDE DEF w
<1>11. w.body = q.body /\ w.pending = q.pending /\ w \in HeapOf /\ w.body \in [Objects -> Bodies]
  BY <1>10, HeapFields DEF Same, Good, Sound
<1>12. b \in Bodies
  BY <1>5 DEF Closure, Bodies
<1> HIDE DEF b
<1>13. x.body = [w.body EXCEPT ![f] = b] /\ x.pending = w.pending /\ x \in HeapOf
  <2>1. [w.body EXCEPT ![f] = b] \in [Objects -> Bodies]
    BY <1>11, <1>12
  <2>. QED BY <1>11, <2>1 DEF HeapOf
<1> HIDE DEF x
<1>14. heap'.body = x.body /\ heap'.pending = x.pending
  BY <1>3, <1>13 DEF accountObjectSizeChange, HeapOf
<1>15. heap'.body[f] = b /\ \A y \in Objects : y # f => heap'.body[y] = w.body[y]
  BY <1>8, <1>11, <1>13, <1>14
<1>16. b = Closure(u)
  BY DEF b
<1>17. IsClosure(f, u, s)
  BY <1>3, <1>5, <1>7, <1>8, <1>11, <1>13, <1>14, <1>15, <1>16 DEF IsClosure
<1>. QED BY <1>3, <1>17

LEMMA NewClosureLost ==
    ASSUME IInv, Lost, NEW s \in Slots, NEW t \in Slots, NewClosure(s, t)
    PROVE  Lost' /\ Mem!NewClosure(s, t)
<1>1. Runs /\ callback' = callback /\ stage' = stage /\ entered' = entered /\ finals' = finals
  BY DEF NewClosure, program
<1>2. PICK f, u : IsClosure(f, u, s) /\ stack' = [stack EXCEPT ![t] = f]
  BY NewClosureBodies
<1>3. /\ f \in Unused /\ u \in (IF open[s] = Null THEN Unused ELSE {open[s]}) /\ f # u /\ u \in Objects
      /\ heap'.body[f] = Closure(u) /\ heap'.body[u] = OpenUpvalue(s)
      /\ (\A x \in Objects : x \notin {f, u} => heap'.body[x] = heap.body[x])
      /\ heap'.pending = heap.pending /\ open' = [open EXCEPT ![s] = u]
  BY <1>2 DEF IsClosure
<1>4. /\ f \in Objects /\ f \notin Live(heap) /\ f \notin Range(heap.pending) /\ ~Is(heap, f, "userdata")
      /\ heap.body \in [Objects -> Bodies] /\ stack \in [Slots -> MaybeObject] /\ open \in [Slots -> MaybeObject]
  BY <1>3, UnusedFacts, IInvFacts, HeapFields DEF StackOK, OpenIn, Is
<1>5. /\ u \notin Range(heap.pending) /\ ~Is(heap, u, "userdata")
      /\ open[s] = Null => u \notin Live(heap)
      /\ open[s] # Null => u = open[s] /\ u \in Live(heap)
  <2>1. CASE open[s] = Null
    BY <1>3, <2>1, UnusedFacts DEF Is
  <2>2. CASE open[s] # Null
    <3>1. u = open[s] /\ heap.body[u] = OpenUpvalue(s)
      BY <1>3, <2>2, IInvFacts DEF OpenIn
    <3>2. ~Is(heap, u, "userdata") /\ u \in Live(heap)
      BY <1>3, <3>1 DEF Is, Live, OpenUpvalue
    <3>. QED BY <2>2, <3>1, <3>2, WaitingFacts
  <2>. QED BY <2>1, <2>2
<1>6. Live(heap') = Live(heap) \cup {f, u}
  BY <1>3, <1>4 DEF Live, Is, Closure, OpenUpvalue
<1>7. Inner(heap', f) \subseteq {u} /\ Inner(heap', u) = {} /\ \A x \in Objects : x \notin {f, u} => Inner(heap', x) = Inner(heap, x)
  <2>1. Inner(heap', f) \subseteq {u}
    BY <1>3 DEF Inner, Refs, Is, Closure
  <2>2. Inner(heap', u) = {}
    BY <1>3 DEF Inner, Is, OpenUpvalue
  <2>. QED BY <1>3, <2>1, <2>2 DEF Inner, Refs, Is
<1>8. MemoryOf(heap') = [o \in Live(heap) \cup {f, u} |->
                           IF o = f THEN Closure(u) ELSE IF o = u THEN OpenUpvalue(s) ELSE MemoryOf(heap)[o]]
  <2>1. MemoryOf(heap') = [o \in Live(heap) \cup {f, u} |-> heap'.body[o]]
    BY <1>6 DEF MemoryOf
  <2>2. \A o \in Live(heap) : o \notin {f, u} => MemoryOf(heap)[o] = heap'.body[o]
    BY <1>3, MemoryFacts, LiveFacts
  <2>. QED BY <1>3, <2>1, <2>2
<1>9. Owed' = Owed
  <2>1. ~Is(heap', f, "userdata") /\ ~Is(heap', u, "userdata")
    BY <1>3 DEF Is, Closure, OpenUpvalue
  <2>2. \A x \in Objects : Is(heap', x, "userdata") <=> Is(heap, x, "userdata")
    <3>1. \A x \in Objects : x \notin {f, u} => (Is(heap', x, "userdata") <=> Is(heap, x, "userdata"))
      BY <1>3 DEF Is
    <3>. QED BY <1>4, <1>5, <2>1, <3>1
  <2>3. OwedIn(heap', finals) = OwedIn(heap, finals)
    BY <2>2, OwedSame
  <2>. QED BY <1>1, <2>3, Mapped
<1>10. Mem!NewClosure(s, t)
  <2>1. DOMAIN MemoryOf(heap) = Live(heap)
    BY MemoryFacts
  <2>2. Mem!Put(t, f) /\ Mem!New(f) /\ Mem!Runs /\ (open[s] = Null => Mem!New(u))
    BY <1>1, <1>2, <1>3, <1>4, <1>5, <2>1, MemRuns DEF Mem!Put, Mem!New
  <2>3. MemoryOf(heap)' = [o \in DOMAIN MemoryOf(heap) \cup {f, u} |->
                           IF o = f THEN Mem!Closure(u) ELSE IF o = u THEN Mem!OpenUpvalue(s) ELSE MemoryOf(heap)[o]]
    BY <1>8, <2>1, MemNames, Mapped
  <2>. QED BY <1>1, <1>3, <1>4, <1>5, <1>9, <2>2, <2>3 DEF Mem!NewClosure, Mem!finalizing
<1>11. PICK X : Encloses(heap, X) /\ X \cap (Range(heap.pending) \ {callback}) = {}
  BY LostFacts
<1> DEFINE Y == X \cup {f, u}
<1>12. /\ \A x \in Slots : stack'[x] \in Y \cup {Null} /\ open'[x] \in Y \cup {Null}
       /\ callback' \in Y \cup {Null} /\ Y \subseteq Objects
  BY <1>1, <1>2, <1>3, <1>4, <1>11, EnclosesFacts
<1>13. \A x \in Y : Inner(heap', x) \subseteq Y
  BY <1>7, <1>11, <1>12, EnclosesFacts
<1>14. Y \cap (Range(heap'.pending) \ {callback'}) = {}
  BY <1>1, <1>3, <1>4, <1>5, <1>11
<1> HIDE DEF Y
<1>15. Lost'
  BY <1>12, <1>13, <1>14, LostNext
<1>. QED BY <1>10, <1>15

-----------------------------------------------------------------------------
(***************************************************************************)
(* The steps that change upvalues.                                         *)
(***************************************************************************)

\* What the upvalue u of a closure is after v was stored into it.
IsStored(u, v) ==
    /\ heap'.pending = heap.pending
    /\ Is(heap, u, "open") => heap'.body = heap.body /\ stack' = [stack EXCEPT ![heap.body[u].at] = v]
    /\ ~Is(heap, u, "open") => heap'.body = [heap.body EXCEPT ![u] = ClosedUpvalue(v)] /\ stack' = stack

LEMMA SetUpvalueBodies ==
    ASSUME IInv, NEW s \in Slots, NEW t \in Slots, SetUpvalue(t, s)
    PROVE  IsStored(UpvalueIn(t), stack[s])
<1> DEFINE u == UpvalueIn(t)
           v == stack[s]
           h == writeBarrier(heap, stack, u, v)
           b == ClosedUpvalue(v)
<1>1. /\ u # Null
      /\ Is(heap, u, "open") => heap' = h /\ stack' = [stack EXCEPT ![heap.body[u].at] = v]
      /\ ~Is(heap, u, "open") => heap' = [h EXCEPT !.body[u] = b] /\ stack' = stack
  BY DEF SetUpvalue
<1>2. PICK c, k, K : Good(heap, Held, c, k, K) /\ Typed(heap, K)
  BY IInvFacts
<1>3. u \in Live(heap) /\ u \in Objects
  BY <1>1, <1>2, UpvalueFacts
<1>4. v # Null => v \in Live(heap)
  BY <1>2, SlotsKept
<1>5. b \in Bodies
  <2>1. v \in MaybeObject
    BY <1>2, SlotsKept
  <2>. QED BY <2>1 DEF ClosedUpvalue, Bodies, MaybeObject
<1>b. b = ClosedUpvalue(v)
  OBVIOUS
<1> HIDE DEF u, v, b
<1>6. Good(h, Held, c, k, K) /\ Same(heap, h)
  BY <1>2, <1>3, <1>4, BarrierGood
<1> HIDE DEF h
<1>7. h.body = heap.body /\ h.pending = heap.pending /\ h \in HeapOf /\ h.body \in [Objects -> Bodies]
  BY <1>6, HeapFields DEF Same, Good, Sound
<1>8. CASE Is(heap, u, "open")
  BY <1>1, <1>7, <1>8 DEF IsStored, u, v
<1>9. CASE ~Is(heap, u, "open")
  <2>1. heap' = [h EXCEPT !.body[u] = b] /\ stack' = stack
    BY <1>1, <1>9
  <2>2. [h.body EXCEPT ![u] = b] \in [Objects -> Bodies]
    BY <1>5, <1>7
  <2>3. heap'.body = [h.body EXCEPT ![u] = b] /\ heap'.pending = h.pending
    BY <1>7, <2>1, <2>2 DEF HeapOf
  <2>. QED BY <1>7, <1>9, <1>b, <2>1, <2>3 DEF IsStored, u, v
<1>. QED BY <1>8, <1>9

LEMMA SetUpvalueLost ==
    ASSUME IInv, Lost, NEW s \in Slots, NEW t \in Slots, SetUpvalue(t, s)
    PROVE  Lost' /\ Mem!SetUpvalue(t, s)
<1> DEFINE u == UpvalueIn(t)
           v == stack[s]
<1>1. /\ Runs /\ u # Null
      /\ open' = open /\ callback' = callback /\ stage' = stage /\ entered' = entered /\ finals' = finals
  BY DEF SetUpvalue, program
<1>2. IsStored(u, v)
  BY SetUpvalueBodies
<1>3. /\ heap'.pending = heap.pending
      /\ Is(heap, u, "open") => heap'.body = heap.body /\ stack' = [stack EXCEPT ![heap.body[u].at] = v]
      /\ ~Is(heap, u, "open") => heap'.body = [heap.body EXCEPT ![u] = ClosedUpvalue(v)] /\ stack' = stack
  BY <1>2 DEF IsStored
<1>4. PICK X : Encloses(heap, X) /\ X \cap (Range(heap.pending) \ {callback}) = {}
  BY LostFacts
<1>5. /\ u \in X /\ u \in Live(heap) /\ u \in Objects /\ heap.body[u] \in Bodies /\ heap.body[u].kind \in Upvalues
      /\ Mem!UpvalueIn(t) = u /\ MemoryOf(heap)[u] = heap.body[u]
  BY <1>1, <1>4, UpvalueSeen
<1>6. stack \in [Slots -> MaybeObject] /\ heap.body \in [Objects -> Bodies] /\ v \in X \cup {Null}
  BY <1>4, IInvFacts, HeapFields, EnclosesFacts DEF StackOK
<1>v. v = stack[s]
  OBVIOUS
<1> HIDE DEF u, v
<1>7. CASE Is(heap, u, "open")
  <2>1. heap'.body = heap.body /\ stack' = [stack EXCEPT ![heap.body[u].at] = v] /\ heap.body[u].kind = "open"
    BY <1>3, <1>7 DEF Is
  <2>2. heap.body[u].at \in Slots
    BY <1>5, <2>1, BodyKinds
  <2>3. MemoryOf(heap)' = MemoryOf(heap) /\ Owed' = Owed
    BY <1>1, <2>1, HeapSeenSame
  <2>4. Mem!SetUpvalue(t, s)
    BY <1>1, <1>5, <1>v, <2>1, <2>3, MemRuns DEF Mem!SetUpvalue, Mem!Put, Mem!finalizing
  <2>5. \A x \in Slots : stack'[x] \in X \cup {Null}
    BY <1>4, <1>6, <2>1, <2>2, EnclosesFacts
  <2>6. \A o : Inner(heap', o) = Inner(heap, o)
    BY <2>1, SameBodies
  <2>7. Lost'
    BY <1>1, <1>3, <1>4, <2>5, <2>6, EnclosesFacts, LostNext
  <2>. QED BY <2>4, <2>7
<1>8. CASE ~Is(heap, u, "open")
  <2>1. heap'.body = [heap.body EXCEPT ![u] = ClosedUpvalue(v)] /\ stack' = stack /\ heap.body[u].kind = "closed"
    BY <1>3, <1>5, <1>8 DEF Is, Upvalues
  <2>2. heap'.body[u] = ClosedUpvalue(v) /\ \A x \in Objects : x # u => heap'.body[x] = heap.body[x]
    BY <1>5, <1>6, <2>1
  <2>3. Live(heap') = Live(heap) /\ Inner(heap', u) = {v} \ {Null}
    <3>1. Live(heap') = Live(heap)
      BY <1>5, <2>1, <2>2 DEF Live, Is, ClosedUpvalue
    <3>2. Inner(heap', u) = {v} \ {Null}
      BY <2>2 DEF Inner, Refs, Is, ClosedUpvalue
    <3>. QED BY <3>1, <3>2
  <2>4. MemoryOf(heap') = [p \in Live(heap) \cup {u} |-> IF p = u THEN ClosedUpvalue(v) ELSE MemoryOf(heap)[p]]
    <3>1. MemoryOf(heap') = [p \in Live(heap) \cup {u} |-> heap'.body[p]]
      BY <1>5, <2>3 DEF MemoryOf
    <3>2. \A p \in Live(heap) : p # u => MemoryOf(heap)[p] = heap'.body[p]
      BY <2>2, MemoryFacts, LiveFacts
    <3>. QED BY <2>2, <3>1, <3>2
  <2>5. Mem!Holds(u, Mem!ClosedUpvalue(stack[s]))
    <3>1. DOMAIN MemoryOf(heap) = Live(heap) /\ Mem!ClosedUpvalue(stack[s]) = ClosedUpvalue(v)
      BY <1>v, MemoryFacts, MemNames
    <3>. QED BY <2>4, <3>1, Mapped DEF Mem!Holds
  <2>6. Owed' = Owed
    <3>1. \A x \in Objects : Is(heap', x, "userdata") <=> Is(heap, x, "userdata")
      BY <2>1, <2>2 DEF Is, ClosedUpvalue
    <3>2. OwedIn(heap', finals) = OwedIn(heap, finals)
      BY <3>1, OwedSame
    <3>. QED BY <1>1, <3>2, Mapped
  <2>7. Mem!SetUpvalue(t, s)
    BY <1>1, <1>5, <2>1, <2>5, <2>6, MemRuns DEF Mem!SetUpvalue, Mem!finalizing
  <2>8. \A x \in X : Inner(heap', x) \subseteq X
    <3>1. \A x \in Objects : x # u => Inner(heap', x) = Inner(heap, x)
      BY <2>2 DEF Inner, Refs, Is
    <3>. QED BY <1>4, <1>6, <2>3, <3>1, EnclosesFacts
  <2>9. \A x \in Slots : stack'[x] \in X \cup {Null} /\ open'[x] \in X \cup {Null}
    BY <1>1, <1>4, <2>1, EnclosesFacts
  <2>10. Lost'
    BY <1>1, <1>3, <1>4, <2>8, <2>9, EnclosesFacts, LostNext
  <2>. QED BY <2>7, <2>10
<1>. QED BY <1>7, <1>8

\* What closing upvalues does to the memory.
LEMMA ClosedSeen ==
    ASSUME NEW h, h.body = heap.body, OpenIn(h), NEW level, ClosedAbove(h, heap', level, 0)
    PROVE  /\ MemoryOf(heap)' = [o \in DOMAIN MemoryOf(heap) |->
                IF \E s \in Mem!Slots : s >= level /\ open[s] = o
                THEN Mem!ClosedUpvalue(stack[MemoryOf(heap)[o].at]) ELSE MemoryOf(heap)[o]]
           /\ \A o \in Objects : Is(heap', o, "userdata") <=> Is(heap, o, "userdata")
           /\ \A o \in Objects :
                Inner(heap', o) = Inner(heap, o) \/ \E s \in Slots : Inner(heap', o) = {stack[s]} \ {Null}
           /\ heap'.pending = h.pending
<1>1. /\ heap'.pending = h.pending
      /\ \A o \in Objects : heap'.body[o] = heap.body[o] \/ \E s \in Slots : s >= level /\ s > 0 /\ open[s] = o
      /\ \A s \in Slots : s >= level /\ s > 0 /\ open[s] # Null => heap'.body[open[s]] = ClosedUpvalue(stack[s])
  BY DEF ClosedAbove
<1>2. /\ open \in [Slots -> MaybeObject]
      /\ \A s \in Slots : open[s] # Null => heap.body[open[s]] = OpenUpvalue(s)
  BY DEF OpenIn
<1>3. \A s \in Slots : s > 0
  BY ObjectListAssumption DEF Slots
<1> DEFINE Closes(o, s) == s >= level /\ open[s] = o
<1>4. ASSUME NEW o \in Objects, NEW s \in Slots, Closes(o, s)
      PROVE  heap'.body[o] = ClosedUpvalue(stack[s]) /\ heap.body[o] = OpenUpvalue(s)
    BY <1>1, <1>2, <1>3, <1>4, ObjectListAssumption
<1>5. ASSUME NEW o \in Objects, ~\E s \in Slots : Closes(o, s) PROVE heap'.body[o] = heap.body[o]
  BY <1>1, <1>5
<1> HIDE DEF Closes
<1>6. ASSUME NEW o \in Objects
      PROVE  /\ o \in Live(heap') <=> o \in Live(heap)
             /\ Is(heap', o, "userdata") <=> Is(heap, o, "userdata")
             /\ Inner(heap', o) = Inner(heap, o) \/ \E s \in Slots : Inner(heap', o) = {stack[s]} \ {Null}
  <2>1. CASE \E s \in Slots : Closes(o, s)
    <3>1. PICK s \in Slots : Closes(o, s)
      BY <2>1
    <3>2. heap'.body[o] = ClosedUpvalue(stack[s]) /\ heap.body[o] = OpenUpvalue(s)
      BY <1>4, <3>1
    <3>3. heap'.body[o].kind = "closed" /\ heap'.body[o].value = stack[s] /\ heap.body[o].kind = "open"
      BY <3>2 DEF ClosedUpvalue, OpenUpvalue
    <3>4. Inner(heap', o) = {stack[s]} \ {Null}
      BY <3>3 DEF Inner, Refs, Is
    <3>. QED BY <3>3, <3>4 DEF Live, Is
  <2>2. CASE ~\E s \in Slots : Closes(o, s)
    <3>1. heap'.body[o] = heap.body[o]
      BY <1>5, <2>2
    <3>. QED BY <3>1 DEF Live, Is, Inner, Refs
  <2>. QED BY <2>1, <2>2
<1>7. Live(heap') = Live(heap)
  BY <1>6, LiveFacts
<1> DEFINE m == MemoryOf(heap)
<1>8. ASSUME NEW o \in Live(heap)
      PROVE  heap'.body[o] = IF \E s \in Slots : Closes(o, s) THEN ClosedUpvalue(stack[m[o].at]) ELSE m[o]
  <2>0. o \in Objects /\ m[o] = heap.body[o]
    BY LiveFacts, MemoryFacts
  <2>1. CASE \E s \in Slots : Closes(o, s)
    <3>1. PICK s \in Slots : Closes(o, s)
      BY <2>1
    <3>2. heap'.body[o] = ClosedUpvalue(stack[s]) /\ heap.body[o] = OpenUpvalue(s)
      BY <1>4, <2>0, <3>1
    <3>3. m[o].at = s
      BY <2>0, <3>2 DEF OpenUpvalue
    <3>. QED BY <2>1, <3>2, <3>3
  <2>2. CASE ~\E s \in Slots : Closes(o, s)
    BY <1>5, <2>0, <2>2
  <2>. QED BY <2>1, <2>2
<1>9. MemoryOf(heap') = [o \in DOMAIN m |->
          IF \E s \in Slots : Closes(o, s) THEN ClosedUpvalue(stack[m[o].at]) ELSE m[o]]
  <2>1. DOMAIN m = Live(heap)
    BY MemoryFacts
  <2>2. MemoryOf(heap') = [o \in Live(heap) |-> heap'.body[o]]
    BY <1>7 DEF MemoryOf
  <2> HIDE DEF m
  <2>. QED BY <1>8, <2>1, <2>2
<1>10. MemoryOf(heap)' = [o \in DOMAIN m |->
          IF \E s \in Mem!Slots : s >= level /\ open[s] = o
          THEN Mem!ClosedUpvalue(stack[m[o].at]) ELSE m[o]]
  <2>1. MemoryOf(heap)' = MemoryOf(heap') /\ Mem!Slots = Slots /\ \A x : Mem!ClosedUpvalue(x) = ClosedUpvalue(x)
    BY Mapped, MemNames
  <2> HIDE DEF m
  <2>. QED BY <1>9, <2>1 DEF Closes
<1>. QED BY <1>1, <1>6, <1>10

LEMMA LeaveBlockLost ==
    ASSUME IInv, Lost, NEW level \in Slots, LeaveBlock(level)
    PROVE  Lost' /\ Mem!LeaveBlock(level)
<1>1. /\ Runs /\ heap' = Closed(heap, level) /\ open' = StillOpen(level) /\ stack' = stack
      /\ callback' = callback /\ stage' = stage /\ entered' = entered /\ finals' = finals
      /\ \E s \in Slots : s >= level /\ open[s] # Null
  BY DEF LeaveBlock, program
<1>2. StackOK /\ OpenIn(heap) /\ level \in Nat
  BY IInvFacts, ObjectListAssumption DEF Slots
<1>3. PICK c, k, K : Good(heap, Held, c, k, K) /\ Typed(heap, K)
  BY IInvFacts
<1>4. \A s \in Slots : stack[s] \in Held
  BY DEF Held
<1>5. ClosedAbove(heap, heap', level, 0)
  BY <1>1, <1>2, <1>3, <1>4, ClosedLemma
<1>6. /\ MemoryOf(heap)' = [o \in DOMAIN MemoryOf(heap) |->
                IF \E s \in Mem!Slots : s >= level /\ open[s] = o
                THEN Mem!ClosedUpvalue(stack[MemoryOf(heap)[o].at]) ELSE MemoryOf(heap)[o]]
      /\ \A o \in Objects : Is(heap', o, "userdata") <=> Is(heap, o, "userdata")
      /\ \A o \in Objects :
           Inner(heap', o) = Inner(heap, o) \/ \E s \in Slots : Inner(heap', o) = {stack[s]} \ {Null}
      /\ heap'.pending = heap.pending
  BY <1>2, <1>5, ClosedSeen
<1>7. Owed' = Owed
  <2>1. OwedIn(heap', finals) = OwedIn(heap, finals)
    BY <1>6, OwedSame
  <2>. QED BY <1>1, <2>1, Mapped
<1>8. Mem!Close(level)
  <2>1. open' = [s \in Mem!Slots |-> IF s >= level THEN Null ELSE open[s]]
    BY <1>1, MemNames DEF StillOpen
  <2>. QED BY <1>6, <2>1 DEF Mem!Close
<1>9. Mem!LeaveBlock(level)
  <2>1. \E s \in Mem!Slots : s >= level /\ open[s] # Null
    BY <1>1, MemNames
  <2>. QED BY <1>1, <1>7, <1>8, <2>1, MemRuns DEF Mem!LeaveBlock, Mem!finalizing
<1>10. PICK X : Encloses(heap, X) /\ X \cap (Range(heap.pending) \ {callback}) = {}
  BY LostFacts
<1>11. \A s \in Slots : open'[s] \in X \cup {Null} /\ stack'[s] \in X \cup {Null}
  BY <1>1, <1>10, EnclosesFacts DEF StillOpen
<1>12. ASSUME NEW o \in X PROVE Inner(heap', o) \subseteq X
  <2>1. o \in Objects /\ Inner(heap, o) \subseteq X /\ \A s \in Slots : stack[s] \in X \cup {Null}
    BY <1>10, EnclosesFacts
  <2>. QED BY <1>6, <2>1
<1>13. Lost'
  BY <1>1, <1>6, <1>10, <1>11, <1>12, EnclosesFacts, LostNext
<1>. QED BY <1>9, <1>13

-----------------------------------------------------------------------------
(***************************************************************************)
(* The steps of the collector: nothing happens, or what is lost vanishes.  *)
(***************************************************************************)

LEMMA MemLinks ==
    ASSUME NEW h, NEW o
    PROVE  Mem!Links(h.body[o]) = Inner(h, o)
  BY DEF Mem!Links, Inner, Refs, Is

LEMMA MemInHand == Mem!InHand = InHand
  BY MemNames DEF Mem!InHand, InHand

\* What a set around some objects does not have cannot be reached from them.
LEMMA ReachWithin ==
    ASSUME NEW from, NEW S, S \subseteq Live(heap), from \ {Null} \subseteq S, \A p \in S : Inner(heap, p) \subseteq S
    PROVE  Mem!Reach(from) \subseteq S
<1>1. DOMAIN MemoryOf(heap) = Live(heap) /\ \A p \in S : MemoryOf(heap)[p] = heap.body[p]
  BY MemoryFacts
<1>2. \A p \in S : Mem!Links(MemoryOf(heap)[p]) \subseteq S
  BY <1>1, MemLinks
<1>3. S \in SUBSET DOMAIN MemoryOf(heap)
  BY <1>1
<1>. QED BY <1>2, <1>3 DEF Mem!Reach

\* What a step of the collector leaves: D is queued and K is kept.
IsLeft(D, K) ==
    /\ Range(heap'.pending) = Range(heap.pending) \cup D /\ Parted(heap, D)
    /\ \A o \in Objects : heap'.body[o] = heap.body[o] \/ (heap'.body[o] = Free /\ ~Is(heap, o, "open"))
    /\ K \subseteq Live(heap') /\ ({stack[s] : s \in Slots} \cup {callback}) \ {Null} \subseteq K
    /\ \A o \in K : Inner(heap', o) \subseteq K

LEMMA CollectedLeaves ==
    ASSUME Collected(heap, heap')
    PROVE  \E D, K : IsLeft(D, K)
<1>1. PICK m, D, K : IsCollected(heap, heap', m, D, K)
  BY DEF Collected
<1>2. Queued(heap, m, D) /\ Freed(m, heap', K) /\ Parted(heap, D) /\ \E c, k : Good(heap', HeldIn(heap'), c, k, K)
  BY <1>1 DEF IsCollected
<1>3. PICK c, k : Good(heap', HeldIn(heap'), c, k, K)
  BY <1>2
<1>4. HeldIn(heap') \ {Null} \subseteq K /\ K \subseteq Live(heap') /\ \A o \in K : Inner(heap', o) \subseteq K
  BY <1>3 DEF Good, Keeps
<1>5. ({stack[s] : s \in Slots} \cup {callback}) \ {Null} \subseteq K
  BY <1>4 DEF HeldIn
<1>6. m.body = heap.body /\ Range(m.pending) = Range(heap.pending) \cup D
  BY <1>2 DEF Queued
<1>7. /\ Range(heap'.pending) = Range(m.pending)
      /\ \A o \in Objects : heap'.body[o] = m.body[o] \/ (heap'.body[o] = Free /\ ~Is(m, o, "open"))
  BY <1>2 DEF Freed
<1>8. \A o : Is(m, o, "open") = Is(heap, o, "open")
  BY <1>6 DEF Is
<1>9. IsLeft(D, K)
  BY <1>2, <1>4, <1>5, <1>6, <1>7, <1>8 DEF IsLeft
<1>. QED BY <1>9

\* An object stays what it is, or goes; what is held in hand stays.
LEMMA LeftFacts ==
    ASSUME IInv, NEW D, NEW K, IsLeft(D, K)
    PROVE  /\ Live(heap') \subseteq Live(heap) /\ \A o \in Live(heap') : heap'.body[o] = heap.body[o]
           /\ \A o \in Objects : Inner(heap', o) = Inner(heap, o) \/ Inner(heap', o) = {}
           /\ \A o \in {open[s] : s \in Slots} \ {Null} :
                  o \in Live(heap') /\ Is(heap', o, "open") /\ Is(heap, o, "open")
<1>1. \A o \in Objects : heap'.body[o] = heap.body[o] \/ (heap'.body[o] = Free /\ ~Is(heap, o, "open"))
  BY DEF IsLeft
<1>2. ASSUME NEW o \in Objects PROVE Inner(heap', o) = Inner(heap, o) \/ Inner(heap', o) = {}
  <2>1. CASE heap'.body[o] = heap.body[o]
    BY <2>1 DEF Inner, Refs, Is
  <2>2. CASE heap'.body[o] = Free
    BY <2>2 DEF Inner, Refs, Is, Free
  <2>. QED BY <1>1, <2>1, <2>2
<1>3. \A o \in Live(heap') : o \in Objects /\ heap'.body[o] = heap.body[o] /\ o \in Live(heap)
  BY <1>1 DEF Live, Is, Free
<1>4. ASSUME NEW o \in {open[s] : s \in Slots} \ {Null}
      PROVE  o \in Live(heap') /\ Is(heap', o, "open") /\ Is(heap, o, "open")
  <2>1. o \in Objects /\ Is(heap, o, "open")
    BY OpenedFacts, IInvFacts
  <2>2. heap'.body[o] = heap.body[o]
    BY <1>1, <2>1
  <2>. QED BY <2>1, <2>2 DEF Live, Is
<1>. QED BY <1>2, <1>3, <1>4

LEMMA CollectedWaits ==
    ASSUME IInv, Lost, UNCHANGED idle, NEW D, NEW K, IsLeft(D, K)
    PROVE  Lost'
<1>1. PICK X : Encloses(heap, X) /\ X \cap (Range(heap.pending) \ {callback}) = {}
  BY LostFacts
<1>2. PICK Y : Encloses(heap, Y) /\ Y \cap D = {}
  BY DEF IsLeft, Parted
<1>3. stack' = stack /\ open' = open /\ callback' = callback
  BY DEF idle
<1> DEFINE Z == X \cap Y
<1>4. /\ Z \subseteq Objects /\ (\A o \in Z : Inner(heap, o) \subseteq Z)
      /\ (\A s \in Slots : stack[s] \in Z \cup {Null} /\ open[s] \in Z \cup {Null})
      /\ callback \in Z \cup {Null}
  <2>1. /\ X \subseteq Objects /\ (\A o \in X : Inner(heap, o) \subseteq X)
        /\ (\A s \in Slots : stack[s] \in X \cup {Null} /\ open[s] \in X \cup {Null}) /\ callback \in X \cup {Null}
    BY <1>1, EnclosesFacts
  <2>2. /\ (\A o \in Y : Inner(heap, o) \subseteq Y)
        /\ (\A s \in Slots : stack[s] \in Y \cup {Null} /\ open[s] \in Y \cup {Null}) /\ callback \in Y \cup {Null}
    BY <1>2, EnclosesFacts
  <2>. QED BY <2>1, <2>2
<1>5. Range(heap'.pending) = Range(heap.pending) \cup D
  BY DEF IsLeft
<1>6. Z \cap (Range(heap'.pending) \ {callback'}) = {}
  BY <1>1, <1>2, <1>3, <1>5
<1> HIDE DEF Z
<1>7. \A o \in Z : Inner(heap', o) \subseteq Z
  BY <1>4, LeftFacts
<1>. QED BY <1>3, <1>4, <1>6, <1>7, LostNext

LEMMA CollectorLost ==
    ASSUME IInv, Lost, Collector
    PROVE  Lost' /\ (Mem!Vanish \/ UNCHANGED Mem!vars)
<1>1. Collected(heap, heap') /\ UNCHANGED idle
  BY StepCollected
<1>2. PICK D, K : IsLeft(D, K)
  BY <1>1, CollectedLeaves
<1>3. Lost'
  BY <1>1, <1>2, CollectedWaits
<1>4. /\ stack' = stack /\ open' = open /\ callback' = callback /\ stage' = stage /\ entered' = entered
      /\ finals' = finals
  BY <1>1 DEF idle
<1>5. /\ Live(heap') \subseteq Live(heap) /\ \A o \in Live(heap') : heap'.body[o] = heap.body[o]
      /\ \A o \in {open[s] : s \in Slots} \ {Null} :
            o \in Live(heap') /\ Is(heap', o, "open") /\ Is(heap, o, "open")
  BY <1>2, LeftFacts
<1>6. Once(heap, heap', finals)
  BY <1>1, CollectedFacts, IInvFacts
<1>7. \A o \in Owed : o \in Live(heap') /\ Is(heap', o, "userdata")
  BY <1>6 DEF Owed, Once, Live, Is
<1>8. Owed' = Owed
  <2>1. \A o \in Objects : Is(heap', o, "userdata") => Is(heap, o, "userdata")
    <3>1. ASSUME NEW o \in Objects, Is(heap', o, "userdata") PROVE Is(heap, o, "userdata")
      <4>1. o \in Live(heap')
        BY <3>1 DEF Live, Is
      <4>. QED BY <1>5, <3>1, <4>1 DEF Is
    <3>. QED BY <3>1
  <2>2. OwedIn(heap', finals) = OwedIn(heap, finals)
    BY <1>7, <2>1, Mapped DEF OwedIn
  <2>. QED BY <1>4, <2>2, Mapped
<1> DEFINE opened == {open[s] : s \in Slots} \ {Null}
           left == {o \in Objects : Is(heap', o, "userdata")}
           S == K \cup opened \cup left
<1>9. /\ K \subseteq Live(heap') /\ ({stack[s] : s \in Slots} \cup {callback}) \ {Null} \subseteq K
      /\ \A o \in K : Inner(heap', o) \subseteq K
  BY <1>2 DEF IsLeft
<1>10. InHand \ {Null} \subseteq K \cup opened
  BY <1>9 DEF InHand
<1>11. \A o \in opened : o \in Live(heap') /\ Is(heap', o, "open") /\ Is(heap, o, "open")
  BY <1>5
<1> HIDE DEF opened
<1>12. S \subseteq Live(heap')
  BY <1>9, <1>11 DEF Live, Is
<1>13. ASSUME NEW p \in S PROVE Inner(heap, p) \subseteq S
  <2>1. Inner(heap, p) = Inner(heap', p)
    BY <1>5, <1>12 DEF Inner, Refs, Is
  <2>2. CASE p \in K
    BY <1>9, <2>1, <2>2
  <2>3. CASE p \in opened
    BY <1>11, <2>3 DEF Inner
  <2>4. CASE p \in left
    BY <2>1, <2>4 DEF Inner, Refs, Is
  <2>. QED BY <2>2, <2>3, <2>4
<1>14. (InHand \cup Owed) \ {Null} \subseteq S
  <2>1. Owed \subseteq left
    BY <1>7 DEF Owed
  <2>. QED BY <1>10, <2>1
<1> HIDE DEF S
<1>15. Mem!Reach(Mem!InHand \cup Owed) \subseteq Live(heap')
  <2>1. S \subseteq Live(heap)
    BY <1>5, <1>12
  <2>2. Mem!Reach(InHand \cup Owed) \subseteq S
    BY <1>13, <1>14, <2>1, ReachWithin
  <2>. QED BY <1>12, <2>2, MemInHand
<1> DEFINE gone == Live(heap) \ Live(heap')
           m == MemoryOf(heap)
<1>16. MemoryOf(heap)' = [o \in DOMAIN m \ gone |-> m[o]]
  <2>1. DOMAIN m = Live(heap) /\ \A o \in Live(heap) : m[o] = heap.body[o]
    BY MemoryFacts
  <2>2. MemoryOf(heap') = [o \in Live(heap') |-> heap'.body[o]]
    BY DEF MemoryOf
  <2>3. DOMAIN m \ gone = Live(heap')
    BY <1>5, <2>1
  <2> HIDE DEF m
  <2>4. \A o \in Live(heap') : heap'.body[o] = m[o]
    BY <1>5, <2>1
  <2>. QED BY <2>2, <2>3, <2>4, Mapped
<1>17. gone \cap Mem!Reach(Mem!InHand \cup Owed) = {} /\ gone \in SUBSET DOMAIN m
  BY <1>15, MemoryFacts
<1>18. CASE MemoryOf(heap)' = m
  BY <1>3, <1>4, <1>8, <1>18 DEF Mem!vars
<1>19. CASE MemoryOf(heap)' # m
  <2>1. UNCHANGED <<stack, open, Mem!finalizing, Owed>>
    BY <1>4, <1>8 DEF Mem!finalizing
  <2>2. Mem!Vanish
    BY <1>16, <1>17, <1>19, <2>1 DEF Mem!Vanish
  <2>. QED BY <1>3, <2>2
<1>. QED BY <1>18, <1>19

-----------------------------------------------------------------------------
(***************************************************************************)
(* The steps of finalizers.                                                *)
(***************************************************************************)

\* What the program has in hand, with all that it holds, is there.
LEMMA HandKept ==
    ASSUME IInv
    PROVE  \E S : S \subseteq Live(heap) /\ InHand \ {Null} \subseteq S /\ \A p \in S : Inner(heap, p) \subseteq S
<1> DEFINE opened == {open[s] : s \in Slots} \ {Null}
<1>1. PICK c, k, K : Good(heap, Held, c, k, K) /\ Typed(heap, K)
  BY IInvFacts
<1>2. Held \ {Null} \subseteq K /\ K \subseteq Live(heap) /\ \A o \in K : Inner(heap, o) \subseteq K
  BY <1>1 DEF Good, Keeps
<1>3. InHand \ {Null} \subseteq K \cup opened
  BY <1>2 DEF InHand, Held
<1>4. \A o \in opened : o \in Objects /\ Is(heap, o, "open")
  BY OpenedFacts, IInvFacts
<1> HIDE DEF opened
<1>5. K \cup opened \subseteq Live(heap)
  BY <1>2, <1>4 DEF Live, Is
<1>6. \A o \in K \cup opened : Inner(heap, o) \subseteq K \cup opened
  BY <1>2, <1>4 DEF Inner
<1>. QED BY <1>3, <1>5, <1>6

\* So the program cannot reach what a set around it does not have.
LEMMA OutOfReach ==
    ASSUME IInv, NEW X, Encloses(heap, X), NEW u, u \notin X
    PROVE  u \notin Mem!Reach(Mem!InHand)
<1>1. PICK S : S \subseteq Live(heap) /\ InHand \ {Null} \subseteq S /\ \A p \in S : Inner(heap, p) \subseteq S
  BY HandKept
<1>2. InHand \ {Null} \subseteq X /\ \A p \in X : Inner(heap, p) \subseteq X
  BY DEF Encloses
<1> DEFINE T == S \cap X
<1>3. T \subseteq Live(heap) /\ InHand \ {Null} \subseteq T /\ (\A p \in T : Inner(heap, p) \subseteq T) /\ u \notin T
  BY <1>1, <1>2
<1> HIDE DEF T
<1>4. Mem!Reach(InHand) \subseteq T
  BY <1>3, ReachWithin
<1>. QED BY <1>3, <1>4, MemInHand

LEMMA CalledSeen ==
    ASSUME IInv, NEW u \in Objects, Is(heap, u, "userdata"), finals[u] = 0,
           finals' = [finals EXCEPT ![u] = @ + 1], heap'.body = heap.body,
           callback = Null, callback' = u, stack' = stack, open' = open, stage' = stage, stage # "closed",
           entered' = IF stage = "closing" THEN entered + 1 ELSE entered, entered' <= DrainLimit,
           u \notin Mem!Reach(Mem!InHand)
    PROVE  Mem!CallFinalizer(u)
<1>1. MemoryOf(heap)' = MemoryOf(heap)
  <2>1. MemoryOf(heap') = MemoryOf(heap)
    BY MemorySame
  <2>. QED BY <2>1, Mapped
<1>2. Owed = OwedIn(heap, finals) /\ Owed' = OwedIn(heap', finals')
  BY Mapped
<1>3. finals'[u] = 1 /\ \A o \in Objects : o # u => finals'[o] = finals[o]
  <2>1. finals \in [Objects -> {0, 1}]
    BY IInvFacts DEF FinalsIn
  <2>. QED BY <2>1
<1>4. \A o \in Objects : Is(heap', o, "userdata") <=> Is(heap, o, "userdata")
  BY DEF Is
<1>5. u \in Owed /\ Owed' = Owed \ {u}
  BY <1>2, <1>3, <1>4 DEF OwedIn
<1>. QED BY <1>1, <1>5 DEF Mem!CallFinalizer

LEMMA CallFinalizerLost ==
    ASSUME IInv, Lost, CallFinalizer
    PROVE  Lost' /\ \E u \in Objects : Mem!CallFinalizer(u)
<1> DEFINE u == Head(drain.left)
<1>1. /\ stage = "running" /\ callback = Null
      /\ finals' = [finals EXCEPT ![u] = @ + 1] /\ callback' = u
      /\ heap' = heap /\ stack' = stack /\ open' = open /\ stage' = stage /\ entered' = entered
  BY DEF CallFinalizer, Called
<1>2. u \in Range(heap.pending) /\ u \in Objects /\ Is(heap, u, "userdata") /\ finals[u] = 0
  BY HeadFacts
<1> HIDE DEF u
<1>3. PICK X : Encloses(heap, X) /\ X \cap (Range(heap.pending) \ {callback}) = {}
  BY LostFacts
<1>4. u \notin X
  BY <1>1, <1>2, <1>3, ObjectListAssumption
<1>5. entered' <= DrainLimit
  <2>1. entered \in 0 .. DrainLimit
    BY IInvFacts DEF StageOK
  <2>. QED BY <1>1, <2>1, ObjectListAssumption
<1>6. u \notin Mem!Reach(Mem!InHand)
  BY <1>3, <1>4, OutOfReach
<1>7. Mem!CallFinalizer(u)
  BY <1>1, <1>2, <1>5, <1>6, CalledSeen
<1> DEFINE Y == X \cup {u}
<1>8. Y \subseteq Objects /\ \A s \in Slots : stack'[s] \in Y \cup {Null} /\ open'[s] \in Y \cup {Null}
  BY <1>1, <1>2, <1>3, EnclosesFacts
<1>9. ASSUME NEW o \in Y PROVE Inner(heap', o) \subseteq Y
  <2>1. CASE o \in X
    BY <1>1, <1>3, <2>1, EnclosesFacts
  <2>2. CASE o = u
    BY <1>1, <1>2, <2>2 DEF Inner, Refs, Is
  <2>. QED BY <2>1, <2>2
<1>10. Y \cap (Range(heap'.pending) \ {callback'}) = {} /\ callback' \in Y \cup {Null}
  BY <1>1, <1>3, WaitingFacts
<1> HIDE DEF Y
<1>11. Lost'
  BY <1>8, <1>9, <1>10, LostNext
<1>. QED BY <1>2, <1>7, <1>11

LEMMA FinalizerEndsLost ==
    ASSUME IInv, Lost, FinalizerReturns \/ FinalizerThrows
    PROVE  Lost' /\ Mem!FinalizerEnds
<1> DEFINE g == StillPending(heap, callback)
<1>1. /\ stage = "running" /\ callback # Null /\ callback' = Null
      /\ stack' = stack /\ open' = open /\ stage' = stage /\ entered' = entered /\ finals' = finals
      /\ heap' = g \/ heap' = resetIncrementalCycle(g)
  BY DEF FinalizerReturns, FinalizerThrows
<1>2. heap \in HeapOf /\ QueueOK(heap)
  BY IInvFacts DEF Sound
<1>3. IsRequeued(heap, g, g.pending, heap.finalized) /\ Range(g.pending) = Range(heap.pending) \ {callback}
  BY <1>2, StillPendingFacts
<1>4. g \in HeapOf /\ g.body = heap.body
  BY <1>3 DEF IsRequeued
<1> HIDE DEF g
<1>5. heap'.body = heap.body /\ Range(heap'.pending) = Range(heap.pending) \ {callback}
  BY <1>1, <1>3, <1>4, ResetFields
<1>6. MemoryOf(heap)' = MemoryOf(heap) /\ Owed' = Owed
  BY <1>1, <1>5, HeapSeenSame
<1>7. Mem!FinalizerEnds
  BY <1>1, <1>6 DEF Mem!FinalizerEnds
<1>8. PICK X : Encloses(heap, X) /\ X \cap (Range(heap.pending) \ {callback}) = {}
  BY LostFacts
<1>9. X \subseteq Objects /\ \A s \in Slots : stack'[s] \in X \cup {Null} /\ open'[s] \in X \cup {Null}
  BY <1>1, <1>8, EnclosesFacts
<1>10. \A o \in X : Inner(heap', o) \subseteq X
  <2>1. \A o : Inner(heap', o) = Inner(heap, o)
    BY <1>5, SameBodies
  <2>. QED BY <1>8, <2>1, EnclosesFacts
<1>11. X \cap (Range(heap'.pending) \ {callback'}) = {} /\ callback' \in X \cup {Null}
  BY <1>1, <1>5, <1>8
<1>12. Lost'
  BY <1>9, <1>10, <1>11, LostNext
<1>. QED BY <1>7, <1>12

-----------------------------------------------------------------------------
(***************************************************************************)
(* The steps that close the state.                                         *)
(***************************************************************************)

\* What NextToClose takes has not been finalized.
LEMMA NextOwed ==
    ASSUME IInv, callback = Null, NEW u, u = NextToClose(heap)
    PROVE  IF u = Null THEN Owed = {} ELSE u \in Objects /\ Is(heap, u, "userdata") /\ finals[u] = 0
<1>1. \A o \in Live(heap) : Is(heap, o, "userdata") =>
          finals[o] = IF o \in heap.finalized /\ (o \notin Range(heap.pending) \/ o = Null) THEN 1 ELSE 0
  BY IInvFacts DEF FinalsIn
<1>2. Null \notin Live(heap)
  BY LiveFacts, ObjectListAssumption
<1>3. CASE u = Null
  <2>1. heap.pending = <<>> /\ \A o \in Live(heap) : Is(heap, o, "userdata") => o \in heap.finalized
    BY <1>3, NextFacts
  <2>2. \A o : o \notin Range(heap.pending)
    BY <2>1 DEF Range
  <2>3. \A o \in Objects : Is(heap, o, "userdata") => finals[o] = 1
    BY <1>1, <2>1, <2>2 DEF Live, Is
  <2>. QED BY <1>3, <2>3 DEF Owed
<1>4. CASE u # Null
  <2>1. /\ u \in Live(heap) /\ u \in Objects /\ Is(heap, u, "userdata")
        /\ u \in Range(heap.pending) \/ u \notin heap.finalized
    BY <1>4, NextFacts
  <2>. QED BY <1>1, <1>2, <1>4, <2>1
<1>. QED BY <1>3, <1>4

\* Before a __gc is called at the end the program has nothing but open upvalues.
LEMMA ClosingEncloses ==
    ASSUME IInv, stage # "running", callback = Null
    PROVE  LET X == {open[s] : s \in Slots} \ {Null}
           IN  Encloses(heap, X) /\ \A o \in X : ~Is(heap, o, "userdata")
<1> DEFINE X == {open[s] : s \in Slots} \ {Null}
<1>1. \A o \in X : o \in Objects /\ Is(heap, o, "open")
  BY OpenedFacts, IInvFacts
<1>2. stack = Emptied
  BY IInvFacts DEF StageOK
<1>3. InHand \ {Null} \subseteq X
  BY <1>2 DEF InHand, Emptied
<1> HIDE DEF X
<1>4. Encloses(heap, X)
  BY <1>1, <1>3 DEF Encloses, Inner
<1>5. \A o \in X : ~Is(heap, o, "userdata")
  BY <1>1 DEF Is
<1>. QED BY <1>4, <1>5 DEF X

LEMMA CloseNextLost ==
    ASSUME IInv, CloseNext
    PROVE  Lost' /\ \E u \in Objects : Mem!CallFinalizer(u)
<1> DEFINE u == NextToClose(heap)
           s == StillPending(heap, u)
<1>1. /\ stage = "closing" /\ callback = Null /\ entered < DrainLimit /\ u # Null
      /\ heap' = [s EXCEPT !.finalized = @ \cup {u}]
      /\ finals' = [finals EXCEPT ![u] = @ + 1] /\ callback' = u /\ entered' = entered + 1
      /\ stack' = stack /\ open' = open /\ stage' = stage
  BY DEF CloseNext, Called, Taken
<1>2. u \in Objects /\ Is(heap, u, "userdata") /\ finals[u] = 0
  BY <1>1, NextOwed
<1>3. heap \in HeapOf /\ QueueOK(heap)
  BY IInvFacts DEF Sound
<1> HIDE DEF u
<1>4. IsRequeued(heap, s, s.pending, heap.finalized) /\ Range(s.pending) = Range(heap.pending) \ {u}
  BY <1>3, StillPendingFacts
<1> HIDE DEF s
<1>5. heap'.body = heap.body /\ heap'.pending = s.pending
  BY <1>1, <1>4 DEF IsRequeued, HeapOf
<1>6. entered' <= DrainLimit
  <2>1. entered \in 0 .. DrainLimit
    BY IInvFacts DEF StageOK
  <2>. QED BY <1>1, <2>1, ObjectListAssumption
<1> DEFINE X == {open[x] : x \in Slots} \ {Null}
<1>7. Encloses(heap, X) /\ \A o \in X : ~Is(heap, o, "userdata")
  BY <1>1, ClosingEncloses
<1> HIDE DEF X
<1>8. u \notin Mem!Reach(Mem!InHand)
  BY <1>2, <1>7, OutOfReach
<1>9. Mem!CallFinalizer(u)
  BY <1>1, <1>2, <1>5, <1>6, <1>8, CalledSeen
<1> DEFINE Y == X \cup {u}
<1>10. Y \subseteq Objects /\ \A x \in Slots : stack'[x] \in Y \cup {Null} /\ open'[x] \in Y \cup {Null}
  BY <1>1, <1>2, <1>7, EnclosesFacts
<1>11. ASSUME NEW o \in Y PROVE Inner(heap', o) \subseteq Y
  <2>0. Inner(heap', o) = Inner(heap, o)
    BY <1>5, SameBodies
  <2>1. CASE o \in X
    BY <1>7, <2>0, <2>1, EnclosesFacts
  <2>2. CASE o = u
    BY <1>2, <2>0, <2>2 DEF Inner, Refs, Is
  <2>. QED BY <2>1, <2>2
<1>12. Y \cap (Range(heap'.pending) \ {callback'}) = {} /\ callback' \in Y \cup {Null}
  BY <1>1, <1>4, <1>5, <1>7, WaitingFacts
<1> HIDE DEF Y
<1>13. Lost'
  BY <1>10, <1>11, <1>12, LostNext
<1>. QED BY <1>2, <1>9, <1>13

LEMMA CloseReturnsLost ==
    ASSUME IInv, Lost, CloseReturns
    PROVE  Lost' /\ Mem!FinalizerEnds
<1>1. /\ stage = "closing" /\ callback # Null /\ callback' = Null /\ stack' = Emptied
      /\ heap' = heap /\ open' = open /\ stage' = stage /\ entered' = entered /\ finals' = finals
  BY DEF CloseReturns
<1>2. MemoryOf(heap)' = MemoryOf(heap) /\ Owed' = Owed
  BY <1>1, HeapSeenSame
<1>3. Mem!FinalizerEnds
  BY <1>1, <1>2, MemNames DEF Mem!FinalizerEnds
<1>4. callback \notin Range(heap.pending)
  BY <1>1, IInvFacts DEF StageOK
<1>5. PICK X : Encloses(heap, X) /\ X \cap (Range(heap.pending) \ {callback}) = {}
  BY LostFacts
<1>6. X \subseteq Objects /\ \A s \in Slots : stack'[s] \in X \cup {Null} /\ open'[s] \in X \cup {Null}
  BY <1>1, <1>5, EnclosesFacts DEF Emptied
<1>7. X \cap (Range(heap'.pending) \ {callback'}) = {} /\ callback' \in X \cup {Null}
  BY <1>1, <1>4, <1>5
<1>8. \A o \in X : Inner(heap', o) \subseteq X
  BY <1>1, <1>5, EnclosesFacts
<1>9. Lost'
  BY <1>6, <1>7, <1>8, LostNext
<1>. QED BY <1>3, <1>9

\* With nothing in hand everything is out of reach.
LEMMA NothingInHand ==
    ASSUME \A s \in Slots : stack'[s] = Null /\ open'[s] = Null, callback' = Null
    PROVE  Lost'
<1> DEFINE X == {}
<1>1. /\ X \subseteq Objects
      /\ \A s \in Slots : stack'[s] \in X \cup {Null} /\ open'[s] \in X \cup {Null}
      /\ callback' \in X \cup {Null} /\ \A o \in X : Inner(heap', o) \subseteq X
      /\ X \cap (Range(heap'.pending) \ {callback'}) = {}
  OBVIOUS
<1> HIDE DEF X
<1>. QED BY <1>1, LostNext

LEMMA FinalizeAllLost ==
    ASSUME IInv, finalizeAll
    PROVE  Lost' /\ Mem!CloseState
<1> DEFINE r == resetIncrementalCycle(heap)
<1>1. /\ stage = "running" /\ drain = Null /\ heap' = Closed(r, 0) /\ open' = StillOpen(0)
      /\ stack' = Emptied /\ stage' = "closing"
      /\ callback' = callback /\ entered' = entered /\ finals' = finals
  BY DEF finalizeAll
<1>2. /\ StackOK /\ OpenIn(heap) /\ DrainOK /\ heap \in HeapOf
  BY IInvFacts
<1>3. PICK c, k, K : Good(heap, Held, c, k, K) /\ Typed(heap, K)
  BY IInvFacts
<1>4. callback = Null
  BY <1>1, <1>2 DEF DrainOK
<1>5. Good(r, Held, c, 0, K)
  BY <1>3, GoodReset DEF Good
<1>6. r.body = heap.body
  BY <1>2, ResetFields
<1> HIDE DEF r
<1>7. OpenIn(r) /\ (\A s \in Slots : stack[s] \in Held) /\ 0 \in Nat
  BY <1>2, <1>6 DEF OpenIn, Held
<1>8. ClosedAbove(r, heap', 0, 0)
  BY <1>1, <1>2, <1>5, <1>7, ClosedLemma
<1>9. /\ MemoryOf(heap)' = [o \in DOMAIN MemoryOf(heap) |->
                IF \E s \in Mem!Slots : s >= 0 /\ open[s] = o
                THEN Mem!ClosedUpvalue(stack[MemoryOf(heap)[o].at]) ELSE MemoryOf(heap)[o]]
      /\ \A o \in Objects : Is(heap', o, "userdata") <=> Is(heap, o, "userdata")
  BY <1>6, <1>7, <1>8, ClosedSeen
<1>10. Owed' = Owed
  <2>1. OwedIn(heap', finals) = OwedIn(heap, finals)
    BY <1>9, OwedSame
  <2>. QED BY <1>1, <2>1, Mapped
<1>11. Mem!Close(0)
  <2>1. open' = [s \in Mem!Slots |-> IF s >= 0 THEN Null ELSE open[s]]
    BY <1>1, MemNames DEF StillOpen
  <2>. QED BY <1>9, <2>1 DEF Mem!Close
<1>12. Mem!CloseState
  BY <1>1, <1>4, <1>10, <1>11, MemNames DEF Mem!CloseState
<1>13. \A s \in Slots : stack'[s] = Null /\ open'[s] = Null
  <2>1. \A s \in Slots : s >= 0
    BY ObjectListAssumption DEF Slots
  <2>. QED BY <1>1, <2>1 DEF Emptied, StillOpen
<1>14. Lost'
  BY <1>1, <1>4, <1>13, NothingInHand
<1>. QED BY <1>12, <1>14

LEMMA ClearAllLost ==
    ASSUME IInv, ClearAll
    PROVE  Lost' /\ Mem!Destroy
<1>1. /\ stage = "closing" /\ callback = Null /\ (entered = DrainLimit \/ NextToClose(heap) = Null)
      /\ stage' = "closed" /\ open' = Emptied
      /\ stack' = stack /\ callback' = callback /\ entered' = entered
  BY DEF ClearAll
<1>2. stack = Emptied
  BY <1>1, IInvFacts DEF StageOK
<1>3. Live(heap') = {}
  <2>1. StageOK'
    BY ClearAllKeeps DEF IInv
  <2>2. Live(heap)' = Live(heap')
    BY DEF Live, Is
  <2>. QED BY <1>1, <2>1, <2>2 DEF StageOK
<1>4. MemoryOf(heap)' = Mem!Nothing /\ Owed' = {}
  <2>1. MemoryOf(heap') = Mem!Nothing
    BY <1>3 DEF MemoryOf, Mem!Nothing
  <2>2. \A o \in Objects : ~Is(heap', o, "userdata")
    BY <1>3 DEF Live, Is
  <2>3. OwedIn(heap', finals') = {}
    BY <2>2 DEF OwedIn
  <2>. QED BY <2>1, <2>3, Mapped
<1>5. Owed = {} \/ entered = DrainLimit
  BY <1>1, NextOwed
<1>6. Mem!Destroy
  BY <1>1, <1>4, <1>5, MemNames DEF Mem!Destroy
<1>7. Lost'
  BY <1>1, <1>2, NothingInHand DEF Emptied
<1>. QED BY <1>6, <1>7

-----------------------------------------------------------------------------
(***************************************************************************)
(* All together.                                                           *)
(***************************************************************************)

LEMMA InitLost ==
    ASSUME Init
    PROVE  Lost /\ Mem!Init
<1>1. /\ heap.body = [o \in Objects |-> Free] /\ heap.pending = <<>>
      /\ stack = [s \in Slots |-> Null] /\ open = [s \in Slots |-> Null]
      /\ callback = Null /\ stage = "running" /\ entered = 0
  BY DEF Init
<1>2. \A o \in Objects : heap.body[o].kind = "free"
  BY <1>1 DEF Free
<1>3. Live(heap) = {} /\ Owed = {}
  BY <1>2 DEF Live, Owed, Is
<1>4. MemoryOf(heap) = Mem!Nothing
  BY <1>3 DEF MemoryOf, Mem!Nothing
<1>5. Mem!Init
  BY <1>1, <1>3, <1>4, MemNames DEF Mem!Init, Emptied
<1>6. Encloses(heap, {})
  BY <1>1 DEF Encloses, InHand
<1>. QED BY <1>5, <1>6 DEF Lost, Parted

LEMMA ProgramLost ==
    ASSUME ~InternsDoomed, IInv, Lost, Program
    PROVE  Lost' /\ Mem!Next
<1>1. Mem!Slots = Slots
  BY MemNames
<1>2. ASSUME NEW t \in Contents, NEW s \in Slots, InternKnown(t, s) \/ InternNew(t, s) PROVE Lost' /\ Mem!Next
  <2>1. Lost' /\ Mem!Intern(t, s)
    BY <1>2, InternKnownLost, InternNewLost
  <2>. QED BY <1>1, <2>1 DEF Mem!Next
<1>3. ASSUME NEW s \in Slots, NewUserdata(s) \/ Clear(s) \/ LeaveBlock(s) \/ Resurrect(s)
      PROVE  Lost' /\ Mem!Next
  <2>1. Lost' /\ (Mem!NewUserdata(s) \/ Mem!Clear(s) \/ Mem!LeaveBlock(s) \/ Mem!Resurrect(s))
    BY <1>3, NewUserdataLost, ClearLost, LeaveBlockLost, ResurrectLost
  <2>. QED BY <1>1, <2>1 DEF Mem!Next
<1>4. ASSUME NEW s \in Slots, NEW t \in Slots, NewClosure(s, t) \/ GetUpvalue(t, s) \/ SetUpvalue(t, s)
      PROVE  Lost' /\ Mem!Next
  <2>1. Lost' /\ (Mem!NewClosure(s, t) \/ Mem!GetUpvalue(t, s) \/ Mem!SetUpvalue(t, s))
    BY <1>4, NewClosureLost, GetUpvalueLost, SetUpvalueLost
  <2>. QED BY <1>1, <2>1 DEF Mem!Next
<1>. QED BY <1>2, <1>3, <1>4 DEF Program

LEMMA NextLost ==
    ASSUME ~InternsDoomed, IInv, Lost, Next
    PROVE  Lost' /\ (Mem!Next \/ UNCHANGED Mem!vars)
<1>1. CASE Program
  BY <1>1, ProgramLost
<1>2. CASE Collector
  <2>1. Lost' /\ (Mem!Vanish \/ UNCHANGED Mem!vars)
    BY <1>2, CollectorLost
  <2>. QED BY <2>1 DEF Mem!Next
<1>3. CASE Finalizers
  <2>1. CASE CallFinalizer
    <3>1. Lost' /\ \E u \in Objects : Mem!CallFinalizer(u)
      BY <2>1, CallFinalizerLost
    <3>. QED BY <3>1 DEF Mem!Next
  <2>2. CASE FinalizerReturns \/ FinalizerThrows
    <3>1. Lost' /\ Mem!FinalizerEnds
      BY <2>2, FinalizerEndsLost
    <3>. QED BY <3>1 DEF Mem!Next
  <2>. QED BY <1>3, <2>1, <2>2 DEF Finalizers
<1>4. CASE Closing
  <2>1. CASE CloseNext
    <3>1. Lost' /\ \E u \in Objects : Mem!CallFinalizer(u)
      BY <2>1, CloseNextLost
    <3>. QED BY <3>1 DEF Mem!Next
  <2>2. CASE finalizeAll \/ CloseReturns \/ ClearAll
    <3>1. Lost' /\ (Mem!CloseState \/ Mem!FinalizerEnds \/ Mem!Destroy)
      BY <2>2, FinalizeAllLost, CloseReturnsLost, ClearAllLost
    <3>. QED BY <3>1 DEF Mem!Next
  <2>. QED BY <1>4, <2>1, <2>2 DEF Closing
<1>. QED BY <1>1, <1>2, <1>3, <1>4 DEF Next

LEMMA StutterLost ==
    ASSUME Lost, UNCHANGED vars
    PROVE  Lost' /\ UNCHANGED Mem!vars
<1>1. /\ heap' = heap /\ stack' = stack /\ open' = open /\ callback' = callback
      /\ stage' = stage /\ entered' = entered /\ finals' = finals
  BY DEF vars
<1>2. MemoryOf(heap)' = MemoryOf(heap) /\ Owed' = Owed
  BY <1>1, HeapSeenSame
<1>3. Lost'
  <2>1. PICK X : Encloses(heap, X) /\ X \cap (Range(heap.pending) \ {callback}) = {}
    BY LostFacts
  <2>. QED BY <1>1, <2>1, EnclosesFacts, LostNext
<1>. QED BY <1>1, <1>2, <1>3 DEF Mem!vars

\* Every behaviour of the collector is one of Memory: what the program can
\* reach through the stack, closures and upvalues stays as it made it,
\* whatever writeBarrier, registerObject, propagateMarks and sweep do between
\* two of its instructions, in a cycle in slices or in a full collection;
\* closeUpvalues gives each variable its last value; intern gives one object
\* for equal strings; runFinalizers and finalizeAll call each __gc once, after
\* the program has lost the userdata.
THEOREM ProgramSeesMemory ==
    ASSUME ~InternsDoomed
    PROVE  Spec => ActsAsMemory
<1>1. Init => Lost /\ Mem!Init
  BY InitLost
<1>2. IInv /\ Lost /\ [Next]_vars => Lost' /\ [Mem!Next]_(Mem!vars)
  BY NextLost, StutterLost
<1>3. Spec => []IInv
  BY AlwaysIInv
<1>. QED BY <1>1, <1>2, <1>3, PTL DEF Spec, ActsAsMemory, Mem!Spec
=============================================================================
