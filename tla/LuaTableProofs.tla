--------------------------- MODULE LuaTableProofs ---------------------------
(***************************************************************************)
(* The table is a map, for every set of keys, every hash function and      *)
(* every limit.                                                            *)
(*                                                                         *)
(* The argument.  A key that has a node is found, because every slot that  *)
(* is probed before its node is in use (Chained), and no other node has    *)
(* the key (OnePlace).  So findHashNode is a plain search (FindIsSearch),  *)
(* and what an operation does to the table can be told key by key          *)
(* (Agrees).  Erasing keeps the chains since a dead node stays in use; an  *)
(* insertion extends them (InsertKeeps); rehash builds new ones, insertion *)
(* by insertion (RehashKeeps).                                             *)
(***************************************************************************)
EXTENDS LuaTable, FiniteSetTheorems, NatLemmas

-----------------------------------------------------------------------------
(***************************************************************************)
(* What is to be known of a hash part ns.                                  *)
(***************************************************************************)

InUse(ns) == {i \in DOMAIN ns : ns[i].state # "empty"}

NodesOf(ns) == Capacity(ns) \in Nat /\ ns \in [0 .. Capacity(ns) - 1 -> Node]

Unique(ns) == \A i, j \in InUse(ns) : ns[i].key = ns[j].key => i = j

Chains(ns) == \A i \in InUse(ns) : Before(ns, ns[i].key, i) \subseteq InUse(ns)

Probed(ns) == NodesOf(ns) /\ Unique(ns) /\ Chains(ns)

-----------------------------------------------------------------------------

\* A probe comes to a slot after fewer probes than there are slots.
LEMMA DistanceType ==
    ASSUME NEW k \in Keys, NEW n \in Nat \ {0}, NEW i \in 0 .. n - 1
    PROVE  Distance(k, i, n) \in 0 .. n - 1
<1>1. HashOf[k] \in Nat
  BY HashAssumption
<1>2. HashOf[k] % n \in 0 .. n - 1
  BY <1>1
<1>3. i + n - (HashOf[k] % n) \in Nat
  BY <1>2
<1>. QED BY <1>3 DEF Distance

\* The slots of a nonempty set are probed in an order that has a first one.
LEMMA FirstProbed ==
    ASSUME NEW ns, NodesOf(ns), NEW k \in Keys, NEW S \in SUBSET DOMAIN ns, S # {}
    PROVE  \E i \in S : Before(ns, k, i) \cap S = {}
<1> DEFINE n == Capacity(ns)
           D == {Distance(k, i, n) : i \in S}
<1>1. n \in Nat \ {0} /\ DOMAIN ns = 0 .. n - 1
  BY DEF NodesOf
<1>2. \A i \in DOMAIN ns : Distance(k, i, n) \in 0 .. n - 1
  BY <1>1, DistanceType
<1>3. D \in SUBSET Nat /\ D # {}
  BY <1>2
<1>4. PICK d \in D : \A e \in D : d <= e
  BY <1>3, NatMin
<1>5. PICK i \in S : d = Distance(k, i, n)
  OBVIOUS
<1>6. \A j \in S : ~(Distance(k, j, n) < Distance(k, i, n))
  BY <1>2, <1>4, <1>5
<1>. QED BY <1>5, <1>6 DEF Before

NewNode(k, v) == [key |-> k, value |-> v, state |-> "live"]

\* An empty node has no key, and a node in use has one.
LEMMA NodeKeys ==
    ASSUME NEW ns, NodesOf(ns), NEW i \in DOMAIN ns
    PROVE  /\ ns[i].state \in {"empty", "live", "dead"}
           /\ ns[i].state # "empty" => ns[i].key \in Keys
           /\ ns[i].state = "empty" => ns[i].key = NIL
           /\ ns[i].state = "live" =>
                 ns[i].value \in Values /\ ns[i] = NewNode(ns[i].key, ns[i].value)
           /\ ns[i] \in Node
  BY DEF NodesOf, Node, EmptyNode, NewNode

\* findHashNode finds the node of the key whenever there is one, live or dead
\* as asked for: the order of the probes does not show.
LEMMA FindIsSearch ==
    ASSUME NEW ns, Probed(ns), NEW k \in Keys, NEW states \in {Live, LiveOrDead}
    PROVE  Find(ns, k, states) = {i \in DOMAIN ns : ns[i].key = k /\ ns[i].state \in states}
<1>1. ASSUME NEW i \in DOMAIN ns, ns[i].key = k, ns[i].state \in states,
             NEW j \in Before(ns, k, i)
      PROVE  ns[j].state # "empty" /\ ~(ns[j].key = k /\ ns[j].state \in states)
  <2>1. i \in InUse(ns)
    BY <1>1 DEF InUse, Live, LiveOrDead
  <2>2. j \in InUse(ns)
    BY <1>1, <2>1 DEF Probed, Chains
  <2>3. ~(Distance(k, i, Capacity(ns)) < Distance(k, i, Capacity(ns)))
    <3>1. Capacity(ns) \in Nat \ {0} /\ i \in 0 .. Capacity(ns) - 1
      BY DEF Probed, NodesOf
    <3>2. Distance(k, i, Capacity(ns)) \in Nat
      BY <3>1, DistanceType
    <3>. QED BY <3>2
  <2>4. j # i
    BY <1>1, <2>3 DEF Before
  <2>. QED BY <1>1, <2>1, <2>2, <2>4 DEF Probed, Unique, InUse
<1>. QED BY <1>1 DEF Find

\* An insertion finds a place, in front of which every slot is live.
LEMMA PlaceExists ==
    ASSUME NEW ns, NodesOf(ns), NEW k \in Keys, \E i \in DOMAIN ns : ns[i].state # "live"
    PROVE  /\ Place(ns, k) \in DOMAIN ns
           /\ ns[Place(ns, k)].state # "live"
           /\ \A j \in Before(ns, k, Place(ns, k)) : ns[j].state = "live"
<1> DEFINE S == {i \in DOMAIN ns : ns[i].state # "live"}
<1>1. PICK i \in S : Before(ns, k, i) \cap S = {}
  <2>1. S \in SUBSET DOMAIN ns /\ S # {}
    OBVIOUS
  <2> HIDE DEF S
  <2>. QED BY <2>1, FirstProbed
<1>2. \A j \in Before(ns, k, i) : ns[j].state = "live"
  BY <1>1 DEF Before
<1> DEFINE Fit(f) == /\ ns[f].state # "live"
                     /\ \A j \in Before(ns, k, f) : ns[j].state = "live"
<1>3. \E j \in DOMAIN ns : Fit(j)
  BY <1>1, <1>2
<1>4. Place(ns, k) = CHOOSE j \in DOMAIN ns : Fit(j)
  BY DEF Place
<1> HIDE DEF Fit
<1>5. Place(ns, k) \in DOMAIN ns /\ Fit(Place(ns, k))
  BY <1>3, <1>4
<1>. QED BY <1>5 DEF Fit

-----------------------------------------------------------------------------
(***************************************************************************)
(* What the operations do to the nodes.                                    *)
(***************************************************************************)

\* Slot p is given a live node.
Put(ns, p, k, v) == [ns EXCEPT ![p] = NewNode(k, v)]

\* A node is written to the place for its key: setHash of a key that has no
\* node, and one turn of the loop of rehash.
LEMMA InsertKeeps ==
    ASSUME NEW ns, Probed(ns), NEW k \in Keys, NEW v \in Values,
           \A i \in InUse(ns) : ns[i].key # k,
           \E i \in DOMAIN ns : ns[i].state # "live",
           NEW p, p = Place(ns, k), NEW new, new = Put(ns, p, k, v)
    PROVE  /\ p \in DOMAIN ns /\ ns[p].state # "live"
           /\ Probed(new) /\ DOMAIN new = DOMAIN ns
           /\ new[p] = NewNode(k, v) /\ \A i \in DOMAIN ns \ {p} : new[i] = ns[i]
           /\ InUse(new) = InUse(ns) \cup {p}
           /\ LiveNodes(new) = LiveNodes(ns) \cup {p}
<1>1. /\ p \in DOMAIN ns /\ ns[p].state # "live"
      /\ \A j \in Before(ns, k, p) : ns[j].state = "live"
  BY PlaceExists DEF Probed
<1>2. NodesOf(ns)
  BY DEF Probed
<1>3. NewNode(k, v) \in Node
  BY DEF NewNode, Node
<1>4. /\ DOMAIN new = DOMAIN ns
      /\ new[p] = NewNode(k, v) /\ \A i \in DOMAIN ns \ {p} : new[i] = ns[i]
  BY <1>1, <1>2 DEF NodesOf, Put
<1>5. NodesOf(new)
  BY <1>2, <1>3, <1>4 DEF NodesOf, Capacity, Put
<1>6. InUse(new) = InUse(ns) \cup {p}
  BY <1>1, <1>4 DEF InUse, NewNode
<1>7. LiveNodes(new) = LiveNodes(ns) \cup {p}
  BY <1>1, <1>4 DEF LiveNodes, NewNode
<1>8. Unique(new)
  BY <1>4, <1>6 DEF Unique, NewNode, Probed, InUse
<1>9. ASSUME NEW i \in InUse(new) PROVE Before(new, new[i].key, i) \subseteq InUse(new)
  <2>1. Before(new, new[i].key, i) = Before(ns, new[i].key, i)
    BY <1>4 DEF Before, Capacity
  <2>2. CASE i = p
    <3>1. new[i].key = k
      BY <1>4, <2>2 DEF NewNode
    <3>2. Before(ns, k, p) \subseteq InUse(ns)
      BY <1>1 DEF InUse, Before
    <3>. QED BY <1>6, <2>1, <2>2, <3>1, <3>2
  <2>3. CASE i # p
    <3>1. i \in InUse(ns) /\ new[i].key = ns[i].key
      BY <1>4, <1>6, <2>3 DEF InUse
    <3>. QED BY <1>6, <2>1, <3>1 DEF Probed, Chains
  <2>. QED BY <2>2, <2>3
<1>10. Chains(new)
  BY <1>9 DEF Chains
<1>. QED BY <1>1, <1>4, <1>5, <1>6, <1>7, <1>8, <1>10 DEF Probed

\* A node in use is given another value or becomes dead or live, and keeps its key.
LEMMA ChangeKeeps ==
    ASSUME NEW ns, Probed(ns), NEW new \in [DOMAIN ns -> Node],
           \A i \in DOMAIN ns : new[i].key = ns[i].key
    PROVE  /\ Probed(new) /\ InUse(new) = InUse(ns)
<1>1. NodesOf(ns) /\ DOMAIN new = DOMAIN ns
  BY DEF Probed
<1>2. NodesOf(new)
  BY <1>1 DEF NodesOf, Capacity
<1>3. InUse(new) = InUse(ns)
  <2>1. \A i \in DOMAIN ns : ns[i].state = "empty" <=> ns[i].key = NIL
    BY <1>1, NodeKeys, KeysAssumption
  <2>2. \A i \in DOMAIN ns : new[i].state = "empty" <=> new[i].key = NIL
    BY <1>1, <1>2, NodeKeys, KeysAssumption
  <2>. QED BY <1>1, <2>1, <2>2 DEF InUse
<1>4. Unique(new)
  BY <1>1, <1>3 DEF Unique, Probed, InUse
<1>5. ASSUME NEW i \in InUse(new) PROVE Before(new, new[i].key, i) \subseteq InUse(new)
  <2>1. Before(new, new[i].key, i) = Before(ns, ns[i].key, i)
    BY <1>1, <1>3 DEF Before, Capacity, InUse
  <2>. QED BY <1>3, <2>1 DEF Probed, Chains
<1>. QED BY <1>2, <1>3, <1>4, <1>5 DEF Probed, Chains

-----------------------------------------------------------------------------
(***************************************************************************)
(* The number of nodes.                                                    *)
(***************************************************************************)

LEMMA NodesFinite ==
    ASSUME NEW ns, NodesOf(ns)
    PROVE  /\ IsFiniteSet(DOMAIN ns) /\ Cardinality(DOMAIN ns) = Capacity(ns)
           /\ \A S \in SUBSET DOMAIN ns :
                IsFiniteSet(S) /\ Cardinality(S) \in Nat /\ Cardinality(S) <= Capacity(ns)
           /\ IsFiniteSet(LiveNodes(ns)) /\ IsFiniteSet(InUse(ns))
           /\ Cardinality(LiveNodes(ns)) \in Nat /\ Cardinality(InUse(ns)) \in Nat
           /\ Cardinality(LiveNodes(ns)) <= Cardinality(InUse(ns))
           /\ Cardinality(InUse(ns)) <= Capacity(ns)
<1>1. DOMAIN ns = 0 .. Capacity(ns) - 1 /\ Capacity(ns) \in Nat
  BY DEF NodesOf
<1>2. IsFiniteSet(DOMAIN ns)
  BY <1>1, FS_Interval
<1>3. \A S \in SUBSET DOMAIN ns :
         IsFiniteSet(S) /\ Cardinality(S) \in Nat /\ Cardinality(S) <= Capacity(ns)
  BY <1>2, FS_Subset, FS_CardinalityType DEF Capacity
<1>4. LiveNodes(ns) \in SUBSET InUse(ns) /\ InUse(ns) \in SUBSET DOMAIN ns
  BY DEF LiveNodes, InUse
<1>5. LiveNodes(ns) \in SUBSET DOMAIN ns
  BY <1>4
<1>6. Cardinality(LiveNodes(ns)) <= Cardinality(InUse(ns))
  BY <1>3, <1>4, FS_Subset
<1>. QED BY <1>2, <1>3, <1>4, <1>5, <1>6 DEF Capacity

\* With fewer nodes than slots there is a slot without one: a loop that stops
\* at an empty slot ends.
LEMMA RoomLeft ==
    ASSUME NEW ns, NodesOf(ns)
    PROVE  /\ Cardinality(InUse(ns)) < Capacity(ns) => \E i \in DOMAIN ns : ns[i].state = "empty"
           /\ Cardinality(LiveNodes(ns)) < Capacity(ns) => \E i \in DOMAIN ns : ns[i].state # "live"
<1>1. /\ Cardinality(InUse(ns)) = Capacity(ns) \/ InUse(ns) # DOMAIN ns
      /\ Cardinality(LiveNodes(ns)) = Capacity(ns) \/ LiveNodes(ns) # DOMAIN ns
  BY DEF Capacity
<1>2. Capacity(ns) \in Nat /\ Cardinality(InUse(ns)) \in Nat /\ Cardinality(LiveNodes(ns)) \in Nat
  BY NodesFinite DEF NodesOf
<1>3. InUse(ns) \subseteq DOMAIN ns /\ LiveNodes(ns) \subseteq DOMAIN ns
  BY DEF InUse, LiveNodes
<1>. QED BY <1>1, <1>2, <1>3 DEF InUse, LiveNodes

-----------------------------------------------------------------------------
(***************************************************************************)
(* rehash.                                                                 *)
(***************************************************************************)

\* What an array of nodes says: the keys that have a live node, with its value.
Entries(ns) == {<<ns[i].key, ns[i].value>> : i \in LiveNodes(ns)}

\* The loop of rehash: m[i] are the new nodes after i old slots.
LEMMA RehashLoop ==
    ASSUME NEW ns, NodesOf(ns), NEW n \in Nat
    PROVE  \E m \in [0 .. Capacity(ns) -> [0 .. n - 1 -> Node]] :
              /\ Rehashed(ns, n) = m[Capacity(ns)]
              /\ m[0] = [j \in 0 .. n - 1 |-> EmptyNode]
              /\ \A i \in DOMAIN ns :
                    m[i + 1] = IF ns[i].state # "live" THEN m[i]
                               ELSE [m[i] EXCEPT ![Place(m[i], ns[i].key)] = ns[i]]
<1> DEFINE N == Capacity(ns)
           V == [0 .. n - 1 -> Node]
           none == [j \in 0 .. n - 1 |-> EmptyNode]
           Turn(i, t) == IF ns[i].state # "live" THEN t
                         ELSE [t EXCEPT ![Place(t, ns[i].key)] = ns[i]]
           step == [x \in Nat \X V |-> IF x[1] < N THEN Turn(x[1], x[2]) ELSE x[2]]
<1>1. N \in Nat /\ ns \in [0 .. N - 1 -> Node]
  BY DEF NodesOf
<1>2. none \in V
  BY DEF Node
<1>3. \A i \in 0 .. N - 1, t \in V : Turn(i, t) \in V
  BY <1>1
<1>4. IsStep(step, V)
  BY <1>1, <1>3 DEF IsStep
<1> HIDE DEF step, none, V
<1>5. PICK g : IsRun(g, V, none, step)
  BY <1>2, <1>4, NatRecursion
<1>6. g \in [Nat -> V] /\ g[0] = none /\ \A i \in Nat : g[i + 1] = step[<<i, g[i]>>]
  BY <1>5 DEF IsRun
<1>7. \A i \in 0 .. N - 1 : g[i + 1] = Turn(i, g[i])
  <2> HIDE DEF Turn
  <2>1. \A i \in 0 .. N - 1, t \in V : step[<<i, t>>] = Turn(i, t)
    BY <1>1 DEF step
  <2>2. \A i \in 0 .. N - 1 : g[i] \in V /\ g[i + 1] = step[<<i, g[i]>>]
    BY <1>1, <1>6
  <2>. QED BY <2>1, <2>2
<1> DEFINE Loop(f) == [i \in 0 .. N |->
                          IF i = 0 THEN none
                          ELSE IF ns[i - 1].state # "live" THEN f[i - 1]
                          ELSE [f[i - 1] EXCEPT ![Place(f[i - 1], ns[i - 1].key)] = ns[i - 1]]]
           h == [i \in 0 .. N |-> g[i]]
<1>8. h = Loop(h)
  <2>1. ASSUME NEW i \in 0 .. N PROVE h[i] = Loop(h)[i]
    <3>1. CASE i = 0
      BY <1>1, <1>6, <3>1
    <3>2. CASE i # 0
      <4>1. i - 1 \in 0 .. N - 1 /\ i - 1 \in 0 .. N /\ (i - 1) + 1 = i
        BY <1>1, <3>2
      <4>2. g[i] = Turn(i - 1, g[i - 1])
        BY <1>7, <4>1
      <4>. QED BY <3>2, <4>1, <4>2
    <3>. QED BY <3>1, <3>2
  <2>. QED BY <2>1
<1> DEFINE m == CHOOSE f : f = Loop(f)
<1>9. m = Loop(m)
  <2> HIDE DEF Loop, h
  <2>. QED BY <1>8
<1>10. Rehashed(ns, n) = m[N]
  BY DEF Rehashed, none
<1> HIDE DEF m
<1>11. DOMAIN m = 0 .. N /\ m[0] = none
  <2>1. DOMAIN Loop(m) = 0 .. N /\ Loop(m)[0] = none
    BY <1>1
  <2> HIDE DEF Loop
  <2>. QED BY <1>9, <2>1
<1>12. ASSUME NEW i \in 0 .. N - 1 PROVE m[i + 1] = Turn(i, m[i])
  <2>1. i + 1 \in 0 .. N /\ i + 1 # 0 /\ (i + 1) - 1 = i
    BY <1>1
  <2>2. m[i + 1] = Loop(m)[i + 1]
    BY <1>9
  <2>. QED BY <2>1, <2>2
<1>13. m \in [0 .. N -> V]
  <2> DEFINE Typed == {i \in Nat : i <= N => m[i] \in V}
  <2>1. 0 \in Typed
    BY <1>2, <1>11
  <2>2. ASSUME NEW i \in Nat, i \in Typed PROVE i + 1 \in Typed
    <3>1. CASE i + 1 <= N
      <4>1. i \in 0 .. N - 1 /\ m[i] \in V
        BY <1>1, <2>2, <3>1
      <4> HIDE DEF V, Turn
      <4>2. m[i + 1] \in V
        BY <1>3, <1>12, <4>1
      <4>. QED BY <4>2
    <3>. QED BY <1>1, <3>1
  <2>3. Nat \subseteq Typed
    <3> HIDE DEF Typed
    <3>. QED BY <2>1, <2>2, NatInduct
  <2>4. \A i \in 0 .. N : m[i] \in V
    BY <1>1, <2>3
  <2>5. m = [i \in 0 .. N |-> m[i]]
    BY <1>9, <1>11
  <2>. QED BY <2>4, <2>5
<1>14. \A i \in DOMAIN ns :
          m[i + 1] = IF ns[i].state # "live" THEN m[i]
                     ELSE [m[i] EXCEPT ![Place(m[i], ns[i].key)] = ns[i]]
  BY <1>1, <1>12
<1>. QED BY <1>10, <1>11, <1>13, <1>14 DEF V, none

\* rehash keeps the live nodes and drops the dead ones.
LEMMA RehashKeeps ==
    ASSUME NEW ns, Probed(ns), NEW n \in Nat, Cardinality(LiveNodes(ns)) <= n,
           NEW new, new = Rehashed(ns, n)
    PROVE  /\ Probed(new) /\ DOMAIN new = 0 .. n - 1 /\ Capacity(new) = n
           /\ InUse(new) = LiveNodes(new) /\ Entries(new) = Entries(ns)
           /\ Cardinality(LiveNodes(new)) = Cardinality(LiveNodes(ns))
<1> DEFINE N == Capacity(ns)
           Old(i) == {j \in LiveNodes(ns) : j < i}
<1>1. NodesOf(ns) /\ N \in Nat /\ DOMAIN ns = 0 .. N - 1
  BY DEF Probed, NodesOf
<1>2. PICK m \in [0 .. N -> [0 .. n - 1 -> Node]] :
         /\ Rehashed(ns, n) = m[N]
         /\ m[0] = [j \in 0 .. n - 1 |-> EmptyNode]
         /\ \A i \in DOMAIN ns :
               m[i + 1] = IF ns[i].state # "live" THEN m[i]
                          ELSE [m[i] EXCEPT ![Place(m[i], ns[i].key)] = ns[i]]
  BY <1>1, RehashLoop
<1> DEFINE Moved(i) == /\ Probed(m[i]) /\ InUse(m[i]) = LiveNodes(m[i])
                       /\ Entries(m[i]) = {<<ns[j].key, ns[j].value>> : j \in Old(i)}
                       /\ Cardinality(LiveNodes(m[i])) = Cardinality(Old(i))
<1>3. \A i \in 0 .. N : DOMAIN m[i] = 0 .. n - 1 /\ m[i] \in [0 .. n - 1 -> Node]
  BY <1>2
<1>4. Cardinality(0 .. n - 1) = n
  BY FS_Interval
<1>5. \A i \in 0 .. N : NodesOf(m[i]) /\ Capacity(m[i]) = n
  BY <1>3, <1>4 DEF NodesOf, Capacity
<1>6. Moved(0)
  <2>1. \A j \in DOMAIN m[0] : m[0][j].state = "empty"
    BY <1>1, <1>2, <1>3 DEF EmptyNode
  <2>2. InUse(m[0]) = {} /\ LiveNodes(m[0]) = {}
    BY <2>1 DEF InUse, LiveNodes
  <2>3. Old(0) = {}
    BY <1>1 DEF LiveNodes
  <2>4. Probed(m[0])
    BY <1>1, <1>5, <2>2 DEF Probed, Unique, Chains
  <2>. QED BY <2>2, <2>3, <2>4 DEF Entries
<1>7. ASSUME NEW i \in DOMAIN ns, Moved(i) PROVE Moved(i + 1)
  <2>1. i \in Nat /\ i \in 0 .. N /\ i + 1 \in 0 .. N
    BY <1>1
  <2>2. CASE ns[i].state # "live"
    <3>1. Old(i + 1) = Old(i)
      BY <1>1, <2>1, <2>2 DEF LiveNodes
    <3>2. m[i + 1] = m[i]
      BY <1>2, <2>2
    <3>. QED BY <1>7, <3>1, <3>2
  <2>3. CASE ns[i].state = "live"
    <3> DEFINE k == ns[i].key
               v == ns[i].value
               p == Place(m[i], k)
    <3>1. Old(i + 1) = Old(i) \cup {i} /\ i \notin Old(i)
      BY <1>1, <2>1, <2>3 DEF LiveNodes
    <3>2. k \in Keys /\ v \in Values
      BY <1>1, <2>3, NodeKeys
    <3>3. ns[i] = NewNode(k, v)
      BY <1>1, <2>3, NodeKeys
    <3>4. m[i + 1] = Put(m[i], p, k, v)
      BY <1>2, <2>3, <3>3 DEF Put
    <3>5. \A j \in InUse(m[i]) : m[i][j].key # k
      <4>1. SUFFICES ASSUME NEW j \in InUse(m[i]), m[i][j].key = k PROVE FALSE
        OBVIOUS
      <4>2. <<m[i][j].key, m[i][j].value>> \in Entries(m[i])
        BY <1>7, <4>1 DEF Entries
      <4>3. PICK o \in Old(i) : <<m[i][j].key, m[i][j].value>> = <<ns[o].key, ns[o].value>>
        BY <1>7, <4>2
      <4>4. ns[o].key = ns[i].key
        BY <4>1, <4>3
      <4>5. o \in InUse(ns) /\ i \in InUse(ns) /\ o # i
        BY <2>1, <2>3, <3>1 DEF InUse, LiveNodes
      <4>. QED BY <4>4, <4>5 DEF Probed, Unique
    <3>6. IsFiniteSet(Old(i)) /\ Cardinality(Old(i + 1)) = Cardinality(Old(i)) + 1
      <4>1. Old(i) \in SUBSET DOMAIN ns
        BY DEF LiveNodes
      <4> HIDE DEF Old
      <4>2. IsFiniteSet(Old(i))
        BY <1>1, <4>1, NodesFinite
      <4>. QED BY <3>1, <4>2, FS_AddElement
    <3>7. Cardinality(Old(i + 1)) <= n /\ Cardinality(Old(i)) \in Nat
      <4>1. Old(i + 1) \in SUBSET LiveNodes(ns) /\ IsFiniteSet(LiveNodes(ns))
        BY <1>1, NodesFinite
      <4> HIDE DEF Old
      <4>2. Cardinality(Old(i + 1)) <= Cardinality(LiveNodes(ns))
        BY <4>1, FS_Subset
      <4>3. Cardinality(LiveNodes(ns)) \in Nat /\ Cardinality(Old(i)) \in Nat
        BY <1>1, <3>6, NodesFinite, FS_CardinalityType
      <4>. QED BY <3>6, <4>2, <4>3
    <3>8. \E j \in DOMAIN m[i] : m[i][j].state # "live"
      <4>1. Cardinality(LiveNodes(m[i])) < Capacity(m[i])
        BY <1>5, <1>7, <2>1, <3>6, <3>7
      <4>. QED BY <1>5, <2>1, <4>1, RoomLeft
    <3> HIDE DEF k, v, p
    <3>9. /\ p \in DOMAIN m[i] /\ m[i][p].state # "live"
          /\ Probed(m[i + 1])
          /\ m[i + 1][p] = NewNode(k, v)
          /\ \A j \in DOMAIN m[i] \ {p} : m[i + 1][j] = m[i][j]
          /\ InUse(m[i + 1]) = InUse(m[i]) \cup {p}
          /\ LiveNodes(m[i + 1]) = LiveNodes(m[i]) \cup {p}
      <4>1. p = Place(m[i], k)
        BY DEF p
      <4>. QED BY <1>7, <3>2, <3>4, <3>5, <3>8, <4>1, InsertKeeps
    <3>10. p \notin LiveNodes(m[i]) /\ LiveNodes(m[i]) \subseteq DOMAIN m[i]
      BY <3>9 DEF LiveNodes
    <3>11. Entries(m[i + 1]) = Entries(m[i]) \cup {<<k, v>>}
      <4>1. m[i + 1][p].key = k /\ m[i + 1][p].value = v
        BY <3>9 DEF NewNode
      <4>2. \A j \in LiveNodes(m[i]) : m[i + 1][j] = m[i][j]
        BY <3>9, <3>10
      <4>. QED BY <3>9, <4>1, <4>2 DEF Entries
    <3>12. Entries(m[i + 1]) = {<<ns[j].key, ns[j].value>> : j \in Old(i + 1)}
      BY <1>7, <3>1, <3>11 DEF k, v
    <3>13. Cardinality(LiveNodes(m[i + 1])) = Cardinality(LiveNodes(m[i])) + 1
      BY <1>5, <2>1, <3>9, <3>10, NodesFinite, FS_AddElement
    <3>14. InUse(m[i + 1]) = LiveNodes(m[i + 1])
      BY <1>7, <3>9
    <3>. QED BY <1>7, <3>6, <3>9, <3>12, <3>13, <3>14
  <2>. QED BY <2>2, <2>3
<1>8. Moved(N)
  <2> DEFINE Done == {i \in Nat : i <= N => Moved(i)}
  <2>1. 0 \in Done
    BY <1>6
  <2>2. ASSUME NEW i \in Nat, i \in Done PROVE i + 1 \in Done
    <3> HIDE DEF Moved
    <3>1. i + 1 <= N => i \in DOMAIN ns /\ Moved(i)
      BY <1>1, <2>2
    <3>. QED BY <1>7, <3>1
  <2> HIDE DEF Done, Moved
  <2>3. Nat \subseteq Done
    BY <2>1, <2>2, NatInduct
  <2>. QED BY <1>1, <2>3 DEF Done
<1>9. Old(N) = LiveNodes(ns)
  BY <1>1 DEF LiveNodes
<1>10. new = m[N] /\ N \in 0 .. N
  BY <1>1, <1>2
<1>. QED BY <1>3, <1>5, <1>8, <1>9, <1>10 DEF Entries

-----------------------------------------------------------------------------
(***************************************************************************)
(* ensureHashInsertCapacity.                                               *)
(***************************************************************************)

\* The capacities grow by doubling from the first one.
LEMMA DoubledValues ==
    /\ Doubled[0] = MinNodes
    /\ \A e \in Nat : Doubled[e] \in Nat /\ Doubled[e + 1] = 2 * Doubled[e] /\ Doubled[e] >= e + 4
<1> DEFINE step == [x \in Nat \X Nat |-> 2 * x[2]]
           Def(f) == [e \in Nat |-> IF e = 0 THEN MinNodes ELSE 2 * f[e - 1]]
<1>1. MinNodes \in Nat /\ MinNodes >= 4
  BY SizesAssumption
<1>2. IsStep(step, Nat)
  BY DEF IsStep
<1>3. \A i, t \in Nat : step[<<i, t>>] = 2 * t
  OBVIOUS
<1> HIDE DEF step
<1>4. PICK g : IsRun(g, Nat, MinNodes, step)
  BY <1>1, <1>2, NatRecursion
<1>5. g \in [Nat -> Nat] /\ g[0] = MinNodes /\ \A i \in Nat : g[i + 1] = 2 * g[i]
  BY <1>3, <1>4 DEF IsRun
<1>6. g = Def(g)
  <2>1. ASSUME NEW e \in Nat PROVE g[e] = Def(g)[e]
    <3>1. CASE e = 0
      BY <1>5, <3>1
    <3>2. CASE e # 0
      <4>1. e - 1 \in Nat /\ (e - 1) + 1 = e
        BY <3>2
      <4>2. g[e] = 2 * g[e - 1]
        BY <1>5, <4>1
      <4>. QED BY <3>2, <4>2
    <3>. QED BY <3>1, <3>2
  <2>. QED BY <1>5, <2>1
<1>7. Doubled = CHOOSE f : f = Def(f)
  BY DEF Doubled
<1>8. Doubled = Def(Doubled)
  <2> HIDE DEF Def
  <2>. QED BY <1>6, <1>7
<1>9. Doubled[0] = MinNodes
  <2>1. Def(Doubled)[0] = MinNodes
    OBVIOUS
  <2> HIDE DEF Def
  <2>. QED BY <1>8, <2>1
<1>10. ASSUME NEW e \in Nat PROVE Doubled[e + 1] = 2 * Doubled[e]
  <2>1. e + 1 \in Nat /\ e + 1 # 0 /\ (e + 1) - 1 = e
    OBVIOUS
  <2>2. Def(Doubled)[e + 1] = 2 * Doubled[e]
    BY <2>1
  <2> HIDE DEF Def
  <2>. QED BY <1>8, <2>2
<1> DEFINE Large == {e \in Nat : Doubled[e] \in Nat /\ Doubled[e] >= e + 4}
<1>11. 0 \in Large
  BY <1>1, <1>9
<1>12. ASSUME NEW e \in Nat, e \in Large PROVE e + 1 \in Large
  BY <1>10, <1>12
<1>13. Nat \subseteq Large
  <2> HIDE DEF Large
  <2>. QED BY <1>11, <1>12, NatInduct
<1>. QED BY <1>9, <1>10, <1>13

\* A capacity of the hash part.
IsSize(n) == n = 0 \/ \E e \in Nat : n = Doubled[e]

LEMMA Sizes ==
    /\ IsSize(0) /\ IsSize(MinNodes)
    /\ \A n \in Nat \ {0} : IsSize(n) => n >= 4 /\ IsSize(2 * n) /\ \E e \in 0 .. n : n = Doubled[e]
<1>1. IsSize(0) /\ IsSize(MinNodes)
  BY DoubledValues DEF IsSize
<1>2. ASSUME NEW n \in Nat \ {0}, IsSize(n)
      PROVE  n >= 4 /\ IsSize(2 * n) /\ \E e \in 0 .. n : n = Doubled[e]
  <2>1. PICK e \in Nat : n = Doubled[e]
    BY <1>2 DEF IsSize
  <2>2. n >= e + 4 /\ 2 * n = Doubled[e + 1]
    BY <2>1, DoubledValues
  <2>3. e + 1 \in Nat /\ e \in 0 .. n
    BY <2>2
  <2>. QED BY <2>1, <2>2, <2>3 DEF IsSize
<1>. QED BY <1>1, <1>2

\* The hash part with its counters.
HashOK(ns, l, u) ==
    /\ Probed(ns) /\ IsSize(Capacity(ns))
    /\ l = Cardinality(LiveNodes(ns)) /\ u = Cardinality(InUse(ns))

\* Some node is always empty.
NotFull(ns, u) == Capacity(ns) > 0 => u < Capacity(ns)

\* There is room for one more node and still an empty one, and the keys are
\* the same, apart from dead ones.
LEMMA RoomKeeps ==
    ASSUME HashOK(nodes, live, used), NotFull(nodes, used)
    PROVE  /\ HashOK(Room.nodes, live, Room.used) /\ Room.used + 1 < Capacity(Room.nodes)
           /\ Entries(Room.nodes) = Entries(nodes)
           /\ \A i \in InUse(Room.nodes) : \E j \in InUse(nodes) : nodes[j].key = Room.nodes[i].key
<1> DEFINE n == Capacity(nodes)
<1>1. /\ Probed(nodes) /\ NodesOf(nodes) /\ IsSize(n) /\ n \in Nat
      /\ live = Cardinality(LiveNodes(nodes)) /\ used = Cardinality(InUse(nodes))
  BY DEF HashOK, Probed, NodesOf
<1>2. live \in Nat /\ used \in Nat /\ live <= used /\ used <= n
  BY <1>1, NodesFinite
<1>3. ASSUME NEW m \in Nat, IsSize(m), live + 1 < m,
             Room = [nodes |-> Rehashed(nodes, m), used |-> live]
      PROVE  /\ HashOK(Room.nodes, live, Room.used) /\ Room.used + 1 < Capacity(Room.nodes)
             /\ Entries(Room.nodes) = Entries(nodes)
             /\ \A i \in InUse(Room.nodes) : \E j \in InUse(nodes) : nodes[j].key = Room.nodes[i].key
  <2> DEFINE new == Rehashed(nodes, m)
  <2>1. Room.nodes = new /\ Room.used = live
    BY <1>3
  <2> HIDE DEF new
  <2>2. new = Rehashed(nodes, m) /\ Cardinality(LiveNodes(nodes)) <= m
    BY <1>1, <1>2, <1>3 DEF new
  <2>3. /\ Probed(new) /\ Capacity(new) = m
        /\ InUse(new) = LiveNodes(new) /\ Entries(new) = Entries(nodes)
        /\ Cardinality(LiveNodes(new)) = Cardinality(LiveNodes(nodes))
    BY <1>1, <2>2, RehashKeeps
  <2>4. ASSUME NEW i \in InUse(new) PROVE \E j \in InUse(nodes) : nodes[j].key = new[i].key
    <3>1. <<new[i].key, new[i].value>> \in Entries(nodes)
      BY <2>3 DEF Entries
    <3>2. PICK j \in LiveNodes(nodes) : <<new[i].key, new[i].value>> = <<nodes[j].key, nodes[j].value>>
      BY <3>1 DEF Entries
    <3>3. j \in InUse(nodes)
      BY DEF LiveNodes, InUse
    <3>. QED BY <3>2, <3>3
  <2>. QED BY <1>1, <1>3, <2>1, <2>3, <2>4 DEF HashOK
<1>4. CASE n = 0
  <2>1. Room = [nodes |-> Rehashed(nodes, MinNodes), used |-> live]
    BY <1>4 DEF Room
  <2>2. live + 1 < MinNodes /\ MinNodes \in Nat
    BY <1>2, <1>4, SizesAssumption
  <2>. QED BY <1>3, <2>1, <2>2, Sizes
<1>5. CASE n # 0
  <2>1. n >= 4 /\ IsSize(2 * n) /\ n \in Nat \ {0}
    BY <1>1, <1>5, Sizes
  <2>2. CASE used + 1 <= n - (n \div 4)
    <3>1. Room.nodes = nodes /\ Room.used = used
      BY <1>5, <2>2 DEF Room
    <3>2. used + 1 < n
      BY <1>2, <2>1, <2>2
    <3>. QED BY <3>1, <3>2
  <2>3. CASE ~(used + 1 <= n - (n \div 4)) /\ live * 2 < used
    <3>1. Room = [nodes |-> Rehashed(nodes, n), used |-> live]
      BY <1>5, <2>3 DEF Room
    <3>2. live + 1 < n
      BY <1>2, <2>1, <2>3
    <3>. QED BY <1>1, <1>3, <3>1, <3>2
  <2>4. CASE ~(used + 1 <= n - (n \div 4)) /\ ~(live * 2 < used)
    <3>1. Room = [nodes |-> Rehashed(nodes, 2 * n), used |-> live]
      BY <1>5, <2>4 DEF Room
    <3>2. live + 1 < 2 * n /\ 2 * n \in Nat
      BY <1>2, <2>1 DEF NotFull
    <3>. QED BY <1>3, <2>1, <3>1, <3>2
  <2>. QED BY <2>2, <2>3, <2>4
<1>. QED BY <1>4, <1>5

-----------------------------------------------------------------------------
(***************************************************************************)
(* removeHash and setHash.                                                 *)
(***************************************************************************)

\* A node that dies keeps its key.
DeadNode(node) == [node EXCEPT !.value = NIL, !.state = "dead"]

LEMMA DeadNodeType ==
    ASSUME NEW k, NEW v, NEW node, node = NewNode(k, v)
    PROVE  DeadNode(node) \in [key : {k}, value : {NIL}, state : {"dead"}]
  BY DEF NewNode, DeadNode

\* The live nodes of the keys ks, and the nodes after those in gone died.
Holders(ns, ks) == UNION {Find(ns, k, Live) : k \in ks}

Erased(ns, gone) == [i \in DOMAIN ns |-> IF i \in gone THEN DeadNode(ns[i]) ELSE ns[i]]

\* The nodes of the keys ks die.
LEMMA EraseKeeps ==
    ASSUME NEW ns, Probed(ns), NEW ks \in SUBSET Keys,
           NEW gone, gone = Holders(ns, ks), NEW new, new = Erased(ns, gone)
    PROVE  /\ Probed(new) /\ InUse(new) = InUse(ns) /\ Capacity(new) = Capacity(ns)
           /\ \A i \in DOMAIN ns : new[i].key = ns[i].key
           /\ LiveNodes(new) = LiveNodes(ns) \ gone
           /\ Cardinality(LiveNodes(new)) = Cardinality(LiveNodes(ns)) - Cardinality(gone)
           /\ Entries(new) = {e \in Entries(ns) : e[1] \notin ks}
<1>1. NodesOf(ns)
  BY DEF Probed
<1>2. gone = {i \in LiveNodes(ns) : ns[i].key \in ks}
  <2>1. \A k \in ks : Find(ns, k, Live) = {i \in DOMAIN ns : ns[i].key = k /\ ns[i].state \in Live}
    BY FindIsSearch
  <2>2. \A i : i \in gone <=> \E k \in ks : i \in Find(ns, k, Live)
    BY Zenon DEF Holders
  <2>3. ASSUME NEW i \in gone PROVE i \in LiveNodes(ns) /\ ns[i].key \in ks
    <3>1. PICK k \in ks : i \in Find(ns, k, Live)
      BY <2>2
    <3>. QED BY <2>1, <3>1 DEF Live, LiveNodes
  <2>4. ASSUME NEW i \in LiveNodes(ns), ns[i].key \in ks PROVE i \in gone
    <3>1. i \in Find(ns, ns[i].key, Live)
      BY <2>1, <2>4 DEF Live, LiveNodes
    <3>. QED BY <2>2, <2>4, <3>1
  <2>. QED BY <2>3, <2>4
<1>3. ASSUME NEW i \in gone
      PROVE  /\ new[i] \in Node /\ new[i].key = ns[i].key
             /\ new[i].state = "dead" /\ i \in DOMAIN ns
  <2> DEFINE k == ns[i].key
             v == ns[i].value
  <2>1. i \in DOMAIN ns /\ k \in Keys /\ ns[i] = NewNode(k, v)
    BY <1>1, <1>2, NodeKeys DEF LiveNodes
  <2>2. new[i] = DeadNode(ns[i])
    BY <2>1 DEF Erased
  <2> HIDE DEF k, v
  <2>3. new[i] \in [key : {k}, value : {NIL}, state : {"dead"}]
    BY ONLY <2>1, <2>2, DeadNodeType
  <2>4. new[i] \in Node /\ new[i].key = k /\ new[i].state = "dead"
    BY <2>1, <2>3 DEF Node
  <2>. QED BY <2>1, <2>4 DEF k
<1>4. \A i \in DOMAIN ns \ gone : new[i] = ns[i]
  BY DEF Erased
<1>5. new \in [DOMAIN ns -> Node]
  BY <1>1, <1>3, <1>4, NodeKeys DEF Erased
<1>6. \A i \in DOMAIN ns : new[i].key = ns[i].key
  BY <1>3, <1>4
<1>7. Probed(new) /\ InUse(new) = InUse(ns)
  BY <1>5, <1>6, ChangeKeeps
<1>8. DOMAIN new = DOMAIN ns
  BY DEF Erased
<1>9. LiveNodes(new) = LiveNodes(ns) \ gone
  BY <1>3, <1>4, <1>8 DEF LiveNodes
<1>10. Cardinality(LiveNodes(new)) = Cardinality(LiveNodes(ns)) - Cardinality(gone)
  <2>1. gone \in SUBSET LiveNodes(ns) /\ IsFiniteSet(LiveNodes(ns))
    BY <1>1, <1>2, NodesFinite
  <2>2. LiveNodes(ns) \cap gone = gone
    BY <2>1
  <2>3. Cardinality(LiveNodes(ns) \ gone)
          = Cardinality(LiveNodes(ns)) - Cardinality(LiveNodes(ns) \cap gone)
    BY <2>1, FS_Difference
  <2>. QED BY <1>9, <2>2, <2>3
<1>11. Entries(new) = {e \in Entries(ns) : e[1] \notin ks}
  <2>1. \A i \in LiveNodes(new) : new[i] = ns[i] /\ i \in LiveNodes(ns) /\ ns[i].key \notin ks
    BY <1>2, <1>4, <1>9 DEF LiveNodes
  <2>2. \A i \in LiveNodes(ns) : ns[i].key \notin ks => i \in LiveNodes(new) /\ new[i] = ns[i]
    BY <1>2, <1>4, <1>9 DEF LiveNodes
  <2>3. ASSUME NEW e \in Entries(new) PROVE e \in Entries(ns) /\ e[1] \notin ks
    <3>1. PICK i \in LiveNodes(new) : e = <<new[i].key, new[i].value>>
      BY <2>3 DEF Entries
    <3>. QED BY <2>1, <3>1 DEF Entries
  <2>4. ASSUME NEW e \in Entries(ns), e[1] \notin ks PROVE e \in Entries(new)
    <3>1. PICK i \in LiveNodes(ns) : e = <<ns[i].key, ns[i].value>>
      BY <2>4 DEF Entries
    <3>. QED BY <2>2, <2>4, <3>1 DEF Entries
  <2>. QED BY <2>3, <2>4
<1>. QED BY <1>6, <1>7, <1>8, <1>9, <1>10, <1>11 DEF Capacity

\* A node of the key is written, live or dead.
LEMMA OverwriteKeeps ==
    ASSUME NEW ns, Probed(ns), NEW k \in Keys, NEW v \in Values,
           NEW i \in DOMAIN ns, ns[i].key = k, ns[i].state \in LiveOrDead,
           NEW new, new = Put(ns, i, k, v)
    PROVE  /\ Probed(new) /\ InUse(new) = InUse(ns) /\ Capacity(new) = Capacity(ns)
           /\ \A j \in DOMAIN ns : new[j].key = ns[j].key
           /\ Cardinality(LiveNodes(new))
                = Cardinality(LiveNodes(ns)) + (IF ns[i].state = "dead" THEN 1 ELSE 0)
           /\ Entries(new) = {e \in Entries(ns) : e[1] # k} \cup {<<k, v>>}
<1>1. NodesOf(ns) /\ DOMAIN new = DOMAIN ns /\ new[i] = NewNode(k, v)
  BY DEF Probed, Put
<1>2. \A j \in DOMAIN ns \ {i} : new[j] = ns[j]
  BY DEF Put
<1>3. NewNode(k, v) \in Node
  BY DEF NewNode, Node
<1>4. new \in [DOMAIN ns -> Node]
  BY <1>1, <1>2, <1>3, NodeKeys DEF Put
<1>5. \A j \in DOMAIN ns : new[j].key = ns[j].key
  BY <1>1, <1>2 DEF NewNode
<1>6. Probed(new) /\ InUse(new) = InUse(ns)
  BY <1>4, <1>5, ChangeKeeps
<1>7. LiveNodes(new) = LiveNodes(ns) \cup {i}
  BY <1>1, <1>2 DEF LiveNodes, NewNode
<1>8. IsFiniteSet(LiveNodes(ns)) /\ Cardinality(LiveNodes(ns)) \in Nat
  BY <1>1, NodesFinite
<1>9. Cardinality(LiveNodes(new))
        = Cardinality(LiveNodes(ns)) + (IF ns[i].state = "dead" THEN 1 ELSE 0)
  <2>1. CASE ns[i].state = "dead"
    <3>1. i \notin LiveNodes(ns)
      BY <2>1 DEF LiveNodes
    <3>. QED BY <1>7, <1>8, <2>1, <3>1, FS_AddElement
  <2>2. CASE ns[i].state = "live"
    <3>1. LiveNodes(new) = LiveNodes(ns)
      BY <1>7, <2>2 DEF LiveNodes
    <3>. QED BY <1>8, <2>2, <3>1
  <2>. QED BY <2>1, <2>2 DEF LiveOrDead
<1>10. \A j \in LiveNodes(ns) \ {i} : ns[j].key # k /\ new[j] = ns[j]
  BY <1>2 DEF Probed, Unique, InUse, LiveNodes, LiveOrDead
<1>11. new[i].key = k /\ new[i].value = v
  BY <1>1 DEF NewNode
<1>12. Entries(new) = {e \in Entries(ns) : e[1] # k} \cup {<<k, v>>}
  <2>1. ASSUME NEW e \in Entries(new) PROVE e = <<k, v>> \/ (e \in Entries(ns) /\ e[1] # k)
    <3>1. PICK j \in LiveNodes(new) : e = <<new[j].key, new[j].value>>
      BY <2>1 DEF Entries
    <3>2. CASE j = i
      BY <1>11, <3>1, <3>2
    <3>3. CASE j # i
      <4>1. j \in LiveNodes(ns) /\ e = <<ns[j].key, ns[j].value>> /\ ns[j].key # k
        BY <1>7, <1>10, <3>1, <3>3
      <4>. QED BY <4>1 DEF Entries
    <3>. QED BY <3>2, <3>3
  <2>2. ASSUME NEW e \in Entries(ns), e[1] # k PROVE e \in Entries(new)
    <3>1. PICK j \in LiveNodes(ns) : e = <<ns[j].key, ns[j].value>>
      BY <2>2 DEF Entries
    <3>2. j # i /\ j \in LiveNodes(new) /\ new[j] = ns[j]
      BY <1>7, <1>10, <2>2, <3>1
    <3>. QED BY <3>1, <3>2 DEF Entries
  <2>3. <<k, v>> \in Entries(new)
    BY <1>7, <1>11 DEF Entries
  <2>. QED BY <2>1, <2>2, <2>3
<1>. QED BY <1>1, <1>5, <1>6, <1>9, <1>12 DEF Capacity

-----------------------------------------------------------------------------
(***************************************************************************)
(* The invariant.                                                          *)
(***************************************************************************)

ArrayOK(arr) == arr \in Seq(Values \cup {NIL}) /\ Len(arr) <= MaxArray

\* What the table stores is what the program has stored, and no key of the
\* hash part is an index of the array.
Agrees(arr, ns, mp) ==
    \A k \in Keys, v \in Values :
        mp[k] = v <=> (k \in 1 .. Len(arr) /\ arr[k] = v) \/ <<k, v>> \in Entries(ns)

Apart(arr, ns) == \A e \in Entries(ns) : e[1] \notin 1 .. Len(arr)

HashInv ==
    /\ HashOK(nodes, live, used) /\ NotFull(nodes, used) /\ live <= MaxHash

TableInv ==
    /\ ArrayOK(array) /\ HashInv /\ Apart(array, nodes)
    /\ map \in [Keys -> Values \cup {NIL}] /\ Agrees(array, nodes, map)

TraversalOK ==
    /\ at \in Keys \cup {Idle, Start, Invalid}
    /\ seen \subseteq Keys /\ mixed \in BOOLEAN

Inv == TableInv /\ TraversalOK

\* The entries of sound nodes are pairs of a key and a value.
LEMMA EntryTypes ==
    ASSUME NEW ns, Probed(ns)
    PROVE  Entries(ns) \subseteq Keys \X Values
<1>1. NodesOf(ns)
  BY DEF Probed
<1>. QED BY <1>1, NodeKeys DEF Entries, LiveNodes

\* Every index of the array is a key.
LEMMA IndexIsKey ==
    ASSUME NEW arr, ArrayOK(arr)
    PROVE  /\ Len(arr) \in Nat /\ DOMAIN arr = 1 .. Len(arr)
           /\ 1 .. Len(arr) \subseteq Indexes /\ 1 .. Len(arr) \subseteq Keys
           /\ \A i \in 1 .. Len(arr) : arr[i] \in Values \cup {NIL}
  BY SizesAssumption DEF ArrayOK, Keys

\* The keys that the array part answers for.
LEMMA InArrayMeans ==
    ASSUME ArrayOK(array), NEW k
    PROVE  InArray(k) <=> k \in 1 .. Len(array)
<1>1. Len(array) \in Nat /\ 1 .. Len(array) \subseteq Indexes
  BY IndexIsKey
<1>2. k \in Indexes => k \in Nat /\ k # 0
  BY KeysAssumption
<1>. QED BY <1>1, <1>2 DEF InArray

\* In a sound table get answers what was stored last.
LEMMA GetIsMap ==
    TableInv => ActsAsMap
<1>1. SUFFICES ASSUME TableInv, NEW k \in Keys PROVE Get(k) = map[k]
  BY DEF ActsAsMap
<1>2. /\ ArrayOK(array) /\ Probed(nodes) /\ NodesOf(nodes) /\ Apart(array, nodes)
      /\ map[k] \in Values \cup {NIL} /\ NIL \notin Values
      /\ \A v \in Values :
            map[k] = v <=> (k \in 1 .. Len(array) /\ array[k] = v) \/ <<k, v>> \in Entries(nodes)
  BY <1>1, KeysAssumption DEF TableInv, HashInv, HashOK, Probed, Agrees
<1>3. InArray(k) <=> k \in 1 .. Len(array)
  BY <1>2, InArrayMeans
<1> DEFINE F == Find(nodes, k, Live)
<1>4. F = {i \in DOMAIN nodes : nodes[i].key = k /\ nodes[i].state \in Live}
  BY <1>2, FindIsSearch
<1>5. \A i : i \in F <=> i \in LiveNodes(nodes) /\ nodes[i].key = k
  BY <1>4 DEF LiveNodes, Live
<1>6. CASE InArray(k) /\ array[k] # NIL
  <2>1. array[k] \in Values
    BY <1>2, <1>3, <1>6, IndexIsKey
  <2>. QED BY <1>2, <1>3, <1>6, <2>1 DEF Get
<1>7. CASE ~(InArray(k) /\ array[k] # NIL) /\ F = {}
  <2>1. Get(k) = NIL
    BY <1>7 DEF Get
  <2>2. \A v \in Values : <<k, v>> \notin Entries(nodes)
    BY <1>5, <1>7 DEF Entries
  <2>. QED BY <1>2, <1>3, <1>7, <2>1, <2>2
<1>8. CASE ~(InArray(k) /\ array[k] # NIL) /\ F # {}
  <2> DEFINE c == CHOOSE i \in F : TRUE
  <2>1. c \in F
    BY <1>8
  <2>2. Get(k) = nodes[c].value
    BY <1>8 DEF Get
  <2> HIDE DEF c
  <2>3. c \in LiveNodes(nodes) /\ nodes[c].key = k
    BY <1>5, <2>1
  <2>4. nodes[c].value \in Values
    BY <1>2, <2>3, NodeKeys DEF LiveNodes
  <2>5. <<k, nodes[c].value>> \in Entries(nodes)
    BY <2>3 DEF Entries
  <2>. QED BY <1>2, <2>2, <2>4, <2>5
<1>. QED BY <1>6, <1>7, <1>8

\* The invariant says that the hash part is sound.
LEMMA InvIsSound ==
    Inv => NodesSound
<1>1. SUFFICES ASSUME Inv PROVE NodesSound
  OBVIOUS
<1> DEFINE n == Capacity(nodes)
<1>2. /\ ArrayOK(array) /\ Probed(nodes) /\ NodesOf(nodes) /\ IsSize(n)
      /\ live = Cardinality(LiveNodes(nodes)) /\ used = Cardinality(InUse(nodes))
      /\ NotFull(nodes, used) /\ live <= MaxHash /\ Apart(array, nodes)
      /\ map \in [Keys -> Values \cup {NIL}] /\ TraversalOK
  BY <1>1 DEF Inv, TableInv, HashInv, HashOK, Probed
<1>3. n = 0 \/ \E e \in 0 .. n : n = Doubled[e]
  BY <1>2, Sizes DEF NodesOf
<1>4. InUse(nodes) = {i \in DOMAIN nodes : nodes[i].state # "empty"}
  BY DEF InUse
<1>5. TypeOK
  BY <1>2, <1>3, <1>4 DEF TypeOK, ArrayOK, NodesOf, TraversalOK
<1>6. ProbingEnds
  <2>1. CASE n = 0
    <3>1. nodes = <<>>
      BY <1>2, <2>1 DEF NodesOf
    <3>. QED BY <3>1 DEF ProbingEnds
  <2>2. CASE n # 0
    <3>1. used < n
      BY <1>2, <2>2 DEF NotFull, NodesOf
    <3>. QED BY <1>2, <3>1, RoomLeft DEF ProbingEnds
  <2>. QED BY <2>1, <2>2
<1>7. OnePlace
  <2>1. \A i, j \in DOMAIN nodes :
           nodes[i].state # "empty" /\ nodes[i].key = nodes[j].key => i = j
    <3>1. SUFFICES ASSUME NEW i \in DOMAIN nodes, NEW j \in DOMAIN nodes,
                          nodes[i].state # "empty", nodes[i].key = nodes[j].key
                   PROVE  i = j
      OBVIOUS
    <3>2. nodes[j].state # "empty"
      BY <1>2, <3>1, NodeKeys, KeysAssumption
    <3>. QED BY <1>2, <3>1, <3>2 DEF Probed, Unique, InUse
  <2>2. ASSUME NEW i \in LiveNodes(nodes) PROVE ~InArray(nodes[i].key)
    <3>1. <<nodes[i].key, nodes[i].value>> \in Entries(nodes)
      BY DEF Entries
    <3>2. nodes[i].key \notin 1 .. Len(array)
      BY <1>2, <3>1 DEF Apart
    <3>. QED BY <1>2, <3>2, InArrayMeans
  <2>. QED BY <2>1, <2>2 DEF OnePlace
<1>8. Chained
  <2>1. ASSUME NEW i \in DOMAIN nodes, nodes[i].state # "empty",
               NEW j \in Before(nodes, nodes[i].key, i)
        PROVE  nodes[j].state # "empty"
    BY <1>2, <2>1 DEF Probed, Chains, InUse
  <2>. QED BY <2>1 DEF Chained
<1>. QED BY <1>5, <1>6, <1>7, <1>8 DEF NodesSound

-----------------------------------------------------------------------------
(***************************************************************************)
(* The steps.                                                              *)
(***************************************************************************)

\* The slots keep their keys.
SameKeys ==
    /\ InUse(nodes') = InUse(nodes)
    /\ \A i \in InUse(nodes) : nodes'[i].key = nodes[i].key

LEMMA RemoveHashStep ==
    ASSUME HashInv, NEW ks \in SUBSET Keys, RemoveHash(ks)
    PROVE  /\ HashInv' /\ Entries(nodes') = {e \in Entries(nodes) : e[1] \notin ks}
           /\ SameKeys
<1> DEFINE gone == Holders(nodes, ks)
<1>1. nodes' = Killed(gone) /\ live' = live - Cardinality(gone) /\ used' = used
  BY DEF RemoveHash, Holders
<1>2. nodes' = Erased(nodes, gone)
  BY <1>1 DEF Killed, Erased, DeadNode
<1> HIDE DEF gone
<1>3. Probed(nodes) /\ NodesOf(nodes)
  BY DEF HashInv, HashOK, Probed
<1>4. /\ Probed(nodes') /\ InUse(nodes') = InUse(nodes) /\ Capacity(nodes') = Capacity(nodes)
      /\ \A i \in DOMAIN nodes : nodes'[i].key = nodes[i].key
      /\ LiveNodes(nodes') = LiveNodes(nodes) \ gone
      /\ Cardinality(LiveNodes(nodes')) = Cardinality(LiveNodes(nodes)) - Cardinality(gone)
      /\ Entries(nodes') = {e \in Entries(nodes) : e[1] \notin ks}
  BY <1>2, <1>3, EraseKeeps DEF gone
<1>5. Cardinality(LiveNodes(nodes')) <= Cardinality(LiveNodes(nodes))
  BY <1>3, <1>4, NodesFinite, FS_Subset
<1>6. Cardinality(LiveNodes(nodes')) \in Nat /\ Cardinality(LiveNodes(nodes)) \in Nat
  BY <1>3, <1>4, NodesFinite DEF Probed
<1>7. live' <= MaxHash
  BY <1>1, <1>4, <1>5, <1>6, SizesAssumption DEF HashInv, HashOK
<1>. QED BY <1>1, <1>4, <1>7 DEF HashInv, HashOK, NotFull, SameKeys, InUse

LEMMA SetHashStep ==
    ASSUME HashInv, NEW k \in Keys, NEW v \in Values, SetHash(k, v)
    PROVE  /\ HashInv' /\ array' = array
           /\ Entries(nodes') = {e \in Entries(nodes) : e[1] # k} \cup {<<k, v>>}
           /\ (\E i \in InUse(nodes) : nodes[i].key = k) => SameKeys
<1> DEFINE found == Find(nodes, k, LiveOrDead)
           place == Place(Room.nodes, k)
<1>1. /\ HashOK(nodes, live, used) /\ NotFull(nodes, used) /\ live <= MaxHash
      /\ Probed(nodes) /\ NodesOf(nodes) /\ IsSize(Capacity(nodes))
      /\ live = Cardinality(LiveNodes(nodes)) /\ used = Cardinality(InUse(nodes))
      /\ live \in Nat /\ used \in Nat /\ MaxHash \in Nat
  BY NodesFinite, SizesAssumption DEF HashInv, HashOK, Probed
<1>2. found = {i \in DOMAIN nodes : nodes[i].key = k /\ nodes[i].state \in LiveOrDead}
  BY <1>1, FindIsSearch
<1>3. array' = array
  BY DEF SetHash
<1>4. ASSUME NEW i \in found,
             nodes[i].state = "dead" => live < MaxHash,
             nodes' = Put(nodes, i, k, v),
             live' = IF nodes[i].state = "dead" THEN live + 1 ELSE live,
             used' = used
      PROVE  /\ HashInv' /\ SameKeys
             /\ Entries(nodes') = {e \in Entries(nodes) : e[1] # k} \cup {<<k, v>>}
  <2>1. i \in DOMAIN nodes /\ nodes[i].key = k /\ nodes[i].state \in LiveOrDead
    BY <1>2
  <2>2. /\ Probed(nodes') /\ InUse(nodes') = InUse(nodes) /\ Capacity(nodes') = Capacity(nodes)
        /\ \A j \in DOMAIN nodes : nodes'[j].key = nodes[j].key
        /\ Cardinality(LiveNodes(nodes')) = live + (IF nodes[i].state = "dead" THEN 1 ELSE 0)
        /\ Entries(nodes') = {e \in Entries(nodes) : e[1] # k} \cup {<<k, v>>}
    BY <1>1, <1>4, <2>1, OverwriteKeeps
  <2>3. live' = Cardinality(LiveNodes(nodes')) /\ live' <= MaxHash
    BY <1>1, <1>4, <2>2
  <2>. QED BY <1>1, <1>4, <2>2, <2>3 DEF HashInv, HashOK, NotFull, SameKeys, InUse
<1>5. ASSUME found = {}, live < MaxHash,
             nodes' = Put(Room.nodes, place, k, v),
             live' = live + 1,
             used' = Room.used + (IF Room.nodes[place].state = "dead" THEN 0 ELSE 1)
      PROVE  /\ HashInv' /\ \A i \in InUse(nodes) : nodes[i].key # k
             /\ Entries(nodes') = {e \in Entries(nodes) : e[1] # k} \cup {<<k, v>>}
  <2> DEFINE rn == Room.nodes
             ru == Room.used
  <2>1. /\ HashOK(rn, live, ru) /\ ru + 1 < Capacity(rn)
        /\ Entries(rn) = Entries(nodes)
        /\ \A i \in InUse(rn) : \E j \in InUse(nodes) : nodes[j].key = rn[i].key
    BY <1>1, RoomKeeps
  <2>2. nodes' = Put(rn, place, k, v) /\ place = Place(rn, k)
    BY <1>5
  <2>3. used' = ru + (IF rn[place].state = "dead" THEN 0 ELSE 1)
    BY <1>5
  <2> HIDE DEF rn, ru, place
  <2>4. /\ Probed(rn) /\ NodesOf(rn) /\ IsSize(Capacity(rn))
        /\ live = Cardinality(LiveNodes(rn)) /\ ru = Cardinality(InUse(rn)) /\ ru \in Nat
        /\ live <= ru /\ Capacity(rn) \in Nat
        /\ IsFiniteSet(LiveNodes(rn)) /\ IsFiniteSet(InUse(rn))
    BY <2>1, NodesFinite DEF HashOK, Probed, NodesOf
  <2>5. \A i \in InUse(nodes) : nodes[i].key # k
    <3>1. \A i \in InUse(nodes) : i \in DOMAIN nodes /\ nodes[i].state \in LiveOrDead
      BY <1>1, NodeKeys DEF InUse, LiveOrDead
    <3>. QED BY <1>2, <1>5, <3>1
  <2>6. \A i \in InUse(rn) : rn[i].key # k
    BY <2>1, <2>5
  <2>7. \E i \in DOMAIN rn : rn[i].state # "live"
    <3>1. Cardinality(LiveNodes(rn)) < Capacity(rn)
      BY <1>1, <2>1, <2>4
    <3>. QED BY <2>4, <3>1, RoomLeft
  <2>8. /\ place \in DOMAIN rn /\ rn[place].state # "live"
        /\ Probed(nodes') /\ DOMAIN nodes' = DOMAIN rn
        /\ nodes'[place] = NewNode(k, v) /\ \A i \in DOMAIN rn \ {place} : nodes'[i] = rn[i]
        /\ InUse(nodes') = InUse(rn) \cup {place}
        /\ LiveNodes(nodes') = LiveNodes(rn) \cup {place}
    BY <2>2, <2>4, <2>6, <2>7, InsertKeeps
  <2>9. Capacity(nodes') = Capacity(rn)
    BY <2>8 DEF Capacity
  <2>10. place \notin LiveNodes(rn)
    BY <2>8 DEF LiveNodes
  <2>11. Cardinality(LiveNodes(nodes')) = live + 1
    BY <2>4, <2>8, <2>10, FS_AddElement
  <2>12. Cardinality(InUse(nodes')) = used'
    <3>1. CASE rn[place].state = "dead"
      <4>1. InUse(nodes') = InUse(rn)
        BY <2>8, <3>1 DEF InUse
      <4>. QED BY <2>3, <2>4, <3>1, <4>1
    <3>2. CASE rn[place].state # "dead"
      <4>1. rn[place].state = "empty"
        BY <2>4, <2>8, <3>2, NodeKeys
      <4>2. place \notin InUse(rn)
        BY <4>1 DEF InUse
      <4>. QED BY <2>3, <2>4, <2>8, <3>2, <4>2, FS_AddElement
    <3>. QED BY <3>1, <3>2
  <2>13. used' < Capacity(nodes')
    BY <2>1, <2>3, <2>4, <2>9
  <2>14. Entries(nodes') = Entries(rn) \cup {<<k, v>>}
    <3>1. nodes'[place].key = k /\ nodes'[place].value = v
      BY <2>8 DEF NewNode
    <3>2. \A j \in LiveNodes(rn) : nodes'[j] = rn[j]
      BY <2>8, <2>10 DEF LiveNodes
    <3>. QED BY <2>8, <3>1, <3>2 DEF Entries
  <2>15. Entries(nodes) = {e \in Entries(nodes) : e[1] # k}
    BY <2>5 DEF Entries, InUse, LiveNodes
  <2>16. live' <= MaxHash /\ live' = Cardinality(LiveNodes(nodes'))
    BY <1>1, <1>5, <2>11
  <2>17. HashInv'
    BY <2>4, <2>8, <2>9, <2>12, <2>13, <2>16 DEF HashInv, HashOK, NotFull
  <2>. QED BY <2>1, <2>5, <2>14, <2>15, <2>17
<1>. QED BY <1>3, <1>4, <1>5 DEF SetHash, NewNode, Put

\* A step that changes the keys ks only, and stores for them what it maps them
\* to, keeps the table a map.
LEMMA OnlyKeys ==
    ASSUME TableInv, NEW ks \in SUBSET Keys, ArrayOK(array'), HashInv',
           map' \in [Keys -> Values \cup {NIL}],
           \A k \in Keys \ ks :
              /\ map'[k] = map[k]
              /\ k \in 1 .. Len(array') <=> k \in 1 .. Len(array)
              /\ k \in 1 .. Len(array) => array'[k] = array[k],
           \A k \in Keys \ ks, v \in Values :
              <<k, v>> \in Entries(nodes') <=> <<k, v>> \in Entries(nodes),
           \A k \in ks, v \in Values :
              /\ map'[k] = v <=> \/ k \in 1 .. Len(array') /\ array'[k] = v
                                \/ <<k, v>> \in Entries(nodes')
              /\ <<k, v>> \in Entries(nodes') => k \notin 1 .. Len(array')
    PROVE  TableInv'
<1>1. /\ Probed(nodes') /\ Agrees(array, nodes, map) /\ Apart(array, nodes)
  BY DEF TableInv, HashInv, HashOK
<1>2. ASSUME NEW k \in Keys, NEW v \in Values
      PROVE  map'[k] = v <=> (k \in 1 .. Len(array') /\ array'[k] = v) \/ <<k, v>> \in Entries(nodes')
  <2>1. CASE k \in ks
    BY <2>1
  <2>2. CASE k \notin ks
    <3>1. map[k] = v <=> (k \in 1 .. Len(array) /\ array[k] = v) \/ <<k, v>> \in Entries(nodes)
      BY <1>1 DEF Agrees
    <3>. QED BY <2>2, <3>1
  <2>. QED BY <2>1, <2>2
<1>3. ASSUME NEW e \in Entries(nodes') PROVE e[1] \notin 1 .. Len(array')
  <2>1. e \in Keys \X Values
    BY <1>1, EntryTypes
  <2>2. PICK k \in Keys, v \in Values : e = <<k, v>>
    BY <2>1
  <2>3. CASE k \in ks
    BY <2>2, <2>3
  <2>4. CASE k \notin ks
    <3>1. <<k, v>> \in Entries(nodes)
      BY <2>2, <2>4
    <3>2. <<k, v>>[1] = k
      OBVIOUS
    <3>3. k \notin 1 .. Len(array)
      BY <1>1, <3>1, <3>2 DEF Apart
    <3>. QED BY <2>2, <2>4, <3>3
  <2>. QED BY <2>3, <2>4
<1>. QED BY <1>2, <1>3 DEF TableInv, Agrees, Apart

Items(vs, n) == vs \in [1 .. n -> Values \cup {NIL}]

\* The indexes of the range are written, and no others.
Wrote(range, first, vs) ==
    /\ ArrayOK(array') /\ HashInv' /\ SameKeys /\ range \subseteq Keys
    /\ Entries(nodes') = {e \in Entries(nodes) : e[1] \notin range}
    /\ \A k \in range : k \in 1 .. Len(array') /\ array'[k] = vs[k - first + 1]
    /\ \A k : k \notin range =>
          /\ k \in 1 .. Len(array') <=> k \in 1 .. Len(array)
          /\ k \in 1 .. Len(array) => array'[k] = array[k]

\* setArrayRange.
LEMMA SetArrayRangeStep ==
    ASSUME TableInv, NEW first \in Nat \ {0}, NEW n \in Nat \ {0}, NEW vs, Items(vs, n),
           first <= Len(array) + 1, SetArrayRange(first, vs),
           NEW range, range = first .. first + n - 1
    PROVE  Wrote(range, first, vs)
<1>0. vs \in [1 .. n -> Values \cup {NIL}]
  BY DEF Items
<1> DEFINE last == first + n - 1
           len == IF last > Len(array) THEN last ELSE Len(array)
           at1(i) == IF i \in first .. last THEN vs[i - first + 1]
                     ELSE IF i <= Len(array) THEN array[i] ELSE NIL
<1>1. ArrayOK(array) /\ HashInv /\ Len(vs) = n
  BY <1>0 DEF TableInv
<1>2. /\ Len(array) \in Nat /\ Len(array) <= MaxArray /\ MaxArray \in Nat
      /\ \A i \in 1 .. Len(array) : array[i] \in Values \cup {NIL}
  BY <1>1, IndexIsKey, SizesAssumption DEF ArrayOK
<1>3. last <= MaxArray /\ array' = [i \in 1 .. len |-> at1(i)] /\ RemoveHash((first .. last) \cap Keys)
  BY <1>1 DEF SetArrayRange
<1>4. /\ last \in Nat \ {0} /\ len \in Nat /\ last <= len /\ Len(array) <= len /\ len <= MaxArray
      /\ first .. last \subseteq 1 .. len
  BY <1>2, <1>3
<1>5. \A i \in first .. last : i - first + 1 \in 1 .. n
  OBVIOUS
<1>6. \A i \in 1 .. len : at1(i) \in Values \cup {NIL}
  <2>1. \A i \in first .. last : vs[i - first + 1] \in Values \cup {NIL}
    BY <1>0, <1>5
  <2>. QED BY <1>2, <2>1
<1>7. \A i \in 1 .. len : i \in first .. last \/ i \in 1 .. Len(array)
  BY <1>2, <1>4
<1> HIDE DEF len
<1>8. array' \in Seq(Values \cup {NIL}) /\ Len(array') = len
  BY <1>3, <1>4, <1>6
<1>9. ArrayOK(array')
  BY <1>4, <1>8 DEF ArrayOK
<1>10. range \subseteq Keys
  BY <1>4, SizesAssumption DEF Keys
<1>11. /\ HashInv' /\ SameKeys
       /\ Entries(nodes') = {e \in Entries(nodes) : e[1] \notin (first .. last) \cap Keys}
  BY <1>1, <1>3, RemoveHashStep
<1>12. Entries(nodes') = {e \in Entries(nodes) : e[1] \notin range}
  BY <1>10, <1>11
<1>13. \A k \in range : k \in 1 .. Len(array') /\ array'[k] = vs[k - first + 1]
  BY <1>3, <1>4, <1>8
<1>14. ASSUME NEW k, k \notin range
       PROVE  /\ k \in 1 .. Len(array') <=> k \in 1 .. Len(array)
              /\ k \in 1 .. Len(array) => array'[k] = array[k]
  <2>1. k \in 1 .. len <=> k \in 1 .. Len(array)
    BY <1>2, <1>4, <1>7, <1>14
  <2>2. k \in 1 .. Len(array) => at1(k) = array[k]
    BY <1>2, <1>14
  <2>. QED BY <1>3, <1>8, <2>1, <2>2
<1>. QED BY <1>9, <1>10, <1>11, <1>12, <1>13, <1>14 DEF Wrote

LEMMA WrittenStep ==
    ASSUME TraversalOK, NEW ks, NEW added, Written(ks, added)
    PROVE  TraversalOK'
<1>1. CASE Traversing /\ added \subseteq Present
  BY <1>1 DEF Written, TraversalOK
<1>2. CASE ~(Traversing /\ added \subseteq Present)
  BY <1>2 DEF Written, TraversalOK
<1>. QED BY <1>1, <1>2

LEMMA SetStep ==
    ASSUME TableInv, NEW k \in Keys, NEW v \in Values, Set(k, v)
    PROVE  TableInv'
<1>1. /\ ArrayOK(array) /\ HashInv /\ Apart(array, nodes)
      /\ map \in [Keys -> Values \cup {NIL}] /\ map' = [map EXCEPT ![k] = v]
  BY DEF TableInv, Set
<1>2. map' \in [Keys -> Values \cup {NIL}] /\ map'[k] = v /\ \A j \in Keys \ {k} : map'[j] = map[j]
  BY <1>1
<1> DEFINE ks == {k}
<1>k. ks \in SUBSET Keys /\ \A j : j \in ks <=> j = k
  OBVIOUS
<1> HIDE DEF ks
<1>3. CASE Fits(k)
  <2> DEFINE vs == <<v>>
             n == 1
             range == k .. k + n - 1
  <2>1. SetArrayRange(k, vs) /\ k \in Indexes /\ k <= Len(array) + 1
    BY <1>3 DEF Set, Fits
  <2>2. k \in Nat \ {0} /\ Items(vs, n) /\ n \in Nat \ {0}
    BY <2>1, KeysAssumption DEF Items
  <2>3. range = {k} /\ \A j \in {k} : j - k + 1 = 1
    BY <2>2
  <2>4. vs[1] = v
    OBVIOUS
  <2>r. range = k .. k + n - 1
    OBVIOUS
  <2> HIDE DEF vs, range, n
  <2>5. /\ ArrayOK(array') /\ HashInv'
        /\ Entries(nodes') = {e \in Entries(nodes) : e[1] \notin range}
        /\ \A j \in range : j \in 1 .. Len(array') /\ array'[j] = vs[j - k + 1]
        /\ \A j : j \notin range =>
              /\ j \in 1 .. Len(array') <=> j \in 1 .. Len(array)
              /\ j \in 1 .. Len(array) => array'[j] = array[j]
    <3>1. Wrote(range, k, vs)
      BY <2>1, <2>2, <2>r, SetArrayRangeStep
    <3>. QED BY <3>1 DEF Wrote
  <2>6. k \in 1 .. Len(array') /\ array'[k] = v
    BY <2>3, <2>4, <2>5
  <2>7. \A w \in Values : <<k, w>> \notin Entries(nodes')
    BY <2>3, <2>5
  <2>8. \A j \in Keys \ ks, w \in Values :
           <<j, w>> \in Entries(nodes') <=> <<j, w>> \in Entries(nodes)
    BY <1>k, <2>3, <2>5
  <2>9. \A j \in Keys \ ks :
           /\ map'[j] = map[j]
           /\ j \in 1 .. Len(array') <=> j \in 1 .. Len(array)
           /\ j \in 1 .. Len(array) => array'[j] = array[j]
    BY <1>2, <1>k, <2>3, <2>5
  <2>10. \A j \in ks, w \in Values :
            /\ map'[j] = w <=> \/ j \in 1 .. Len(array') /\ array'[j] = w
                              \/ <<j, w>> \in Entries(nodes')
            /\ <<j, w>> \in Entries(nodes') => j \notin 1 .. Len(array')
    BY <1>2, <1>k, <2>6, <2>7
  <2>. QED BY <1>2, <1>k, <2>5, <2>8, <2>9, <2>10, OnlyKeys
<1>4. CASE ~Fits(k)
  <2>1. SetHash(k, v)
    BY <1>4 DEF Set
  <2>2. /\ HashInv' /\ array' = array
        /\ Entries(nodes') = {e \in Entries(nodes) : e[1] # k} \cup {<<k, v>>}
    BY <1>1, <2>1, SetHashStep
  <2>3. k \notin 1 .. Len(array)
    <3>1. SUFFICES ASSUME k \in 1 .. Len(array) PROVE FALSE
      OBVIOUS
    <3>2. k \in Indexes /\ k <= MaxArray /\ k <= Len(array) + 1
      BY <1>1, <3>1, IndexIsKey, SizesAssumption DEF ArrayOK
    <3>. QED BY <1>4, <3>2 DEF Fits
  <2>4. \A w \in Values : <<k, w>> \in Entries(nodes') <=> w = v
    BY <2>2
  <2>5. \A j \in Keys \ ks, w \in Values :
           <<j, w>> \in Entries(nodes') <=> <<j, w>> \in Entries(nodes)
    BY <1>k, <2>2
  <2>6. \A j \in Keys \ ks :
           /\ map'[j] = map[j]
           /\ j \in 1 .. Len(array') <=> j \in 1 .. Len(array)
           /\ j \in 1 .. Len(array) => array'[j] = array[j]
    BY <1>2, <1>k, <2>2
  <2>7. \A j \in ks, w \in Values :
            /\ map'[j] = w <=> \/ j \in 1 .. Len(array') /\ array'[j] = w
                              \/ <<j, w>> \in Entries(nodes')
            /\ <<j, w>> \in Entries(nodes') => j \notin 1 .. Len(array')
    BY <1>2, <1>k, <2>2, <2>3, <2>4
  <2>8. ArrayOK(array')
    BY <1>1, <2>2
  <2>. QED BY <1>2, <1>k, <2>2, <2>5, <2>6, <2>7, <2>8, OnlyKeys
<1>. QED BY <1>3, <1>4

\* The keys ks lose their values, in either part.
LEMMA EraseStep ==
    ASSUME TableInv, NEW ks \in SUBSET Keys, RemoveHash(ks),
           Len(array') = Len(array), ArrayOK(array'),
           \A i \in 1 .. Len(array) : array'[i] = IF i \in ks THEN NIL ELSE array[i],
           map' \in [Keys -> Values \cup {NIL}],
           \A k \in Keys : map'[k] = IF k \in ks THEN NIL ELSE map[k]
    PROVE  TableInv'
<1>1. HashInv' /\ Entries(nodes') = {e \in Entries(nodes) : e[1] \notin ks}
  BY RemoveHashStep DEF TableInv
<1>2. \A k \in Keys \ ks :
         /\ map'[k] = map[k]
         /\ k \in 1 .. Len(array') <=> k \in 1 .. Len(array)
         /\ k \in 1 .. Len(array) => array'[k] = array[k]
  OBVIOUS
<1>3. \A k \in Keys \ ks, v \in Values :
         <<k, v>> \in Entries(nodes') <=> <<k, v>> \in Entries(nodes)
  BY <1>1
<1>4. \A k \in ks, v \in Values :
         /\ map'[k] = v <=> \/ k \in 1 .. Len(array') /\ array'[k] = v
                           \/ <<k, v>> \in Entries(nodes')
         /\ <<k, v>> \in Entries(nodes') => k \notin 1 .. Len(array')
  <2>1. \A k \in ks, v \in Values : <<k, v>> \notin Entries(nodes') /\ v # NIL
    BY <1>1, KeysAssumption
  <2>. QED BY <2>1
<1>. QED BY <1>1, <1>2, <1>3, <1>4, OnlyKeys

LEMMA RemoveStep ==
    ASSUME TableInv, NEW k \in Keys, Remove(k)
    PROVE  TableInv'
<1>1. /\ ArrayOK(array) /\ map \in [Keys -> Values \cup {NIL}]
      /\ map' = [map EXCEPT ![k] = NIL] /\ RemoveHash({k})
      /\ array' = IF InArray(k) THEN [array EXCEPT ![k] = NIL] ELSE array
  BY DEF TableInv, Remove
<1>2. InArray(k) <=> k \in 1 .. Len(array)
  BY <1>1, InArrayMeans
<1>3. /\ Len(array') = Len(array) /\ array' \in Seq(Values \cup {NIL})
      /\ \A i \in 1 .. Len(array) : array'[i] = IF i \in {k} THEN NIL ELSE array[i]
  <2>1. array \in Seq(Values \cup {NIL})
    BY <1>1 DEF ArrayOK
  <2>. QED BY <1>1, <1>2, <2>1
<1>4. ArrayOK(array')
  BY <1>1, <1>3 DEF ArrayOK
<1>5. /\ map' \in [Keys -> Values \cup {NIL}]
      /\ \A j \in Keys : map'[j] = IF j \in {k} THEN NIL ELSE map[j]
  BY <1>1
<1>. QED BY <1>1, <1>3, <1>4, <1>5, EraseStep

LEMMA RemoveWeakStep ==
    ASSUME TableInv, NEW ks \in SUBSET Keys, RemoveWeakEntries(ks)
    PROVE  TableInv'
<1>1. /\ ArrayOK(array) /\ map \in [Keys -> Values \cup {NIL}]
      /\ map' = [k \in Keys |-> IF k \in ks THEN NIL ELSE map[k]] /\ RemoveHash(ks)
      /\ array' = [i \in DOMAIN array |-> IF i \in ks THEN NIL ELSE array[i]]
  BY DEF TableInv, RemoveWeakEntries
<1>2. /\ Len(array') = Len(array) /\ array' \in Seq(Values \cup {NIL})
      /\ \A i \in 1 .. Len(array) : array'[i] = IF i \in ks THEN NIL ELSE array[i]
  <2>1. array \in Seq(Values \cup {NIL})
    BY <1>1 DEF ArrayOK
  <2>. QED BY <1>1, <2>1
<1>3. ArrayOK(array')
  BY <1>1, <1>2 DEF ArrayOK
<1>4. /\ map' \in [Keys -> Values \cup {NIL}]
      /\ \A j \in Keys : map'[j] = IF j \in ks THEN NIL ELSE map[j]
  BY <1>1
<1>. QED BY <1>1, <1>2, <1>3, <1>4, EraseStep

LEMMA SetListStep ==
    ASSUME TableInv, NEW first \in Nat \ {0}, NEW n \in Nat \ {0},
           NEW vs \in [1 .. n -> Values \cup {NIL}], SetList(first, vs)
    PROVE  TableInv'
<1> DEFINE range == first .. first + n - 1
<1>1. Len(vs) = n
  OBVIOUS
<1>2. /\ first <= Len(array) + 1 /\ SetArrayRange(first, vs)
      /\ map' = [k \in Keys |-> IF k \in range THEN vs[k - first + 1] ELSE map[k]]
      /\ map \in [Keys -> Values \cup {NIL}]
  BY <1>1 DEF SetList, TableInv
<1>3. range = first .. first + n - 1 /\ \A k \in range : k - first + 1 \in 1 .. n
  OBVIOUS
<1> HIDE DEF range
<1>4. /\ ArrayOK(array') /\ HashInv' /\ range \subseteq Keys
      /\ Entries(nodes') = {e \in Entries(nodes) : e[1] \notin range}
      /\ \A k \in range : k \in 1 .. Len(array') /\ array'[k] = vs[k - first + 1]
      /\ \A k : k \notin range =>
            /\ k \in 1 .. Len(array') <=> k \in 1 .. Len(array)
            /\ k \in 1 .. Len(array) => array'[k] = array[k]
  <2>1. Items(vs, n)
    BY DEF Items
  <2>2. Wrote(range, first, vs)
    BY <1>2, <1>3, <2>1, SetArrayRangeStep
  <2>. QED BY <2>2 DEF Wrote
<1>5. map' \in [Keys -> Values \cup {NIL}]
  BY <1>2, <1>3
<1>6. \A k \in Keys \ range :
         /\ map'[k] = map[k]
         /\ k \in 1 .. Len(array') <=> k \in 1 .. Len(array)
         /\ k \in 1 .. Len(array) => array'[k] = array[k]
  BY <1>2, <1>4
<1>7. \A k \in Keys \ range, v \in Values :
         <<k, v>> \in Entries(nodes') <=> <<k, v>> \in Entries(nodes)
  BY <1>4
<1>8. \A k \in range, v \in Values : <<k, v>> \notin Entries(nodes')
  BY <1>4
<1>9. \A k \in range : map'[k] = array'[k] /\ k \in 1 .. Len(array')
  BY <1>2, <1>4
<1>10. \A k \in range, v \in Values :
          /\ map'[k] = v <=> \/ k \in 1 .. Len(array') /\ array'[k] = v
                            \/ <<k, v>> \in Entries(nodes')
          /\ <<k, v>> \in Entries(nodes') => k \notin 1 .. Len(array')
  BY <1>8, <1>9
<1>. QED BY <1>4, <1>5, <1>6, <1>7, <1>10, OnlyKeys

-----------------------------------------------------------------------------
(***************************************************************************)
(* next.                                                                   *)
(***************************************************************************)

LEMMA FirstIsLeast ==
    ASSUME NEW S \in SUBSET Nat, S # {}
    PROVE  First(S) \in S /\ \A j \in S : First(S) <= j
<1> DEFINE Least(i) == \A j \in S : i <= j
<1>1. \E i \in S : Least(i)
  BY NatMin
<1>2. First(S) = CHOOSE i \in S : Least(i)
  BY DEF First
<1> HIDE DEF Least
<1>3. First(S) \in S /\ Least(First(S))
  BY <1>1, <1>2
<1>. QED BY <1>3 DEF Least

\* What comes at or after a slot of the hash part.
LEMMA HashFromType ==
    ASSUME NodesOf(nodes), NEW i
    PROVE  HashFrom(i) \in Keys \cup {End}
<1> DEFINE later == {j \in DOMAIN nodes : j >= i /\ nodes[j].state = "live"}
<1>1. later \in SUBSET Nat /\ later \subseteq LiveNodes(nodes)
  BY DEF NodesOf, LiveNodes
<1>2. HashFrom(i) = IF later = {} THEN End ELSE nodes[First(later)].key
  BY DEF HashFrom
<1> HIDE DEF later
<1>3. CASE later # {}
  <2>1. First(later) \in LiveNodes(nodes)
    BY <1>1, <1>3, FirstIsLeast
  <2>2. nodes[First(later)].key \in Keys
    BY <2>1, NodeKeys DEF LiveNodes
  <2>. QED BY <1>2, <1>3, <2>2
<1>. QED BY <1>2, <1>3

LEMMA ArrayFromType ==
    ASSUME NodesOf(nodes), ArrayOK(array), NEW i
    PROVE  ArrayFrom(i) \in Keys \cup {End}
<1> DEFINE later == {j \in DOMAIN array : j > i /\ array[j] # NIL}
<1>1. later \in SUBSET Nat /\ later \subseteq Keys
  BY IndexIsKey
<1>2. ArrayFrom(i) = IF later = {} THEN HashFrom(0) ELSE First(later)
  BY DEF ArrayFrom
<1> HIDE DEF later
<1>3. later # {} => First(later) \in Keys
  BY <1>1, FirstIsLeast
<1>. QED BY <1>2, <1>3, HashFromType

LEMMA NextKeyType ==
    ASSUME NodesOf(nodes), ArrayOK(array), NEW k
    PROVE  NextKey(k) \in Keys \cup {End, Invalid}
  BY HashFromType, ArrayFromType DEF NextKey

LEMMA AdvanceStep ==
    ASSUME Inv, Advance
    PROVE  TraversalOK'
<1> DEFINE k == NextKey(at)
<1>1. NodesOf(nodes) /\ ArrayOK(array) /\ TraversalOK
  BY DEF Inv, TableInv, HashInv, HashOK, Probed
<1>2. k \in Keys \cup {End, Invalid}
  BY <1>1, NextKeyType
<1> HIDE DEF k
<1>3. CASE k = End
  BY <1>3 DEF Advance, TraversalOK, k
<1>4. CASE k # End
  BY <1>1, <1>2, <1>4 DEF Advance, TraversalOK, k
<1>. QED BY <1>3, <1>4

-----------------------------------------------------------------------------
(***************************************************************************)
(* The theorems.                                                           *)
(***************************************************************************)

LEMMA InitInv ==
    Init => Inv
<1>1. SUFFICES ASSUME Init PROVE Inv
  OBVIOUS
<1>2. /\ array = <<>> /\ nodes = <<>> /\ live = 0 /\ used = 0
      /\ at = Idle /\ seen = {} /\ mixed = FALSE /\ map = [k \in Keys |-> NIL]
  BY <1>1 DEF Init
<1>3. /\ DOMAIN nodes = {} /\ Capacity(nodes) = 0
      /\ LiveNodes(nodes) = {} /\ InUse(nodes) = {} /\ Entries(nodes) = {}
  BY <1>2, FS_EmptySet DEF Capacity, LiveNodes, InUse, Entries
<1>4. NodesOf(nodes)
  BY <1>2, <1>3 DEF NodesOf
<1>5. HashInv
  <2>1. Probed(nodes)
    BY <1>3, <1>4 DEF Probed, Unique, Chains
  <2>2. /\ IsSize(Capacity(nodes)) /\ NotFull(nodes, used)
    BY <1>3, Sizes DEF NotFull
  <2>3. live = Cardinality(LiveNodes(nodes)) /\ used = Cardinality(InUse(nodes))
    BY <1>2, <1>3, FS_EmptySet
  <2>4. live <= MaxHash
    BY <1>2, SizesAssumption
  <2>. QED BY <2>1, <2>2, <2>3, <2>4 DEF HashInv, HashOK
<1>6. ArrayOK(array) /\ Len(array) = 0
  BY <1>2, SizesAssumption DEF ArrayOK
<1>7. Agrees(array, nodes, map) /\ Apart(array, nodes)
  <2>1. \A k \in Keys, v \in Values : map[k] # v
    BY <1>2, KeysAssumption
  <2>. QED BY <1>3, <1>6, <2>1 DEF Agrees, Apart
<1>8. map \in [Keys -> Values \cup {NIL}] /\ TraversalOK
  BY <1>2 DEF TraversalOK
<1>. QED BY <1>5, <1>6, <1>7, <1>8 DEF Inv, TableInv

LEMMA NextInv ==
    Inv /\ [Next]_vars => Inv'
<1>1. SUFFICES ASSUME Inv, [Next]_vars PROVE Inv'
  OBVIOUS
<1>2. TableInv /\ TraversalOK
  BY <1>1 DEF Inv
<1>3. ASSUME NEW k \in Keys, Remove(k) PROVE Inv'
  <2>1. TraversalOK'
    BY <1>2, <1>3, WrittenStep DEF Remove
  <2>. QED BY <1>2, <1>3, <2>1, RemoveStep DEF Inv
<1>4. ASSUME NEW k \in Keys, NEW v \in Values, Set(k, v) PROVE Inv'
  <2>1. TraversalOK'
    BY <1>2, <1>4, WrittenStep DEF Set
  <2>. QED BY <1>2, <1>4, <2>1, SetStep DEF Inv
<1>5. ASSUME NEW first \in {1, 1 + Flush}, NEW n \in 1 .. Flush,
             NEW vs \in [1 .. n -> Values \cup {NIL}], SetList(first, vs)
      PROVE  Inv'
  <2>1. first \in Nat \ {0} /\ n \in Nat \ {0}
    BY SizesAssumption
  <2>2. TableInv'
    BY <1>2, <1>5, <2>1, SetListStep
  <2>3. TraversalOK'
    BY <1>2, <1>5 DEF SetList, traversalVars, TraversalOK
  <2>. QED BY <2>2, <2>3 DEF Inv
<1>6. ASSUME NEW ks \in SUBSET Present \ {{}}, RemoveWeakEntries(ks) PROVE Inv'
  <2>1. ks \in SUBSET Keys
    BY DEF Present
  <2>2. TraversalOK'
    BY <1>2, <1>6, WrittenStep DEF RemoveWeakEntries
  <2>. QED BY <1>2, <1>6, <2>1, <2>2, RemoveWeakStep DEF Inv
<1>7. ASSUME UNCHANGED <<tableVars, map>> PROVE TableInv'
  BY <1>2, <1>7
     DEF tableVars, TableInv, ArrayOK, HashInv, Apart, Agrees, HashOK, NotFull
<1>8. CASE Begin
  <2>1. TraversalOK'
    BY <1>8 DEF Begin, TraversalOK
  <2>2. TableInv'
    BY <1>7, <1>8 DEF Begin
  <2>. QED BY <2>1, <2>2 DEF Inv
<1>9. CASE Advance
  <2>1. TableInv'
    BY <1>7, <1>9 DEF Advance
  <2>. QED BY <1>1, <1>9, <2>1, AdvanceStep DEF Inv
<1>10. CASE UNCHANGED vars
  <2>1. TableInv'
    BY <1>7, <1>10 DEF vars
  <2>2. TraversalOK'
    BY <1>2, <1>10 DEF vars, traversalVars, TraversalOK
  <2>. QED BY <2>1, <2>2 DEF Inv
<1>. QED BY <1>1, <1>3, <1>4, <1>5, <1>6, <1>8, <1>9, <1>10 DEF Next

LEMMA InvAlways ==
    Spec => []Inv
<1>. QED BY InitInv, NextInv, PTL DEF Spec

\* The hash part is sound after any sequence of calls: the counters that decide
\* when it grows are right, probing for a key ends, meets its node before an
\* empty slot, and meets it once (findHashNode, setHash, removeHash and rehash
\* of src/core/table.cpp).
THEOREM NodesAlwaysSound ==
    Spec => []NodesSound
<1>. QED BY InvAlways, InvIsSound, PTL

\* Whatever the hash function, the capacities and the order of the calls, get
\* answers what was stored last: no operation changes the value of a key that
\* it is not about.
THEOREM TableIsMap ==
    Spec => []ActsAsMap
<1>1. Inv => ActsAsMap
  BY GetIsMap DEF Inv
<1>. QED BY <1>1, InvAlways, PTL

-----------------------------------------------------------------------------
(***************************************************************************)
(* Traversals.                                                             *)
(***************************************************************************)

\* A traversal goes through the indexes of the array and then through the
\* slots.  These are the keys up to the one it has arrived at.
SlotsOf(k) == {i \in InUse(nodes) : nodes[i].key = k}

UpToIndex(i) == {k \in Keys : InArray(k) /\ k <= i}

UpToSlot(s) == {k \in Keys : InArray(k) \/ \E i \in SlotsOf(k) : i < s}

Reached(a) ==
    IF InArray(a) THEN UpToIndex(a)
    ELSE {k \in Keys : InArray(k) \/ \E i \in SlotsOf(k), p \in SlotsOf(a) : i <= p}

\* Of the keys in S it has given those that are present, and it has given no other.
Given(S) == seen \subseteq S /\ Present \cap S \subseteq seen

\* It knows its place, and unless it has met an integer key of the hash part it
\* has given the present keys up to there, and none from beyond.
TraversalInv ==
    Traversing =>
        /\ at = Start => seen = {}
        /\ at \in Keys => InArray(at) \/ SlotsOf(at) # {}
        /\ at \in Keys /\ ~mixed =>
              /\ Given(Reached(at))
              /\ InArray(at) /\ array[at] = NIL => SlotsOf(at) = {}

LEMMA SlotsAreFound ==
    ASSUME TableInv, NEW k \in Keys
    PROVE  /\ Find(nodes, k, LiveOrDead) = SlotsOf(k)
           /\ SlotsOf(k) \subseteq Nat
           /\ \A i, j \in SlotsOf(k) : i = j
<1>1. Probed(nodes) /\ NodesOf(nodes)
  BY DEF TableInv, HashInv, HashOK, Probed
<1>2. Find(nodes, k, LiveOrDead) = {i \in DOMAIN nodes : nodes[i].key = k /\ nodes[i].state \in LiveOrDead}
  BY <1>1, FindIsSearch
<1>3. \A i \in DOMAIN nodes : nodes[i].state \in LiveOrDead <=> nodes[i].state # "empty"
  BY <1>1, NodeKeys DEF LiveOrDead
<1>4. Find(nodes, k, LiveOrDead) = SlotsOf(k)
  BY <1>2, <1>3 DEF SlotsOf, InUse
<1>5. SlotsOf(k) \subseteq Nat
  BY <1>1 DEF SlotsOf, InUse, NodesOf
<1>. QED BY <1>1, <1>4, <1>5 DEF SlotsOf, Probed, Unique

\* Where a key that is present is.
LEMMA PresentMeans ==
    ASSUME TableInv, NEW k \in Keys
    PROVE  /\ k \in Present <=> \/ InArray(k) /\ array[k] # NIL
                                \/ \E i \in LiveNodes(nodes) : nodes[i].key = k
           /\ \A i \in LiveNodes(nodes) : nodes[i].key = k => ~InArray(k) /\ i \in SlotsOf(k)
<1>1. /\ ArrayOK(array) /\ Probed(nodes) /\ NodesOf(nodes) /\ Apart(array, nodes)
      /\ map[k] \in Values \cup {NIL} /\ NIL \notin Values
      /\ \A v \in Values :
            map[k] = v <=> (k \in 1 .. Len(array) /\ array[k] = v) \/ <<k, v>> \in Entries(nodes)
  BY KeysAssumption DEF TableInv, HashInv, HashOK, Probed, Agrees
<1>2. InArray(k) <=> k \in 1 .. Len(array)
  BY <1>1, InArrayMeans
<1>3. InArray(k) => array[k] \in Values \cup {NIL}
  BY <1>1, <1>2, IndexIsKey
<1>4. ASSUME NEW i \in LiveNodes(nodes), nodes[i].key = k
      PROVE  ~InArray(k) /\ i \in SlotsOf(k) /\ k \in Present
  <2>1. <<k, nodes[i].value>> \in Entries(nodes) /\ nodes[i].value \in Values
    BY <1>1, <1>4, NodeKeys DEF Entries, LiveNodes
  <2>2. <<k, nodes[i].value>>[1] = k
    OBVIOUS
  <2>3. k \notin 1 .. Len(array)
    BY <1>1, <2>1, <2>2 DEF Apart
  <2>4. i \in SlotsOf(k)
    BY <1>4 DEF SlotsOf, LiveNodes, InUse
  <2>5. k \in Present
    BY <1>1, <2>1 DEF Present
  <2>. QED BY <1>2, <2>3, <2>4, <2>5
<1>5. ASSUME k \in Present, ~(\E i \in LiveNodes(nodes) : nodes[i].key = k)
      PROVE  InArray(k) /\ array[k] # NIL
  <2>1. map[k] \in Values
    BY <1>1, <1>5 DEF Present
  <2>2. <<k, map[k]>> \notin Entries(nodes)
    BY <1>5 DEF Entries
  <2>. QED BY <1>1, <1>2, <2>1, <2>2
<1>6. InArray(k) /\ array[k] # NIL => k \in Present
  BY <1>1, <1>2, <1>3 DEF Present
<1>. QED BY <1>4, <1>5, <1>6

\* An index of the array is present by its value.
LEMMA PresentIndex ==
    ASSUME TableInv, NEW k \in Keys, InArray(k)
    PROVE  k \in Present <=> array[k] # NIL
  BY PresentMeans

LEMMA HashFromMeans ==
    ASSUME NodesOf(nodes), NEW s \in Nat
    PROVE  \/ HashFrom(s) = End /\ \A j \in LiveNodes(nodes) : j < s
           \/ \E q \in LiveNodes(nodes) :
                 /\ HashFrom(s) = nodes[q].key /\ q >= s
                 /\ \A j \in LiveNodes(nodes) : j < s \/ q <= j
<1> DEFINE later == {j \in DOMAIN nodes : j >= s /\ nodes[j].state = "live"}
<1>1. DOMAIN nodes \subseteq Nat
  BY DEF NodesOf
<1>2. later \in SUBSET Nat /\ \A j : j \in later <=> j \in LiveNodes(nodes) /\ j >= s
  BY <1>1 DEF LiveNodes
<1>3. HashFrom(s) = IF later = {} THEN End ELSE nodes[First(later)].key
  BY DEF HashFrom
<1>4. \A j \in LiveNodes(nodes) : j \in Nat
  BY <1>1 DEF LiveNodes
<1> HIDE DEF later
<1>5. CASE later = {}
  BY <1>2, <1>3, <1>4, <1>5
<1>6. CASE later # {}
  <2> DEFINE q == First(later)
  <2>1. q \in later /\ \A j \in later : q <= j
    BY <1>2, <1>6, FirstIsLeast
  <2>2. HashFrom(s) = nodes[q].key
    BY <1>3, <1>6
  <2> HIDE DEF q
  <2>. QED BY <1>2, <1>4, <2>1, <2>2
<1>. QED BY <1>5, <1>6

LEMMA ArrayFromMeans ==
    ASSUME ArrayOK(array), NEW i \in Nat
    PROVE  \/ ArrayFrom(i) = HashFrom(0) /\ \A j \in 1 .. Len(array) : j > i => array[j] = NIL
           \/ \E k \in 1 .. Len(array) :
                 /\ ArrayFrom(i) = k /\ k > i /\ array[k] # NIL
                 /\ \A j \in 1 .. Len(array) : i < j /\ j < k => array[j] = NIL
<1> DEFINE later == {j \in DOMAIN array : j > i /\ array[j] # NIL}
<1>1. DOMAIN array = 1 .. Len(array) /\ Len(array) \in Nat
  BY IndexIsKey
<1>2. later \in SUBSET Nat /\ \A j : j \in later <=> j \in 1 .. Len(array) /\ j > i /\ array[j] # NIL
  BY <1>1
<1>3. ArrayFrom(i) = IF later = {} THEN HashFrom(0) ELSE First(later)
  BY DEF ArrayFrom
<1> HIDE DEF later
<1>4. CASE later = {}
  BY <1>2, <1>3, <1>4
<1>5. CASE later # {}
  <2> DEFINE k == First(later)
  <2>1. k \in later /\ \A j \in later : k <= j
    BY <1>2, <1>5, FirstIsLeast
  <2>2. ArrayFrom(i) = k
    BY <1>3, <1>5
  <2> HIDE DEF k
  <2>3. \A j \in 1 .. Len(array) : i < j /\ j < k => array[j] = NIL
    BY <1>2, <2>1
  <2>. QED BY <1>2, <2>1, <2>2, <2>3
<1>. QED BY <1>4, <1>5

\* What the call of next that gives k has to do.
Arrived(k) ==
    \/ k = End /\ (~mixed => Present \subseteq seen)
    \/ /\ k \in Keys /\ (InArray(k) \/ SlotsOf(k) # {})
       /\ ~mixed => /\ k \notin seen
                    /\ seen \cup {k} \subseteq Reached(k)
                    /\ Present \cap Reached(k) \subseteq seen \cup {k}
                    /\ InArray(k) /\ array[k] = NIL => SlotsOf(k) = {}

LEMMA FromHash ==
    ASSUME TableInv, NEW s \in Nat, ~mixed => Given(UpToSlot(s))
    PROVE  Arrived(HashFrom(s))
<1>1. NodesOf(nodes) /\ Probed(nodes)
  BY DEF TableInv, HashInv, HashOK, Probed
<1>2. CASE HashFrom(s) = End /\ \A j \in LiveNodes(nodes) : j < s
  <2>1. SUFFICES ASSUME ~mixed, NEW k \in Present PROVE k \in seen
    BY <1>2 DEF Arrived
  <2>2. k \in Keys
    BY DEF Present
  <2>3. InArray(k) \/ \E i \in SlotsOf(k) : i < s
    BY <1>2, <2>2, PresentMeans
  <2>. QED BY <2>1, <2>2, <2>3 DEF Given, UpToSlot
<1>3. ASSUME NEW q \in LiveNodes(nodes), HashFrom(s) = nodes[q].key, q >= s,
             \A j \in LiveNodes(nodes) : j < s \/ q <= j
      PROVE  Arrived(HashFrom(s))
  <2> DEFINE k == nodes[q].key
  <2>1. k \in Keys /\ q \in Nat
    BY <1>1, NodeKeys DEF LiveNodes, NodesOf
  <2>2. ~InArray(k) /\ q \in SlotsOf(k)
    BY <2>1, PresentMeans
  <2>3. SlotsOf(k) = {q}
    BY <2>1, <2>2, SlotsAreFound
  <2> HIDE DEF k
  <2>4. SUFFICES ASSUME ~mixed
                 PROVE  /\ k \notin seen
                        /\ seen \cup {k} \subseteq Reached(k)
                        /\ Present \cap Reached(k) \subseteq seen \cup {k}
    BY <1>3, <2>1, <2>2 DEF Arrived, k
  <2>5. seen \subseteq UpToSlot(s) /\ Present \cap UpToSlot(s) \subseteq seen
    BY <2>4 DEF Given
  <2>6. Reached(k) = {j \in Keys : InArray(j) \/ \E i \in SlotsOf(j) : i <= q}
    BY <2>2, <2>3 DEF Reached
  <2>7. k \notin seen
    BY <1>3, <2>1, <2>2, <2>3, <2>5 DEF UpToSlot
  <2>8. seen \cup {k} \subseteq Reached(k)
    <3>1. ASSUME NEW j \in seen PROVE j \in Reached(k)
      <4>1. j \in Keys /\ (InArray(j) \/ \E i \in SlotsOf(j) : i < s)
        BY <2>5, <3>1 DEF UpToSlot
      <4>2. \A i \in SlotsOf(j) : i \in Nat
        BY <4>1, SlotsAreFound
      <4>. QED BY <1>3, <2>1, <2>6, <4>1, <4>2
    <3>2. k \in Reached(k)
      BY <2>1, <2>2, <2>6
    <3>. QED BY <3>1, <3>2
  <2>9. ASSUME NEW j \in Present \cap Reached(k), j # k PROVE j \in seen
    <3>1. j \in Keys
      BY DEF Present
    <3>2. CASE InArray(j)
      BY <2>5, <3>1, <3>2 DEF UpToSlot
    <3>3. CASE ~InArray(j)
      <4>1. PICK i \in LiveNodes(nodes) : nodes[i].key = j
        BY <3>1, <3>3, PresentMeans
      <4>2. i \in SlotsOf(j) /\ i # q /\ i \in Nat
        BY <2>9, <3>1, <4>1, PresentMeans, SlotsAreFound DEF k
      <4>3. i <= q
        BY <2>6, <3>1, <3>3, <4>2, SlotsAreFound
      <4>4. i < s
        BY <1>3, <2>1, <4>2, <4>3
      <4>. QED BY <2>5, <3>1, <4>2, <4>4 DEF UpToSlot
    <3>. QED BY <3>2, <3>3
  <2>. QED BY <2>7, <2>8, <2>9
<1>. QED BY <1>1, <1>2, <1>3, HashFromMeans

LEMMA FromArray ==
    ASSUME TableInv, NEW i \in Nat, ~mixed => Given(UpToIndex(i))
    PROVE  Arrived(ArrayFrom(i))
<1>1. ArrayOK(array)
  BY DEF TableInv
<1>2. \A k : InArray(k) <=> k \in 1 .. Len(array)
  BY <1>1, InArrayMeans
<1>3. Len(array) \in Nat /\ 1 .. Len(array) \subseteq Keys
  BY <1>1, IndexIsKey
<1>4. CASE ArrayFrom(i) = HashFrom(0) /\ \A j \in 1 .. Len(array) : j > i => array[j] = NIL
  <2>1. ASSUME ~mixed PROVE Given(UpToSlot(0))
    <3>1. seen \subseteq UpToIndex(i) /\ Present \cap UpToIndex(i) \subseteq seen
      BY <2>1 DEF Given
    <3>2. seen \subseteq UpToSlot(0)
      BY <3>1 DEF UpToIndex, UpToSlot
    <3>3. ASSUME NEW k \in Present, k \in UpToSlot(0) PROVE k \in seen
      <4>1. k \in Keys /\ InArray(k)
        BY <3>3, SlotsAreFound DEF UpToSlot
      <4>2. array[k] # NIL
        BY <4>1, PresentIndex
      <4>3. k <= i
        BY <1>2, <1>3, <1>4, <4>1, <4>2
      <4>. QED BY <3>1, <4>1, <4>3 DEF UpToIndex
    <3>. QED BY <3>2, <3>3 DEF Given
  <2>2. 0 \in Nat
    OBVIOUS
  <2>. QED BY <1>4, <2>1, <2>2, FromHash
<1>5. ASSUME NEW k \in 1 .. Len(array), ArrayFrom(i) = k, k > i, array[k] # NIL,
             \A j \in 1 .. Len(array) : i < j /\ j < k => array[j] = NIL
      PROVE  Arrived(ArrayFrom(i))
  <2>1. k \in Keys /\ InArray(k) /\ k \in Nat
    BY <1>2, <1>3
  <2>2. SUFFICES ASSUME ~mixed
                 PROVE  /\ k \notin seen
                        /\ seen \cup {k} \subseteq Reached(k)
                        /\ Present \cap Reached(k) \subseteq seen \cup {k}
    BY <1>5, <2>1 DEF Arrived
  <2>3. seen \subseteq UpToIndex(i) /\ Present \cap UpToIndex(i) \subseteq seen
    BY <2>2 DEF Given
  <2>4. Reached(k) = UpToIndex(k)
    BY <2>1 DEF Reached
  <2>5. k \notin seen
    BY <1>5, <2>1, <2>3 DEF UpToIndex
  <2>6. seen \cup {k} \subseteq Reached(k)
    <3>1. ASSUME NEW j \in seen PROVE j \in UpToIndex(k)
      <4>1. j \in Keys /\ InArray(j) /\ j <= i
        BY <2>3, <3>1 DEF UpToIndex
      <4>2. j \in Nat
        BY <1>2, <4>1
      <4>3. j <= k
        BY <1>5, <2>1, <4>1, <4>2
      <4>. QED BY <4>1, <4>3 DEF UpToIndex
    <3>2. k \in UpToIndex(k)
      BY <2>1 DEF UpToIndex
    <3>. QED BY <2>4, <3>1, <3>2
  <2>7. ASSUME NEW j \in Present, j \in Reached(k), j # k PROVE j \in seen
    <3>1. j \in Keys /\ InArray(j) /\ j <= k
      BY <2>4, <2>7 DEF UpToIndex
    <3>2. j \in 1 .. Len(array) /\ array[j] # NIL
      BY <1>2, <2>7, <3>1, PresentIndex
    <3>3. j <= i
      BY <1>5, <2>1, <2>7, <3>1, <3>2
    <3>. QED BY <2>3, <3>1, <3>3 DEF UpToIndex
  <2>. QED BY <2>5, <2>6, <2>7
<1>. QED BY <1>1, <1>4, <1>5, ArrayFromMeans

\* next: from its place it finds the next key that is present.
LEMMA NextArrives ==
    ASSUME Inv, TraversalInv, Traversing
    PROVE  Arrived(NextKey(at))
<1>1. TableInv /\ ArrayOK(array) /\ at \in Keys \cup {Start}
  BY DEF Inv, TableInv, TraversalOK, Traversing
<1>2. CASE at = Start
  <2>1. Given(UpToIndex(0))
    <3>1. UpToIndex(0) = {} /\ seen = {}
      BY <1>1, <1>2, InArrayMeans DEF UpToIndex, TraversalInv
    <3>. QED BY <3>1 DEF Given
  <2>2. NextKey(at) = ArrayFrom(0) /\ 0 \in Nat
    BY <1>2 DEF NextKey
  <2>. QED BY <1>1, <2>1, <2>2, FromArray
<1>3. CASE at # Start
  <2> DEFINE F == Find(nodes, at, LiveOrDead)
  <2>1. at \in Keys
    BY <1>1, <1>3
  <2>2. /\ F = SlotsOf(at) /\ F \subseteq Nat /\ \A i, j \in F : i = j
    BY <1>1, <2>1, SlotsAreFound
  <2>3. InArray(at) \/ F # {}
    BY <2>1, <2>2 DEF TraversalInv
  <2>4. ~mixed => Given(Reached(at)) /\ (InArray(at) /\ array[at] = NIL => F = {})
    BY <2>1, <2>2 DEF TraversalInv
  <2>5. CASE InArray(at) /\ (array[at] # NIL \/ F = {})
    <3>1. NextKey(at) = ArrayFrom(at)
      BY <1>3, <2>5 DEF NextKey
    <3>2. at \in Nat
      BY <1>1, <2>5, InArrayMeans
    <3>3. ~mixed => Given(UpToIndex(at))
      BY <2>4, <2>5 DEF Reached
    <3>. QED BY <1>1, <3>1, <3>2, <3>3, FromArray
  <2>6. CASE ~(InArray(at) /\ (array[at] # NIL \/ F = {}))
    <3> DEFINE p == CHOOSE i \in F : TRUE
    <3>1. F # {}
      BY <2>3, <2>6
    <3>2. p \in F
      BY <3>1
    <3>3. NextKey(at) = HashFrom(p + 1)
      BY <1>3, <2>6, <3>1 DEF NextKey
    <3> HIDE DEF p
    <3>4. p \in Nat /\ p + 1 \in Nat /\ SlotsOf(at) = {p}
      BY <2>2, <3>2
    <3>5. ASSUME ~mixed PROVE Given(UpToSlot(p + 1))
      <4>1. ~InArray(at) /\ Given(Reached(at))
        BY <2>4, <2>6, <3>1, <3>5
      <4>2. Reached(at) = {j \in Keys : InArray(j) \/ \E i \in SlotsOf(j) : i <= p}
        BY <3>4, <4>1 DEF Reached
      <4>3. \A j \in Keys : \A i \in SlotsOf(j) : i <= p <=> i < p + 1
        BY <1>1, <3>4, SlotsAreFound
      <4>4. UpToSlot(p + 1) = Reached(at)
        BY <4>2, <4>3 DEF UpToSlot
      <4>. QED BY <4>1, <4>4
    <3>. QED BY <1>1, <3>3, <3>4, <3>5, FromHash
  <2>. QED BY <2>5, <2>6
<1>. QED BY <1>2, <1>3

\* The end of a traversal is not a failed one.
LEMMA EndIsNotInvalid ==
    End # Invalid /\ Idle # Invalid /\ Invalid \notin Keys /\ End \notin Keys /\ Idle \notin Keys /\ Start \notin Keys
<1>1. ASSUME NEW a, NEW b, NEW c, {Idle, Start, End, Invalid} = (({} \cup {a}) \cup {b}) \cup {c}
      PROVE  FALSE
  <2>1. IsFiniteSet({}) /\ Cardinality({}) = 0
    BY FS_EmptySet
  <2>2. IsFiniteSet({} \cup {a}) /\ Cardinality({} \cup {a}) \in {0, 1}
    BY <2>1, FS_AddElement
  <2>3. /\ IsFiniteSet(({} \cup {a}) \cup {b})
        /\ Cardinality(({} \cup {a}) \cup {b}) \in {0, 1, 2}
    BY <2>2, FS_AddElement
  <2>4. Cardinality((({} \cup {a}) \cup {b}) \cup {c}) \in {0, 1, 2, 3}
    BY <2>3, FS_AddElement
  <2>. QED BY <1>1, <2>4, KeysAssumption
<1>2. ASSUME End = Invalid PROVE FALSE
  <2>1. {Idle, Start, End, Invalid} = (({} \cup {Idle}) \cup {Start}) \cup {End}
    BY <1>2
  <2>. QED BY <1>1, <2>1
<1>3. ASSUME Idle = Invalid PROVE FALSE
  <2>1. {Idle, Start, End, Invalid} = (({} \cup {Idle}) \cup {Start}) \cup {End}
    BY <1>3
  <2>. QED BY <1>1, <2>1
<1>. QED BY <1>2, <1>3, KeysAssumption

\* A step of the traversal.
LEMMA AdvanceTraversal ==
    ASSUME Inv, TraversalInv, Advance
    PROVE  /\ TraversalInv'
           /\ at' # Invalid
           /\ at' \in Keys /\ ~mixed => at' \notin seen
           /\ at' = Idle /\ ~mixed => Present \subseteq seen
<1> DEFINE k == NextKey(at)
<1>1. Arrived(k)
  BY NextArrives DEF Advance
<1>2. UNCHANGED <<array, nodes, map>>
  BY DEF Advance, tableVars
<1> HIDE DEF k
<1>3. CASE k = End
  <2>1. at' = Idle
    BY <1>3 DEF Advance, k
  <2>2. ~mixed => Present \subseteq seen
    BY <1>1, <1>3, EndIsNotInvalid DEF Arrived
  <2>3. ~Traversing'
    BY <2>1 DEF Traversing
  <2>. QED BY <2>1, <2>2, <2>3, EndIsNotInvalid DEF TraversalInv
<1>4. CASE k # End
  <2>1. /\ k \in Keys /\ (InArray(k) \/ SlotsOf(k) # {})
        /\ ~mixed => /\ k \notin seen
                     /\ seen \cup {k} \subseteq Reached(k)
                     /\ Present \cap Reached(k) \subseteq seen \cup {k}
                     /\ InArray(k) /\ array[k] = NIL => SlotsOf(k) = {}
    BY <1>1, <1>4 DEF Arrived
  <2>2. k # Invalid /\ k # Idle /\ k # Start
    BY <2>1, EndIsNotInvalid
  <2>3. at' = k /\ seen' = seen \cup {k} /\ mixed' = mixed
    <3>1. mixed \in BOOLEAN
      BY DEF Inv, TraversalOK
    <3>. QED BY <1>4, <2>2, <3>1 DEF Advance, k
  <2>4. /\ InArray(at)' <=> InArray(k)
        /\ SlotsOf(at)' = SlotsOf(k) /\ Reached(at)' = Reached(k) /\ Present' = Present
        /\ array'[at'] = array[k]
    BY <1>2, <2>3 DEF InArray, SlotsOf, InUse, Reached, UpToIndex, Present
  <2>5. TraversalInv'
    BY <2>1, <2>2, <2>3, <2>4 DEF TraversalInv, Given
  <2>. QED BY <2>1, <2>2, <2>3, <2>5
<1>. QED BY <1>3, <1>4

\* A write that adds no key leaves the traversal its place.
Quiet(ks) ==
    /\ SameKeys /\ Len(array) <= Len(array') /\ Present' \subseteq Present
    /\ ~mixed' => Len(array') = Len(array)
    /\ \A k \in 1 .. Len(array) : array'[k] = NIL /\ array[k] # NIL => k \in ks

LEMMA QuietStep ==
    ASSUME Inv, TraversalInv, NEW ks \in SUBSET Keys, NEW added, Written(ks, added),
           Traversing /\ added \subseteq Present => Quiet(ks), Len(array') \in Nat
    PROVE  TraversalInv'
<1>1. SUFFICES ASSUME Traversing' PROVE TraversalInv'
  BY DEF TraversalInv
<1>2. Traversing /\ added \subseteq Present
  BY <1>1 DEF Written, Traversing
<1>3. /\ at' = at /\ seen' = seen
      /\ mixed' = (mixed \/ \E k \in ks \cap Indexes : Find(nodes, k, LiveOrDead) # {})
  BY <1>2 DEF Written
<1>4. Quiet(ks) /\ TableInv /\ ArrayOK(array) /\ mixed \in BOOLEAN
  BY <1>2 DEF Inv, TableInv, TraversalOK
<1>5. \A k : SlotsOf(k)' = SlotsOf(k)
  BY <1>4 DEF Quiet, SameKeys, SlotsOf
<1>6. Len(array) \in Nat
  BY <1>4, IndexIsKey
<1>7. \A k : InArray(k) => InArray(k)'
  <2>1. \A k \in Indexes : k \in Nat
    BY KeysAssumption
  <2>. QED BY <1>4, <1>6, <2>1 DEF InArray, Quiet
<1>8. at' = Start => seen' = {}
  BY <1>2, <1>3 DEF TraversalInv
<1>9. at \in Keys => InArray(at) \/ SlotsOf(at) # {}
  BY <1>2 DEF TraversalInv
<1>10. at' \in Keys => InArray(at)' \/ SlotsOf(at)' # {}
  BY <1>3, <1>5, <1>7, <1>9
<1>11. ASSUME at \in Keys, ~mixed'
       PROVE  /\ Given(Reached(at))'
              /\ InArray(at)' /\ array'[at'] = NIL => SlotsOf(at)' = {}
  <2>1. ~mixed /\ \A k \in ks \cap Indexes : Find(nodes, k, LiveOrDead) = {}
    BY <1>3, <1>4, <1>11
  <2>2. Given(Reached(at)) /\ (InArray(at) /\ array[at] = NIL => SlotsOf(at) = {})
    BY <1>2, <1>11, <2>1 DEF TraversalInv
  <2>3. Len(array') = Len(array) /\ Present' \subseteq Present
    BY <1>4, <1>11 DEF Quiet
  <2>4. \A k : InArray(k)' <=> InArray(k)
    BY <2>3 DEF InArray
  <2>5. Reached(at)' = Reached(at)
    BY <1>3, <1>5, <2>4 DEF Reached, UpToIndex
  <2>6. Given(Reached(at))'
    BY <1>3, <2>2, <2>3, <2>5 DEF Given
  <2>7. ASSUME InArray(at)', array'[at'] = NIL PROVE SlotsOf(at)' = {}
    <3>1. InArray(at) /\ array'[at] = NIL /\ at \in 1 .. Len(array)
      BY <1>3, <1>4, <2>4, <2>7, InArrayMeans
    <3>2. CASE array[at] = NIL
      BY <1>3, <1>5, <2>2, <3>1, <3>2
    <3>3. CASE array[at] # NIL
      <4>1. at \in ks /\ at \in Indexes
        BY <1>4, <3>1, <3>3 DEF Quiet, InArray
      <4>2. Find(nodes, at, LiveOrDead) = {}
        BY <2>1, <4>1
      <4>. QED BY <1>3, <1>4, <1>5, <1>11, <4>2, SlotsAreFound
    <3>. QED BY <3>2, <3>3
  <2>. QED BY <2>6, <2>7
<1>. QED BY <1>3, <1>8, <1>10, <1>11 DEF TraversalInv

\* Erasing keeps the slots and the length, and adds no key.
LEMMA EraseTraversal ==
    ASSUME Inv, TraversalInv, NEW ks \in SUBSET Keys, RemoveHash(ks), Written(ks, {}),
           Len(array') = Len(array),
           \A i \in 1 .. Len(array) : array'[i] = IF i \in ks THEN NIL ELSE array[i],
           \A k \in Keys : map'[k] = IF k \in ks THEN NIL ELSE map[k]
    PROVE  TraversalInv'
<1>1. HashInv /\ Len(array) \in Nat
  BY IndexIsKey DEF Inv, TableInv
<1>2. SameKeys
  BY <1>1, RemoveHashStep
<1>3. Present' \subseteq Present
  BY DEF Present
<1>4. Quiet(ks)
  BY <1>1, <1>2, <1>3 DEF Quiet
<1>. QED BY <1>1, <1>4, QuietStep

LEMMA SetTraversal ==
    ASSUME Inv, TraversalInv, NEW k \in Keys, NEW v \in Values, Set(k, v)
    PROVE  TraversalInv'
<1> DEFINE ks == {k}
<1>1. TableInv /\ HashInv /\ ArrayOK(array) /\ Len(array) \in Nat
  BY IndexIsKey DEF Inv, TableInv
<1>2. Written(ks, ks) /\ ks \in SUBSET Keys /\ map' = [map EXCEPT ![k] = v] /\ v # NIL
  BY KeysAssumption DEF Set
<1>3. TableInv'
  BY <1>1, SetStep
<1>4. Len(array') \in Nat
  BY <1>3, IndexIsKey DEF TableInv
<1>5. ASSUME Traversing, k \in Present PROVE Quiet(ks)
  <2>1. Present' \subseteq Present
    BY <1>1, <1>2, <1>5 DEF TableInv, Present
  <2>2. CASE Fits(k)
    <3> DEFINE vs == <<v>>
               n == 1
               range == k .. k + n - 1
    <3>1. SetArrayRange(k, vs) /\ k \in Indexes /\ k <= Len(array) + 1
      BY <2>2 DEF Set, Fits
    <3>2. k \in Nat \ {0} /\ Items(vs, n) /\ n \in Nat \ {0}
      BY <3>1, KeysAssumption DEF Items
    <3>3. range = k .. k + n - 1 /\ range = {k} /\ vs[1] = v /\ \A j \in {k} : j - k + 1 = 1
      BY <3>2
    <3> HIDE DEF vs, range, n
    <3>4. Wrote(range, k, vs)
      BY <1>1, <3>1, <3>2, <3>3, SetArrayRangeStep
    <3>5. SameKeys
      BY <3>4 DEF Wrote
    <3>6. array'[k] = v
      BY <3>3, <3>4 DEF Wrote
    <3>7. \A j \in 1 .. Len(array) : j # k => j \in 1 .. Len(array') /\ array'[j] = array[j]
      BY <3>3, <3>4 DEF Wrote
    <3>8. \A j \in 1 .. Len(array) : array'[j] = NIL /\ array[j] # NIL => j \in ks
      BY <1>2, <3>6, <3>7
    <3>9. \A j : j # k => (j \in 1 .. Len(array') <=> j \in 1 .. Len(array))
      BY <3>3, <3>4 DEF Wrote
    <3>10. k \in 1 .. Len(array')
      BY <3>3, <3>4 DEF Wrote
    <3>11. Len(array) <= Len(array')
      BY <1>1, <1>4, <3>9, <3>10
    <3>12. ASSUME ~mixed' PROVE Len(array') = Len(array)
      <4>1. Find(nodes, k, LiveOrDead) = {}
        BY <1>2, <1>5, <3>1, <3>12 DEF Written
      <4>2. InArray(k)
        BY <1>1, <1>5, <4>1, PresentMeans, SlotsAreFound
      <4>3. k \in 1 .. Len(array)
        BY <1>1, <4>2, InArrayMeans
      <4>. QED BY <1>1, <1>4, <3>9, <3>11, <4>3
    <3>. QED BY <2>1, <3>5, <3>8, <3>11, <3>12 DEF Quiet
  <2>3. CASE ~Fits(k)
    <3>1. SetHash(k, v)
      BY <2>3 DEF Set
    <3>2. ~InArray(k)
      <4>1. SUFFICES ASSUME k \in 1 .. Len(array) PROVE FALSE
        BY <1>1, InArrayMeans
      <4>2. k \in Indexes /\ k <= MaxArray /\ k <= Len(array) + 1
        BY <1>1, <4>1, IndexIsKey, SizesAssumption DEF ArrayOK
      <4>. QED BY <2>3, <4>2 DEF Fits
    <3>3. \E i \in InUse(nodes) : nodes[i].key = k
      BY <1>1, <1>5, <3>2, PresentMeans DEF LiveNodes, InUse
    <3>4. SameKeys /\ array' = array
      BY <1>1, <3>1, <3>3, SetHashStep
    <3>. QED BY <1>1, <2>1, <3>4 DEF Quiet
  <2>. QED BY <2>2, <2>3
<1>6. Traversing /\ ks \subseteq Present => Quiet(ks)
  BY <1>5
<1> HIDE DEF ks
<1>. QED BY <1>2, <1>4, <1>6, QuietStep

LEMMA RemoveTraversal ==
    ASSUME Inv, TraversalInv, NEW k \in Keys, Remove(k)
    PROVE  TraversalInv'
<1> DEFINE ks == {k}
<1>1. /\ ArrayOK(array) /\ map \in [Keys -> Values \cup {NIL}]
      /\ map' = [map EXCEPT ![k] = NIL] /\ RemoveHash(ks) /\ Written(ks, {}) /\ ks \in SUBSET Keys
      /\ array' = IF InArray(k) THEN [array EXCEPT ![k] = NIL] ELSE array
  BY DEF Inv, TableInv, Remove
<1>2. InArray(k) <=> k \in 1 .. Len(array)
  BY <1>1, InArrayMeans
<1>3. /\ Len(array') = Len(array)
      /\ \A i \in 1 .. Len(array) : array'[i] = IF i \in ks THEN NIL ELSE array[i]
  <2>1. array \in Seq(Values \cup {NIL})
    BY <1>1 DEF ArrayOK
  <2>. QED BY <1>1, <1>2, <2>1
<1>4. \A j \in Keys : map'[j] = IF j \in ks THEN NIL ELSE map[j]
  BY <1>1
<1> HIDE DEF ks
<1>. QED BY <1>1, <1>3, <1>4, EraseTraversal

LEMMA RemoveWeakTraversal ==
    ASSUME Inv, TraversalInv, NEW ks \in SUBSET Keys, RemoveWeakEntries(ks)
    PROVE  TraversalInv'
<1>1. /\ ArrayOK(array)
      /\ map' = [k \in Keys |-> IF k \in ks THEN NIL ELSE map[k]] /\ RemoveHash(ks)
      /\ array' = [i \in DOMAIN array |-> IF i \in ks THEN NIL ELSE array[i]] /\ Written(ks, {})
  BY DEF Inv, TableInv, RemoveWeakEntries
<1>2. /\ Len(array') = Len(array)
      /\ \A i \in 1 .. Len(array) : array'[i] = IF i \in ks THEN NIL ELSE array[i]
  <2>1. array \in Seq(Values \cup {NIL})
    BY <1>1 DEF ArrayOK
  <2>. QED BY <1>1, <2>1
<1>3. \A k \in Keys : map'[k] = IF k \in ks THEN NIL ELSE map[k]
  BY <1>1
<1>. QED BY <1>1, <1>2, <1>3, EraseTraversal

LEMMA TraversalNext ==
    Inv /\ TraversalInv /\ [Next]_vars => TraversalInv'
<1>1. SUFFICES ASSUME Inv, TraversalInv, [Next]_vars PROVE TraversalInv'
  OBVIOUS
<1>2. ASSUME NEW k \in Keys, Remove(k) PROVE TraversalInv'
  BY <1>1, <1>2, RemoveTraversal
<1>3. ASSUME NEW k \in Keys, NEW v \in Values, Set(k, v) PROVE TraversalInv'
  BY <1>1, <1>3, SetTraversal
<1>4. ASSUME NEW first, NEW vs, SetList(first, vs) PROVE TraversalInv'
  BY <1>4 DEF SetList, TraversalInv, Traversing, traversalVars
<1>5. ASSUME NEW ks \in SUBSET Present \ {{}}, RemoveWeakEntries(ks) PROVE TraversalInv'
  <2>1. ks \in SUBSET Keys
    BY DEF Present
  <2>. QED BY <1>1, <1>5, <2>1, RemoveWeakTraversal
<1>6. CASE Begin
  <2>1. at' = Start /\ seen' = {} /\ Start \notin Keys
    BY <1>6, EndIsNotInvalid DEF Begin
  <2>. QED BY <2>1 DEF TraversalInv
<1>7. CASE Advance
  BY <1>1, <1>7, AdvanceTraversal
<1>8. CASE UNCHANGED vars
  BY <1>1, <1>8
     DEF vars, tableVars, traversalVars, TraversalInv, Traversing, InArray, SlotsOf, InUse, Given,
         Reached, UpToIndex, Present
<1>. QED BY <1>1, <1>2, <1>3, <1>4, <1>5, <1>6, <1>7, <1>8 DEF Next

LEMMA TraversalInit ==
    Init => TraversalInv
  BY DEF Init, TraversalInv, Traversing

LEMMA TraversalAlways ==
    Spec => [](Inv /\ TraversalInv)
<1>. QED BY InitInv, NextInv, TraversalInit, TraversalNext, PTL DEF Spec

\* next accepts every key it has given while no key is added, even if the key
\* was erased and then collected; and a traversal that meets no integer key of
\* the hash part gives no key twice and leaves out none that is present.
THEOREM TraversalIsSound ==
    Spec => TraversalSound
<1>1. ASSUME Inv, TraversalInv, [Next]_vars
      PROVE  [Advance =>
                /\ at' # Invalid
                /\ at' \in Keys /\ ~mixed => at' \notin seen
                /\ at' = Idle /\ ~mixed => Present \subseteq seen]_vars
  BY <1>1, AdvanceTraversal
<1>. QED BY <1>1, TraversalAlways, PTL DEF Spec, TraversalSound
-----------------------------------------------------------------------------
(***************************************************************************)
(* The length.                                                             *)
(***************************************************************************)

\* One round of the bisection.
Halved(t, present) ==
    LET mid == t[1] + ((t[2] - t[1]) \div 2)
    IN  IF t[2] <= t[1] + 1 THEN <<t[1], t[2]>>
        ELSE IF mid \in present THEN <<mid, t[2]>> ELSE <<t[1], mid>>

LEMMA HalvedType ==
    ASSUME NEW t \in Nat \X Nat, NEW present
    PROVE  /\ Halved(t, present) \in Nat \X Nat
           /\ LET h == Halved(t, present)
                  mid == t[1] + ((t[2] - t[1]) \div 2)
              IN  IF t[2] <= t[1] + 1 THEN h = t
                  ELSE /\ t[1] < mid /\ mid < t[2] /\ mid \in Nat
                       /\ h = IF mid \in present THEN <<mid, t[2]>> ELSE <<t[1], mid>>
<1> DEFINE mid == t[1] + ((t[2] - t[1]) \div 2)
<1>1. t[1] \in Nat /\ t[2] \in Nat /\ t = <<t[1], t[2]>>
  OBVIOUS
<1>2. ASSUME ~(t[2] <= t[1] + 1) PROVE t[1] < mid /\ mid < t[2] /\ mid \in Nat
  <2>1. \A d \in Nat : d >= 2 => d \div 2 \in Nat /\ 1 <= d \div 2 /\ d \div 2 < d
    OBVIOUS
  <2>2. t[2] - t[1] \in Nat /\ t[2] - t[1] >= 2
    BY <1>1, <1>2
  <2>. QED BY <1>1, <2>1, <2>2
<1>. QED BY <1>1, <1>2 DEF Halved

\* The loop of a bisection: m[i] is the interval after i rounds.
IsBisection(m, low, high, present) ==
    /\ m \in [0 .. high - low -> Nat \X Nat]
    /\ Bisected(low, high, present) = m[high - low][1]
    /\ m[0] = <<low, high>>
    /\ \A i \in 0 .. high - low - 1 : m[i + 1] = Halved(m[i], present)

LEMMA BisectedLoop ==
    ASSUME NEW low \in Nat, NEW high \in Nat, low <= high, NEW present
    PROVE  \E m : IsBisection(m, low, high, present)
<1> DEFINE N == high - low
           V == Nat \X Nat
           step == [x \in Nat \X V |-> Halved(x[2], present)]
<1>1. N \in Nat /\ <<low, high>> \in V
  OBVIOUS
<1>2. IsStep(step, V)
  BY HalvedType DEF IsStep
<1> HIDE DEF step, V, N
<1>3. PICK g : IsRun(g, V, <<low, high>>, step)
  BY <1>1, <1>2, NatRecursion
<1>4. g \in [Nat -> V] /\ g[0] = <<low, high>> /\ \A i \in Nat : g[i + 1] = step[<<i, g[i]>>]
  BY <1>3 DEF IsRun
<1>5. \A i \in Nat : g[i + 1] = Halved(g[i], present)
  BY <1>4 DEF step
<1> DEFINE Loop(f) == [i \in 0 .. N |->
                          IF i = 0 THEN <<low, high>>
                          ELSE Halved(f[i - 1], present)]
           h == [i \in 0 .. N |-> g[i]]
<1>6. h = Loop(h)
  <2>1. ASSUME NEW i \in 0 .. N PROVE h[i] = Loop(h)[i]
    <3>1. CASE i = 0
      BY <1>1, <1>4, <3>1
    <3>2. CASE i # 0
      <4>1. i - 1 \in Nat /\ i - 1 \in 0 .. N /\ (i - 1) + 1 = i
        BY <1>1, <3>2
      <4>2. g[i] = Halved(g[i - 1], present)
        BY <1>5, <4>1
      <4>. QED BY <3>2, <4>1, <4>2
    <3>. QED BY <3>1, <3>2
  <2>. QED BY <2>1
<1> DEFINE m == CHOOSE f : f = Loop(f)
<1>7. m = Loop(m)
  <2> HIDE DEF Loop, h
  <2>. QED BY <1>6
<1>8. Bisected(low, high, present) = m[N][1]
  BY Zenon DEF Bisected, Halved, N
<1> HIDE DEF m
<1>9. DOMAIN m = 0 .. N /\ m[0] = <<low, high>>
  <2>1. DOMAIN Loop(m) = 0 .. N /\ Loop(m)[0] = <<low, high>>
    BY <1>1
  <2> HIDE DEF Loop
  <2>. QED BY <1>7, <2>1
<1>10. ASSUME NEW i \in 0 .. N - 1 PROVE m[i + 1] = Halved(m[i], present)
  <2>1. i + 1 \in 0 .. N /\ i + 1 # 0 /\ (i + 1) - 1 = i
    BY <1>1
  <2>2. m[i + 1] = Loop(m)[i + 1]
    BY <1>7
  <2>. QED BY <2>1, <2>2
<1>11. m \in [0 .. N -> V]
  <2> DEFINE Typed == {i \in Nat : i <= N => m[i] \in V}
  <2>1. 0 \in Typed
    BY <1>1, <1>9
  <2>2. ASSUME NEW i \in Nat, i \in Typed PROVE i + 1 \in Typed
    <3>1. CASE i + 1 <= N
      <4>1. i \in 0 .. N - 1 /\ m[i] \in V
        BY <1>1, <2>2, <3>1
      <4>2. m[i + 1] \in V
        BY <1>10, <4>1, HalvedType DEF V
      <4>. QED BY <4>2
    <3>. QED BY <1>1, <3>1
  <2>3. Nat \subseteq Typed
    <3> HIDE DEF Typed
    <3>. QED BY <2>1, <2>2, NatInduct
  <2>4. \A i \in 0 .. N : m[i] \in V
    BY <1>1, <2>3
  <2>5. m = [i \in 0 .. N |-> m[i]]
    BY <1>7, <1>9
  <2>. QED BY <2>4, <2>5
<1>12. IsBisection(m, low, high, present)
  BY <1>8, <1>9, <1>10, <1>11 DEF N, V, IsBisection
<1>. QED BY <1>12

\* The interval t of a bisection from low, with n rounds to go.
Straddles(t, low, n, present) ==
    /\ low <= t[1] /\ t[1] < t[2] /\ t[2] <= t[1] + 1 + n
    /\ t[1] = 0 \/ t[1] \in present
    /\ t[2] \notin present

LEMMA HalvedStraddles ==
    ASSUME NEW t \in Nat \X Nat, NEW low \in Nat, NEW n \in Nat, NEW present,
           Straddles(t, low, n + 1, present)
    PROVE  Straddles(Halved(t, present), low, n, present)
<1> DEFINE mid == t[1] + ((t[2] - t[1]) \div 2)
           h == Halved(t, present)
<1>1. t[1] \in Nat /\ t[2] \in Nat
  OBVIOUS
<1>2. /\ low <= t[1] /\ t[1] < t[2] /\ t[2] <= t[1] + 1 + (n + 1)
      /\ t[1] = 0 \/ t[1] \in present
      /\ t[2] \notin present
  BY DEF Straddles
<1>3. IF t[2] <= t[1] + 1 THEN h = t
      ELSE /\ t[1] < mid /\ mid < t[2] /\ mid \in Nat
           /\ h = IF mid \in present THEN <<mid, t[2]>> ELSE <<t[1], mid>>
  BY HalvedType
<1> HIDE DEF h, mid
<1>4. CASE t[2] <= t[1] + 1
  <2>1. h = t
    BY <1>3, <1>4
  <2>2. t[2] <= t[1] + 1 + n
    BY <1>1, <1>4
  <2>. QED BY <1>2, <2>1, <2>2 DEF Straddles, h
<1>5. CASE ~(t[2] <= t[1] + 1) /\ mid \in present
  <2>1. t[1] < mid /\ mid < t[2] /\ mid \in Nat /\ h = <<mid, t[2]>>
    BY <1>3, <1>5
  <2>2. low <= mid /\ t[2] <= mid + 1 + n
    BY <1>1, <1>2, <2>1
  <2>3. h[1] = mid /\ h[2] = t[2]
    BY <2>1
  <2>4. Straddles(h, low, n, present)
    BY <1>2, <1>5, <2>1, <2>2, <2>3 DEF Straddles
  <2>. QED BY <2>4 DEF h
<1>6. CASE ~(t[2] <= t[1] + 1) /\ mid \notin present
  <2>1. t[1] < mid /\ mid < t[2] /\ mid \in Nat /\ h = <<t[1], mid>>
    BY <1>3, <1>6
  <2>2. mid <= t[1] + 1 + n
    BY <1>1, <1>2, <2>1
  <2>3. h[1] = t[1] /\ h[2] = mid
    BY <2>1
  <2>4. Straddles(h, low, n, present)
    BY <1>2, <1>6, <2>1, <2>2, <2>3 DEF Straddles
  <2>. QED BY <2>4 DEF h
<1>. QED BY <1>4, <1>5, <1>6

\* A bisection between a present and an absent index ends at a border.
LEMMA BisectedBorder ==
    ASSUME NEW low \in Nat, NEW high \in Nat, low < high,
           NEW present, low = 0 \/ low \in present, high \notin present
    PROVE  LET n == Bisected(low, high, present)
           IN  n \in Nat /\ low <= n /\ (n = 0 \/ n \in present) /\ n + 1 \notin present
<1> DEFINE N == high - low
<1>1. N \in Nat /\ N >= 1 /\ low <= high
  OBVIOUS
<1>2. PICK m : IsBisection(m, low, high, present)
  BY <1>1, BisectedLoop
<1>3. /\ m \in [0 .. N -> Nat \X Nat]
      /\ Bisected(low, high, present) = m[N][1]
      /\ m[0] = <<low, high>>
      /\ \A i \in 0 .. N - 1 : m[i + 1] = Halved(m[i], present)
  BY <1>2 DEF IsBisection
<1> DEFINE Sound == {i \in Nat : i <= N => Straddles(m[i], low, N - i, present)}
<1>4. 0 \in Sound
  <2>1. m[0][1] = low /\ m[0][2] = high
    BY <1>3
  <2>2. high <= low + 1 + (N - 0)
    OBVIOUS
  <2>3. Straddles(m[0], low, N - 0, present)
    BY <2>1, <2>2 DEF Straddles
  <2>. QED BY <2>3
<1>5. ASSUME NEW i \in Nat, i \in Sound PROVE i + 1 \in Sound
  <2>1. SUFFICES ASSUME i + 1 <= N PROVE Straddles(m[i + 1], low, N - (i + 1), present)
    OBVIOUS
  <2>2. i \in 0 .. N - 1 /\ i \in 0 .. N /\ i <= N /\ N - (i + 1) \in Nat
    BY <1>1, <2>1
  <2>3. Straddles(m[i], low, N - i, present) /\ N - i = (N - (i + 1)) + 1
    BY <1>1, <1>5, <2>2
  <2>4. m[i] \in Nat \X Nat /\ m[i + 1] = Halved(m[i], present)
    BY <1>3, <2>2
  <2> HIDE DEF N, Sound
  <2>5. Straddles(m[i], low, (N - (i + 1)) + 1, present)
    BY <2>3
  <2>6. Straddles(Halved(m[i], present), low, N - (i + 1), present)
    BY <2>2, <2>4, <2>5, HalvedStraddles
  <2>. QED BY <2>4, <2>6
<1>6. Nat \subseteq Sound
  <2> HIDE DEF Sound
  <2>. QED BY <1>4, <1>5, NatInduct
<1>7. Straddles(m[N], low, 0, present) /\ m[N][1] \in Nat /\ m[N][2] \in Nat
  <2>1. N - N = 0 /\ N \in 0 .. N
    BY <1>1
  <2>2. N \in Sound /\ m[N] \in Nat \X Nat
    BY <1>1, <1>3, <1>6, <2>1
  <2> HIDE DEF N
  <2>3. Straddles(m[N], low, N - N, present)
    BY <1>1, <2>2
  <2>. QED BY <2>1, <2>2, <2>3
<1> HIDE DEF N
<1>8. /\ low <= m[N][1] /\ m[N][1] < m[N][2] /\ m[N][2] <= m[N][1] + 1 + 0
      /\ m[N][1] = 0 \/ m[N][1] \in present
      /\ m[N][2] \notin present
  BY <1>7 DEF Straddles
<1>9. m[N][2] = m[N][1] + 1
  BY <1>7, <1>8
<1>. QED BY <1>3, <1>7, <1>8, <1>9

\* One round of the search for an absent index.
Widened(t) ==
    IF ~HasIndex(t[2]) THEN t
    ELSE IF t[2] > MaxIndex \div 2 THEN <<t[2], t[2]>> ELSE <<t[2], 2 * t[2]>>

\* The loop of the search: m[i] is the interval after i rounds.
LEMMA UnboundedLoop ==
    ASSUME NEW low \in Nat, NEW high \in Nat
    PROVE  \E m \in [0 .. MaxIndex -> Nat \X Nat] :
              /\ Unbounded(low, high) = m[MaxIndex]
              /\ m[0] = <<low, high>>
              /\ \A i \in 0 .. MaxIndex - 1 : m[i + 1] = Widened(m[i])
<1> DEFINE N == MaxIndex
           V == Nat \X Nat
           step == [x \in Nat \X V |-> Widened(x[2])]
<1>1. N \in Nat /\ <<low, high>> \in V
  BY KeysAssumption
<1>2. ASSUME NEW t \in V PROVE Widened(t) \in V
  BY DEF Widened
<1>3. IsStep(step, V)
  BY <1>2 DEF IsStep
<1> HIDE DEF step, V, N
<1>4. PICK g : IsRun(g, V, <<low, high>>, step)
  BY <1>1, <1>3, NatRecursion
<1>5. g \in [Nat -> V] /\ g[0] = <<low, high>> /\ \A i \in Nat : g[i + 1] = step[<<i, g[i]>>]
  BY <1>4 DEF IsRun
<1>6. \A i \in Nat : g[i + 1] = Widened(g[i])
  BY <1>5 DEF step
<1> DEFINE Loop(f) == [i \in 0 .. N |-> IF i = 0 THEN <<low, high>> ELSE Widened(f[i - 1])]
           h == [i \in 0 .. N |-> g[i]]
<1>7. h = Loop(h)
  <2>1. ASSUME NEW i \in 0 .. N PROVE h[i] = Loop(h)[i]
    <3>1. CASE i = 0
      BY <1>1, <1>5, <3>1
    <3>2. CASE i # 0
      <4>1. i - 1 \in Nat /\ i - 1 \in 0 .. N /\ (i - 1) + 1 = i
        BY <1>1, <3>2
      <4>2. g[i] = Widened(g[i - 1])
        BY <1>6, <4>1
      <4>. QED BY <3>2, <4>1, <4>2
    <3>. QED BY <3>1, <3>2
  <2>. QED BY <2>1
<1> DEFINE m == CHOOSE f : f = Loop(f)
<1>8. m = Loop(m)
  <2> HIDE DEF Loop, h
  <2>. QED BY <1>7
<1>9. Unbounded(low, high) = m[N]
  BY Zenon DEF Unbounded, Widened, N
<1> HIDE DEF m
<1>10. DOMAIN m = 0 .. N /\ m[0] = <<low, high>>
  <2>1. DOMAIN Loop(m) = 0 .. N /\ Loop(m)[0] = <<low, high>>
    BY <1>1
  <2> HIDE DEF Loop
  <2>. QED BY <1>8, <2>1
<1>11. ASSUME NEW i \in 0 .. N - 1 PROVE m[i + 1] = Widened(m[i])
  <2>1. i + 1 \in 0 .. N /\ i + 1 # 0 /\ (i + 1) - 1 = i
    BY <1>1
  <2>2. m[i + 1] = Loop(m)[i + 1]
    BY <1>8
  <2>. QED BY <2>1, <2>2
<1>12. m \in [0 .. N -> V]
  <2> DEFINE Typed == {i \in Nat : i <= N => m[i] \in V}
  <2>1. 0 \in Typed
    BY <1>1, <1>10
  <2>2. ASSUME NEW i \in Nat, i \in Typed PROVE i + 1 \in Typed
    <3>1. CASE i + 1 <= N
      <4>1. i \in 0 .. N - 1 /\ m[i] \in V
        BY <1>1, <2>2, <3>1
      <4>2. m[i + 1] \in V
        BY <1>2, <1>11, <4>1
      <4>. QED BY <4>2
    <3>. QED BY <1>1, <3>1
  <2>3. Nat \subseteq Typed
    <3> HIDE DEF Typed
    <3>. QED BY <2>1, <2>2, NatInduct
  <2>4. \A i \in 0 .. N : m[i] \in V
    BY <1>1, <2>3
  <2>5. m = [i \in 0 .. N |-> m[i]]
    BY <1>8, <1>10
  <2>. QED BY <2>4, <2>5
<1>. QED BY <1>9, <1>10, <1>11, <1>12 DEF N, V

\* No key is beyond the half of the greatest index.
NoneBeyondHalf == Indexes \subseteq 1 .. MaxIndex \div 2

\* The interval t of the search after i rounds.
Searching(t, i) ==
    /\ t[1] < t[2] /\ (t[1] = 0 \/ HasIndex(t[1]))
    /\ HasIndex(t[2]) => i < t[2]

LEMMA WidenedSearching ==
    ASSUME NoneBeyondHalf, NEW t \in Nat \X Nat, NEW i \in Nat, Searching(t, i)
    PROVE  Searching(Widened(t), i + 1)
<1>1. t[1] \in Nat /\ t[2] \in Nat
  OBVIOUS
<1>2. CASE ~HasIndex(t[2])
  BY <1>2 DEF Searching, Widened
<1>3. CASE HasIndex(t[2])
  <2> DEFINE h == t[2]
             w == Widened(t)
  <2>1. MaxIndex \div 2 \in Nat /\ h \in Nat /\ h <= MaxIndex \div 2 /\ h > 0
    BY <1>1, <1>3, KeysAssumption DEF HasIndex, NoneBeyondHalf
  <2>2. ~(h > MaxIndex \div 2)
    BY <2>1
  <2>3. w = <<h, 2 * h>>
    BY <1>3, <2>2 DEF Widened
  <2>4. i < h
    BY <1>3 DEF Searching
  <2> HIDE DEF w
  <2>5. w[1] = h /\ w[2] = 2 * h
    BY <2>3
  <2>6. h < 2 * h /\ i + 1 < 2 * h
    BY <2>1, <2>4
  <2>7. Searching(w, i + 1)
    BY <1>3, <2>5, <2>6 DEF Searching
  <2>. QED BY <2>7 DEF w
<1>. QED BY <1>2, <1>3

\* The search ends between a present index, or 0, and an absent one.
LEMMA UnboundedFinds ==
    ASSUME NoneBeyondHalf, NEW low \in Nat, NEW high \in Nat, low < high,
           low = 0 \/ HasIndex(low)
    PROVE  LET t == Unbounded(low, high)
           IN  /\ t \in Nat \X Nat /\ t[1] < t[2]
               /\ t[1] = 0 \/ HasIndex(t[1])
               /\ ~HasIndex(t[2])
<1> DEFINE N == MaxIndex
<1>1. N \in Nat
  BY KeysAssumption
<1>2. PICK m \in [0 .. N -> Nat \X Nat] :
          /\ Unbounded(low, high) = m[N]
          /\ m[0] = <<low, high>>
          /\ \A i \in 0 .. N - 1 : m[i + 1] = Widened(m[i])
  BY UnboundedLoop, Zenon
<1> DEFINE Sound == {i \in Nat : i <= N => Searching(m[i], i)}
<1>3. 0 \in Sound
  <2>1. m[0][1] = low /\ m[0][2] = high
    BY <1>2
  <2>2. 0 < high
    OBVIOUS
  <2>3. Searching(m[0], 0)
    BY <2>1, <2>2 DEF Searching
  <2>. QED BY <2>3
<1>4. ASSUME NEW i \in Nat, i \in Sound PROVE i + 1 \in Sound
  <2>1. SUFFICES ASSUME i + 1 <= N PROVE Searching(m[i + 1], i + 1)
    OBVIOUS
  <2>2. i \in 0 .. N - 1 /\ i \in 0 .. N /\ i <= N
    BY <1>1, <2>1
  <2>3. Searching(m[i], i)
    BY <1>4, <2>2
  <2>4. m[i] \in Nat \X Nat /\ m[i + 1] = Widened(m[i])
    BY <1>2, <2>2
  <2> HIDE DEF N, Sound
  <2>5. Searching(Widened(m[i]), i + 1)
    BY <2>3, <2>4, WidenedSearching
  <2>. QED BY <2>4, <2>5
<1>5. Nat \subseteq Sound
  <2> HIDE DEF Sound
  <2>. QED BY <1>3, <1>4, NatInduct
<1>6. Searching(m[N], N) /\ m[N] \in Nat \X Nat
  BY <1>1, <1>2, <1>5
<1>7. ~HasIndex(m[N][2])
  <2>1. CASE HasIndex(m[N][2])
    <3>1. m[N][2] \in 1 .. MaxIndex
      BY <2>1, KeysAssumption DEF HasIndex
    <3>. QED BY <1>1, <1>6, <2>1, <3>1 DEF Searching
  <2>. QED BY <2>1
<1>. QED BY <1>2, <1>6, <1>7 DEF Searching
\* An index of the array part is present by its value.
LEMMA ArrayIndex ==
    ASSUME TableInv, NEW i \in 1 .. Len(array)
    PROVE  i \in Nat /\ (HasIndex(i) <=> array[i] # NIL)
<1>1. ArrayOK(array)
  BY DEF TableInv
<1>2. i \in Indexes /\ i \in Keys /\ Len(array) \in Nat
  BY <1>1, IndexIsKey
<1>3. InArray(i)
  BY <1>1, InArrayMeans
<1>4. i \in Present <=> array[i] # NIL
  BY <1>2, <1>3, PresentIndex
<1>5. Get(i) = map[i]
  BY <1>2, GetIsMap DEF ActsAsMap
<1>. QED BY <1>2, <1>4, <1>5 DEF HasIndex, Present

\* The bisection of the array part, when its last value is absent.
LEMMA ArrayBorder ==
    ASSUME TableInv, Len(array) > 0, array[Len(array)] = NIL
    PROVE  LET n == Bisected(0, Len(array), InArrayPart)
           IN  (n = 0 \/ HasIndex(n)) /\ ~HasIndex(n + 1)
<1> DEFINE top == Len(array)
           n == Bisected(0, top, InArrayPart)
<1>1. top \in Nat /\ 0 < top
  BY IndexIsKey DEF TableInv
<1>2. top \notin InArrayPart
  BY DEF InArrayPart
<1> HIDE DEF n
<1>3. n \in Nat /\ (n = 0 \/ n \in InArrayPart) /\ n + 1 \notin InArrayPart
  <2> HIDE DEF top
  <2>1. 0 \in Nat
    OBVIOUS
  <2>. QED BY <1>1, <1>2, <2>1, BisectedBorder DEF n
<1>4. n < top
  <2>1. CASE n = 0
    BY <1>1, <2>1
  <2>2. CASE n \in InArrayPart
    <3>1. n # top /\ n \in 1 .. top
      BY <1>2, <2>2 DEF InArrayPart
    <3>. QED BY <1>1, <3>1
  <2>. QED BY <1>3, <2>1, <2>2
<1>5. n + 1 \in 1 .. Len(array)
  BY <1>1, <1>3, <1>4
<1>6. ~HasIndex(n + 1)
  BY <1>3, <1>5, ArrayIndex DEF InArrayPart
<1>7. n = 0 \/ HasIndex(n)
  <2>1. ASSUME n \in InArrayPart PROVE HasIndex(n)
    <3>1. n \in 1 .. Len(array) /\ array[n] # NIL
      BY <2>1 DEF InArrayPart
    <3>. QED BY <3>1, ArrayIndex
  <2>. QED BY <1>3, <2>1
<1>. QED BY <1>6, <1>7 DEF n

\* The search from a present index, or from 0, ends at a border.
LEMMA SearchedBorder ==
    ASSUME NoneBeyondHalf, NEW n \in Nat, n = 0 \/ HasIndex(n)
    PROVE  LET r == Searched(n) IN (r = 0 \/ HasIndex(r)) /\ ~HasIndex(r + 1)
<1> DEFINE high == IF n = 0 THEN 1 ELSE 2 * n
           t == Unbounded(n, high)
           r == Bisected(t[1], t[2], Anywhere)
<1>1. high \in Nat /\ n < high
  OBVIOUS
<1>2. \A i : i \in Anywhere <=> HasIndex(i)
  BY DEF Anywhere, HasIndex
<1> HIDE DEF high, t, r
<1>3. t \in Nat \X Nat /\ t[1] < t[2] /\ (t[1] = 0 \/ HasIndex(t[1])) /\ ~HasIndex(t[2])
  BY <1>1, UnboundedFinds DEF t
<1>4. t[1] \in Nat /\ t[2] \in Nat /\ (t[1] = 0 \/ t[1] \in Anywhere) /\ t[2] \notin Anywhere
  BY <1>2, <1>3
<1>5. (r = 0 \/ r \in Anywhere) /\ r + 1 \notin Anywhere
  BY <1>3, <1>4, BisectedBorder DEF r
<1>6. Searched(n) = r
  BY Zenon DEF Searched, r, t, high
<1>. QED BY <1>2, <1>5, <1>6

LEMMA InvBorder ==
    ASSUME NoneBeyondHalf, Inv
    PROVE  LengthIsBorder
<1> DEFINE top == Len(array)
<1>1. TableInv /\ top \in Nat
  BY IndexIsKey DEF Inv, TableInv
<1>2. \A i \in 1 .. top : i \in Nat /\ (HasIndex(i) <=> array[i] # NIL)
  BY <1>1, ArrayIndex
<1>3. CASE top > 0 /\ array[top] = NIL
  <2>1. Length = Bisected(0, top, InArrayPart)
    BY <1>3 DEF Length
  <2>. QED BY <1>1, <1>3, <2>1, ArrayBorder DEF LengthIsBorder
<1>4. CASE ~(top > 0 /\ array[top] = NIL) /\ top > 0 /\ ~HasIndex(top + 1)
  <2>1. Length = top
    BY <1>4 DEF Length
  <2>2. HasIndex(top)
    BY <1>1, <1>2, <1>4
  <2>. QED BY <1>4, <2>1, <2>2 DEF LengthIsBorder
<1>5. CASE ~(top > 0 /\ array[top] = NIL) /\ ~(top > 0 /\ ~HasIndex(top + 1))
  <2>1. Length = Searched(top)
    BY <1>5 DEF Length
  <2>2. top = 0 \/ HasIndex(top)
    BY <1>1, <1>2, <1>5
  <2> HIDE DEF top
  <2>. QED BY <1>1, <2>1, <2>2, SearchedBorder DEF LengthIsBorder
<1>. QED BY <1>3, <1>4, <1>5

\* The length is a border, whatever the array part and the hash part hold and
\* wherever the doubling search of length in src/core/table.cpp goes, as long
\* as no key is beyond half of the greatest index: there the search gives up
\* at an index that may have a successor.
THEOREM LengthAlwaysBorder ==
    ASSUME NoneBeyondHalf
    PROVE  Spec => []LengthIsBorder
<1>1. Inv => LengthIsBorder
  BY InvBorder
<1>. QED BY <1>1, InvAlways, PTL
=============================================================================
