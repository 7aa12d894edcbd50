------------------------------ MODULE LuaTable ------------------------------
(***************************************************************************)
(* Table of src/core/table.cpp: an array part for the integers that were   *)
(* stored without a gap, and a hash part with open addressing, linear      *)
(* probing and dead nodes that keep their keys; and one program that       *)
(* traverses the table with next while it assigns to it.                   *)
(*                                                                         *)
(* A value is its presence or absence (NIL) and an identity.  HashOf gives *)
(* the home of a key before it is masked.  Failing calls (a nil or NaN     *)
(* key, a resource limit, no memory for a rehash) leave the table as it    *)
(* was and are not steps.                                                  *)
(***************************************************************************)
EXTENDS Naturals, Sequences, FiniteSets

CONSTANTS
    Indexes,    \* bound: the positive integer keys in use
    MaxIndex,   \* the greatest of them there is: the maximum of i32
    Others,     \* bound: the other keys in use
    Values,
    NIL,
    Idle, Start, End, Invalid,  \* a traversal that has no key to go on with
    HashOf,     \* ValueHash
    MinNodes,   \* the first capacity of the hash part: 8 in the code
    MaxArray,   \* ResourcePolicy::maxTableArraySlots
    MaxHash,    \* ResourcePolicy::maxTableHashEntries
    Flush       \* FIELDS_PER_FLUSH

Keys == Indexes \cup Others

ASSUME KeysAssumption ==
    /\ MaxIndex \in Nat /\ Indexes \subseteq 1 .. MaxIndex
    /\ Indexes \cap Others = {}
    /\ NIL \notin Values /\ NIL \notin Keys
    /\ {Idle, Start, End, Invalid} \cap Keys = {}
    /\ Cardinality({Idle, Start, End, Invalid}) = 4
ASSUME HashAssumption == HashOf \in [Keys -> Nat]
ASSUME SizesAssumption ==
    /\ MinNodes \in Nat /\ MinNodes >= 4
    /\ MaxArray \in Nat /\ MaxHash \in Nat /\ Flush \in Nat \ {0}
    /\ 1 .. MaxArray \subseteq Indexes

VARIABLES
    array,    \* array_
    nodes,    \* hashNodes_
    live,     \* hashLiveCount_
    used,     \* hashUsedCount_
    at,       \* the key the traversal has arrived at
    seen,     \* the keys it has been given
    mixed,    \* an integer key with a node was written during the traversal
    map       \* what the program has stored, as a map

tableVars == <<array, nodes, live, used>>
traversalVars == <<at, seen, mixed>>
vars == <<tableVars, traversalVars, map>>

-----------------------------------------------------------------------------
(***************************************************************************)
(* The hash part.                                                          *)
(***************************************************************************)

EmptyNode == [key |-> NIL, value |-> NIL, state |-> "empty"]

\* hashNodes_.size().
Capacity(ns) == Cardinality(DOMAIN ns)

\* How many probes after its home slot a key comes to slot i of n.
Distance(k, i, n) == (i + n - (HashOf[k] % n)) % n

\* The slots that are probed before i.
Before(ns, k, i) ==
    LET n == Capacity(ns)
    IN  {j \in DOMAIN ns : Distance(k, j, n) < Distance(k, i, n)}

\* findHashNode, as the set of the node that it finds.
Find(ns, k, states) ==
    LET Match(i) == ns[i].key = k /\ ns[i].state \in states
    IN  {i \in DOMAIN ns :
            Match(i) /\ \A j \in Before(ns, k, i) : ns[j].state # "empty" /\ ~Match(j)}

Live == {"live"}
LiveOrDead == {"live", "dead"}

\* Mutation: an erased node becomes empty.
KilledEmpty(gone) ==
    [i \in DOMAIN nodes |-> IF i \in gone THEN EmptyNode ELSE nodes[i]]

\* The nodes in gone die, and keep their keys.
Killed(gone) ==
    [i \in DOMAIN nodes |->
        IF i \in gone THEN [nodes[i] EXCEPT !.value = NIL, !.state = "dead"]
        ELSE nodes[i]]

LiveNodes(ns) == {i \in DOMAIN ns : ns[i].state = "live"}

\* The first slot that is not live: the loops of setHash, which prefers a dead
\* node to the empty one that ends its probing, and of rehash.
Place(ns, k) ==
    CHOOSE i \in DOMAIN ns :
        /\ ns[i].state # "live"
        /\ \A j \in Before(ns, k, i) : ns[j].state = "live"

\* rehash: the live nodes are inserted in the order of their slots.
Rehashed(ns, n) ==
    LET moved[i \in 0 .. Capacity(ns)] ==
            IF i = 0 THEN [j \in 0 .. n - 1 |-> EmptyNode]
            ELSE IF ns[i - 1].state # "live" THEN moved[i - 1]
            ELSE [moved[i - 1] EXCEPT ![Place(moved[i - 1], ns[i - 1].key)] = ns[i - 1]]
    IN  moved[Capacity(ns)]

\* Mutation: the hash part may fill up.
RoomFull ==
    IF nodes = <<>> THEN [nodes |-> Rehashed(nodes, MinNodes), used |-> 0]
    ELSE [nodes |-> nodes, used |-> used]

\* ensureHashInsertCapacity.
Room ==
    LET n == Capacity(nodes)
        Rehash(m) == [nodes |-> Rehashed(nodes, m), used |-> live]
    IN  IF n = 0 THEN Rehash(MinNodes)
        ELSE IF used + 1 <= n - (n \div 4) THEN [nodes |-> nodes, used |-> used]
        ELSE Rehash(IF live * 2 < used THEN n ELSE 2 * n)

-----------------------------------------------------------------------------
(***************************************************************************)
(* Raw access.                                                             *)
(***************************************************************************)

InArray(k) == k \in Indexes /\ k <= Len(array)

\* get.
Get(k) ==
    IF InArray(k) /\ array[k] # NIL THEN array[k]
    ELSE IF Find(nodes, k, Live) = {} THEN NIL
    ELSE nodes[CHOOSE i \in Find(nodes, k, Live) : TRUE].value

Present == {k \in Keys : map[k] # NIL}

\* shouldStoreInArray.
Fits(k) == k \in Indexes /\ k <= MaxArray /\ k <= Len(array) + 1

\* Mutation: the values that move to the array stay in the hash part too.
SetArrayRangeOnly(first, vs) ==
    LET last == first + Len(vs) - 1
    IN  /\ last <= MaxArray
        /\ array' = [i \in 1 .. (IF last > Len(array) THEN last ELSE Len(array)) |->
                        IF i \in first .. last THEN vs[i - first + 1]
                        ELSE IF i <= Len(array) THEN array[i] ELSE NIL]
        /\ UNCHANGED <<nodes, live, used>>

\* removeHash of the keys ks: their nodes die.
RemoveHash(ks) ==
    LET gone == UNION {Find(nodes, k, Live) : k \in ks}
    IN  /\ nodes' = Killed(gone)
        /\ live' = live - Cardinality(gone)
        /\ used' = used

\* setArrayRange.
SetArrayRange(first, vs) ==
    LET last == first + Len(vs) - 1
    IN  /\ last <= MaxArray
        /\ array' = [i \in 1 .. (IF last > Len(array) THEN last ELSE Len(array)) |->
                        IF i \in first .. last THEN vs[i - first + 1]
                        ELSE IF i <= Len(array) THEN array[i] ELSE NIL]
        /\ RemoveHash((first .. last) \cap Keys)

\* setHash finds a live node, or a dead one of the same key, or inserts one.
SetHash(k, v) ==
    LET node == [key |-> k, value |-> v, state |-> "live"]
        found == Find(nodes, k, LiveOrDead)
        room == Room
        place == Place(room.nodes, k)
    IN  /\ array' = array
        /\ \/ \E i \in found :
                 /\ nodes[i].state = "dead" => live < MaxHash
                 /\ nodes' = [nodes EXCEPT ![i] = node]
                 /\ live' = IF nodes[i].state = "dead" THEN live + 1 ELSE live
                 /\ used' = used
           \/ /\ found = {} /\ live < MaxHash
              /\ nodes' = [room.nodes EXCEPT ![place] = node]
              /\ live' = live + 1
              /\ used' = room.used + (IF room.nodes[place].state = "dead" THEN 0 ELSE 1)

-----------------------------------------------------------------------------
(***************************************************************************)
(* next.                                                                   *)
(***************************************************************************)

\* The first key after index i of the array, or else the first one of a live
\* node; End if there is none.
First(S) == CHOOSE i \in S : \A j \in S : i <= j

HashFrom(i) ==
    LET later == {j \in DOMAIN nodes : j >= i /\ nodes[j].state = "live"}
    IN  IF later = {} THEN End ELSE nodes[First(later)].key

ArrayFrom(i) ==
    LET later == {j \in DOMAIN array : j > i /\ array[j] # NIL}
    IN  IF later = {} THEN HashFrom(0) ELSE First(later)

\* Mutation: dead nodes are not looked at.
NextKeyOfLive(k) ==
    IF k = Start THEN ArrayFrom(0)
    ELSE IF InArray(k) /\ (array[k] # NIL \/ Find(nodes, k, Live) = {})
    THEN ArrayFrom(k)
    ELSE IF Find(nodes, k, Live) = {} THEN Invalid
    ELSE HashFrom((CHOOSE i \in Find(nodes, k, Live) : TRUE) + 1)

\* Mutation: a traversal of the hash part begins after its first slot.
NextKeyLate(k) ==
    IF k = Start THEN ArrayFrom(0)
    ELSE IF InArray(k) /\ (array[k] # NIL \/ Find(nodes, k, LiveOrDead) = {})
    THEN IF {j \in DOMAIN array : j > k /\ array[j] # NIL} = {} THEN HashFrom(1)
         ELSE ArrayFrom(k)
    ELSE IF Find(nodes, k, LiveOrDead) = {} THEN Invalid
    ELSE HashFrom((CHOOSE i \in Find(nodes, k, LiveOrDead) : TRUE) + 1)

\* Mutation: a key that was erased from the array starts it again.
NextKeyRestarts(k) ==
    IF k = Start THEN ArrayFrom(0)
    ELSE IF InArray(k) /\ array[k] = NIL THEN ArrayFrom(0)
    ELSE IF InArray(k) THEN ArrayFrom(k)
    ELSE IF Find(nodes, k, LiveOrDead) = {} THEN Invalid
    ELSE HashFrom((CHOOSE i \in Find(nodes, k, LiveOrDead) : TRUE) + 1)

\* next.
NextKey(k) ==
    IF k = Start THEN ArrayFrom(0)
    ELSE IF InArray(k) /\ (array[k] # NIL \/ Find(nodes, k, LiveOrDead) = {})
    THEN ArrayFrom(k)
    ELSE IF Find(nodes, k, LiveOrDead) = {} THEN Invalid
    ELSE HashFrom((CHOOSE i \in Find(nodes, k, LiveOrDead) : TRUE) + 1)

Traversing == at \notin {Idle, Invalid}

\* What writing to the keys ks, some of which become present, means for the
\* traversal: Lua defines it as long as no key is added.
Written(ks, added) ==
    IF Traversing /\ added \subseteq Present
    THEN /\ UNCHANGED <<at, seen>>
         /\ mixed' = (mixed \/ \E k \in ks \cap Indexes : Find(nodes, k, LiveOrDead) # {})
    ELSE at' = Idle /\ seen' = {} /\ mixed' = FALSE

-----------------------------------------------------------------------------
(***************************************************************************)
(* Operations.                                                             *)
(***************************************************************************)

\* set with a value.
Set(k, v) ==
    /\ IF Fits(k) THEN SetArrayRange(k, <<v>>) ELSE SetHash(k, v)
    /\ map' = [map EXCEPT ![k] = v]
    /\ Written({k}, {k})

\* set with nil, and remove.
Remove(k) ==
    /\ array' = IF InArray(k) THEN [array EXCEPT ![k] = NIL] ELSE array
    /\ RemoveHash({k})
    /\ map' = [map EXCEPT ![k] = NIL]
    /\ Written({k}, {})

\* SETLIST, in a table constructor: the array holds the items before these,
\* and nothing else refers to the table.
SetList(first, vs) ==
    /\ ~Traversing /\ first <= Len(array) + 1
    /\ SetArrayRange(first, vs)
    /\ map' = [k \in Keys |-> IF k \in first .. first + Len(vs) - 1
                              THEN vs[k - first + 1] ELSE map[k]]
    /\ UNCHANGED traversalVars

\* removeWeakEntries, when the entries of the keys ks refer to dead objects.
RemoveWeakEntries(ks) ==
    /\ array' = [i \in DOMAIN array |-> IF i \in ks THEN NIL ELSE array[i]]
    /\ RemoveHash(ks)
    /\ map' = [k \in Keys |-> IF k \in ks THEN NIL ELSE map[k]]
    /\ Written(ks, {})

\* pairs, and a call of next with the key it has returned before.
Begin ==
    /\ ~Traversing
    /\ at' = Start /\ seen' = {} /\ mixed' = FALSE
    /\ UNCHANGED <<tableVars, map>>

Advance ==
    /\ Traversing
    /\ UNCHANGED <<tableVars, map>>
    /\ LET k == NextKey(at)
       IN  IF k = End THEN at' = Idle /\ seen' = {} /\ mixed' = FALSE
           ELSE /\ at' = k
                /\ seen' = IF k = Invalid THEN {} ELSE seen \cup {k}
                /\ mixed' = (k # Invalid /\ mixed)

Init ==
    /\ array = <<>> /\ nodes = <<>> /\ live = 0 /\ used = 0
    /\ at = Idle /\ seen = {} /\ mixed = FALSE
    /\ map = [k \in Keys |-> NIL]

Next ==
    \/ \E k \in Keys : Remove(k) \/ \E v \in Values : Set(k, v)
    \/ \E first \in {1, 1 + Flush}, n \in 1 .. Flush :
          \E vs \in [1 .. n -> Values \cup {NIL}] : SetList(first, vs)
    \/ \E ks \in SUBSET Present \ {{}} : RemoveWeakEntries(ks)
    \/ Begin \/ Advance

Spec == Init /\ [][Next]_vars

-----------------------------------------------------------------------------
(***************************************************************************)
(* length.                                                                 *)
(***************************************************************************)

HasIndex(i) == i \in Indexes /\ Get(i) # NIL

\* The bisection of the indexes between low, which is present or 0, and high,
\* which is absent: one round of the loop after the other, until nothing is
\* between them.
Bisected(low, high, present) ==
    LET between[i \in 0 .. high - low] ==
            IF i = 0 THEN <<low, high>>
            ELSE LET l == between[i - 1][1]
                     h == between[i - 1][2]
                     mid == l + ((h - l) \div 2)
                 IN  IF h <= l + 1 THEN <<l, h>>
                     ELSE IF mid \in present THEN <<mid, h>> ELSE <<l, mid>>
    IN  between[high - low][1]
InArrayPart == {i \in 1 .. Len(array) : array[i] # NIL}
Anywhere == {i \in Indexes : HasIndex(i)}

\* The search for an absent index doubles, as far as the indexes go: if the
\* last one it comes to is present, this one is the length.
Unbounded(low, high) ==
    LET around[i \in 0 .. MaxIndex] ==
            IF i = 0 THEN <<low, high>>
            ELSE LET h == around[i - 1][2]
                 IN  IF ~HasIndex(h) THEN around[i - 1]
                     ELSE IF h > MaxIndex \div 2 THEN <<h, h>> ELSE <<h, 2 * h>>
    IN  around[MaxIndex]

Searched(n) ==
    LET found == Unbounded(n, IF n = 0 THEN 1 ELSE 2 * n)
    IN  Bisected(found[1], found[2], Anywhere)

\* Mutation: the array is taken to be full.
LengthOfFullArray ==
    LET n == Len(array) IN IF n > 0 /\ ~HasIndex(n + 1) THEN n ELSE Searched(n)

\* length.
Length ==
    LET n == Len(array)
    IN  IF n > 0 /\ array[n] = NIL THEN Bisected(0, n, InArrayPart)
        ELSE IF n > 0 /\ ~HasIndex(n + 1) THEN n
        ELSE Searched(n)

-----------------------------------------------------------------------------
(***************************************************************************)
(* Properties.                                                             *)
(***************************************************************************)

Node == [key : Keys, value : Values, state : {"live"}]
        \cup [key : Keys, value : {NIL}, state : {"dead"}] \cup {EmptyNode}

\* The capacities of the hash part, whose number of slots is a mask.
Doubled[e \in Nat] == IF e = 0 THEN MinNodes ELSE 2 * Doubled[e - 1]

TypeOK ==
    /\ array \in Seq(Values \cup {NIL}) /\ Len(array) <= MaxArray
    /\ Capacity(nodes) = 0 \/ \E e \in 0 .. Capacity(nodes) : Capacity(nodes) = Doubled[e]
    /\ nodes \in [0 .. Capacity(nodes) - 1 -> Node]
    /\ live = Cardinality(LiveNodes(nodes)) /\ live <= MaxHash
    /\ used = Cardinality({i \in DOMAIN nodes : nodes[i].state # "empty"})
    /\ at \in Keys \cup {Idle, Start, Invalid}
    /\ seen \subseteq Keys /\ mixed \in BOOLEAN
    /\ map \in [Keys -> Values \cup {NIL}]

\* The loops of findHashNode, setHash and rehash end: some node is empty.
ProbingEnds == nodes # <<>> => \E i \in DOMAIN nodes : nodes[i].state = "empty"

\* A key has one place: dead nodes are reused by their own key, no key has two
\* nodes, none is in both parts, and what the array could hold is in the array.
OnePlace ==
    /\ \A i, j \in DOMAIN nodes :
          nodes[i].state # "empty" /\ nodes[i].key = nodes[j].key => i = j
    /\ \A i \in LiveNodes(nodes) : ~InArray(nodes[i].key)

\* Probing for a key that has a node, dead ones included, meets no empty slot
\* before it: erasing never cuts a chain of probes.
Chained ==
    \A i \in DOMAIN nodes : nodes[i].state # "empty" =>
        \A j \in Before(nodes, nodes[i].key, i) : nodes[j].state # "empty"

\* What the search for a key relies on, with the counters that decide when to
\* grow.
NodesSound == TypeOK /\ ProbingEnds /\ OnePlace /\ Chained

\* The length is a border: present, or 0, and followed by an absent index.
\* (Only if no key is beyond half of the greatest index: see Unbounded.)
LengthIsBorder ==
    LET n == Length IN (n = 0 \/ HasIndex(n)) /\ ~HasIndex(n + 1)

\* Whatever happens to the nodes, get answers what was stored last: each
\* operation changes the keys it is about, and no other key.
ActsAsMap == \A k \in Keys : Get(k) = map[k]

\* next accepts every key that it gave while no key is added, even if the key
\* is erased and then collected.  A traversal that does not meet integer keys
\* of the hash part gives no key twice, and in the end has given every key that
\* is still present.
TraversalSound ==
    [][Advance =>
        /\ at' # Invalid
        /\ at' \in Keys /\ ~mixed => at' \notin seen
        /\ at' = Idle /\ ~mixed => Present \subseteq seen]_vars

\* Lua allows to erase and to assign the existing fields during a traversal.
TraversalComplete == [][Advance /\ at' = Idle => Present \subseteq seen]_vars

=============================================================================
