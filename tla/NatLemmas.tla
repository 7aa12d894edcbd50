----------------------------- MODULE NatLemmas -----------------------------
(***************************************************************************)
(* Induction and recursion over the natural numbers, stated about sets and *)
(* functions instead of operators: they follow from the fact that every    *)
(* nonempty set of natural numbers has a least element.                    *)
(***************************************************************************)
EXTENDS Integers, NaturalsInduction, WellFoundedInduction, TLAPS

\* A nonempty set of natural numbers has a least element.  The arguments about
\* the first slot, instruction or step that is in some state rest on it.
LEMMA NatMin ==
    ASSUME NEW S \in SUBSET Nat, S # {}
    PROVE  \E x \in S : \A y \in S : x <= y
<1> DEFINE R == {ss \in Nat \X Nat : ss[1] < ss[2]}
<1>1. IsWellFoundedOn(R, Nat)
  BY NatLessThanWellFounded DEF OpToRel
<1>2. PICK x \in S : \A y \in S : ~(<<y, x>> \in R)
  BY <1>1, WFMin
<1>3. ASSUME NEW y \in S PROVE x <= y
  <2>1. x \in Nat /\ y \in Nat
    OBVIOUS
  <2>2. ~(y < x)
    BY <1>2, <2>1
  <2>. QED BY <2>1, <2>2
<1>. QED BY <1>3

\* A set that holds 0, and n + 1 with every n, holds every natural number:
\* the induction over the loops of the code that are modelled by functions.
LEMMA NatInduct ==
    ASSUME NEW S, 0 \in S, \A n \in Nat : n \in S => n + 1 \in S
    PROVE  Nat \subseteq S
<1> DEFINE Left == Nat \ S
<1>1. SUFFICES ASSUME Left # {} PROVE FALSE
  OBVIOUS
<1>2. PICK x \in Left : \A y \in Left : x <= y
  BY <1>1, NatMin
<1>3. x \in Nat /\ x # 0
  OBVIOUS
<1>4. x - 1 \in Nat /\ x - 1 \notin Left
  BY <1>2, <1>3
<1>. QED BY <1>3, <1>4

\* step gives the value of V that comes after value t at number i.
IsStep(step, V) == step \in [Nat \X V -> V]

\* g is the sequence of values that starts with v0 and goes on with step.
IsRun(g, V, v0, step) ==
    g \in [Nat -> V] /\ g[0] = v0 /\ \A i \in Nat : g[i + 1] = step[<<i, g[i]>>]

\* A function on the natural numbers may be defined by its first value and the
\* step from each value to the next one.
LEMMA NatRecursion ==
    ASSUME NEW V, NEW v0 \in V, NEW step, IsStep(step, V)
    PROVE  \E g : IsRun(g, V, v0, step)
<1>0. step \in [Nat \X V -> V]
  BY DEF IsStep
<1> DEFINE Prefixes(n) == {h \in [0 .. n -> V] :
                              h[0] = v0 /\ \A i \in 1 .. n : h[i] = step[<<i - 1, h[i - 1]>>]}
           Reached == {n \in Nat : \E h : h \in Prefixes(n)}
<1>1. \A n, h : h \in Prefixes(n) <=>
         /\ h \in [0 .. n -> V] /\ h[0] = v0
         /\ \A i \in 1 .. n : h[i] = step[<<i - 1, h[i - 1]>>]
  OBVIOUS
<1>2. \A n \in Nat : n \in Reached <=> \E h : h \in Prefixes(n)
  OBVIOUS
<1> HIDE DEF Prefixes, Reached
<1>3. 0 \in Reached
  <2> DEFINE h == [i \in 0 .. 0 |-> v0]
  <2>1. h \in [0 .. 0 -> V] /\ h[0] = v0
    OBVIOUS
  <2>2. \A i \in 1 .. 0 : h[i] = step[<<i - 1, h[i - 1]>>]
    OBVIOUS
  <2>3. h \in Prefixes(0)
    BY <1>1, <2>1, <2>2
  <2>. QED BY <1>2, <2>3
<1>4. ASSUME NEW n \in Nat, n \in Reached PROVE n + 1 \in Reached
  <2>1. PICK h : h \in Prefixes(n)
    BY <1>2, <1>4
  <2>2. h \in [0 .. n -> V] /\ h[0] = v0 /\ \A i \in 1 .. n : h[i] = step[<<i - 1, h[i - 1]>>]
    BY <1>1, <2>1
  <2>3. step[<<n, h[n]>>] \in V
    BY <1>0, <2>2
  <2> DEFINE longer == [i \in 0 .. n + 1 |-> IF i <= n THEN h[i] ELSE step[<<n, h[n]>>]]
  <2>4. longer \in [0 .. n + 1 -> V] /\ longer[0] = v0
    BY <2>2, <2>3
  <2>5. ASSUME NEW i \in 1 .. n + 1 PROVE longer[i] = step[<<i - 1, longer[i - 1]>>]
    <3>1. CASE i = n + 1
      <4>1. i - 1 = n /\ longer[n] = h[n] /\ longer[n + 1] = step[<<n, h[n]>>]
        BY <3>1
      <4>. QED BY <3>1, <4>1
    <3>2. CASE i # n + 1
      <4>1. i \in 1 .. n /\ i - 1 \in 0 .. n
        BY <3>2
      <4>2. longer[i] = h[i] /\ longer[i - 1] = h[i - 1]
        BY <4>1
      <4>. QED BY <2>2, <4>1, <4>2
    <3>. QED BY <3>1, <3>2
  <2>6. longer \in Prefixes(n + 1)
    BY <1>1, <2>4, <2>5
  <2>7. n + 1 \in Nat
    OBVIOUS
  <2>. QED BY <1>2, <2>6, <2>7
<1>5. Nat \subseteq Reached
  BY <1>3, <1>4, NatInduct
<1>6. ASSUME NEW n \in Nat, NEW m \in Nat, n <= m,
             NEW h, h \in Prefixes(n), NEW k, k \in Prefixes(m)
      PROVE  \A i \in 0 .. n : h[i] = k[i]
  <2> DEFINE Differ == {i \in Nat : i <= n /\ h[i] # k[i]}
  <2>1. SUFFICES ASSUME Differ # {} PROVE FALSE
    OBVIOUS
  <2>2. PICK x \in Differ : \A y \in Differ : x <= y
    BY <2>1, NatMin
  <2>3. x # 0
    BY <1>1, <1>6
  <2>4. x \in 1 .. n /\ x \in 1 .. m /\ x - 1 \in Nat
    BY <1>6, <2>3
  <2>5. h[x - 1] = k[x - 1]
    BY <2>2, <2>4
  <2>6. h[x] = step[<<x - 1, h[x - 1]>>]
    BY <1>1, <1>6, <2>4
  <2>7. k[x] = step[<<x - 1, k[x - 1]>>]
    BY <1>1, <1>6, <2>4
  <2>8. h[x] # k[x]
    OBVIOUS
  <2>. QED BY <2>5, <2>6, <2>7, <2>8
<1> DEFINE At(n) == CHOOSE h : h \in Prefixes(n)
           g == [n \in Nat |-> At(n)[n]]
<1>7. \A n \in Nat : At(n) \in Prefixes(n)
  BY <1>2, <1>5
<1> HIDE DEF At
<1>8. \A n \in Nat : At(n)[n] \in V /\ At(n)[0] = v0
  BY <1>1, <1>7
<1>9. g \in [Nat -> V] /\ g[0] = v0
  BY <1>8
<1>10. ASSUME NEW i \in Nat PROVE g[i + 1] = step[<<i, g[i]>>]
  <2>1. At(i)[i] = At(i + 1)[i]
    BY <1>6, <1>7
  <2>2. i + 1 \in 1 .. i + 1 /\ (i + 1) - 1 = i
    OBVIOUS
  <2>3. At(i + 1)[i + 1] = step[<<i, At(i + 1)[i]>>]
    BY <1>1, <1>7, <2>2
  <2>. QED BY <2>1, <2>3
<1>. QED BY <1>9, <1>10 DEF IsRun

\* f gives the value after each round of a loop of n rounds.
IsLoop(f, n, V, v0, step) ==
    f \in [0 .. n -> V] /\ f[0] = v0 /\ \A i \in 1 .. n : f[i] = step[<<i - 1, f[i - 1]>>]

\* Every loop has such a function.
LEMMA LoopExists ==
    ASSUME NEW n \in Nat, NEW V, NEW v0 \in V, NEW step, IsStep(step, V)
    PROVE  \E f : IsLoop(f, n, V, v0, step)
<1>1. PICK g : IsRun(g, V, v0, step)
  BY NatRecursion
<1>2. g \in [Nat -> V] /\ g[0] = v0 /\ \A i \in Nat : g[i + 1] = step[<<i, g[i]>>]
  BY <1>1 DEF IsRun
<1> DEFINE f == [i \in 0 .. n |-> g[i]]
<1>3. f \in [0 .. n -> V] /\ f[0] = v0
  BY <1>2
<1>4. ASSUME NEW i \in 1 .. n PROVE f[i] = step[<<i - 1, f[i - 1]>>]
  <2>1. i - 1 \in Nat /\ i - 1 \in 0 .. n /\ i \in 0 .. n /\ (i - 1) + 1 = i
    OBVIOUS
  <2>2. g[(i - 1) + 1] = step[<<i - 1, g[i - 1]>>]
    BY <1>2, <2>1
  <2>. QED BY <2>1, <2>2
<1>5. IsLoop(f, n, V, v0, step)
  BY <1>3, <1>4 DEF IsLoop
<1>. QED BY <1>5

\* What holds before the first round and is kept by every round holds after
\* each: the numbers of the rounds after which it holds are a set S.
LEMMA LoopInduct ==
    ASSUME NEW n \in Nat, NEW S, 0 \in S,
           \A i \in 1 .. n : i - 1 \in S => i \in S
    PROVE  0 .. n \subseteq S
<1> DEFINE T == {i \in Nat : i <= n => i \in S}
<1>1. 0 \in T
  OBVIOUS
<1>2. ASSUME NEW i \in Nat, i \in T PROVE i + 1 \in T
  <2>1. CASE i + 1 <= n
    <3>1. i \in S /\ i + 1 \in 1 .. n /\ (i + 1) - 1 = i
      BY <1>2, <2>1
    <3>. QED BY <3>1
  <2>. QED BY <2>1
<1>3. Nat \subseteq T
  <2> HIDE DEF T
  <2>. QED BY <1>1, <1>2, NatInduct
<1>. QED BY <1>3
=============================================================================
