--------------------------- MODULE CoroutinesProofs ---------------------------
(***************************************************************************)
(* Frames, C++ stack, statuses and open upvalues agree for any number of   *)
(* coroutines and frames, in programs that yield only from calls of resume *)
(* and resume no normal coroutine.                                         *)
(*                                                                         *)
(* The argument.  The C++ stack alternates loops and the C functions they  *)
(* called (Linked): a call of pcall stays in its thread, one of resume     *)
(* enters a thread that is not on the stack (Enters, Once).  So the loops  *)
(* of one thread own disjoint stretches of its frames, in the order of the *)
(* stack (Ordered), and what the thread that executes does to its last     *)
(* frames leaves those of the others alone (Fits, Waits).  Statuses follow *)
(* from the threads that resume has entered (Statuses), and a thread that  *)
(* yields owns nothing of the stack but the loop that ends (Yielded).      *)
(***************************************************************************)
EXTENDS Coroutines, SequenceTheorems, TLAPS

Is(t) == IF t = Main THEN NONE ELSE t

\* Entry e of the C++ stack may be entered from entry d.
Calls(d, e) ==
    \/ d.kind = "loop" /\ e.kind = "pcall" /\ e.thread = d.thread /\ e.saved = d.frame + 1
    \/ /\ d.kind = "loop" /\ e.kind = "resume" /\ e.from = d.thread /\ e.running = Is(d.thread)
       /\ e.status = IF d.thread = Main THEN NONE ELSE "running"
    \/ d.kind = "pcall" /\ e.kind = "loop" /\ e.thread = d.thread /\ e.frame - e.n = d.saved
    \/ d.kind = "resume" /\ e.kind = "loop" /\ e.thread = d.thread /\ e.frame = e.n

Linked(h) ==
    /\ h # <<>> /\ h[1].kind = "loop" /\ h[1].thread = Main /\ h[1].frame = h[1].n
    /\ \A i \in 1 .. Len(h) - 1 : Calls(h[i], h[i + 1])

\* A coroutine is on the stack above the resume that entered it, ...
Enters(h) ==
    \A i \in 1 .. Len(h) : h[i].thread # Main =>
        \E j \in 1 .. i : h[j].kind = "resume" /\ h[j].thread = h[i].thread

\* ... of which there is one.
Once(h) ==
    \A i, j \in 1 .. Len(h) :
        h[i].kind = "resume" /\ h[j].kind = "resume" /\ h[i].thread = h[j].thread => i = j

Ordered(h) ==
    \A i, j \in 1 .. Len(h) :
        h[i].kind = "loop" /\ h[j].kind = "loop" /\ h[i].thread = h[j].thread /\ i < j =>
            h[i].frame < h[j].frame - h[j].n

\* A thread that waits for a coroutine does nothing above it.
Left(h) ==
    \A i \in 1 .. Len(h) - 1, j \in 1 .. Len(h) :
        h[i + 1].kind = "resume" /\ i < j => h[j].thread # h[i].thread

Stack(h) == Linked(h) /\ Enters(h) /\ Once(h) /\ Ordered(h) /\ Left(h)

\* The frames of a loop
Fit(l, fs) ==
    /\ l.n > 0 /\ l.frame - l.n >= 0 /\ l.frame <= Len(fs)
    /\ \A d \in l.frame - l.n + 1 .. l.frame : fs[d].kind = "lua"
    /\ l.frame - l.n > 0 => fs[l.frame - l.n].kind # "lua"

Fits(h, f) == \A i \in 1 .. Len(h) : h[i].kind = "loop" => Fit(h[i], f[h[i].thread])

\* A loop that waits has called the C function above it.
Wait(l, e, fs) ==
    /\ l.frame + 1 <= Len(fs) /\ fs[l.frame + 1].kind = e.kind
    /\ e.kind = "resume" => Len(fs) = l.frame + 1

Waits(h, f) == \A i \in 1 .. Len(h) - 1 : h[i].kind = "loop" => Wait(h[i], h[i + 1], f[h[i].thread])

\* The frame on which the top of the stack works, or how its callee has left it
Works ==
    /\ Top.kind = "loop" <=> outcome \in {"none", "called"}
    /\ outcome = "none" => Depth(T) = Top.frame
    /\ outcome = "called" => Depth(T) = Top.frame + 1 /\ frames[T][Depth(T)].kind # "lua"
    /\ outcome = "returned" /\ Top.kind = "pcall" =>
           Depth(T) = Top.saved + 1 /\ ~frames[T][Depth(T)].captured
    /\ outcome = "yielded" => Top.kind = "resume"

\* A thread that yields, from the call of yield to its status
Yields == outcome = "yielded" \/ (outcome = "called" /\ frames[T][Depth(T)].kind = "yield")

\* Below the frame of yield, a thread has its n Lua functions.
GoesOn(fs, n) ==
    /\ n > 0 /\ Len(fs) = n + 1 /\ fs[n + 1].kind = "yield"
    /\ \A d \in 1 .. n : fs[d].kind = "lua"

Yielded ==
    /\ outcome = "called" /\ Yields => Len(host) > 1 /\ host[Len(host) - 1].kind = "resume"
    /\ outcome = "yielded" => GoesOn(frames[T], saved[T])

Suspended == \A c \in Co : coStatus[c] = "suspended" /\ ~first[c] => GoesOn(frames[c], saved[c])

\* A coroutine that was not started
Fresh ==
    \A c \in Co :
        /\ first[c] => frames[c] = <<>> /\ saved[c] = 1 /\ coStatus[c] \in {"none", "suspended"}
        /\ coStatus[c] = "none" => first[c]

Entered(h, c) == \E i \in 1 .. Len(h) : h[i].kind = "resume" /\ h[i].thread = c

Statuses ==
    /\ running = Is(T)
    /\ \A c \in Co :
          /\ coStatus[c] = "running" <=> c = T
          /\ coStatus[c] = "normal" <=> Entered(host, c) /\ c # T
          /\ allowYield[c] = IF Entered(host, c) THEN 1 ELSE 0
          /\ status[c] = "yield" <=> (coStatus[c] = "suspended" /\ ~first[c]) \/ (c = T /\ Yields)
    /\ allowYield[Main] = 0 /\ status[Main] # "yield"

\* The open upvalues o of a thread with frames fs
Agrees(fs, o) ==
    /\ o = {d \in 1 .. Len(fs) : fs[d].captured}
    /\ \A d \in 1 .. Len(fs) : fs[d].captured => fs[d].kind = "lua"

Upvalues == \A t \in Threads : Agrees(frames[t], open[t])

Inv ==
    /\ TypeOK
    /\ Stack(host) /\ Fits(host, frames) /\ Waits(host, frames)
    /\ Works /\ Yielded /\ Suspended /\ Fresh /\ Statuses /\ Upvalues

------------------------------------------------------------------------------
(* Sequences and entries *)

LEMMA PrefixOf ==
    ASSUME NEW S, NEW s \in Seq(S), NEW n \in 0 .. Len(s)
    PROVE  /\ SubSeq(s, 1, n) \in Seq(S) /\ Len(SubSeq(s, 1, n)) = n
           /\ \A i \in 1 .. n : SubSeq(s, 1, n)[i] = s[i]
<1>1. 1 \in Int /\ n \in Int /\ \A i \in 1 .. n : s[i] \in S
    OBVIOUS
<1>2. /\ SubSeq(s, 1, n) \in Seq(S) /\ Len(SubSeq(s, 1, n)) = IF 1 <= n THEN n - 1 + 1 ELSE 0
      /\ \A i \in 1 .. n - 1 + 1 : SubSeq(s, 1, n)[i] = s[1 + i - 1]
    BY <1>1, SubSeqProperties
<1> QED
    BY <1>1, <1>2

LEMMA FrontOf ==
    ASSUME NEW S, NEW s \in Seq(S), s # <<>>
    PROVE  /\ Len(s) \in Nat /\ Len(s) >= 1 /\ Last(s) = s[Len(s)] /\ Last(s) \in S
           /\ Front(s) \in Seq(S) /\ Len(Front(s)) = Len(s) - 1
           /\ \A i \in 1 .. Len(s) - 1 : Front(s)[i] = s[i]
           /\ \A i \in 1 .. Len(s) : s[i] \in S
<1>1. Len(s) \in Nat /\ Len(s) >= 1 /\ \A i \in 1 .. Len(s) : s[i] \in S
    OBVIOUS
<1>2. /\ SubSeq(s, 1, Len(s) - 1) \in Seq(S) /\ Len(SubSeq(s, 1, Len(s) - 1)) = Len(s) - 1
      /\ \A i \in 1 .. Len(s) - 1 : SubSeq(s, 1, Len(s) - 1)[i] = s[i]
  <2> DEFINE n == Len(s) - 1
  <2>1. n \in 0 .. Len(s)
    BY <1>1
  <2> HIDE DEF n
  <2>2. /\ SubSeq(s, 1, n) \in Seq(S) /\ Len(SubSeq(s, 1, n)) = n
        /\ \A i \in 1 .. n : SubSeq(s, 1, n)[i] = s[i]
    BY <2>1, PrefixOf
  <2> QED
    BY <2>2 DEF n
<1> QED
    BY <1>1, <1>2 DEF Front, Last

LEMMA ReplacedLast ==
    ASSUME NEW S, NEW s \in Seq(S), s # <<>>, NEW e \in S
    PROVE  /\ Append(Front(s), e) \in Seq(S) /\ Append(Front(s), e) # <<>>
           /\ Len(Append(Front(s), e)) = Len(s)
           /\ \A i \in 1 .. Len(s) - 1 : Append(Front(s), e)[i] = s[i]
           /\ Append(Front(s), e)[Len(s)] = e
           /\ Last(Append(Front(s), e)) = e
<1>1. /\ Len(s) \in Nat /\ Len(s) >= 1 /\ Front(s) \in Seq(S) /\ Len(Front(s)) = Len(s) - 1
      /\ \A i \in 1 .. Len(s) - 1 : Front(s)[i] = s[i]
    BY FrontOf
<1> QED
    BY <1>1 DEF Last

LEMMA PushedTwo ==
    ASSUME NEW S, NEW s \in Seq(S), NEW d \in S, NEW e \in S
    PROVE  /\ s \o <<d, e>> \in Seq(S) /\ s \o <<d, e>> # <<>>
           /\ Len(s \o <<d, e>>) = Len(s) + 2
           /\ \A i \in 1 .. Len(s) : (s \o <<d, e>>)[i] = s[i]
           /\ (s \o <<d, e>>)[Len(s) + 1] = d /\ (s \o <<d, e>>)[Len(s) + 2] = e
           /\ Last(s \o <<d, e>>) = e
BY DEF Last

LEMMA EntryFields ==
    ASSUME NEW e \in HostType
    PROVE  /\ e.kind \in {"loop", "pcall", "resume"} /\ e.thread \in Threads
           /\ e.kind = "loop" => e.frame \in Nat /\ e.n \in Nat
           /\ e.kind = "pcall" => e.saved \in Nat
           /\ e.kind = "resume" => /\ e.thread \in Co /\ e.from \in Threads
                                  /\ e.running \in Co \cup {NONE} /\ e.status \in {"running", NONE}
BY DEF HostType, Threads

LEMMA Entries ==
    ASSUME NEW t \in Threads, NEW f \in Nat, NEW n \in Nat
    PROVE  /\ Loop(t, f, n) \in HostType /\ Loop(t, f, n).kind = "loop" /\ Loop(t, f, n).thread = t
           /\ Loop(t, f, n).frame = f /\ Loop(t, f, n).n = n
           /\ Protected(t, f) \in HostType /\ Protected(t, f).kind = "pcall" /\ Protected(t, f).thread = t
           /\ Protected(t, f).saved = f
BY DEF HostType, Loop, Protected

------------------------------------------------------------------------------
(* What the interpreter does to the C++ stack *)

\* The top loop goes on with another frame of its stretch.
LEMMA StackReplace ==
    ASSUME NEW h \in Seq(HostType), NEW g \in Seq(HostType), Stack(h),
           Len(g) = Len(h), \A i \in 1 .. Len(h) - 1 : g[i] = h[i],
           NEW l, NEW m, l = h[Len(h)], m = g[Len(h)],
           l.kind = "loop", m.kind = "loop", m.thread = l.thread, m.frame - m.n = l.frame - l.n
    PROVE  /\ Stack(g)
           /\ \A c : Entered(g, c) <=> Entered(h, c)
<1> DEFINE L == Len(h)
<1>1. L \in Nat /\ L >= 1 /\ h # <<>>
    BY DEF Stack, Linked
<1>2. \A i \in 1 .. L : h[i] \in HostType /\ g[i] \in HostType
    BY <1>1
<1>3. /\ l.frame \in Nat /\ l.n \in Nat /\ m.frame \in Nat /\ m.n \in Nat
    BY <1>1, <1>2, EntryFields
<1>4. \A i \in 1 .. L : /\ g[i].kind = h[i].kind /\ g[i].thread = h[i].thread
                        /\ i < L => g[i] = h[i]
    BY <1>1
<1> HIDE DEF L
<1>5. Linked(g)
  <2>1. g # <<>> /\ g[1].kind = "loop" /\ g[1].thread = Main
    BY <1>1, <1>4 DEF Stack, Linked, L
  <2>2. g[1].frame = g[1].n
    BY <1>1, <1>3, <1>4 DEF Stack, Linked, L
  <2>3. ASSUME NEW i \in 1 .. L - 1 PROVE Calls(g[i], g[i + 1])
    <3>1. Calls(h[i], h[i + 1]) /\ g[i] = h[i]
      BY <1>1, <1>4 DEF Stack, Linked, L
    <3>2. CASE i + 1 < L
      BY <1>1, <1>4, <3>1, <3>2
    <3>3. CASE i + 1 = L
      <4>1. h[i + 1] = l /\ g[i + 1] = m
        BY <3>3 DEF L
      <4> QED
        BY <1>3, <3>1, <4>1 DEF Calls
    <3> QED
      BY <1>1, <3>2, <3>3
  <2> QED
    BY <2>1, <2>2, <2>3 DEF Linked, L
<1>6. Enters(g) /\ Once(g)
    BY <1>1, <1>4 DEF Stack, Enters, Once, L
<1>7. Ordered(g)
  <2> SUFFICES ASSUME NEW i \in 1 .. L, NEW j \in 1 .. L, i < j,
                      g[i].kind = "loop", g[j].kind = "loop", g[i].thread = g[j].thread
               PROVE  g[i].frame < g[j].frame - g[j].n
    BY DEF Ordered, L
  <2>1. h[i].frame < h[j].frame - h[j].n /\ g[i] = h[i]
    BY <1>1, <1>4 DEF Stack, Ordered, L
  <2>2. CASE j < L
    BY <1>1, <1>4, <2>1, <2>2
  <2>3. CASE j = L
    BY <2>1, <2>3 DEF L
  <2> QED
    BY <1>1, <2>2, <2>3
<1>8. Left(g)
  <2> SUFFICES ASSUME NEW i \in 1 .. L - 1, NEW j \in 1 .. L, g[i + 1].kind = "resume", i < j
               PROVE  g[j].thread # g[i].thread
    BY DEF Left, L
  <2>1. h[i + 1].kind = "resume" /\ g[i].thread = h[i].thread /\ g[j].thread = h[j].thread
    BY <1>1, <1>4
  <2> QED
    BY <2>1 DEF Stack, Left, L
<1>9. ASSUME NEW c PROVE Entered(g, c) <=> Entered(h, c)
    BY <1>1, <1>4 DEF Entered, L
<1> QED
    BY <1>5, <1>6, <1>7, <1>8, <1>9 DEF Stack

\* The top returns to what is beneath it.
LEMMA StackPop ==
    ASSUME NEW h \in Seq(HostType), NEW g \in Seq(HostType), Stack(h), Len(h) > 1,
           Len(g) = Len(h) - 1, \A i \in 1 .. Len(h) - 1 : g[i] = h[i]
    PROVE  /\ Stack(g)
           /\ Calls(g[Len(g)], h[Len(h)])
           /\ \A c : Entered(g, c) <=> Entered(h, c) /\ ~(h[Len(h)].kind = "resume" /\ h[Len(h)].thread = c)
           /\ h[Len(h)].kind = "resume" => /\ g[Len(g)].thread # h[Len(h)].thread
                                         /\ \A i \in 1 .. Len(g) : g[i].thread # h[Len(h)].thread
<1> DEFINE L == Len(h)
<1>1. L \in Nat /\ L > 1
    OBVIOUS
<1>2. \A i \in 1 .. L : h[i] \in HostType
    BY <1>1
<1>3. Len(g) = L - 1 /\ L - 1 \in Nat /\ L - 1 >= 1 /\ \A i \in 1 .. L - 1 : g[i] = h[i]
    BY <1>1
<1> HIDE DEF L
<1>4. Linked(g) /\ Calls(g[L - 1], h[L])
  <2>1. g[1] = h[1] /\ g # <<>>
    BY <1>1, <1>3
  <2>2. ASSUME NEW i \in 1 .. L - 2 PROVE Calls(g[i], g[i + 1])
    BY <1>1, <1>3 DEF Stack, Linked, L
  <2>3. Calls(h[L - 1], h[L - 1 + 1])
    BY <1>1 DEF Stack, Linked, L
  <2> QED
    BY <1>1, <1>3, <2>1, <2>2, <2>3 DEF Stack, Linked
<1>5. Enters(g)
  <2> SUFFICES ASSUME NEW i \in 1 .. L - 1, g[i].thread # Main
               PROVE  \E j \in 1 .. i : g[j].kind = "resume" /\ g[j].thread = g[i].thread
    BY <1>3 DEF Enters
  <2>1. PICK j \in 1 .. i : h[j].kind = "resume" /\ h[j].thread = h[i].thread
    BY <1>1, <1>3 DEF Stack, Enters, L
  <2> QED
    BY <1>1, <1>3, <2>1
<1>6. Once(g) /\ Ordered(g)
    BY <1>1, <1>3 DEF Stack, Once, Ordered, L
<1>7. Left(g)
  <2> SUFFICES ASSUME NEW i \in 1 .. L - 2, NEW j \in 1 .. L - 1, g[i + 1].kind = "resume", i < j
               PROVE  g[j].thread # g[i].thread
    BY <1>1, <1>3 DEF Left
  <2>1. h[i + 1].kind = "resume" /\ g[i] = h[i] /\ g[j] = h[j] /\ i \in 1 .. L - 1 /\ j \in 1 .. L
    BY <1>1, <1>3
  <2> QED
    BY <2>1 DEF Stack, Left, L
<1>8. ASSUME h[L].kind = "resume", NEW i \in 1 .. L, NEW j \in 1 .. i, i < L,
             h[j].kind = "resume", h[j].thread = h[L].thread
      PROVE  FALSE
    BY <1>1, <1>8 DEF Stack, Once, L
<1>9. ASSUME h[L].kind = "resume", NEW i \in 1 .. L - 1 PROVE g[i].thread # h[L].thread
  <2>1. h[L].thread # Main
    BY <1>1, <1>2, <1>9, EntryFields, ThreadsAssumption
  <2> SUFFICES ASSUME h[i].thread = h[L].thread PROVE FALSE
    BY <1>3
  <2>2. i \in 1 .. L /\ i < L
    BY <1>1
  <2>3. PICK j \in 1 .. i : h[j].kind = "resume" /\ h[j].thread = h[i].thread
    BY <2>1, <2>2 DEF Stack, Enters, L
  <2> QED
    BY <1>8, <1>9, <2>2, <2>3
<1>10. ASSUME NEW c
       PROVE  Entered(g, c) <=> Entered(h, c) /\ ~(h[L].kind = "resume" /\ h[L].thread = c)
  <2>1. ASSUME Entered(g, c) PROVE Entered(h, c) /\ ~(h[L].kind = "resume" /\ h[L].thread = c)
    <3>1. PICK i \in 1 .. L - 1 : g[i].kind = "resume" /\ g[i].thread = c
      BY <1>3, <2>1 DEF Entered
    <3>2. i \in 1 .. L /\ h[i] = g[i]
      BY <1>1, <1>3
    <3> QED
      BY <1>9, <3>1, <3>2 DEF Entered, L
  <2>2. ASSUME Entered(h, c), ~(h[L].kind = "resume" /\ h[L].thread = c) PROVE Entered(g, c)
    <3>1. PICK i \in 1 .. L : h[i].kind = "resume" /\ h[i].thread = c
      BY <2>2 DEF Entered, L
    <3>2. i \in 1 .. L - 1
      BY <1>1, <2>2, <3>1
    <3> QED
      BY <1>3, <3>1, <3>2 DEF Entered
  <2> QED
    BY <2>1, <2>2
<1> QED
    BY <1>1, <1>3, <1>4, <1>5, <1>6, <1>7, <1>9, <1>10 DEF Stack, L

\* The loop at the top calls a C function, which starts another loop.
LEMMA StackPush ==
    ASSUME NEW h \in Seq(HostType), NEW g \in Seq(HostType), Stack(h), Len(g) = Len(h) + 2,
           \A i \in 1 .. Len(h) : g[i] = h[i],
           NEW l, NEW d, NEW e, l = h[Len(h)], d = g[Len(h) + 1], e = g[Len(h) + 2],
           l.kind = "loop", l.n > 0, l.frame - l.n >= 0, Calls(l, d), Calls(d, e), e.kind = "loop", e.n > 0,
           d.kind = "resume" => d.thread # l.thread /\ ~Entered(h, d.thread)
    PROVE  /\ Stack(g)
           /\ \A c : Entered(g, c) <=> Entered(h, c) \/ (d.kind = "resume" /\ d.thread = c)
<1> DEFINE L == Len(h)
<1>1. L \in Nat /\ L >= 1 /\ Len(g) = L + 2 /\ h # <<>>
    BY DEF Stack, Linked
<1>2. \A i \in 1 .. L + 2 : g[i] \in HostType
    BY <1>1
<1>3. d \in HostType /\ e \in HostType /\ l \in HostType
    BY <1>1, <1>2
<1>4. /\ l.frame \in Nat /\ l.n \in Nat /\ e.frame \in Nat /\ e.n \in Nat
      /\ d.thread \in Threads /\ (d.kind = "resume" => d.thread # Main)
      /\ d.kind \in {"pcall", "resume"} /\ e.thread = d.thread
    BY <1>3, EntryFields, ThreadsAssumption DEF Calls
<1>5. \A i \in 1 .. L : g[i] = h[i]
    OBVIOUS
<1>6. g[L] = l /\ g[L + 1] = d /\ g[L + 2] = e
    BY <1>1
<1> HIDE DEF L
<1>7. ASSUME NEW i \in 1 .. L + 2 PROVE i \in 1 .. L \/ i = L + 1 \/ i = L + 2
    BY <1>1
<1>8. Linked(g)
  <2>1. g # <<>> /\ g[1] = h[1]
    BY <1>1, <1>5
  <2>2. ASSUME NEW i \in 1 .. L + 1 PROVE Calls(g[i], g[i + 1])
    <3>1. CASE i < L
      <4>1. g[i] = h[i] /\ g[i + 1] = h[i + 1] /\ i \in 1 .. L - 1
        BY <1>1, <1>5, <3>1
      <4> QED
        BY <4>1 DEF Stack, Linked, L
    <3>2. CASE i = L
      BY <1>6, <3>2
    <3>3. CASE i = L + 1
      <4>1. i + 1 = L + 2
        BY <1>1, <3>3
      <4> QED
        BY <1>6, <3>3, <4>1
    <3> QED
      BY <1>1, <3>1, <3>2, <3>3
  <2> QED
    BY <1>1, <2>1, <2>2 DEF Stack, Linked
\* A thread that a resume enters was not on the stack.
<1>9. ASSUME d.kind = "resume", NEW i \in 1 .. L PROVE h[i].thread # d.thread
  <2> SUFFICES ASSUME h[i].thread = d.thread PROVE FALSE
    OBVIOUS
  <2>1. PICK j \in 1 .. i : h[j].kind = "resume" /\ h[j].thread = h[i].thread
    BY <1>4, <1>9 DEF Stack, Enters, L
  <2>2. j \in 1 .. L
    BY <1>1
  <2> QED
    BY <1>9, <2>1, <2>2 DEF Entered, L
<1>10. d.kind = "pcall" => d.thread = l.thread
    BY DEF Calls
<1>11. Enters(g)
  <2> SUFFICES ASSUME NEW i \in 1 .. L + 2, g[i].thread # Main
               PROVE  \E j \in 1 .. i : g[j].kind = "resume" /\ g[j].thread = g[i].thread
    BY <1>1 DEF Enters
  <2>1. ASSUME NEW k \in 1 .. L, k <= i, h[k].thread = g[i].thread
        PROVE  \E j \in 1 .. i : g[j].kind = "resume" /\ g[j].thread = g[i].thread
    <3>1. PICK j \in 1 .. k : h[j].kind = "resume" /\ h[j].thread = h[k].thread
      BY <2>1 DEF Stack, Enters, L
    <3>2. j \in 1 .. L /\ j \in 1 .. i
      BY <1>1, <2>1
    <3> QED
      BY <1>5, <2>1, <3>1, <3>2
  <2>2. CASE i \in 1 .. L
    BY <1>5, <2>1, <2>2
  <2>3. CASE i \notin 1 .. L
    <3>1. g[i].thread = d.thread /\ L + 1 \in 1 .. i /\ L \in 1 .. L /\ L <= i
      BY <1>1, <1>4, <1>6, <1>7, <2>3
    <3>2. CASE d.kind = "resume"
      BY <1>6, <3>1, <3>2
    <3>3. CASE d.kind = "pcall"
      BY <1>10, <2>1, <3>1, <3>3 DEF L
    <3> QED
      BY <1>4, <3>2, <3>3
  <2> QED
    BY <2>2, <2>3
<1>12. Once(g)
  <2> SUFFICES ASSUME NEW i \in 1 .. L + 2, NEW j \in 1 .. L + 2,
                      g[i].kind = "resume", g[j].kind = "resume", g[i].thread = g[j].thread
               PROVE  i = j
    BY <1>1 DEF Once
  <2>1. i # L + 2 /\ j # L + 2
    BY <1>6
  <2>2. CASE i \in 1 .. L /\ j \in 1 .. L
    BY <1>5, <2>2 DEF Stack, Once, L
  <2>3. ~(i \in 1 .. L /\ j = L + 1) /\ ~(j \in 1 .. L /\ i = L + 1)
    BY <1>5, <1>6, <1>9
  <2> QED
    BY <1>7, <2>1, <2>2, <2>3
<1>13. Ordered(g)
  <2> SUFFICES ASSUME NEW i \in 1 .. L + 2, NEW j \in 1 .. L + 2, i < j,
                      g[i].kind = "loop", g[j].kind = "loop", g[i].thread = g[j].thread
               PROVE  g[i].frame < g[j].frame - g[j].n
    BY <1>1 DEF Ordered
  <2>1. i # L + 1 /\ j # L + 1
    BY <1>4, <1>6
  <2>2. i \in 1 .. L
    BY <1>1, <1>7, <2>1
  <2>3. CASE j \in 1 .. L
    BY <1>5, <2>2, <2>3 DEF Stack, Ordered, L
  <2>4. CASE j = L + 2
    <3>1. d.kind = "pcall" /\ d.thread = l.thread
      BY <1>4, <1>5, <1>6, <1>9, <1>10, <2>2, <2>4
    <3>2. e.frame - e.n = l.frame + 1
      BY <3>1 DEF Calls
    <3>3. CASE i = L
      <4>1. g[i] = l /\ g[j] = e
        BY <1>6, <2>4, <3>3
      <4> QED
        BY ONLY <1>4, <3>2, <4>1
    <3>4. CASE i < L
      <4>1. h[i].kind = "loop" /\ h[i].thread = l.thread /\ L \in 1 .. L
        BY <1>1, <1>4, <1>5, <1>6, <2>2, <2>4, <3>1
      <4>2. h[i].frame < l.frame - l.n
        BY <2>2, <3>4, <4>1 DEF Stack, Ordered, L
      <4>3. h[i].frame \in Nat /\ g[i] = h[i]
        BY <1>2, <1>5, <2>2, EntryFields, <1>1
      <4> QED
        <5>1. g[j] = e
          BY <1>6, <2>4
        <5>2. l.n > 0
          OBVIOUS
        <5> QED
          BY ONLY <1>4, <3>2, <4>2, <4>3, <5>1, <5>2
    <3> QED
      BY <1>1, <2>2, <3>3, <3>4
  <2> QED
    BY <1>7, <2>1, <2>3, <2>4
<1>14. Left(g)
  <2> SUFFICES ASSUME NEW i \in 1 .. L + 1, NEW j \in 1 .. L + 2, g[i + 1].kind = "resume", i < j
               PROVE  g[j].thread # g[i].thread
    BY <1>1 DEF Left
  <2>1. i # L + 1
    BY <1>1, <1>6
  <2>2. CASE i = L
    <3>1. d.kind = "resume" /\ g[i] = l /\ g[j].thread = d.thread
      BY <1>1, <1>4, <1>6, <1>7, <2>2
    <3> QED
      BY <3>1
  <2>3. CASE i < L
    <3>1. i \in 1 .. L - 1 /\ g[i] = h[i] /\ h[i + 1].kind = "resume" /\ i \in 1 .. L /\ L \in 1 .. L
      BY <1>1, <1>5, <2>3
    <3>2. CASE j \in 1 .. L
      BY <1>5, <3>1, <3>2 DEF Stack, Left, L
    <3>3. CASE j \notin 1 .. L
      <4>1. g[j].thread = d.thread
        BY <1>4, <1>6, <1>7, <3>3
      <4>2. l.thread # h[i].thread
        BY <2>3, <3>1 DEF Stack, Left, L
      <4> QED
        BY <1>4, <1>9, <1>10, <3>1, <4>1, <4>2
    <3> QED
      BY <3>2, <3>3
  <2> QED
    BY <1>1, <2>1, <2>2, <2>3
<1>15. ASSUME NEW c
       PROVE  Entered(g, c) <=> Entered(h, c) \/ (d.kind = "resume" /\ d.thread = c)
  <2>1. ASSUME Entered(g, c) PROVE Entered(h, c) \/ (d.kind = "resume" /\ d.thread = c)
    <3>1. PICK i \in 1 .. L + 2 : g[i].kind = "resume" /\ g[i].thread = c
      BY <1>1, <2>1 DEF Entered
    <3>2. i # L + 2
      BY <1>6, <3>1
    <3> QED
      BY <1>5, <1>6, <1>7, <3>1, <3>2 DEF Entered, L
  <2>2. ASSUME Entered(h, c) PROVE Entered(g, c)
    <3>1. PICK i \in 1 .. L : h[i].kind = "resume" /\ h[i].thread = c
      BY <2>2 DEF Entered, L
    <3>2. i \in 1 .. L + 2 /\ g[i] = h[i]
      BY <1>1, <1>5
    <3> QED
      BY <1>1, <3>1, <3>2 DEF Entered
  <2>3. ASSUME d.kind = "resume", d.thread = c PROVE Entered(g, c)
    <3>1. L + 1 \in 1 .. L + 2
      BY <1>1
    <3> QED
      BY <1>1, <1>6, <2>3, <3>1 DEF Entered
  <2> QED
    BY <2>1, <2>2, <2>3
<1> QED
    BY <1>8, <1>11, <1>12, <1>13, <1>14, <1>15 DEF Stack

------------------------------------------------------------------------------
(* What the top does to the frames leaves what is beneath alone. *)

\* The frames of its thread that the top does not own
Floor(e) == IF e.kind = "loop" THEN e.frame - e.n ELSE IF e.kind = "pcall" THEN e.saved ELSE 0

SameTo(fs, gs, p) == p <= Len(gs) /\ \A d \in 1 .. p : gs[d].kind = fs[d].kind

\* The loops beneath the top have the frames that they need.
Under(h, f) ==
    \A i \in 1 .. Len(h) - 1 : h[i].kind = "loop" =>
        Fit(h[i], f[h[i].thread]) /\ Wait(h[i], h[i + 1], f[h[i].thread])

LEMMA BelowFloor ==
    ASSUME NEW h \in Seq(HostType), Stack(h), NEW f, Fits(h, f),
           NEW i \in 1 .. Len(h) - 1, h[i].kind = "loop", h[i].thread = h[Len(h)].thread
    PROVE  h[i].frame + 1 <= Floor(h[Len(h)]) /\ h[i + 1].kind # "resume"
<1> DEFINE L == Len(h)
<1>1. L \in Nat /\ i \in 1 .. L /\ L \in 1 .. L /\ i < L /\ i \in 1 .. L - 1
    OBVIOUS
<1>2. h[i] \in HostType /\ h[L] \in HostType
    BY <1>1
<1>3. h[i].frame \in Nat /\ h[i].n \in Nat /\ h[L].kind \in {"loop", "pcall", "resume"}
    BY <1>2, EntryFields
<1>4. h[i + 1].kind # "resume"
    BY <1>1 DEF Stack, Left
<1>5. CASE h[L].kind = "loop"
  <2>1. h[i].frame < h[L].frame - h[L].n
    BY <1>1, <1>5 DEF Stack, Ordered
  <2>2. h[L].frame \in Nat /\ h[L].n \in Nat
    BY <1>2, <1>5, EntryFields
  <2> QED
    BY <1>3, <1>4, <1>5, <2>1, <2>2 DEF Floor
<1>6. CASE h[L].kind = "pcall"
  <2> DEFINE k == L - 1
  <2>1. k \in 1 .. L - 1 /\ k \in 1 .. L /\ k + 1 = L
    BY <1>1
  <2>2. h[k] \in HostType
    BY <2>1
  <2>3. Calls(h[k], h[L])
    BY <2>1 DEF Stack, Linked
  <2>4. h[k].kind = "loop" /\ h[L].thread = h[k].thread /\ h[L].saved = h[k].frame + 1
    BY <1>6, <2>3 DEF Calls
  <2>5. h[k].frame \in Nat /\ h[k].n \in Nat
    BY <2>2, <2>4, EntryFields
  <2>6. CASE i = k
    BY <1>4, <1>6, <2>4, <2>5, <2>6 DEF Floor
  <2>7. CASE i # k
    <3>1. i < k
      BY <1>1, <2>7
    <3>2. h[i].frame < h[k].frame - h[k].n
      BY <1>1, <2>1, <2>4, <3>1 DEF Stack, Ordered
    <3>3. Floor(h[L]) = h[k].frame + 1
      BY <1>6, <2>4 DEF Floor
    <3> QED
      BY ONLY <1>3, <1>4, <2>5, <3>2, <3>3
  <2> QED
    BY <2>6, <2>7
<1>7. CASE h[L].kind = "resume"
  <2>1. h[i].thread # Main
    BY <1>2, <1>7, EntryFields, ThreadsAssumption
  <2>2. PICK j \in 1 .. i : h[j].kind = "resume" /\ h[j].thread = h[i].thread
    BY <1>1, <2>1 DEF Stack, Enters
  <2>3. j \in 1 .. L /\ j # L
    BY <1>1
  <2> QED
    BY <1>1, <1>7, <2>2, <2>3 DEF Stack, Once
<1> QED
    BY <1>3, <1>5, <1>6, <1>7

LEMMA UnderKept ==
    ASSUME NEW h \in Seq(HostType), Stack(h), NEW f, NEW g, Fits(h, f), Waits(h, f),
           \A u \in Threads : u # h[Len(h)].thread /\ (u = Main \/ Entered(h, u)) => g[u] = f[u],
           SameTo(f[h[Len(h)].thread], g[h[Len(h)].thread], Floor(h[Len(h)])),
           f[h[Len(h)].thread] \in Seq(FrameType), g[h[Len(h)].thread] \in Seq(FrameType)
    PROVE  Under(h, g)
<1> SUFFICES ASSUME NEW i \in 1 .. Len(h) - 1, h[i].kind = "loop"
             PROVE  Fit(h[i], g[h[i].thread]) /\ Wait(h[i], h[i + 1], g[h[i].thread])
    BY DEF Under
<1>1. i \in 1 .. Len(h) /\ h[i] \in HostType /\ h[i].thread \in Threads
    BY EntryFields
<1>2. Fit(h[i], f[h[i].thread]) /\ Wait(h[i], h[i + 1], f[h[i].thread])
    BY <1>1 DEF Fits, Waits
<1>3. CASE h[i].thread # h[Len(h)].thread
  <2>1. h[i].thread = Main \/ Entered(h, h[i].thread)
    <3> SUFFICES ASSUME h[i].thread # Main PROVE Entered(h, h[i].thread)
      OBVIOUS
    <3>1. PICK j \in 1 .. i : h[j].kind = "resume" /\ h[j].thread = h[i].thread
      BY <1>1 DEF Stack, Enters
    <3>2. j \in 1 .. Len(h)
      BY <1>1
    <3> QED
      BY <3>1, <3>2 DEF Entered
  <2> QED
    BY <1>1, <1>2, <1>3, <2>1
<1>4. CASE h[i].thread = h[Len(h)].thread
  <2> DEFINE fs == f[h[i].thread]
             gs == g[h[i].thread]
             p == Floor(h[Len(h)])
  <2>1. h[i].frame + 1 <= p /\ h[i + 1].kind # "resume"
    BY <1>4, BelowFloor
  <2>2. SameTo(fs, gs, p) /\ fs \in Seq(FrameType) /\ gs \in Seq(FrameType)
    BY <1>4
  <2>3. Fit(h[i], fs) /\ Wait(h[i], h[i + 1], fs)
    BY <1>2
  <2>4. h[i].frame \in Nat /\ h[i].n \in Nat
    BY <1>1, EntryFields
  <2>5. p \in Int
    <3>1. h[Len(h)] \in HostType
      BY <1>1
    <3> QED
      BY <3>1, EntryFields DEF Floor
  <2> HIDE DEF fs, gs, p
  <2>6. \A d \in 1 .. h[i].frame + 1 : gs[d].kind = fs[d].kind
    BY <2>1, <2>2, <2>4, <2>5 DEF SameTo
  <2>7. h[i].frame + 1 <= Len(gs) /\ Len(gs) \in Nat
    BY <2>1, <2>2, <2>4, <2>5 DEF SameTo
  <2>8. Fit(h[i], gs)
    <3>1. h[i].n > 0 /\ h[i].frame - h[i].n >= 0 /\ h[i].frame <= Len(gs)
      BY <2>3, <2>4, <2>7 DEF Fit
    <3>2. ASSUME NEW d \in h[i].frame - h[i].n + 1 .. h[i].frame PROVE gs[d].kind = "lua"
      <4>1. fs[d].kind = "lua" /\ d \in 1 .. h[i].frame + 1
        BY <2>3, <2>4, <3>1 DEF Fit
      <4> QED
        BY <2>6, <4>1
    <3>3. ASSUME h[i].frame - h[i].n > 0 PROVE gs[h[i].frame - h[i].n].kind # "lua"
      <4>1. fs[h[i].frame - h[i].n].kind # "lua" /\ h[i].frame - h[i].n \in 1 .. h[i].frame + 1
        BY <2>3, <2>4, <3>1, <3>3 DEF Fit
      <4> QED
        BY <2>6, <4>1
    <3> QED
      BY <3>1, <3>2, <3>3 DEF Fit
  <2>9. Wait(h[i], h[i + 1], gs)
    BY <2>1, <2>3, <2>4, <2>6, <2>7 DEF Wait
  <2> QED
    BY <2>8, <2>9 DEF gs
<1> QED
    BY <1>3, <1>4

LEMMA UnderSame ==
    ASSUME NEW h \in Seq(HostType), NEW f, Fits(h, f), Waits(h, f)
    PROVE  Under(h, f)
BY DEF Under, Fits, Waits

LEMMA FitsReplaced ==
    ASSUME NEW h \in Seq(HostType), NEW g \in Seq(HostType), h # <<>>, Len(g) = Len(h),
           \A i \in 1 .. Len(h) - 1 : g[i] = h[i], NEW f, Under(h, f),
           h[Len(h)].kind = "loop", g[Len(h)].kind = "loop", Fit(g[Len(h)], f[g[Len(h)].thread])
    PROVE  Fits(g, f) /\ Waits(g, f)
<1> DEFINE L == Len(h)
<1>1. L \in Nat /\ L >= 1 /\ Len(g) = L /\ \A i \in 1 .. L - 1 : g[i] = h[i]
    OBVIOUS
<1>2. ASSUME NEW i \in 1 .. L, g[i].kind = "loop" PROVE Fit(g[i], f[g[i].thread])
  <2>1. CASE i = L
    BY <2>1
  <2>2. CASE i < L
    BY <1>1, <1>2, <2>2 DEF Under
  <2> QED
    BY <1>1, <2>1, <2>2
<1>3. ASSUME NEW i \in 1 .. L - 1, g[i].kind = "loop" PROVE Wait(g[i], g[i + 1], f[g[i].thread])
  <2>1. Wait(h[i], h[i + 1], f[h[i].thread]) /\ g[i] = h[i]
    BY <1>1, <1>3 DEF Under
  <2>2. g[i + 1].kind = h[i + 1].kind
    BY <1>1
  <2> QED
    BY <2>1, <2>2 DEF Wait
<1> QED
    BY <1>1, <1>2, <1>3 DEF Fits, Waits

LEMMA FitsPopped ==
    ASSUME NEW h \in Seq(HostType), NEW g \in Seq(HostType), Len(h) > 1, Len(g) = Len(h) - 1,
           \A i \in 1 .. Len(h) - 1 : g[i] = h[i], NEW f, Under(h, f)
    PROVE  /\ Fits(g, f) /\ Waits(g, f)
           /\ g[Len(g)].kind = "loop" => Wait(g[Len(g)], h[Len(h)], f[g[Len(g)].thread])
<1> DEFINE L == Len(h)
<1>1. L \in Nat /\ L > 1 /\ Len(g) = L - 1 /\ \A i \in 1 .. L - 1 : g[i] = h[i]
    OBVIOUS
<1>2. ASSUME NEW i \in 1 .. L - 1, g[i].kind = "loop"
      PROVE  Fit(g[i], f[g[i].thread]) /\ Wait(g[i], h[i + 1], f[g[i].thread])
    BY <1>1, <1>2 DEF Under
<1>3. ASSUME NEW i \in 1 .. L - 2 PROVE g[i + 1] = h[i + 1] /\ i \in 1 .. L - 1
    BY <1>1
<1>4. L - 1 \in 1 .. L - 1 /\ L - 1 + 1 = L
    BY <1>1
<1> HIDE DEF L
<1>5. Len(g) - 1 = L - 2
    BY <1>1
<1> QED
    BY <1>1, <1>2, <1>3, <1>4, <1>5 DEF Fits, Waits, L

LEMMA FitsPushed ==
    ASSUME NEW h \in Seq(HostType), NEW g \in Seq(HostType), h # <<>>, Len(g) = Len(h) + 2,
           \A i \in 1 .. Len(h) : g[i] = h[i], NEW f, Under(h, f),
           NEW l, NEW d, NEW e, l = h[Len(h)], d = g[Len(h) + 1], e = g[Len(h) + 2],
           d.kind # "loop", Fit(l, f[l.thread]), Wait(l, d, f[l.thread]), Fit(e, f[e.thread])
    PROVE  Fits(g, f) /\ Waits(g, f)
<1> DEFINE L == Len(h)
<1>1. L \in Nat /\ L >= 1 /\ Len(g) = L + 2 /\ \A i \in 1 .. L : g[i] = h[i]
    OBVIOUS
<1>2. ASSUME NEW i \in 1 .. L + 2, g[i].kind = "loop" PROVE Fit(g[i], f[g[i].thread])
  <2>1. CASE i < L
    BY <1>1, <1>2, <2>1 DEF Under
  <2>2. CASE i = L
    BY <1>1, <2>2
  <2>3. CASE i = L + 2
    BY <2>3
  <2>4. i # L + 1
    BY <1>2
  <2> QED
    BY <1>1, <2>1, <2>2, <2>3, <2>4
<1>3. ASSUME NEW i \in 1 .. L + 1, g[i].kind = "loop" PROVE Wait(g[i], g[i + 1], f[g[i].thread])
  <2>1. CASE i < L
    <3>1. g[i] = h[i] /\ g[i + 1] = h[i + 1] /\ i \in 1 .. L - 1
      BY <1>1, <2>1
    <3> QED
      BY <1>3, <3>1 DEF Under
  <2>2. CASE i = L
    BY <1>1, <2>2
  <2>3. i # L + 1
    BY <1>3
  <2> QED
    BY <1>1, <2>1, <2>2, <2>3
<1>4. Len(g) - 1 = L + 1
    BY <1>1
<1> QED
    BY <1>1, <1>2, <1>3, <1>4 DEF Fits, Waits

------------------------------------------------------------------------------
(* The open upvalues of a thread *)

LEMMA AgreesPushed ==
    ASSUME NEW fs \in Seq(FrameType), NEW o, Agrees(fs, o), NEW fr \in FrameType, ~fr.captured
    PROVE  Agrees(Append(fs, fr), o)
<1>1. /\ Len(fs) \in Nat /\ Len(Append(fs, fr)) = Len(fs) + 1
      /\ \A d \in 1 .. Len(fs) : Append(fs, fr)[d] = fs[d]
      /\ Append(fs, fr)[Len(fs) + 1] = fr
    OBVIOUS
<1>2. ASSUME NEW d \in 1 .. Len(fs) + 1, Append(fs, fr)[d].captured
      PROVE  d \in 1 .. Len(fs) /\ fs[d].captured /\ Append(fs, fr)[d] = fs[d]
    BY <1>1, <1>2
<1>3. ASSUME NEW d \in 1 .. Len(fs) PROVE d \in 1 .. Len(fs) + 1
    BY <1>1
<1> QED
    BY <1>1, <1>2, <1>3 DEF Agrees

\* The upvalues above frame n are closed when its callees go.
LEMMA AgreesPrefix ==
    ASSUME NEW fs \in Seq(FrameType), NEW o, Agrees(fs, o), NEW n \in 0 .. Len(fs)
    PROVE  Agrees(SubSeq(fs, 1, n), {d \in o : d < n + 1})
<1>1. Len(SubSeq(fs, 1, n)) = n /\ \A d \in 1 .. n : SubSeq(fs, 1, n)[d] = fs[d]
    BY PrefixOf
<1>2. Len(fs) \in Nat /\ n \in Nat /\ n <= Len(fs)
    OBVIOUS
<1>3. ASSUME NEW d PROVE d \in {e \in o : e < n + 1} <=> d \in 1 .. n /\ fs[d].captured
    BY <1>2 DEF Agrees
<1> QED
    BY <1>1, <1>2, <1>3 DEF Agrees

\* The last frame's local is captured, or is not any more.
LEMMA AgreesAtLast ==
    ASSUME NEW fs \in Seq(FrameType), NEW o, Agrees(fs, o), NEW n, n = Len(fs), n > 0, fs[n].kind = "lua"
    PROVE  /\ Agrees([fs EXCEPT ![n].captured = TRUE], o \cup {n})
           /\ Agrees([fs EXCEPT ![n].captured = FALSE], {d \in o : d < n})
<1>1. n \in Nat /\ n \in 1 .. n
    OBVIOUS
<1>2. ASSUME NEW b \in BOOLEAN
      PROVE  LET gs == [fs EXCEPT ![n].captured = b]
             IN  /\ Len(gs) = n /\ gs[n].captured = b /\ gs[n].kind = "lua"
                 /\ \A d \in 1 .. n : d # n => gs[d] = fs[d]
  <2>1. fs[n] \in FrameType
    BY <1>1
  <2> QED
    BY <1>1, <2>1 DEF FrameType
<1>3. ASSUME NEW gs, Len(gs) = n, gs[n].captured = TRUE, gs[n].kind = "lua", \A d \in 1 .. n : d # n => gs[d] = fs[d]
      PROVE  Agrees(gs, o \cup {n})
    BY <1>1, <1>3 DEF Agrees
<1>4. ASSUME NEW gs, Len(gs) = n, gs[n].captured = FALSE, \A d \in 1 .. n : d # n => gs[d] = fs[d]
      PROVE  Agrees(gs, {d \in o : d < n})
    BY <1>1, <1>4 DEF Agrees
<1> QED
    BY <1>2, <1>3, <1>4

LEMMA AgreesPopped ==
    ASSUME NEW fs \in Seq(FrameType), NEW o, Agrees(fs, o), fs # <<>>, ~fs[Len(fs)].captured
    PROVE  Agrees(Front(fs), o)
<1>1. /\ Len(fs) \in Nat /\ Len(fs) >= 1 /\ Len(Front(fs)) = Len(fs) - 1
      /\ \A d \in 1 .. Len(fs) - 1 : Front(fs)[d] = fs[d]
    BY FrontOf
<1>2. ASSUME NEW d \in 1 .. Len(fs), fs[d].captured PROVE d \in 1 .. Len(fs) - 1
    BY <1>1, <1>2
<1>3. ASSUME NEW d \in 1 .. Len(fs) - 1 PROVE d \in 1 .. Len(fs)
    BY <1>1
<1> QED
    BY <1>1, <1>2, <1>3 DEF Agrees

------------------------------------------------------------------------------
(* What the invariant says of the thread at the top *)

LEMMA AtTop ==
    ASSUME Inv
    PROVE  /\ host \in Seq(HostType) /\ host # <<>> /\ Len(host) \in Nat /\ Len(host) >= 1
           /\ Top = host[Len(host)] /\ Top \in HostType /\ T \in Threads
           /\ frames \in [Threads -> Seq(FrameType)] /\ frames[T] \in Seq(FrameType)
           /\ Depth(T) = Len(frames[T]) /\ Depth(T) \in Nat
           /\ open \in [Threads -> SUBSET Nat] /\ status \in [Threads -> {"ok", "yield", "error"}]
           /\ saved \in [Threads -> Nat]
           /\ Agrees(frames[T], open[T])
           /\ T \in Co => coStatus[T] = "running" /\ ~first[T]
<1>1. host \in Seq(HostType) /\ host # <<>>
    BY DEF Inv, TypeOK
<1>2. Len(host) \in Nat /\ Len(host) >= 1 /\ Top = host[Len(host)] /\ Top \in HostType
    BY <1>1, FrontOf DEF Top
<1>3. T \in Threads
    BY <1>2, EntryFields DEF T
<1>4. frames \in [Threads -> Seq(FrameType)] /\ open \in [Threads -> SUBSET Nat]
      /\ status \in [Threads -> {"ok", "yield", "error"}] /\ saved \in [Threads -> Nat]
    BY DEF Inv, TypeOK
<1>5. Agrees(frames[T], open[T])
    BY <1>3 DEF Inv, Upvalues
<1>6. T \in Co => coStatus[T] = "running" /\ ~first[T]
    BY DEF Inv, Statuses, Fresh
<1> QED
    BY <1>1, <1>2, <1>3, <1>4, <1>5, <1>6 DEF Depth

\* ... and of the loop that executes or has called a C function
LEMMA AtLoop ==
    ASSUME Inv, Top.kind = "loop"
    PROVE  /\ Top.frame \in Nat /\ Top.n \in Nat /\ Top.n > 0 /\ Top.frame - Top.n >= 0 /\ Top.frame >= 1
           /\ Fit(Top, frames[T])
           /\ Top.frame <= Len(frames[T]) /\ frames[T][Top.frame].kind = "lua"
           /\ Floor(Top) = Top.frame - Top.n
           /\ outcome = "none" => Len(frames[T]) = Top.frame /\ ~Yields /\ status[T] # "yield"
           /\ outcome = "called" => /\ Len(frames[T]) = Top.frame + 1 /\ frames[T][Top.frame + 1].kind # "lua"
                                   /\ ~frames[T][Top.frame + 1].captured
<1>1. Top.frame \in Nat /\ Top.n \in Nat
    BY AtTop, EntryFields
<1>2. Fit(Top, frames[T])
    BY AtTop DEF Inv, Fits, T
<1>3. Top.n > 0 /\ Top.frame - Top.n >= 0 /\ Top.frame <= Len(frames[T])
    BY <1>2 DEF Fit
<1>4. Top.frame >= 1 /\ Top.frame \in Top.frame - Top.n + 1 .. Top.frame
    BY <1>1, <1>3
<1>5. frames[T][Top.frame].kind = "lua"
    BY <1>2, <1>4 DEF Fit
<1>6. ASSUME outcome = "none" PROVE Len(frames[T]) = Top.frame /\ ~Yields /\ status[T] # "yield"
  <2>1. Len(frames[T]) = Top.frame /\ ~Yields
    BY <1>6, AtTop DEF Inv, Works, Yields
  <2>2. T \in Co \/ T = Main
    BY AtTop DEF Threads
  <2> QED
    BY <2>1, <2>2, AtTop DEF Inv, Statuses
<1>7. ASSUME outcome = "called"
      PROVE  /\ Len(frames[T]) = Top.frame + 1 /\ frames[T][Top.frame + 1].kind # "lua"
             /\ ~frames[T][Top.frame + 1].captured
  <2>1. Len(frames[T]) = Top.frame + 1 /\ frames[T][Top.frame + 1].kind # "lua"
    BY <1>7, AtTop DEF Inv, Works
  <2> QED
    BY <1>1, <2>1, AtTop DEF Agrees
<1> QED
    BY <1>1, <1>2, <1>3, <1>4, <1>5, <1>6, <1>7 DEF Floor

LEMMA PutFrames ==
    ASSUME NEW f \in [Threads -> Seq(FrameType)], NEW t \in Threads, NEW fs \in Seq(FrameType),
           NEW g, g = [f EXCEPT ![t] = fs]
    PROVE  /\ g \in [Threads -> Seq(FrameType)] /\ g[t] = fs
           /\ \A u \in Threads : u # t => g[u] = f[u]
OBVIOUS

LEMMA PutOpen ==
    ASSUME NEW f \in [Threads -> SUBSET Nat], NEW t \in Threads, NEW o \in SUBSET Nat,
           NEW g, g = [f EXCEPT ![t] = o]
    PROVE  /\ g \in [Threads -> SUBSET Nat] /\ g[t] = o
           /\ \A u \in Threads : u # t => g[u] = f[u]
OBVIOUS

\* A step of the thread at the top that enters or leaves no coroutine
Local ==
    /\ host' \in Seq(HostType) /\ Stack(host') /\ T' = T
    /\ \A c \in Co : Entered(host', c) <=> Entered(host, c)
    /\ frames' \in [Threads -> Seq(FrameType)] /\ \A u \in Threads : u # T => frames'[u] = frames[u]
    /\ open' \in [Threads -> SUBSET Nat] /\ \A u \in Threads : u # T => open'[u] = open[u]
    /\ Agrees(frames'[T], open'[T])
    /\ saved' \in [Threads -> Nat] /\ \A u \in Threads : u # T => saved'[u] = saved[u]
    /\ status' \in [Threads -> {"ok", "yield", "error"}]
    /\ \A u \in Threads : u # T =>
          status'[u] = status[u] \/ (u \in Co /\ coStatus[u] = "dead" /\ status'[u] # "yield")
    /\ status'[T] = "yield" <=> Yields'
    /\ T = Main => status'[T] # "yield"
    /\ outcome' \in {"none", "called", "returned", "yielded", "error"}
    /\ UNCHANGED <<allowYield, threadVars>>
    /\ Fits(host', frames') /\ Waits(host', frames') /\ Works' /\ Yielded'

LEMMA LocalStep ==
    ASSUME Inv, Local
    PROVE  Inv'
<1>1. T \in Threads /\ (T \in Co => coStatus[T] = "running" /\ ~first[T])
    BY AtTop
<1>2. UNCHANGED <<allowYield, coStatus, first, caller, running>>
    BY DEF Local, threadVars
<1>3. TypeOK'
  <2>1. host' # <<>>
    BY DEF Local, Stack, Linked
  <2>2. /\ allowYield' \in [Threads -> 0 .. 1]
        /\ coStatus' \in [Co -> {"none", "suspended", "running", "normal", "dead"}]
        /\ first' \in [Co -> BOOLEAN] /\ caller' \in [Co -> Co \cup {NONE}] /\ running' \in Co \cup {NONE}
    BY <1>2 DEF Inv, TypeOK
  <2> QED
    BY <2>1, <2>2 DEF Local, TypeOK
<1>4. Suspended' /\ Fresh'
  <2>1. ASSUME NEW c \in Co, c # T PROVE frames'[c] = frames[c] /\ saved'[c] = saved[c]
    BY <2>1 DEF Local, Threads
  <2> QED
    BY <1>1, <1>2, <2>1 DEF Inv, Suspended, Fresh
<1>5. Statuses'
  <2>1. running' = Is(T')
    BY <1>2 DEF Inv, Statuses, Local
  <2>2. ASSUME NEW c \in Co
        PROVE  /\ coStatus'[c] = "running" <=> c = T'
               /\ coStatus'[c] = "normal" <=> Entered(host', c) /\ c # T'
               /\ allowYield'[c] = IF Entered(host', c) THEN 1 ELSE 0
    BY <1>2 DEF Inv, Statuses, Local
  <2>3. ASSUME NEW c \in Co
        PROVE  status'[c] = "yield" <=> (coStatus'[c] = "suspended" /\ ~first'[c]) \/ (c = T' /\ Yields')
    <3>1. CASE c = T
      BY <1>1, <1>2, <3>1 DEF Local
    <3>2. CASE c # T
      <4>1. status[c] = "yield" <=> (coStatus[c] = "suspended" /\ ~first[c])
        BY <3>2 DEF Inv, Statuses
      <4>2. status'[c] = status[c] \/ (coStatus[c] = "dead" /\ status'[c] # "yield")
        BY <3>2 DEF Local, Threads
      <4> QED
        BY <1>2, <3>2, <4>1, <4>2 DEF Local
    <3> QED
      BY <3>1, <3>2
  <2>4. allowYield'[Main] = 0 /\ status'[Main] # "yield"
    BY <1>2, ThreadsAssumption DEF Inv, Statuses, Local, Threads
  <2> QED
    BY <2>1, <2>2, <2>3, <2>4 DEF Statuses
<1>6. Upvalues'
    BY DEF Inv, Upvalues, Local
<1> QED
    BY <1>3, <1>4, <1>5, <1>6 DEF Inv, Local

------------------------------------------------------------------------------
(* Steps that keep the C++ stack as high as it is *)

\* Frames of the thread at the top change above what its loops beneath need.
LEMMA UnderLocal ==
    ASSUME Inv, NEW fs \in Seq(FrameType), SameTo(frames[T], fs, Floor(Top)),
           frames' = [frames EXCEPT ![T] = fs]
    PROVE  /\ Under(host, frames') /\ frames' \in [Threads -> Seq(FrameType)] /\ frames'[T] = fs
           /\ \A u \in Threads : u # T => frames'[u] = frames[u]
<1>1. /\ frames' \in [Threads -> Seq(FrameType)] /\ frames'[T] = fs
      /\ \A u \in Threads : u # T => frames'[u] = frames[u]
    BY AtTop, PutFrames
<1>2. host \in Seq(HostType) /\ T = host[Len(host)].thread /\ Top = host[Len(host)] /\ frames[T] \in Seq(FrameType)
    BY AtTop DEF T
<1>3. Under(host, frames')
  <2> DEFINE t == host[Len(host)].thread
  <2>1. t = T /\ SameTo(frames[t], frames'[t], Floor(host[Len(host)])) /\ frames[t] \in Seq(FrameType)
        /\ frames'[t] \in Seq(FrameType)
    BY <1>1, <1>2
  <2>2. \A u \in Threads : u # t /\ (u = Main \/ Entered(host, u)) => frames'[u] = frames[u]
    BY <1>1, <2>1
  <2>3. Stack(host) /\ Fits(host, frames) /\ Waits(host, frames)
    BY DEF Inv
  <2> QED
    BY ONLY <1>2, <2>1, <2>2, <2>3, UnderKept
<1> QED
    BY <1>1, <1>3

\* The loop goes on, on frame f with n functions to return.
LEMMA LoopGoesOn ==
    ASSUME Inv, Top.kind = "loop", NEW f \in Nat, NEW n \in Nat, n > 0, f - n = Top.frame - Top.n,
           host' = Append(Beneath, Loop(T, f, n)),
           frames' \in [Threads -> Seq(FrameType)], Under(host, frames'), Fit(Loop(T, f, n), frames'[T])
    PROVE  /\ host' \in Seq(HostType) /\ Stack(host') /\ T' = T /\ Top' = Loop(T, f, n)
           /\ \A c \in Co : Entered(host', c) <=> Entered(host, c)
           /\ Fits(host', frames') /\ Waits(host', frames')
<1> DEFINE l == Loop(T, f, n)
<1>1. l \in HostType /\ l.kind = "loop" /\ l.thread = T /\ l.frame = f /\ l.n = n
    BY AtTop, Entries
<1> HIDE DEF l
<1>2. /\ host' \in Seq(HostType) /\ host' # <<>> /\ Len(host') = Len(host)
      /\ \A i \in 1 .. Len(host) - 1 : host'[i] = host[i]
      /\ host'[Len(host)] = l /\ Last(host') = l
    BY <1>1, AtTop, ReplacedLast DEF Beneath, l
<1>3. Stack(host') /\ \A c : Entered(host', c) <=> Entered(host, c)
  <2> DEFINE k == host[Len(host)]
             m == host'[Len(host)]
  <2>1. k.kind = "loop" /\ m.kind = "loop" /\ m.thread = k.thread /\ m.frame - m.n = k.frame - k.n
    BY <1>1, <1>2, AtTop DEF T
  <2>2. Stack(host) /\ host \in Seq(HostType)
    BY AtTop DEF Inv
  <2>3. k = host[Len(host)] /\ m = host'[Len(host)]
    OBVIOUS
  <2> HIDE DEF k, m
  <2> QED
    BY ONLY <1>2, <2>1, <2>2, <2>3, StackReplace
<1>4. Top' = l /\ T' = T
    BY <1>1, <1>2 DEF Top, T
<1>5. Fits(host', frames') /\ Waits(host', frames')
    BY <1>1, <1>2, AtTop, FitsReplaced DEF l
<1> QED
    BY <1>2, <1>3, <1>4, <1>5 DEF l

\* The loop stays where it is.
LEMMA LoopStays ==
    ASSUME Inv, Top.kind = "loop", host' = host,
           frames' \in [Threads -> Seq(FrameType)], Under(host, frames'), Fit(Top, frames'[T])
    PROVE  /\ host' \in Seq(HostType) /\ Stack(host') /\ T' = T /\ Top' = Top
           /\ \A c \in Co : Entered(host', c) <=> Entered(host, c)
           /\ Fits(host', frames') /\ Waits(host', frames')
<1>1. Top' = Top /\ T' = T
    BY DEF Top, T
<1>2. Fits(host, frames') /\ Waits(host, frames')
    BY AtTop, FitsReplaced DEF T
<1> QED
    BY <1>1, <1>2, AtTop DEF Inv

\* The frames of a loop that has pushed one, popped one, or changed its last
LEMMA FitGrows ==
    ASSUME NEW fs \in Seq(FrameType), NEW l, l.frame \in Nat, l.n \in Nat, Fit(l, fs), l.frame = Len(fs),
           NEW m, m.frame = l.frame + 1, m.n = l.n + 1, NEW fr \in FrameType, fr.kind = "lua"
    PROVE  Fit(m, Append(fs, fr))
<1>1. /\ Len(Append(fs, fr)) = Len(fs) + 1 /\ \A d \in 1 .. Len(fs) : Append(fs, fr)[d] = fs[d]
      /\ Append(fs, fr)[Len(fs) + 1] = fr
    OBVIOUS
<1>2. l.n > 0 /\ l.frame - l.n >= 0 /\ m.frame - m.n = l.frame - l.n
    BY DEF Fit
<1>3. ASSUME NEW d \in m.frame - m.n + 1 .. m.frame PROVE Append(fs, fr)[d].kind = "lua"
  <2>1. CASE d = m.frame
    BY <1>1, <2>1
  <2>2. CASE d # m.frame
    <3>1. d \in l.frame - l.n + 1 .. l.frame /\ d \in 1 .. Len(fs)
      BY <1>2, <2>2
    <3> QED
      BY <1>1, <3>1 DEF Fit
  <2> QED
    BY <2>1, <2>2
<1>4. m.frame - m.n > 0 => Append(fs, fr)[m.frame - m.n].kind # "lua"
  <2> SUFFICES ASSUME l.frame - l.n > 0 PROVE Append(fs, fr)[l.frame - l.n].kind # "lua"
    BY <1>2
  <2>1. l.frame - l.n \in 1 .. Len(fs) /\ fs[l.frame - l.n].kind # "lua"
    BY <1>2 DEF Fit
  <2> QED
    BY <1>1, <2>1
<1> QED
    BY <1>1, <1>2, <1>3, <1>4 DEF Fit

\* A loop on a frame in the stretch of another, with the same beginning
LEMMA FitShrinks ==
    ASSUME NEW fs \in Seq(FrameType), NEW gs \in Seq(FrameType), NEW l, l.frame \in Nat, l.n \in Nat, Fit(l, fs),
           NEW m, m.frame \in Nat, m.n \in Nat, m.frame <= l.frame, m.n > 0, m.frame - m.n = l.frame - l.n,
           m.frame <= Len(gs), \A d \in 1 .. m.frame : gs[d].kind = fs[d].kind
    PROVE  Fit(m, gs)
<1>1. l.n > 0 /\ l.frame - l.n >= 0
    BY DEF Fit
<1>2. ASSUME NEW d \in m.frame - m.n + 1 .. m.frame PROVE gs[d].kind = "lua"
  <2>1. d \in l.frame - l.n + 1 .. l.frame /\ d \in 1 .. m.frame
    BY <1>1
  <2> QED
    BY <2>1 DEF Fit
<1>3. ASSUME l.frame - l.n > 0 PROVE gs[l.frame - l.n].kind # "lua"
  <2>1. l.frame - l.n \in 1 .. m.frame /\ fs[l.frame - l.n].kind # "lua"
    BY <1>1, <1>3 DEF Fit
  <2> QED
    BY <2>1
<1> QED
    BY <1>1, <1>2, <1>3 DEF Fit

LEMMA FitTop ==
    ASSUME Inv, Top.kind = "loop", NEW f \in Nat, NEW n \in Nat, n > 0, f <= Top.frame, f - n = Top.frame - Top.n,
           NEW gs \in Seq(FrameType), f <= Len(gs), \A d \in 1 .. f : gs[d].kind = frames[T][d].kind
    PROVE  Fit(Loop(T, f, n), gs)
<1> DEFINE l == Top
           m == Loop(T, f, n)
           fs == frames[T]
<1>1. fs \in Seq(FrameType) /\ l.frame \in Nat /\ l.n \in Nat /\ Fit(l, fs)
    BY AtTop, AtLoop
<1>2. m.frame = f /\ m.n = n
    BY AtTop, Entries
<1>3. f <= l.frame /\ f - n = l.frame - l.n /\ \A d \in 1 .. f : gs[d].kind = fs[d].kind
    OBVIOUS
<1> HIDE DEF l, m, fs
<1>4. Fit(m, gs)
    BY <1>1, <1>2, <1>3, FitShrinks
<1> QED
    BY <1>4 DEF m

LEMMA FitTopKept ==
    ASSUME Inv, Top.kind = "loop", NEW gs \in Seq(FrameType), Top.frame <= Len(gs),
           \A d \in 1 .. Top.frame : gs[d].kind = frames[T][d].kind
    PROVE  Fit(Top, gs)
<1> DEFINE l == Top
           fs == frames[T]
<1>1. fs \in Seq(FrameType) /\ l.frame \in Nat /\ l.n \in Nat /\ l.n > 0 /\ Fit(l, fs)
    BY AtTop, AtLoop
<1>2. l.frame <= Len(gs) /\ \A d \in 1 .. l.frame : gs[d].kind = fs[d].kind
    OBVIOUS
<1> HIDE DEF l, fs
<1>3. l.frame <= l.frame /\ l.frame - l.n = l.frame - l.n
    BY <1>1
<1>4. Fit(l, gs)
    BY <1>1, <1>2, <1>3, FitShrinks
<1> QED
    BY <1>4 DEF l

LEMMA NewFrames ==
    ASSUME NEW kind \in {"lua", "pcall", "resume", "yield"}
    PROVE  Frame(kind) \in FrameType /\ Frame(kind).kind = kind /\ ~Frame(kind).captured
BY DEF Frame, FrameType

LEMMA PushedFrame ==
    ASSUME NEW fs \in Seq(FrameType), NEW fr \in FrameType, NEW p \in Int, p <= Len(fs)
    PROVE  /\ Append(fs, fr) \in Seq(FrameType) /\ Len(Append(fs, fr)) = Len(fs) + 1
           /\ \A d \in 1 .. Len(fs) : Append(fs, fr)[d] = fs[d]
           /\ Append(fs, fr)[Len(fs) + 1] = fr
           /\ SameTo(fs, Append(fs, fr), p)
BY DEF SameTo

LEMMA PrefixFrames ==
    ASSUME NEW fs \in Seq(FrameType), NEW n \in 0 .. Len(fs), NEW p \in Int, p <= n
    PROVE  SameTo(fs, SubSeq(fs, 1, n), p)
<1>1. Len(SubSeq(fs, 1, n)) = n /\ \A d \in 1 .. n : SubSeq(fs, 1, n)[d] = fs[d]
    BY PrefixOf
<1> QED
    BY <1>1 DEF SameTo

LEMMA LastFrame ==
    ASSUME NEW fs \in Seq(FrameType), NEW n, n = Len(fs), n > 0, NEW b \in BOOLEAN
    PROVE  LET gs == [fs EXCEPT ![n].captured = b]
           IN  /\ gs \in Seq(FrameType) /\ Len(gs) = n /\ gs[n].captured = b
               /\ \A d \in 1 .. n : gs[d].kind = fs[d].kind
               /\ \A p \in Int : p <= n => SameTo(fs, gs, p)
<1> DEFINE gs == [fs EXCEPT ![n].captured = b]
<1>1. n \in 1 .. n /\ n \in Nat
    OBVIOUS
<1>2. fs[n] \in FrameType
    BY <1>1
<1>3. [fs[n] EXCEPT !.captured = b] \in FrameType /\ [fs[n] EXCEPT !.captured = b].kind = fs[n].kind
      /\ [fs[n] EXCEPT !.captured = b].captured = b
    BY <1>2 DEF FrameType
<1>4. gs \in Seq(FrameType) /\ Len(gs) = n /\ gs[n] = [fs[n] EXCEPT !.captured = b]
      /\ \A d \in 1 .. n : d # n => gs[d] = fs[d]
    BY <1>1, <1>3
<1> HIDE DEF gs
<1>5. \A d \in 1 .. n : gs[d].kind = fs[d].kind
    BY <1>3, <1>4
<1>6. \A p \in Int : p <= n => SameTo(fs, gs, p)
    BY <1>1, <1>4, <1>5 DEF SameTo
<1> QED
    BY <1>3, <1>4, <1>5, <1>6 DEF gs

------------------------------------------------------------------------------
(* Lua instructions *)

\* An executing loop changes its frames, and goes on.
LEMMA Goes ==
    ASSUME Inv, Executing, NEW fs \in Seq(FrameType), SameTo(frames[T], fs, Floor(Top)),
           frames' = [frames EXCEPT ![T] = fs],
           NEW o \in SUBSET Nat, open' = [open EXCEPT ![T] = o], Agrees(fs, o),
           NEW f \in Nat, NEW n \in Nat, n > 0, f - n = Top.frame - Top.n, f = Len(fs), Fit(Loop(T, f, n), fs),
           host' = Append(Beneath, Loop(T, f, n)) \/ (host' = host /\ f = Top.frame /\ n = Top.n),
           UNCHANGED <<status, allowYield, saved, threadVars, outcome>>
    PROVE  Inv'
<1>1. Top.kind = "loop" /\ outcome = "none"
    BY DEF Executing
<1>2. /\ Under(host, frames') /\ frames' \in [Threads -> Seq(FrameType)] /\ frames'[T] = fs
      /\ \A u \in Threads : u # T => frames'[u] = frames[u]
    BY UnderLocal
<1>3. /\ open' \in [Threads -> SUBSET Nat] /\ open'[T] = o
      /\ \A u \in Threads : u # T => open'[u] = open[u]
    BY AtTop, PutOpen
<1>4. /\ host' \in Seq(HostType) /\ Stack(host') /\ T' = T /\ Top'.kind = "loop" /\ Top'.frame = f
      /\ \A c \in Co : Entered(host', c) <=> Entered(host, c)
      /\ Fits(host', frames') /\ Waits(host', frames')
  <2>1. CASE host' = Append(Beneath, Loop(T, f, n))
    <3>1. Fit(Loop(T, f, n), frames'[T])
      BY <1>2
    <3>2. Loop(T, f, n).kind = "loop" /\ Loop(T, f, n).frame = f
      BY AtTop, Entries
    <3> QED
      BY <1>1, <1>2, <2>1, <3>1, <3>2, LoopGoesOn
  <2>2. CASE host' = host /\ f = Top.frame /\ n = Top.n
    <3>1. Loop(T, f, n).frame = f /\ Loop(T, f, n).n = n
      BY AtTop, Entries
    <3>2. Fit(Top, frames'[T])
      BY <1>2, <2>2, <3>1 DEF Fit
    <3> QED
      BY <1>1, <1>2, <2>2, <3>2, LoopStays
  <2> QED
    BY <2>1, <2>2
<1>5. Works'
  <2>1. Depth(T)' = f
    BY <1>2, <1>4 DEF Depth
  <2> QED
    BY <1>1, <1>4, <2>1 DEF Works
<1>6. Yielded' /\ ~Yields'
    BY <1>1 DEF Yielded, Yields
<1>7. status[T] # "yield"
    BY <1>1, AtLoop
<1>8. UNCHANGED <<allowYield, threadVars>> /\ saved' = saved /\ status' = status /\ outcome' = "none"
    BY <1>1
<1>9. saved \in [Threads -> Nat] /\ status \in [Threads -> {"ok", "yield", "error"}]
    BY AtTop
<1> QED
    BY <1>2, <1>3, <1>4, <1>5, <1>6, <1>7, <1>8, <1>9, LocalStep DEF Local

LEMMA CallStep == ASSUME Inv, Call PROVE Inv'
<1>1. Executing /\ Top.kind = "loop" /\ outcome = "none"
    BY DEF Call, Executing
<1> DEFINE fs == Append(frames[T], Lua)
           f == Depth(T) + 1
           n == Top.n + 1
<1>2. Lua \in FrameType /\ Lua.kind = "lua" /\ ~Lua.captured
    BY NewFrames DEF Lua
<1>3. /\ fs \in Seq(FrameType) /\ Len(fs) = f /\ SameTo(frames[T], fs, Floor(Top))
      /\ f \in Nat /\ n \in Nat /\ n > 0 /\ f - n = Top.frame - Top.n /\ f = Top.frame + 1
  <2>1. /\ Top.frame \in Nat /\ Top.n \in Nat /\ Top.n > 0 /\ Top.frame - Top.n >= 0
        /\ Depth(T) = Top.frame /\ Len(frames[T]) = Top.frame /\ Floor(Top) = Top.frame - Top.n
        /\ frames[T] \in Seq(FrameType)
    BY <1>1, AtTop, AtLoop
  <2>2. Floor(Top) \in Int /\ Floor(Top) <= Len(frames[T])
    BY <2>1
  <2>3. fs \in Seq(FrameType) /\ Len(fs) = Len(frames[T]) + 1 /\ SameTo(frames[T], fs, Floor(Top))
    BY <1>2, <2>1, <2>2, PushedFrame
  <2>4. /\ f \in Nat /\ n \in Nat /\ n > 0 /\ f - n = Top.frame - Top.n /\ f = Top.frame + 1
        /\ Len(frames[T]) + 1 = f
    BY ONLY <2>1
  <2> HIDE DEF fs, f, n
  <2> QED
    BY <2>3, <2>4
<1>4. Agrees(fs, open[T]) /\ open[T] \in SUBSET Nat
    BY <1>2, AtTop, AgreesPushed
<1>5. Fit(Loop(T, f, n), fs)
  <2>1. Loop(T, f, n).frame = Top.frame + 1 /\ Loop(T, f, n).n = Top.n + 1
    BY <1>3, AtTop, Entries
  <2> QED
    BY <1>1, <1>2, <2>1, AtTop, AtLoop, FitGrows
<1>6. /\ frames' = [frames EXCEPT ![T] = fs] /\ open' = [open EXCEPT ![T] = open[T]]
      /\ host' = Append(Beneath, Loop(T, f, n))
      /\ UNCHANGED <<status, allowYield, saved, threadVars, outcome>>
    BY AtTop DEF Call, PushFrame
<1> HIDE DEF fs, f, n
<1> QED
    BY <1>1, <1>3, <1>4, <1>5, <1>6, Goes

LEMMA TailCallStep == ASSUME Inv, TailCall PROVE Inv'
<1>1. Executing /\ Top.kind = "loop" /\ outcome = "none"
    BY DEF TailCall, Executing
<1> DEFINE ps == Front(frames[T])
           fs == Append(ps, Lua)
           f == Top.frame
           n == Top.n
           o == {e \in open[T] : e < Depth(T)}
<1>2. Lua \in FrameType /\ Lua.kind = "lua" /\ ~Lua.captured
    BY NewFrames DEF Lua
<1>3. /\ f \in Nat /\ n \in Nat /\ n > 0 /\ f - n >= 0 /\ f >= 1 /\ Floor(Top) = f - n
      /\ Len(frames[T]) = f /\ Depth(T) = f /\ frames[T] \in Seq(FrameType) /\ frames[T][f].kind = "lua"
      /\ Fit(Top, frames[T])
    BY <1>1, AtTop, AtLoop
<1>4. /\ ps \in Seq(FrameType) /\ Len(ps) = f - 1 /\ \A d \in 1 .. f - 1 : ps[d] = frames[T][d]
  <2>1. frames[T] # <<>>
    BY <1>3
  <2> QED
    BY <1>3, <2>1, FrontOf
<1>5. /\ fs \in Seq(FrameType) /\ Len(fs) = f /\ fs[f] = Lua
      /\ \A d \in 1 .. f - 1 : fs[d] = frames[T][d]
  <2>1. Len(ps) \in Int /\ Len(ps) <= Len(ps) /\ Len(ps) + 1 = f
    BY <1>3, <1>4
  <2> HIDE DEF ps
  <2> QED
    BY <1>2, <1>4, <2>1, PushedFrame
<1>6. Agrees(fs, o) /\ o \in SUBSET Nat
  <2>1. f - 1 \in 0 .. Len(frames[T]) /\ f - 1 + 1 = f
    BY <1>3
  <2>2. ps = SubSeq(frames[T], 1, f - 1)
    BY <1>3 DEF Front
  <2>3. Agrees(ps, {d \in open[T] : d < f - 1 + 1})
    BY <1>3, <2>1, <2>2, AtTop, AgreesPrefix
  <2>4. Agrees(ps, o)
    BY <1>3, <2>1, <2>3
  <2> HIDE DEF ps
  <2>5. Agrees(fs, o)
    BY <1>2, <1>4, <2>4, AgreesPushed
  <2> QED
    BY <2>5, AtTop
<1>7. /\ frames' = [frames EXCEPT ![T] = fs] /\ open' = [open EXCEPT ![T] = o]
      /\ host' = host
      /\ UNCHANGED <<status, allowYield, saved, threadVars, outcome>>
    BY AtTop DEF TailCall, Close
<1> HIDE DEF fs, f, n, o, ps
<1>8. \A d \in 1 .. f : fs[d].kind = frames[T][d].kind
    BY <1>2, <1>3, <1>5
<1>9. SameTo(frames[T], fs, Floor(Top))
    BY <1>3, <1>5, <1>8 DEF SameTo
<1>10. Fit(Loop(T, f, n), fs)
  <2>1. f <= Top.frame /\ f - n = Top.frame - Top.n /\ f <= Len(fs)
    BY <1>3, <1>5 DEF f, n
  <2> QED
    BY <1>1, <1>3, <1>5, <1>8, <2>1, FitTop
<1> QED
    BY <1>1, <1>3, <1>5, <1>6, <1>7, <1>9, <1>10, Goes DEF f, n

\* CLOSURE and CLOSE change the local of the last frame.
LEMMA LocalChanges ==
    ASSUME Inv, Executing, NEW b \in BOOLEAN, NEW o \in SUBSET Nat,
           frames' = [frames EXCEPT ![T][Depth(T)].captured = b], open' = [open EXCEPT ![T] = o],
           Agrees([frames[T] EXCEPT ![Depth(T)].captured = b], o),
           UNCHANGED <<status, allowYield, saved, threadVars, host, outcome>>
    PROVE  Inv'
<1> DEFINE f == Top.frame
           n == Top.n
           fs == [frames[T] EXCEPT ![f].captured = b]
<1>1. /\ f \in Nat /\ n \in Nat /\ n > 0 /\ f - n >= 0 /\ f >= 1 /\ Floor(Top) = f - n
      /\ Len(frames[T]) = f /\ Depth(T) = f /\ frames[T] \in Seq(FrameType) /\ Fit(Top, frames[T])
    BY AtTop, AtLoop DEF Executing
<1>2. f > 0 /\ Floor(Top) \in Int /\ Floor(Top) <= f
    BY <1>1
<1>3. frames' = [frames EXCEPT ![T] = fs] /\ Agrees(fs, o)
    BY <1>1, AtTop
<1>4. f = Len(frames[T])
    BY <1>1
<1> HIDE DEF f, n
<1>5. /\ fs \in Seq(FrameType) /\ Len(fs) = f /\ \A d \in 1 .. f : fs[d].kind = frames[T][d].kind
      /\ SameTo(frames[T], fs, Floor(Top))
    BY <1>1, <1>2, <1>4, LastFrame
<1> HIDE DEF fs
<1>6. Fit(Loop(T, f, n), fs)
  <2>1. f <= Top.frame /\ f - n = Top.frame - Top.n /\ f <= Len(fs)
    BY <1>1, <1>5 DEF f, n
  <2>2. Top.kind = "loop"
    BY DEF Executing
  <2> QED
    BY <1>1, <1>5, <2>1, <2>2, FitTop
<1>7. host' = host /\ UNCHANGED <<status, allowYield, saved, threadVars, outcome>>
    OBVIOUS
<1> QED
    BY <1>1, <1>3, <1>5, <1>6, <1>7, Goes DEF f, n

LEMMA CaptureStep == ASSUME Inv, Capture \/ CloseBlock PROVE Inv'
<1>1. Executing /\ Top.kind = "loop" /\ outcome = "none"
    BY DEF Capture, CloseBlock, Executing
<1>2. /\ Depth(T) = Len(frames[T]) /\ Depth(T) > 0 /\ Depth(T) \in Nat /\ frames[T][Depth(T)].kind = "lua"
      /\ frames[T] \in Seq(FrameType) /\ Agrees(frames[T], open[T]) /\ open[T] \in SUBSET Nat
    BY <1>1, AtTop, AtLoop
<1>3. /\ Agrees([frames[T] EXCEPT ![Depth(T)].captured = TRUE], open[T] \cup {Depth(T)})
      /\ Agrees([frames[T] EXCEPT ![Depth(T)].captured = FALSE], {d \in open[T] : d < Depth(T)})
    BY <1>2, AgreesAtLast
<1>4. open[T] \cup {Depth(T)} \in SUBSET Nat /\ {d \in open[T] : d < Depth(T)} \in SUBSET Nat
    BY <1>2
<1>5. CASE Capture
  <2>1. /\ frames' = [frames EXCEPT ![T][Depth(T)].captured = TRUE]
        /\ open' = [open EXCEPT ![T] = open[T] \cup {Depth(T)}]
        /\ UNCHANGED <<status, allowYield, saved, threadVars, host, outcome>>
    BY <1>5 DEF Capture
  <2> QED
    BY <1>1, <1>3, <1>4, <2>1, LocalChanges
<1>6. CASE CloseBlock
  <2>1. /\ frames' = [frames EXCEPT ![T][Depth(T)].captured = FALSE]
        /\ open' = [open EXCEPT ![T] = {d \in open[T] : d < Depth(T)}]
        /\ UNCHANGED <<status, allowYield, saved, threadVars, host, outcome>>
    BY <1>6 DEF CloseBlock, Close
  <2> QED
    BY <1>1, <1>3, <1>4, <2>1, LocalChanges
<1> QED
    BY <1>5, <1>6

\* The top returns to what is beneath it, in the same thread.
LEMMA Pops ==
    ASSUME Inv, Beneath # <<>>, Top.kind # "resume", host' = Beneath,
           frames' \in [Threads -> Seq(FrameType)], Under(host, frames')
    PROVE  /\ host' \in Seq(HostType) /\ Stack(host') /\ T' = T /\ Len(host) > 1
           /\ Top' = host[Len(host) - 1] /\ Calls(Top', Top) /\ Top' \in HostType
           /\ \A c \in Co : Entered(host', c) <=> Entered(host, c)
           /\ Fits(host', frames') /\ Waits(host', frames')
           /\ Top'.kind = "loop" => Wait(Top', Top, frames'[T])
<1>1. /\ Len(host) \in Nat /\ host \in Seq(HostType) /\ host' \in Seq(HostType)
      /\ Len(host') = Len(host) - 1 /\ \A i \in 1 .. Len(host) - 1 : host'[i] = host[i]
    BY AtTop, FrontOf DEF Beneath
<1>2. Len(host) > 1
  <2> SUFFICES ASSUME Len(host) = 1 PROVE Beneath = <<>>
    BY <1>1, AtTop
  <2> QED
    BY <1>1, AtTop DEF Beneath
<1>3. host' # <<>>
    OBVIOUS
<1>4. Top' = host'[Len(host')] /\ Top' \in HostType
    BY <1>1, <1>3, FrontOf DEF Top
<1>5. Top' = host[Len(host) - 1]
    BY <1>1, <1>2, <1>4
<1>6. Top = host[Len(host)] /\ Stack(host)
    BY AtTop DEF Inv
<1>7. /\ Stack(host') /\ Calls(host'[Len(host')], host[Len(host)])
      /\ \A c : Entered(host', c) <=> Entered(host, c) /\ ~(host[Len(host)].kind = "resume" /\ host[Len(host)].thread = c)
    BY <1>1, <1>2, <1>6, StackPop
<1>8. Calls(Top', Top) /\ Top \in HostType
    BY <1>4, <1>6, <1>7, AtTop
<1>9. T' = T
  <2>1. T' = Top'.thread /\ T = Top.thread
    BY DEF T
  <2>2. Top.kind \in {"loop", "pcall"}
    BY <1>8, EntryFields
  <2> QED
    BY <1>8, <2>1, <2>2 DEF Calls
<1>10. /\ Fits(host', frames') /\ Waits(host', frames')
       /\ host'[Len(host')].kind = "loop" => Wait(host'[Len(host')], host[Len(host)], frames'[host'[Len(host')].thread])
    BY <1>1, <1>2, FitsPopped
<1>11. Top'.kind = "loop" => Wait(Top', Top, frames'[T])
  <2>1. T' = Top'.thread
    BY DEF T
  <2> QED
    BY <1>4, <1>6, <1>9, <1>10, <2>1
<1>12. \A c \in Co : Entered(host', c) <=> Entered(host, c)
    BY <1>6, <1>7
<1> QED
    BY <1>1, <1>2, <1>4, <1>5, <1>7, <1>8, <1>9, <1>10, <1>11, <1>12

\* A loop ends, and leaves its last frame to the C function that started it.
LEMMA LoopEnds ==
    ASSUME Inv, Executing, Beneath # <<>>, host' = Beneath, outcome' \in {"returned", "error"},
           NEW fs \in Seq(FrameType), SameTo(frames[T], fs, Floor(Top)), frames' = [frames EXCEPT ![T] = fs],
           NEW o \in SUBSET Nat, open' = [open EXCEPT ![T] = o], Agrees(fs, o),
           outcome' = "returned" => Top.n = 1 /\ Len(fs) = Top.frame /\ ~fs[Top.frame].captured,
           UNCHANGED <<status, allowYield, saved, threadVars>>
    PROVE  Inv'
<1>1. Top.kind = "loop" /\ outcome = "none" /\ status[T] # "yield"
    BY AtLoop DEF Executing
<1>2. /\ Under(host, frames') /\ frames' \in [Threads -> Seq(FrameType)] /\ frames'[T] = fs
      /\ \A u \in Threads : u # T => frames'[u] = frames[u]
    BY UnderLocal
<1>3. /\ open' \in [Threads -> SUBSET Nat] /\ open'[T] = o
      /\ \A u \in Threads : u # T => open'[u] = open[u]
    BY AtTop, PutOpen
<1>4. /\ host' \in Seq(HostType) /\ Stack(host') /\ T' = T
      /\ Calls(Top', Top) /\ Top' \in HostType
      /\ \A c \in Co : Entered(host', c) <=> Entered(host, c)
      /\ Fits(host', frames') /\ Waits(host', frames')
    BY <1>1, <1>2, Pops
<1>5. Top'.kind \in {"pcall", "resume"} /\ (Top'.kind = "pcall" => Top.frame - Top.n = Top'.saved)
    BY <1>1, <1>4 DEF Calls
<1>6. Works'
  <2>1. ASSUME outcome' = "returned", Top'.kind = "pcall"
        PROVE  Depth(T)' = Top'.saved + 1 /\ ~frames'[T'][Depth(T)'].captured
    <3>1. Top.frame \in Nat /\ Top.n = 1 /\ Top.frame - Top.n = Top'.saved /\ Top'.saved \in Nat
      BY <1>1, <1>4, <1>5, <2>1, AtLoop, EntryFields
    <3>2. Top.frame = Top'.saved + 1
      BY ONLY <3>1
    <3>3. Depth(T)' = Len(fs)
      BY <1>2, <1>4 DEF Depth
    <3> QED
      BY <1>2, <1>4, <2>1, <3>2, <3>3
  <2> QED
    BY <1>5, <2>1 DEF Works
<1>7. Yielded' /\ ~Yields'
    BY DEF Yielded, Yields
<1>8. UNCHANGED <<allowYield, threadVars>> /\ saved' = saved /\ status' = status
    OBVIOUS
<1>9. saved \in [Threads -> Nat] /\ status \in [Threads -> {"ok", "yield", "error"}]
    BY AtTop
<1> QED
    BY <1>1, <1>2, <1>3, <1>4, <1>6, <1>7, <1>8, <1>9, LocalStep DEF Local

LEMMA ThrowStep == ASSUME Inv, Throw PROVE Inv'
<1>1. Executing /\ Beneath # <<>> /\ host' = Beneath /\ outcome' = "error"
    BY DEF Throw
<1>2. /\ frames' = [frames EXCEPT ![T] = frames[T]] /\ open' = [open EXCEPT ![T] = open[T]]
      /\ UNCHANGED <<status, allowYield, saved, threadVars>>
    BY AtTop DEF Throw, stateVars
<1>3. SameTo(frames[T], frames[T], Floor(Top))
  <2>1. Floor(Top) <= Len(frames[T])
    BY <1>1, AtTop, AtLoop DEF Executing
  <2> QED
    BY <2>1 DEF SameTo
<1>4. frames[T] \in Seq(FrameType) /\ open[T] \in SUBSET Nat /\ Agrees(frames[T], open[T])
    BY AtTop
<1> QED
    BY <1>1, <1>2, <1>3, <1>4, LoopEnds

LEMMA ReturnStep == ASSUME Inv, Return PROVE Inv'
<1>1. Executing /\ Top.kind = "loop" /\ outcome = "none" /\ Beneath # <<>>
    BY DEF Return, Executing
<1> DEFINE k == Top.frame
           o == {e \in open[T] : e < Depth(T)}
<1>2. /\ k \in Nat /\ Top.n \in Nat /\ Top.n > 0 /\ k - Top.n >= 0 /\ k >= 1 /\ Floor(Top) = k - Top.n
      /\ Len(frames[T]) = k /\ Depth(T) = k /\ frames[T] \in Seq(FrameType) /\ frames[T][k].kind = "lua"
      /\ Agrees(frames[T], open[T])
    BY <1>1, AtTop, AtLoop
<1>3. open' = [open EXCEPT ![T] = o] /\ o \in SUBSET Nat /\ UNCHANGED <<status, allowYield, saved, threadVars>>
    BY AtTop DEF Return, Close
<1>4. CASE Top.n > 1
  <2> DEFINE fs == Front(frames[T])
             f == Depth(T) - 1
             n == Top.n - 1
  <2>1. /\ f \in Nat /\ n \in Nat /\ n > 0 /\ f - n = Top.frame - Top.n /\ f <= Top.frame
        /\ Floor(Top) \in Int /\ Floor(Top) <= f /\ f \in 0 .. Len(frames[T]) /\ f + 1 = Depth(T)
    BY <1>2, <1>4
  <2>2. fs = SubSeq(frames[T], 1, f)
    BY <1>2 DEF Front
  <2>3. /\ frames' = [frames EXCEPT ![T] = fs] /\ host' = Append(Beneath, Loop(T, f, n))
        /\ outcome' = outcome
    BY <1>4, AtTop DEF Return, PopFrame
  <2> HIDE DEF fs, f, n, k
  <2>4. fs \in Seq(FrameType) /\ Len(fs) = f /\ \A d \in 1 .. f : fs[d] = frames[T][d]
    BY <1>2, <2>1, <2>2, PrefixOf
  <2>5. SameTo(frames[T], fs, Floor(Top))
    BY <1>2, <2>1, <2>2, PrefixFrames
  <2>6. Agrees(fs, o)
    BY <1>2, <2>1, <2>2, AgreesPrefix
  <2>7. Fit(Loop(T, f, n), fs)
    BY <1>1, <2>1, <2>4, FitTop
  <2> HIDE DEF o
  <2>8. UNCHANGED <<status, allowYield, saved, threadVars, outcome>>
    BY <1>3, <2>3
  <2> QED
    BY <1>1, <1>3, <2>1, <2>3, <2>4, <2>5, <2>6, <2>7, <2>8, Goes
<1>5. CASE ~(Top.n > 1)
  <2> DEFINE fs == [frames[T] EXCEPT ![k].captured = FALSE]
  <2>1. /\ Top.n = 1 /\ k > 0 /\ k = Len(frames[T]) /\ Floor(Top) \in Int /\ Floor(Top) <= k /\ Top.frame = k
    BY <1>2, <1>5
  <2>2. frames' = [frames EXCEPT ![T] = fs] /\ host' = Beneath /\ outcome' = "returned"
    BY <1>2, <1>5, AtTop DEF Return
  <2>3. o = {d \in open[T] : d < k}
    BY <1>2
  <2> HIDE DEF k
  <2>4. fs \in Seq(FrameType) /\ Len(fs) = k /\ fs[k].captured = FALSE /\ SameTo(frames[T], fs, Floor(Top))
    BY <1>2, <2>1, LastFrame
  <2>5. Agrees(fs, {d \in open[T] : d < k})
    BY <1>2, <2>1, AgreesAtLast
  <2> HIDE DEF fs, o
  <2> QED
    BY <1>1, <1>3, <2>1, <2>2, <2>3, <2>4, <2>5, LoopEnds
<1> QED
    BY <1>4, <1>5
------------------------------------------------------------------------------
(* C functions *)

\* The loop has called a C function that changes statuses only.
LEMMA CFrame ==
    ASSUME Inv, Executing, NEW kind \in {"resume", "yield"},
           frames' = [frames EXCEPT ![T] = Append(frames[T], Frame(kind))], host' = host, outcome' = "called",
           status' \in [Threads -> {"ok", "yield", "error"}],
           \A u \in Threads : u # T =>
               status'[u] = status[u] \/ (u \in Co /\ coStatus[u] = "dead" /\ status'[u] # "yield"),
           status'[T] = "yield" <=> kind = "yield",
           kind = "yield" => T # Main /\ Len(host) > 1 /\ host[Len(host) - 1].kind = "resume",
           UNCHANGED <<open, allowYield, saved, threadVars>>
    PROVE  Inv'
<1> DEFINE fs == Append(frames[T], Frame(kind))
<1>1. Top.kind = "loop" /\ outcome = "none"
    BY DEF Executing
<1>2. Frame(kind) \in FrameType /\ Frame(kind).kind = kind /\ ~Frame(kind).captured
    BY NewFrames
<1>3. /\ Top.frame \in Nat /\ Top.n \in Nat /\ Top.n > 0 /\ Floor(Top) = Top.frame - Top.n
      /\ Len(frames[T]) = Top.frame /\ frames[T] \in Seq(FrameType)
    BY <1>1, AtTop, AtLoop
<1>4. Floor(Top) \in Int /\ Floor(Top) <= Len(frames[T])
    BY <1>3
<1>5. /\ fs \in Seq(FrameType) /\ Len(fs) = Len(frames[T]) + 1 /\ \A d \in 1 .. Len(frames[T]) : fs[d] = frames[T][d]
      /\ fs[Len(frames[T]) + 1] = Frame(kind) /\ SameTo(frames[T], fs, Floor(Top))
    BY <1>2, <1>3, <1>4, PushedFrame
<1>6. Agrees(fs, open[T])
    BY <1>2, AtTop, AgreesPushed
<1> HIDE DEF fs
<1>7. /\ Under(host, frames') /\ frames' \in [Threads -> Seq(FrameType)] /\ frames'[T] = fs
      /\ \A u \in Threads : u # T => frames'[u] = frames[u]
    BY <1>5, UnderLocal DEF fs
<1>8. Fit(Top, frames'[T])
  <2>1. Top.frame <= Len(fs) /\ \A d \in 1 .. Top.frame : fs[d].kind = frames[T][d].kind
    BY <1>3, <1>5
  <2>2. Fit(Top, fs)
    BY <1>1, <1>5, <2>1, FitTopKept
  <2> QED
    BY <1>7, <2>2
<1>9. /\ host' \in Seq(HostType) /\ Stack(host') /\ T' = T /\ Top' = Top
      /\ \A c \in Co : Entered(host', c) <=> Entered(host, c)
      /\ Fits(host', frames') /\ Waits(host', frames')
    BY <1>1, <1>7, <1>8, LoopStays
<1>10. Depth(T)' = Top.frame + 1 /\ frames'[T'][Depth(T)'] = Frame(kind)
    BY <1>3, <1>5, <1>7, <1>9 DEF Depth
<1>11. Works'
    BY <1>1, <1>2, <1>9, <1>10 DEF Works
<1>12. Yields' <=> kind = "yield"
    BY <1>2, <1>10 DEF Yields
<1>13. Yielded'
    BY <1>12 DEF Yielded
<1>14. /\ open \in [Threads -> SUBSET Nat] /\ saved \in [Threads -> Nat]
       /\ open' = open /\ saved' = saved /\ UNCHANGED <<allowYield, threadVars>>
    BY AtTop
<1> QED
    BY <1>6, <1>7, <1>9, <1>11, <1>12, <1>13, <1>14, LocalStep DEF Local

LEMMA ResumeRefusedStep == ASSUME Inv, NEW c \in Co, ResumeRefused(c) PROVE Inv'
<1>1. /\ Executing /\ host' = host /\ outcome' = "called" /\ UNCHANGED <<open, allowYield, saved, threadVars>>
      /\ coStatus[c] \in {"dead", "running"} /\ status' = [status EXCEPT ![c] = "error"]
    BY DEF ResumeRefused
<1>2. frames' = [frames EXCEPT ![T] = Append(frames[T], Frame("resume"))]
    BY AtTop DEF ResumeRefused, PushFrame
<1>3. status \in [Threads -> {"ok", "yield", "error"}] /\ c \in Threads
    BY AtTop DEF Threads
<1>4. status' \in [Threads -> {"ok", "yield", "error"}] /\ status'[c] = "error"
      /\ \A u \in Threads : u # c => status'[u] = status[u]
    BY <1>1, <1>3
<1>5. coStatus[c] = "dead" \/ c = T
    BY <1>1 DEF Inv, Statuses
<1>6. status[T] # "yield"
    BY <1>1, AtLoop DEF Executing
<1>7. status'[T] # "yield"
    BY <1>4, <1>6, AtTop
<1>8. \A u \in Threads : u # T =>
          status'[u] = status[u] \/ (u \in Co /\ coStatus[u] = "dead" /\ status'[u] # "yield")
    BY <1>4, <1>5
<1> QED
    BY <1>1, <1>2, <1>4, <1>7, <1>8, CFrame

LEMMA YieldStep == ASSUME Inv, Yield, ~NestedYields PROVE Inv'
<1>1. Executing /\ Beneath # <<>> /\ UNCHANGED <<open, allowYield, saved, threadVars>>
    BY DEF Yield
<1>2. frames' = [frames EXCEPT ![T] = Append(frames[T], Frame("yield"))]
    BY AtTop DEF Yield, PushFrame
<1>3. CASE allowYield[T] > 0
  <2>1. status' = [status EXCEPT ![T] = "yield"] /\ outcome' = "called" /\ host' = host
    BY <1>3 DEF Yield
  <2>2. status' \in [Threads -> {"ok", "yield", "error"}] /\ status'[T] = "yield"
        /\ \A u \in Threads : u # T => status'[u] = status[u]
    BY <2>1, AtTop
  <2>3. T # Main
    BY <1>3 DEF Inv, Statuses
  <2>4. Len(host) > 1 /\ host[Len(host) - 1].kind # "pcall"
    <3>1. /\ Len(host) \in Nat /\ Len(host) >= 1 /\ Len(Beneath) = Len(host) - 1 /\ Beneath \in Seq(HostType)
          /\ \A i \in 1 .. Len(host) - 1 : Beneath[i] = host[i]
      BY AtTop, FrontOf DEF Beneath
    <3>2. Len(Beneath) >= 1
      BY <1>1, <3>1
    <3>3. Last(Beneath).kind # "pcall" /\ Last(Beneath) = Beneath[Len(Beneath)]
      BY <1>3, <1>1 DEF Yield, Last
    <3> QED
      BY <3>1, <3>2, <3>3
  <2>5. host[Len(host) - 1].kind = "resume"
    <3> DEFINE i == Len(host) - 1
    <3>1. i \in 1 .. Len(host) - 1 /\ i + 1 = Len(host)
      BY <2>4, AtTop
    <3>2. Calls(host[i], host[i + 1])
      BY <3>1 DEF Inv, Stack, Linked
    <3>3. host[i + 1].kind = "loop"
      BY <1>1, <3>1, AtTop DEF Executing
    <3> QED
      BY <2>4, <3>2, <3>3 DEF Calls
  <2> QED
    BY <1>1, <1>2, <2>1, <2>2, <2>3, <2>4, <2>5, CFrame
<1>4. CASE ~(allowYield[T] > 0)
  <2>1. outcome' = "error" /\ host' = Beneath /\ status' = status
    BY <1>4 DEF Yield
  <2>2. Frame("yield") \in FrameType /\ ~Frame("yield").captured
    BY NewFrames
  <2>3. /\ Floor(Top) \in Int /\ Floor(Top) <= Len(frames[T]) /\ frames[T] \in Seq(FrameType)
    BY <1>1, AtTop, AtLoop DEF Executing
  <2>4. /\ Append(frames[T], Frame("yield")) \in Seq(FrameType)
        /\ SameTo(frames[T], Append(frames[T], Frame("yield")), Floor(Top))
    BY <2>2, <2>3, PushedFrame
  <2>5. Agrees(Append(frames[T], Frame("yield")), open[T])
    BY <2>2, AtTop, AgreesPushed
  <2>6. open[T] \in SUBSET Nat /\ open' = [open EXCEPT ![T] = open[T]]
    BY <1>1, AtTop
  <2>7. UNCHANGED <<status, allowYield, saved, threadVars>>
    BY <1>1, <2>1
  <2> QED
    BY <1>1, <1>2, <2>1, <2>4, <2>5, <2>6, <2>7, LoopEnds
<1> QED
    BY <1>3, <1>4
\* What pcall protects is beneath it, on the frames of the same thread.
LEMMA AtPCall ==
    ASSUME Inv, Top.kind = "pcall", host' = Beneath,
           frames' \in [Threads -> Seq(FrameType)], Under(host, frames')
    PROVE  /\ Beneath # <<>>
           /\ Top.saved \in Nat /\ Top'.kind = "loop" /\ Top.saved = Top'.frame + 1
           /\ Wait(Top', Top, frames'[T])
<1>1. Stack(host) /\ Top = host[Len(host)] /\ Len(host) \in Nat /\ Len(host) >= 1
    BY AtTop DEF Inv
<1>2. Len(host) # 1
    BY <1>1 DEF Stack, Linked
<1>3. Beneath # <<>>
  <2>1. Len(Beneath) = Len(host) - 1
    BY AtTop, FrontOf DEF Beneath
  <2> QED
    BY <1>1, <1>2, <2>1
<1>4. Calls(Top', Top) /\ (Top'.kind = "loop" => Wait(Top', Top, frames'[T]))
    BY <1>3, Pops
<1>5. Top.saved \in Nat
    BY AtTop, EntryFields
<1> QED
    BY <1>3, <1>4, <1>5 DEF Calls

LEMMA PCallReturnsStep == ASSUME Inv, PCallReturns PROVE Inv'
<1>1. /\ Top.kind = "pcall" /\ host' = Beneath /\ outcome' = "called" /\ status' = [status EXCEPT ![T] = "ok"]
      /\ UNCHANGED <<allowYield, saved, threadVars>> /\ outcome \in {"returned", "error"}
    BY DEF PCallReturns, Inv, Works
<1> DEFINE k == Top.saved
           fs == SubSeq(frames[T], 1, k)
           o == {e \in open[T] : e < k + 1}
<1>2. k \in Nat /\ k <= Len(frames[T]) /\ k >= 1 /\ Floor(Top) = k /\ frames[T][k].kind = "pcall"
  <2> DEFINE d == host[Len(host) - 1]
             i == Len(host) - 1
  <2>1. Stack(host) /\ Waits(host, frames) /\ Top = host[Len(host)]
    BY AtTop DEF Inv
  <2>2. Len(host) > 1
    <3>1. Len(host) # 1
      BY <1>1, <2>1 DEF Stack, Linked
    <3>2. Len(host) \in Nat /\ Len(host) >= 1
      BY AtTop
    <3>3. ASSUME NEW l \in Nat, l >= 1, l # 1 PROVE l > 1
      BY <3>3
    <3> QED
      BY <3>1, <3>2, <3>3
  <2>3. i \in 1 .. Len(host) - 1 /\ i + 1 = Len(host) /\ d = host[i] /\ d \in HostType
    <3>1. Len(host) \in Nat
      BY AtTop
    <3>2. i \in 1 .. Len(host) - 1 /\ i + 1 = Len(host) /\ i \in 1 .. Len(host)
      BY ONLY <2>2, <3>1
    <3>3. \A j \in 1 .. Len(host) : host[j] \in HostType
      BY AtTop
    <3> QED
      BY ONLY <3>2, <3>3
  <2>4. Calls(d, Top)
    BY <2>1, <2>3 DEF Stack, Linked
  <2>5. d.kind = "loop" /\ k = d.frame + 1 /\ d.thread = T
    BY <1>1, <2>4 DEF Calls, T
  <2>6. Wait(d, Top, frames[T])
    BY <2>1, <2>3, <2>5 DEF Waits
  <2>7. d.frame \in Nat
    BY <2>3, <2>5, EntryFields
  <2>8. Floor(Top) = k
    BY <1>1 DEF Floor
  <2> HIDE DEF d, i, k
  <2> QED
    BY <1>1, <2>5, <2>6, <2>7, <2>8 DEF Wait
<1>3. frames[T] \in Seq(FrameType) /\ Agrees(frames[T], open[T]) /\ open[T] \in SUBSET Nat /\ Len(frames[T]) \in Nat
    BY AtTop
<1>4. k \in 0 .. Len(frames[T]) /\ k \in Int /\ k <= k
    BY <1>2, <1>3
<1>5. frames' = [frames EXCEPT ![T] = fs] /\ \E p \in SUBSET Nat : open' = [open EXCEPT ![T] = p] /\ Agrees(fs, p)
  <2>1. CASE outcome = "error"
    <3>1. frames' = [frames EXCEPT ![T] = fs] /\ open' = [open EXCEPT ![T] = o]
      BY <2>1, AtTop DEF PCallReturns, Close
    <3>2. o \in SUBSET Nat
      BY <1>3
    <3> HIDE DEF k
    <3>3. Agrees(fs, o)
      BY <1>3, <1>4, AgreesPrefix
    <3> QED
      BY <3>1, <3>2, <3>3
  <2>2. CASE outcome = "returned"
    <3>1. Len(frames[T]) = k + 1 /\ ~frames[T][Len(frames[T])].captured
      BY <1>1, <2>2, AtTop DEF Inv, Works
    <3>2. fs = Front(frames[T]) /\ frames[T] # <<>>
      BY <1>2, <3>1 DEF Front
    <3>3. frames' = [frames EXCEPT ![T] = Front(frames[T])] /\ open' = [open EXCEPT ![T] = open[T]]
      BY <2>2, AtTop DEF PCallReturns, PopFrame
    <3>4. Agrees(Front(frames[T]), open[T])
      BY <1>3, <3>1, <3>2, AgreesPopped
    <3> HIDE DEF fs, k
    <3> QED
      BY <1>3, <3>2, <3>3, <3>4
  <2> QED
    BY <1>1, <2>1, <2>2
<1>6. PICK p \in SUBSET Nat : open' = [open EXCEPT ![T] = p] /\ Agrees(fs, p)
    BY <1>5
<1> HIDE DEF k
<1>7. /\ fs \in Seq(FrameType) /\ Len(fs) = k /\ \A d \in 1 .. k : fs[d] = frames[T][d]
      /\ SameTo(frames[T], fs, Floor(Top))
    BY <1>2, <1>3, <1>4, PrefixOf, PrefixFrames
<1> HIDE DEF fs, o
<1>8. /\ Under(host, frames') /\ frames' \in [Threads -> Seq(FrameType)] /\ frames'[T] = fs
      /\ \A u \in Threads : u # T => frames'[u] = frames[u]
    BY <1>5, <1>7, UnderLocal
<1>9. /\ open' \in [Threads -> SUBSET Nat] /\ open'[T] = p
      /\ \A u \in Threads : u # T => open'[u] = open[u]
    BY <1>6, AtTop, PutOpen
<1>10. Beneath # <<>> /\ Top'.kind = "loop" /\ k = Top'.frame + 1
    BY <1>1, <1>8, AtPCall DEF k
<1>11. /\ host' \in Seq(HostType) /\ Stack(host') /\ T' = T
       /\ \A c \in Co : Entered(host', c) <=> Entered(host, c)
       /\ Fits(host', frames') /\ Waits(host', frames')
  <2>1. Top.kind # "resume"
    BY <1>1
  <2> QED
    BY <1>1, <1>8, <1>10, <2>1, Pops
<1>12. Depth(T)' = k /\ frames'[T'][Depth(T)'].kind = "pcall"
    BY <1>2, <1>7, <1>8, <1>11 DEF Depth
<1>13. Works' /\ ~Yields'
    BY <1>1, <1>10, <1>12 DEF Works, Yields
<1>14. Yielded'
    BY <1>1, <1>13 DEF Yielded
<1>15. /\ status' \in [Threads -> {"ok", "yield", "error"}] /\ status'[T] = "ok"
       /\ \A u \in Threads : u # T => status'[u] = status[u]
    BY <1>1, AtTop
<1>16. saved \in [Threads -> Nat] /\ saved' = saved /\ UNCHANGED <<allowYield, threadVars>>
    BY <1>1, AtTop
<1> QED
    BY <1>1, <1>6, <1>8, <1>9, <1>11, <1>13, <1>14, <1>15, <1>16, LocalStep DEF Local

LEMMA CFunctionReturnsStep == ASSUME Inv, CFunctionReturns PROVE Inv'
<1>1. Top.kind = "loop" /\ outcome = "called" /\ UNCHANGED <<open, status, allowYield, threadVars>>
    BY DEF CFunctionReturns
<1> DEFINE k == Top.frame
<1>2. /\ k \in Nat /\ Top.n \in Nat /\ Top.n > 0 /\ k - Top.n >= 0 /\ k >= 1 /\ Floor(Top) = k - Top.n
      /\ Len(frames[T]) = k + 1 /\ frames[T][k + 1].kind # "lua" /\ ~frames[T][k + 1].captured
      /\ Fit(Top, frames[T]) /\ frames[T] \in Seq(FrameType) /\ Agrees(frames[T], open[T])
    BY <1>1, AtTop, AtLoop
<1>3. status[T] = "yield" <=> Yields
  <2>1. CASE T \in Co
    BY <2>1, AtTop DEF Inv, Statuses
  <2>2. CASE T = Main
    <3>1. status[T] # "yield"
      BY <2>2 DEF Inv, Statuses
    <3> SUFFICES ASSUME Yields PROVE FALSE
      BY <3>1
    <3> DEFINE i == Len(host) - 1
    <3>2. Len(host) > 1 /\ host[i].kind = "resume" /\ Len(host) \in Nat
      BY <1>1, AtTop DEF Inv, Yielded
    <3>3. i \in 1 .. Len(host) - 1 /\ i + 1 = Len(host) /\ host[i] \in HostType
      BY <3>2, AtTop
    <3>4. Calls(host[i], Top)
      BY <3>3, AtTop DEF Inv, Stack, Linked
    <3>5. host[i].thread = Main
      BY <2>2, <3>2, <3>4 DEF Calls, T
    <3>6. host[i].thread \in Co
      BY <3>2, <3>3, EntryFields
    <3> QED
      BY <3>5, <3>6, ThreadsAssumption
  <2> QED
    BY <2>1, <2>2, AtTop DEF Threads
<1>4. open' = open /\ status' = status /\ open \in [Threads -> SUBSET Nat]
      /\ status \in [Threads -> {"ok", "yield", "error"}] /\ saved \in [Threads -> Nat]
    BY <1>1, AtTop
<1>5. CASE status[T] = "yield"
  <2>1. saved' = [saved EXCEPT ![T] = Top.n] /\ host' = Beneath /\ outcome' = "yielded" /\ frames' = frames
    BY <1>5 DEF CFunctionReturns
  <2>2. Len(host) > 1 /\ host[Len(host) - 1].kind = "resume" /\ frames[T][k + 1].kind = "yield"
    BY <1>1, <1>2, <1>3, <1>5, AtTop DEF Inv, Yielded, Yields
  <2>3. Under(host, frames') /\ frames' \in [Threads -> Seq(FrameType)]
    BY <2>1, AtTop, UnderSame DEF Inv
  <2>4. Beneath # <<>>
    <3>1. Len(Beneath) = Len(host) - 1
      BY AtTop, FrontOf DEF Beneath
    <3> QED
      BY <2>2, <3>1
  <2>5. /\ host' \in Seq(HostType) /\ Stack(host') /\ T' = T /\ Top' = host[Len(host) - 1] /\ Calls(Top', Top)
        /\ \A c \in Co : Entered(host', c) <=> Entered(host, c)
        /\ Fits(host', frames') /\ Waits(host', frames')
    <3>1. Top.kind # "resume"
      BY <1>1
    <3> QED
      BY <2>1, <2>3, <2>4, <3>1, Pops
  <2>6. Works' /\ Yields'
    BY <2>1, <2>2, <2>5 DEF Works, Yields
  <2>7. saved' \in [Threads -> Nat] /\ saved'[T] = Top.n /\ \A u \in Threads : u # T => saved'[u] = saved[u]
    BY <1>2, <1>4, <2>1, AtTop
  <2>8. k = Top.n
    BY <1>1, <2>2, <2>5 DEF Calls
  <2>9. GoesOn(frames'[T'], saved'[T'])
    <3>1. \A d \in 1 .. k : frames[T][d].kind = "lua"
      BY <1>2, <2>8 DEF Fit
    <3> QED
      BY <1>2, <2>1, <2>2, <2>5, <2>7, <2>8, <3>1 DEF GoesOn
  <2>10. Yielded'
    BY <2>1, <2>9 DEF Yielded
  <2>11. T \in Threads /\ Agrees(frames'[T], open'[T])
    BY <1>2, <1>4, <2>1, AtTop
  <2>12. T = Main => status'[T] # "yield"
    BY <1>4 DEF Inv, Statuses
  <2> QED
    BY <1>1, <1>4, <1>5, <2>1, <2>3, <2>5, <2>6, <2>7, <2>10, <2>11, <2>12, LocalStep DEF Local
<1>6. CASE status[T] # "yield"
  <2> DEFINE fs == Front(frames[T])
  <2>1. /\ frames' = [frames EXCEPT ![T] = fs] /\ outcome' = "none" /\ saved' = saved /\ host' = host
    BY <1>6, AtTop DEF CFunctionReturns, PopFrame
  <2>2. frames[T] # <<>> /\ k \in 0 .. Len(frames[T]) /\ fs = SubSeq(frames[T], 1, k)
        /\ Floor(Top) \in Int /\ Floor(Top) <= k
    BY <1>2 DEF Front
  <2>3. Agrees(fs, open[T])
    BY <1>2, <2>2, AgreesPopped
  <2>4. ~Yields
    BY <1>3, <1>6
  <2> HIDE DEF fs
  <2>5. fs \in Seq(FrameType) /\ Len(fs) = k /\ (\A d \in 1 .. k : fs[d] = frames[T][d])
        /\ SameTo(frames[T], fs, Floor(Top))
    <3> HIDE DEF k
    <3> QED
      BY <1>2, <2>2, PrefixOf, PrefixFrames
  <2>6. /\ Under(host, frames') /\ frames' \in [Threads -> Seq(FrameType)] /\ frames'[T] = fs
        /\ \A u \in Threads : u # T => frames'[u] = frames[u]
    BY <2>1, <2>5, UnderLocal
  <2>7. Fit(Top, frames'[T])
    <3>1. Top.frame <= Len(fs) /\ \A d \in 1 .. Top.frame : fs[d].kind = frames[T][d].kind
      BY <1>2, <2>5
    <3> QED
      BY <1>1, <2>5, <2>6, <3>1, FitTopKept
  <2>8. /\ host' \in Seq(HostType) /\ Stack(host') /\ T' = T /\ Top' = Top
        /\ \A c \in Co : Entered(host', c) <=> Entered(host, c)
        /\ Fits(host', frames') /\ Waits(host', frames')
    BY <1>1, <2>1, <2>6, <2>7, LoopStays
  <2>9. Depth(T)' = k
    BY <2>5, <2>6, <2>8 DEF Depth
  <2>10. Works' /\ ~Yields' /\ Yielded'
    BY <1>1, <2>1, <2>8, <2>9 DEF Works, Yields, Yielded
  <2>11. Agrees(frames'[T], open'[T])
    BY <1>4, <2>3, <2>6
  <2> QED
    BY <1>1, <1>4, <1>6, <2>1, <2>6, <2>8, <2>10, <2>11, LocalStep DEF Local
<1> QED
    BY <1>5, <1>6
\* The loop calls a C function, which starts a loop.
LEMMA Pushes ==
    ASSUME Inv, Top.kind = "loop", NEW d \in HostType, NEW e \in HostType, host' = host \o <<d, e>>,
           frames' \in [Threads -> Seq(FrameType)], Under(host, frames'),
           Calls(Top, d), Calls(d, e), e.kind = "loop", e.n > 0, d.kind # "loop",
           d.kind = "resume" => d.thread # T /\ ~Entered(host, d.thread),
           Fit(Top, frames'[T]), Wait(Top, d, frames'[T]), Fit(e, frames'[e.thread])
    PROVE  /\ host' \in Seq(HostType) /\ Stack(host') /\ Top' = e /\ T' = e.thread
           /\ \A c \in Co : Entered(host', c) <=> Entered(host, c) \/ (d.kind = "resume" /\ d.thread = c)
           /\ Fits(host', frames') /\ Waits(host', frames')
<1>1. /\ host' \in Seq(HostType) /\ host' # <<>> /\ Len(host') = Len(host) + 2
      /\ \A i \in 1 .. Len(host) : host'[i] = host[i]
      /\ host'[Len(host) + 1] = d /\ host'[Len(host) + 2] = e /\ Last(host') = e
    BY AtTop, PushedTwo
<1>2. Top' = e /\ T' = e.thread
    BY <1>1 DEF Top, T
<1> DEFINE l == Top
<1>3. l = host[Len(host)] /\ d = host'[Len(host) + 1] /\ e = host'[Len(host) + 2]
    BY <1>1, AtTop
<1>4. /\ l.kind = "loop" /\ l.n > 0 /\ l.frame - l.n >= 0 /\ Calls(l, d) /\ Calls(d, e)
      /\ e.kind = "loop" /\ e.n > 0
      /\ d.kind = "resume" => d.thread # l.thread /\ ~Entered(host, d.thread)
    BY AtLoop DEF T
<1>5. host \in Seq(HostType) /\ host # <<>> /\ Stack(host)
    BY AtTop DEF Inv
<1>6. Fit(l, frames'[l.thread]) /\ Wait(l, d, frames'[l.thread])
    BY DEF T
<1> HIDE DEF l
<1>7. /\ Stack(host')
      /\ \A c : Entered(host', c) <=> Entered(host, c) \/ (d.kind = "resume" /\ d.thread = c)
    BY ONLY <1>1, <1>3, <1>4, <1>5, StackPush
<1>8. Fits(host', frames') /\ Waits(host', frames')
    BY <1>1, <1>3, <1>5, <1>6, FitsPushed
<1> QED
    BY <1>1, <1>2, <1>7, <1>8

LEMMA PCallStep == ASSUME Inv, PCall PROVE Inv'
<1>1. /\ Executing /\ Top.kind = "loop" /\ outcome = "none"
      /\ UNCHANGED <<open, status, allowYield, saved, threadVars, outcome>>
    BY DEF PCall, Executing
<1> DEFINE k == Top.frame
           fs == frames[T] \o <<Frame("pcall"), Lua>>
           d == Protected(T, k + 1)
           e == Loop(T, k + 2, 1)
<1>2. /\ k \in Nat /\ k >= 1 /\ Len(frames[T]) = k /\ Depth(T) = k /\ frames[T] \in Seq(FrameType)
      /\ Floor(Top) \in Int /\ Floor(Top) <= k /\ status[T] # "yield"
    BY <1>1, AtTop, AtLoop
<1>3. /\ Frame("pcall") \in FrameType /\ Frame("pcall").kind = "pcall" /\ ~Frame("pcall").captured
      /\ Lua \in FrameType /\ Lua.kind = "lua" /\ ~Lua.captured
    BY NewFrames DEF Lua
<1>4. frames' = [frames EXCEPT ![T] = fs] /\ host' = host \o <<d, e>>
    BY <1>2, AtTop DEF PCall
<1>5. /\ d \in HostType /\ d.kind = "pcall" /\ d.thread = T /\ d.saved = k + 1
      /\ e \in HostType /\ e.kind = "loop" /\ e.thread = T /\ e.frame = k + 2 /\ e.n = 1
  <2>1. T \in Threads /\ k + 1 \in Nat /\ k + 2 \in Nat /\ 1 \in Nat
    BY <1>2, AtTop
  <2> QED
    BY <2>1, Entries
<1>6. /\ fs \in Seq(FrameType) /\ Len(fs) = k + 2 /\ \A i \in 1 .. k : fs[i] = frames[T][i]
      /\ fs[k + 1] = Frame("pcall") /\ fs[k + 2] = Lua
  <2>1. /\ fs \in Seq(FrameType) /\ Len(fs) = Len(frames[T]) + 2
        /\ \A i \in 1 .. Len(frames[T]) : fs[i] = frames[T][i]
        /\ fs[Len(frames[T]) + 1] = Frame("pcall") /\ fs[Len(frames[T]) + 2] = Lua
    <3> DEFINE ps == frames[T]
               a == Frame("pcall")
               b == Lua
    <3>1. ps \in Seq(FrameType) /\ a \in FrameType /\ b \in FrameType /\ fs = ps \o <<a, b>>
      BY <1>2, <1>3
    <3> HIDE DEF ps, a, b, fs
    <3>2. /\ fs \in Seq(FrameType) /\ Len(fs) = Len(ps) + 2 /\ \A i \in 1 .. Len(ps) : fs[i] = ps[i]
          /\ fs[Len(ps) + 1] = a /\ fs[Len(ps) + 2] = b
      BY ONLY <3>1, PushedTwo
    <3> QED
      BY <3>2 DEF ps, a, b
  <2>2. k = Len(frames[T])
    BY <1>2
  <2> HIDE DEF fs, k
  <2> QED
    BY ONLY <2>1, <2>2
<1> HIDE DEF fs, d, e, k
<1>7. SameTo(frames[T], fs, Floor(Top))
  <2>1. Floor(Top) <= Len(fs) /\ \A i \in 1 .. Floor(Top) : i \in 1 .. k
    BY <1>2, <1>6
  <2> QED
    BY <1>6, <2>1 DEF SameTo
<1>8. Agrees(fs, open[T])
  <2>1. open[T] = {i \in 1 .. k : frames[T][i].captured}
        /\ \A i \in 1 .. k : frames[T][i].captured => frames[T][i].kind = "lua"
    BY <1>2, AtTop DEF Agrees
  <2>2. ASSUME NEW i PROVE i \in 1 .. k + 2 /\ fs[i].captured <=> i \in 1 .. k /\ frames[T][i].captured
    <3>1. i \in 1 .. k + 2 <=> i \in 1 .. k \/ i = k + 1 \/ i = k + 2
      BY <1>2
    <3> QED
      BY <1>3, <1>6, <3>1
  <2>3. \A i \in 1 .. k + 2 : fs[i].captured => fs[i].kind = "lua"
    BY <1>2, <1>6, <2>1, <2>2
  <2>4. open[T] = {i \in 1 .. k + 2 : fs[i].captured}
    BY <2>1, <2>2
  <2> QED
    BY <1>6, <2>3, <2>4 DEF Agrees
<1>9. /\ Under(host, frames') /\ frames' \in [Threads -> Seq(FrameType)] /\ frames'[T] = fs
      /\ \A u \in Threads : u # T => frames'[u] = frames[u]
    BY <1>4, <1>6, <1>7, UnderLocal
<1>10. Fit(Top, fs)
  <2>1. Top.frame <= Len(fs) /\ \A i \in 1 .. Top.frame : fs[i].kind = frames[T][i].kind
    BY <1>2, <1>6 DEF k
  <2> QED
    BY <1>1, <1>6, <2>1, FitTopKept
<1>11. Wait(Top, d, fs)
    BY <1>2, <1>3, <1>5, <1>6 DEF Wait, k
<1>12. Fit(e, fs)
    BY <1>2, <1>3, <1>5, <1>6 DEF Fit
<1>13. Calls(Top, d) /\ Calls(d, e) /\ e.n > 0 /\ d.kind # "loop"
  <2>1. e.frame - e.n = d.saved
    BY <1>2, <1>5
  <2> QED
    BY <1>1, <1>5, <2>1 DEF Calls, T, k
<1>14. Fit(Top, frames'[T]) /\ Wait(Top, d, frames'[T]) /\ Fit(e, frames'[e.thread])
    BY <1>5, <1>9, <1>10, <1>11, <1>12
<1>15. /\ host' \in Seq(HostType) /\ Stack(host') /\ Top' = e /\ T' = e.thread
       /\ \A c \in Co : Entered(host', c) <=> Entered(host, c) \/ (d.kind = "resume" /\ d.thread = c)
       /\ Fits(host', frames') /\ Waits(host', frames')
    BY <1>1, <1>4, <1>5, <1>9, <1>13, <1>14, Pushes
<1>16. T' = T /\ \A c \in Co : Entered(host', c) <=> Entered(host, c)
    BY <1>5, <1>15
<1>17. Depth(T)' = Top'.frame
    BY <1>5, <1>6, <1>9, <1>15 DEF Depth
<1>18. outcome' = "none"
    BY <1>1
<1>19. Works' /\ Yielded' /\ ~Yields'
    BY <1>5, <1>15, <1>17, <1>18 DEF Works, Yielded, Yields
<1>20. /\ open' = open /\ status' = status /\ saved' = saved /\ UNCHANGED <<allowYield, threadVars>>
       /\ open \in [Threads -> SUBSET Nat] /\ status \in [Threads -> {"ok", "yield", "error"}]
       /\ saved \in [Threads -> Nat]
    BY <1>1, AtTop
<1> QED
    BY <1>2, <1>8, <1>9, <1>15, <1>16, <1>18, <1>19, <1>20, LocalStep DEF Local
------------------------------------------------------------------------------
(* Coroutines *)

LEMMA AtSuspended ==
    ASSUME Inv, NEW c \in Co, coStatus[c] \in {"none", "suspended"}
    PROVE  c # T /\ ~Entered(host, c) /\ c # Main /\ allowYield[c] = 0 /\ c \in Threads
<1>1. c # Main /\ c \in Threads
    BY ThreadsAssumption DEF Threads
<1>2. c # T /\ ~Entered(host, c)
    BY DEF Inv, Statuses
<1>3. allowYield[c] = 0
    BY <1>2 DEF Inv, Statuses
<1> QED
    BY <1>1, <1>2, <1>3

LEMMA TopEntered ==
    ASSUME Inv, T # Main
    PROVE  Entered(host, T)
<1>1. Len(host) \in 1 .. Len(host) /\ host[Len(host)].thread = T
    BY AtTop DEF T
<1>2. PICK j \in 1 .. Len(host) : host[j].kind = "resume" /\ host[j].thread = T
    BY <1>1 DEF Inv, Stack, Enters
<1> QED
    BY <1>2 DEF Entered

\* resume is called: its frame is on the stack of the caller, and the coroutine
\* may be given other frames.
LEMMA ResumeFrame ==
    ASSUME Inv, Executing, NEW c \in Co, c # T, ~Entered(host, c), NEW fs \in Seq(FrameType),
           frames' = [frames EXCEPT ![c] = fs, ![T] = Append(@, Frame("resume"))]
    PROVE  /\ frames' \in [Threads -> Seq(FrameType)] /\ frames'[c] = fs
           /\ \A u \in Threads : u # T /\ u # c => frames'[u] = frames[u]
           /\ Under(host, frames') /\ Fit(Top, frames'[T])
           /\ Len(frames'[T]) = Top.frame + 1 /\ frames'[T][Top.frame + 1] = Frame("resume")
           /\ Agrees(frames'[T], open[T])
<1> DEFINE gs == Append(frames[T], Frame("resume"))
<1>1. Top.kind = "loop" /\ outcome = "none"
    BY DEF Executing
<1>2. Frame("resume") \in FrameType /\ Frame("resume").kind = "resume" /\ ~Frame("resume").captured
    BY NewFrames
<1>3. /\ Top.frame \in Nat /\ Len(frames[T]) = Top.frame /\ frames[T] \in Seq(FrameType)
      /\ Floor(Top) \in Int /\ Floor(Top) <= Len(frames[T])
  <2>1. /\ Top.frame \in Nat /\ Top.n \in Nat /\ Top.n > 0 /\ Floor(Top) = Top.frame - Top.n
        /\ Len(frames[T]) = Top.frame /\ frames[T] \in Seq(FrameType)
    BY <1>1, AtTop, AtLoop
  <2> QED
    BY ONLY <2>1
<1>4. /\ gs \in Seq(FrameType) /\ Len(gs) = Len(frames[T]) + 1 /\ \A d \in 1 .. Len(frames[T]) : gs[d] = frames[T][d]
      /\ gs[Len(frames[T]) + 1] = Frame("resume") /\ SameTo(frames[T], gs, Floor(Top))
    BY <1>2, <1>3, PushedFrame
<1>5. Agrees(gs, open[T])
    BY <1>2, AtTop, AgreesPushed
<1>6. c \in Threads /\ c # Main /\ T \in Threads
    BY AtTop, ThreadsAssumption DEF Threads
<1>7. /\ frames' \in [Threads -> Seq(FrameType)] /\ frames'[c] = fs /\ frames'[T] = gs
      /\ \A u \in Threads : u # T /\ u # c => frames'[u] = frames[u]
  <2> DEFINE f1 == [frames EXCEPT ![c] = fs]
  <2>1. f1 \in [Threads -> Seq(FrameType)] /\ f1[c] = fs /\ \A u \in Threads : u # c => f1[u] = frames[u]
    BY <1>6, AtTop, PutFrames
  <2>2. frames' = [f1 EXCEPT ![T] = Append(f1[T], Frame("resume"))]
    BY <1>6, AtTop
  <2>3. frames' = [f1 EXCEPT ![T] = gs]
    BY <1>6, <2>1, <2>2
  <2> HIDE DEF f1, gs
  <2>4. /\ frames' \in [Threads -> Seq(FrameType)] /\ frames'[T] = gs
        /\ \A u \in Threads : u # T => frames'[u] = f1[u]
    <3>1. f1 \in [Threads -> Seq(FrameType)] /\ T \in Threads /\ gs \in Seq(FrameType)
      BY <1>4, <1>6, <2>1
    <3> QED
      BY ONLY <3>1, <2>3, PutFrames
  <2> QED
    BY <1>6, <2>1, <2>4
<1> HIDE DEF gs
<1>8. Under(host, frames')
  <2> DEFINE t == host[Len(host)].thread
  <2>1. t = T /\ Top = host[Len(host)] /\ host \in Seq(HostType) /\ frames[T] \in Seq(FrameType)
    BY AtTop DEF T
  <2>2. /\ SameTo(frames[t], frames'[t], Floor(host[Len(host)])) /\ frames[t] \in Seq(FrameType)
        /\ frames'[t] \in Seq(FrameType)
    BY <1>4, <1>7, <2>1
  <2>3. \A u \in Threads : u # t /\ (u = Main \/ Entered(host, u)) => frames'[u] = frames[u]
    BY <1>6, <1>7, <2>1
  <2>4. Stack(host) /\ Fits(host, frames) /\ Waits(host, frames)
    BY DEF Inv
  <2> QED
    BY ONLY <2>1, <2>2, <2>3, <2>4, UnderKept
<1>9. Fit(Top, gs)
  <2>1. Top.frame <= Len(gs) /\ \A d \in 1 .. Top.frame : gs[d].kind = frames[T][d].kind
    BY <1>3, <1>4
  <2> QED
    BY <1>1, <1>4, <2>1, FitTopKept
<1> QED
    BY <1>3, <1>4, <1>5, <1>7, <1>8, <1>9

LEMMA CreateStep == ASSUME Inv, NEW c \in Co, Create(c) PROVE Inv'
<1>1. /\ UNCHANGED <<stateVars, first, caller, running, host, outcome>> /\ coStatus[c] = "none"
      /\ coStatus' = [coStatus EXCEPT ![c] = "suspended"]
    BY DEF Create
<1>2. UNCHANGED <<frames, open, status, allowYield, saved, first, caller, running, host, outcome>>
    BY <1>1 DEF stateVars
<1>3. coStatus \in [Co -> {"none", "suspended", "running", "normal", "dead"}]
    BY DEF Inv, TypeOK
<1>4. /\ coStatus' \in [Co -> {"none", "suspended", "running", "normal", "dead"}]
      /\ coStatus'[c] = "suspended" /\ \A x \in Co : x # c => coStatus'[x] = coStatus[x]
    BY <1>1, <1>3
<1>5. c # T /\ ~Entered(host, c) /\ first[c]
    BY <1>1, AtSuspended DEF Inv, Fresh
<1>6. T' = T /\ Top' = Top /\ (Yields' <=> Yields)
    BY <1>2 DEF T, Top, Yields, Depth
<1>7. TypeOK'
    BY <1>2, <1>4 DEF Inv, TypeOK
<1>8. Stack(host') /\ Fits(host', frames') /\ Waits(host', frames') /\ Upvalues'
    BY <1>2 DEF Inv, Upvalues
<1>9. Works' /\ Yielded'
    BY <1>2, <1>6 DEF Inv, Works, Yielded, Depth
<1>10. Suspended' /\ Fresh'
    BY <1>2, <1>4, <1>5 DEF Inv, Suspended, Fresh
<1>11. Statuses'
  <2>1. ASSUME NEW x \in Co
        PROVE  /\ coStatus'[x] = "running" <=> x = T'
               /\ coStatus'[x] = "normal" <=> Entered(host', x) /\ x # T'
               /\ allowYield'[x] = IF Entered(host', x) THEN 1 ELSE 0
               /\ status'[x] = "yield" <=> (coStatus'[x] = "suspended" /\ ~first'[x]) \/ (x = T' /\ Yields')
    <3>1. CASE x = c
      BY <1>1, <1>2, <1>4, <1>5, <1>6, <3>1 DEF Inv, Statuses
    <3>2. CASE x # c
      BY <1>2, <1>4, <1>6, <3>2 DEF Inv, Statuses
    <3> QED
      BY <3>1, <3>2
  <2> QED
    BY <1>2, <1>6, <2>1 DEF Inv, Statuses
<1> QED
    BY <1>7, <1>8, <1>9, <1>10, <1>11 DEF Inv
LEMMA Aborts ==
    ASSUME TypeOK, NEW c \in Co, Abort(c)
    PROVE  /\ open' \in [Threads -> SUBSET Nat] /\ open'[c] = {} /\ \A u \in Threads : u # c => open'[u] = open[u]
           /\ saved' \in [Threads -> Nat] /\ saved'[c] = 1 /\ \A u \in Threads : u # c => saved'[u] = saved[u]
           /\ status' \in [Threads -> {"ok", "yield", "error"}] /\ status'[c] = "error"
           /\ \A u \in Threads : u # c => status'[u] = status[u]
           /\ first' \in [Co -> BOOLEAN] /\ first'[c] = FALSE /\ \A x \in Co : x # c => first'[x] = first[x]
<1>1. c \in Threads
    BY DEF Threads
<1>2. open' \in [Threads -> SUBSET Nat] /\ open'[c] = {} /\ \A u \in Threads : u # c => open'[u] = open[u]
    BY <1>1 DEF TypeOK, Abort
<1>3. saved' \in [Threads -> Nat] /\ saved'[c] = 1 /\ \A u \in Threads : u # c => saved'[u] = saved[u]
    BY <1>1 DEF TypeOK, Abort
<1>4. /\ status' \in [Threads -> {"ok", "yield", "error"}] /\ status'[c] = "error"
      /\ \A u \in Threads : u # c => status'[u] = status[u]
    BY <1>1 DEF TypeOK, Abort
<1>5. first' \in [Co -> BOOLEAN] /\ first'[c] = FALSE /\ \A x \in Co : x # c => first'[x] = first[x]
    BY DEF TypeOK, Abort
<1> QED
    BY <1>2, <1>3, <1>4, <1>5

LEMMA NoFrames == <<>> \in Seq(FrameType) /\ Len(<<>>) = 0 /\ Agrees(<<>>, {})
<1>1. <<>> \in Seq(FrameType) /\ Len(<<>>) = 0
    OBVIOUS
<1> QED
    BY <1>1 DEF Agrees

LEMMA ResumeAbortedStep == ASSUME Inv, NEW c \in Co, ResumeAborted(c) PROVE Inv'
<1>1. /\ Executing /\ coStatus[c] = "suspended" /\ Abort(c) /\ outcome' = "called"
      /\ frames' = [frames EXCEPT ![c] = <<>>, ![T] = Append(@, Frame("resume"))]
      /\ coStatus' = [coStatus EXCEPT ![c] = "dead"]
      /\ UNCHANGED <<allowYield, caller, running, host>>
    BY DEF ResumeAborted
<1>2. c # T /\ ~Entered(host, c) /\ c # Main /\ c \in Threads
    BY <1>1, AtSuspended
<1>3. TypeOK /\ Top.kind = "loop" /\ outcome = "none" /\ ~Yields /\ status[T] # "yield"
    BY <1>1, AtLoop DEF Inv, Executing
<1>4. /\ frames' \in [Threads -> Seq(FrameType)] /\ frames'[c] = <<>>
      /\ \A u \in Threads : u # T /\ u # c => frames'[u] = frames[u]
      /\ Under(host, frames') /\ Fit(Top, frames'[T])
      /\ Len(frames'[T]) = Top.frame + 1 /\ frames'[T][Top.frame + 1] = Frame("resume")
      /\ Agrees(frames'[T], open[T])
    BY <1>1, <1>2, NoFrames, ResumeFrame
<1>5. /\ open' \in [Threads -> SUBSET Nat] /\ open'[c] = {} /\ \A u \in Threads : u # c => open'[u] = open[u]
      /\ saved' \in [Threads -> Nat] /\ saved'[c] = 1 /\ \A u \in Threads : u # c => saved'[u] = saved[u]
      /\ status' \in [Threads -> {"ok", "yield", "error"}] /\ status'[c] = "error"
      /\ \A u \in Threads : u # c => status'[u] = status[u]
      /\ first' \in [Co -> BOOLEAN] /\ first'[c] = FALSE /\ \A x \in Co : x # c => first'[x] = first[x]
    BY <1>1, <1>3, Aborts
<1>6. /\ coStatus' \in [Co -> {"none", "suspended", "running", "normal", "dead"}]
      /\ coStatus'[c] = "dead" /\ \A x \in Co : x # c => coStatus'[x] = coStatus[x]
    BY <1>1, <1>3 DEF TypeOK
<1>7. /\ host' \in Seq(HostType) /\ Stack(host') /\ T' = T /\ Top' = Top
      /\ \A x \in Co : Entered(host', x) <=> Entered(host, x)
      /\ Fits(host', frames') /\ Waits(host', frames')
    BY <1>1, <1>3, <1>4, LoopStays
<1>8. Depth(T)' = Top.frame + 1 /\ frames'[T'][Depth(T)'].kind = "resume"
    BY <1>4, <1>7, NewFrames DEF Depth
<1>9. Works' /\ ~Yields' /\ Yielded'
    BY <1>1, <1>3, <1>7, <1>8 DEF Works, Yields, Yielded
<1>10. TypeOK'
  <2>1. host' # <<>>
    BY <1>7 DEF Stack, Linked
  <2> QED
    BY <1>1, <1>3, <1>4, <1>5, <1>6, <1>7, <2>1 DEF TypeOK
<1>11. Upvalues'
  <2> SUFFICES ASSUME NEW u \in Threads PROVE Agrees(frames'[u], open'[u])
    BY DEF Upvalues
  <2>1. CASE u = c
    BY <1>4, <1>5, <2>1, NoFrames
  <2>2. CASE u = T
    BY <1>2, <1>4, <1>5, <2>2
  <2>3. CASE u # c /\ u # T
    BY <1>4, <1>5, <2>3 DEF Inv, Upvalues
  <2> QED
    BY <2>1, <2>2, <2>3
<1>12. T \in Co => coStatus[T] = "running" /\ ~first[T]
    BY AtTop
<1>13. ASSUME NEW x \in Co, x # c
       PROVE  /\ x \in Threads /\ coStatus'[x] = coStatus[x] /\ first'[x] = first[x] /\ saved'[x] = saved[x]
              /\ status'[x] = status[x]
              /\ x # T => frames'[x] = frames[x]
    BY <1>4, <1>5, <1>6, <1>13 DEF Threads
<1>14. Suspended' /\ Fresh'
  <2>1. Suspended'
    BY <1>6, <1>12, <1>13 DEF Inv, Suspended
  <2>2. Fresh'
    BY <1>5, <1>6, <1>12, <1>13 DEF Inv, Fresh
  <2> QED
    BY <2>1, <2>2
<1>15. Statuses'
  <2>1. ASSUME NEW x \in Co
        PROVE  /\ coStatus'[x] = "running" <=> x = T'
               /\ coStatus'[x] = "normal" <=> Entered(host', x) /\ x # T'
               /\ allowYield'[x] = IF Entered(host', x) THEN 1 ELSE 0
               /\ status'[x] = "yield" <=> (coStatus'[x] = "suspended" /\ ~first'[x]) \/ (x = T' /\ Yields')
    <3>1. CASE x = c
      BY <1>1, <1>2, <1>5, <1>6, <1>7, <1>9, <3>1 DEF Inv, Statuses
    <3>2. CASE x # c
      BY <1>1, <1>3, <1>7, <1>9, <1>13, <3>2 DEF Inv, Statuses
    <3> QED
      BY <3>1, <3>2
  <2>2. running' = Is(T') /\ allowYield'[Main] = 0 /\ status'[Main] # "yield"
    BY <1>1, <1>2, <1>5, <1>7 DEF Inv, Statuses, Threads
  <2> QED
    BY <2>1, <2>2 DEF Statuses
<1> QED
    BY <1>7, <1>9, <1>10, <1>11, <1>14, <1>15 DEF Inv

LEMMA ResumeStep == ASSUME Inv, NEW c \in Co, Resume(c), ~NormalResumes PROVE Inv'
<1> DEFINE fs == IF first[c] THEN <<Lua>> ELSE Front(frames[c])
           d == Resumption(c, T)
           e == Loop(c, Len(fs), saved[c])
<1>1. /\ Executing /\ coStatus[c] = "suspended" /\ UNCHANGED <<open, saved, outcome>>
      /\ frames' = [frames EXCEPT ![c] = fs, ![T] = Append(@, Frame("resume"))]
      /\ host' = host \o <<d, e>>
      /\ first' = [first EXCEPT ![c] = FALSE]
      /\ coStatus' = [x \in Co |-> IF x = c THEN "running" ELSE IF x = T THEN "normal" ELSE coStatus[x]]
      /\ caller' = [caller EXCEPT ![c] = IF T = Main THEN NONE ELSE T]
      /\ status' = [status EXCEPT ![c] = "ok"]
      /\ allowYield' = [allowYield EXCEPT ![c] = @ + 1]
      /\ running' = c
    BY DEF Resume
<1>2. c # T /\ ~Entered(host, c) /\ c # Main /\ c \in Threads /\ allowYield[c] = 0
    BY <1>1, AtSuspended
<1>3. TypeOK /\ Top.kind = "loop" /\ outcome = "none" /\ ~Yields /\ status[T] # "yield" /\ Top.frame \in Nat
    BY <1>1, AtLoop DEF Inv, Executing
<1>4. frames[c] \in Seq(FrameType) /\ Agrees(frames[c], open[c]) /\ saved[c] \in Nat
    BY <1>2, <1>3 DEF TypeOK, Inv, Upvalues
<1>5. /\ fs \in Seq(FrameType) /\ Len(fs) = saved[c] /\ saved[c] > 0 /\ \A i \in 1 .. saved[c] : fs[i].kind = "lua"
      /\ Agrees(fs, open[c])
  <2>1. CASE first[c]
    <3>1. frames[c] = <<>> /\ saved[c] = 1 /\ fs = <<Lua>>
      BY <2>1 DEF Inv, Fresh
    <3>2. Lua \in FrameType /\ Lua.kind = "lua" /\ ~Lua.captured
      BY NewFrames DEF Lua
    <3>3. open[c] = {}
      BY <1>4, <3>1 DEF Agrees
    <3>4. <<Lua>> \in Seq(FrameType) /\ Len(<<Lua>>) = 1 /\ <<Lua>>[1] = Lua
      BY <3>2
    <3>5. Agrees(<<Lua>>, {})
      BY <3>2, <3>4 DEF Agrees
    <3> HIDE DEF fs
    <3> QED
      BY <3>1, <3>2, <3>3, <3>4, <3>5
  <2>2. CASE ~first[c]
    <3>1. GoesOn(frames[c], saved[c]) /\ fs = Front(frames[c])
      BY <1>1, <2>2 DEF Inv, Suspended
    <3> DEFINE n == saved[c]
               gs == frames[c]
    <3>2. n \in Nat /\ gs \in Seq(FrameType) /\ n > 0 /\ Len(gs) = n + 1 /\ gs[n + 1].kind = "yield"
          /\ \A i \in 1 .. n : gs[i].kind = "lua"
      BY <1>4, <3>1 DEF GoesOn
    <3>3. Agrees(gs, open[c]) /\ fs = Front(gs)
      BY <1>4, <3>1
    <3> HIDE DEF n, gs, fs
    <3>4. gs # <<>> /\ n + 1 \in 1 .. n + 1 /\ Len(gs) - 1 = n
      BY <3>2
    <3>5. ~gs[Len(gs)].captured
      BY <3>2, <3>3, <3>4 DEF Agrees
    <3>6. fs \in Seq(FrameType) /\ Len(fs) = n /\ \A i \in 1 .. n : fs[i] = gs[i]
      BY <3>2, <3>3, <3>4, FrontOf
    <3>7. Agrees(fs, open[c])
      BY <3>2, <3>3, <3>4, <3>5, AgreesPopped
    <3> QED
      BY <3>2, <3>6, <3>7 DEF n
  <2> QED
    BY <2>1, <2>2
<1> HIDE DEF fs
<1>6. /\ d \in HostType /\ d.kind = "resume" /\ d.thread = c /\ d.from = T /\ d.running = running
      /\ d.status = IF T = Main THEN NONE ELSE "running"
  <2>1. running \in Co \cup {NONE} /\ T \in Threads
    BY <1>3, AtTop DEF TypeOK
  <2>2. T # Main => coStatus[T] = "running"
    BY AtTop DEF Threads
  <2>3. Resumption(c, T) = [kind |-> "resume", thread |-> c, from |-> T, running |-> running,
                            status |-> IF T = Main THEN NONE ELSE "running"]
    BY <2>2 DEF Resumption
  <2> QED
    BY <2>1, <2>3 DEF HostType
<1>7. e \in HostType /\ e.kind = "loop" /\ e.thread = c /\ e.frame = saved[c] /\ e.n = saved[c]
    BY <1>2, <1>4, <1>5, Entries
<1> HIDE DEF d, e
<1>8. /\ frames' \in [Threads -> Seq(FrameType)] /\ frames'[c] = fs
      /\ \A u \in Threads : u # T /\ u # c => frames'[u] = frames[u]
      /\ Under(host, frames') /\ Fit(Top, frames'[T])
      /\ Len(frames'[T]) = Top.frame + 1 /\ frames'[T][Top.frame + 1] = Frame("resume")
      /\ Agrees(frames'[T], open[T])
    BY <1>1, <1>2, <1>5, ResumeFrame
<1>9. Calls(Top, d) /\ Calls(d, e) /\ e.n > 0 /\ d.kind # "loop"
  <2>1. running = Is(T)
    BY DEF Inv, Statuses
  <2> QED
    BY <1>3, <1>5, <1>6, <1>7, <2>1 DEF Calls, T
<1>10. Wait(Top, d, frames'[T]) /\ Fit(e, frames'[e.thread])
  <2>1. Wait(Top, d, frames'[T])
    BY <1>3, <1>6, <1>8, NewFrames DEF Wait
  <2>2. Fit(e, fs)
    BY <1>4, <1>5, <1>7 DEF Fit
  <2> QED
    BY <1>7, <1>8, <2>1, <2>2
<1>11. /\ host' \in Seq(HostType) /\ Stack(host') /\ Top' = e /\ T' = e.thread
       /\ \A x \in Co : Entered(host', x) <=> Entered(host, x) \/ (d.kind = "resume" /\ d.thread = x)
       /\ Fits(host', frames') /\ Waits(host', frames')
  <2>1. d.thread # T /\ ~Entered(host, d.thread)
    BY <1>2, <1>6
  <2> QED
    BY <1>1, <1>3, <1>6, <1>7, <1>8, <1>9, <1>10, <2>1, Pushes
<1>12. T' = c /\ (\A x \in Co : Entered(host', x) <=> Entered(host, x) \/ c = x) /\ outcome' = "none"
    BY <1>1, <1>3, <1>6, <1>7, <1>11
<1>13. Works' /\ ~Yields' /\ Yielded'
  <2>1. Depth(T)' = Top'.frame /\ Top'.kind = "loop"
    BY <1>5, <1>7, <1>8, <1>11, <1>12 DEF Depth
  <2> QED
    BY <1>12, <2>1 DEF Works, Yields, Yielded
<1>14. /\ status' \in [Threads -> {"ok", "yield", "error"}] /\ status'[c] = "ok"
       /\ \A u \in Threads : u # c => status'[u] = status[u]
    BY <1>1, <1>2, <1>3 DEF TypeOK
<1>15. /\ allowYield' \in [Threads -> 0 .. 1] /\ allowYield'[c] = 1
       /\ \A u \in Threads : u # c => allowYield'[u] = allowYield[u]
    BY <1>1, <1>2, <1>3 DEF TypeOK
<1>16. first' \in [Co -> BOOLEAN] /\ first'[c] = FALSE /\ \A x \in Co : x # c => first'[x] = first[x]
    BY <1>1, <1>3 DEF TypeOK
<1>17. /\ coStatus' \in [Co -> {"none", "suspended", "running", "normal", "dead"}]
       /\ coStatus'[c] = "running" /\ (T \in Co => coStatus'[T] = "normal")
       /\ \A x \in Co : x # c /\ x # T => coStatus'[x] = coStatus[x]
    BY <1>1, <1>2, <1>3 DEF TypeOK
<1>18. TypeOK'
  <2>1. host' # <<>>
    BY <1>11 DEF Stack, Linked
  <2>2. caller' \in [Co -> Co \cup {NONE}]
    BY <1>1, <1>3, AtTop DEF TypeOK, Threads
  <2> QED
    BY <1>1, <1>3, <1>8, <1>11, <1>14, <1>15, <1>16, <1>17, <2>1, <2>2 DEF TypeOK
<1>19. Upvalues'
  <2> SUFFICES ASSUME NEW u \in Threads PROVE Agrees(frames'[u], open'[u])
    BY DEF Upvalues
  <2>1. open' = open
    BY <1>1
  <2>2. CASE u = c
    BY <1>5, <1>8, <2>1, <2>2
  <2>3. CASE u = T
    BY <1>8, <2>1, <2>3
  <2>4. CASE u # c /\ u # T
    BY <1>8, <2>1, <2>4 DEF Inv, Upvalues
  <2> QED
    BY <2>2, <2>3, <2>4
<1>20. T \in Co => coStatus[T] = "running" /\ ~first[T] /\ Entered(host, T)
  <2>1. T \in Co => T # Main
    BY ThreadsAssumption
  <2> QED
    BY <2>1, AtTop, TopEntered
<1>21. saved' = saved
    BY <1>1
<1>22. ASSUME NEW x \in Co, x # c, x # T
       PROVE  /\ x \in Threads /\ coStatus'[x] = coStatus[x] /\ first'[x] = first[x]
              /\ status'[x] = status[x] /\ frames'[x] = frames[x]
    BY <1>8, <1>14, <1>16, <1>17, <1>22 DEF Threads
<1>23. Suspended'
    BY <1>17, <1>21, <1>22 DEF Inv, Suspended
<1>24. Fresh'
    BY <1>2, <1>16, <1>17, <1>20, <1>21, <1>22 DEF Inv, Fresh
<1>25. Statuses'
  <2>1. ASSUME NEW x \in Co
        PROVE  /\ coStatus'[x] = "running" <=> x = T'
               /\ coStatus'[x] = "normal" <=> Entered(host', x) /\ x # T'
               /\ allowYield'[x] = IF Entered(host', x) THEN 1 ELSE 0
               /\ status'[x] = "yield" <=> (coStatus'[x] = "suspended" /\ ~first'[x]) \/ (x = T' /\ Yields')
    <3>1. CASE x = c
      BY <1>12, <1>13, <1>14, <1>15, <1>17, <3>1
    <3>2. CASE x = T
      <4>1. x # c /\ coStatus'[x] = "normal" /\ Entered(host', x)
        BY <1>2, <1>12, <1>17, <1>20, <3>2
      <4>2. allowYield'[x] = 1
        BY <1>15, <1>20, <3>2, <4>1 DEF Inv, Statuses, Threads
      <4>3. status'[x] # "yield"
        BY <1>3, <1>14, <3>2, <4>1 DEF Threads
      <4> QED
        BY <1>12, <4>1, <4>2, <4>3
    <3>3. CASE x # c /\ x # T
      <4>1. allowYield'[x] = allowYield[x]
        BY <1>15, <3>3 DEF Threads
      <4> QED
        BY <1>12, <1>22, <3>3, <4>1 DEF Inv, Statuses
    <3> QED
      BY <3>1, <3>2, <3>3
  <2>2. running' = Is(T')
    BY <1>1, <1>2, <1>12 DEF Is
  <2>3. allowYield'[Main] = 0 /\ status'[Main] # "yield"
    BY <1>2, <1>14, <1>15 DEF Inv, Statuses, Threads
  <2> QED
    BY <2>1, <2>2, <2>3 DEF Statuses
<1> QED
    BY <1>11, <1>13, <1>18, <1>19, <1>23, <1>24, <1>25 DEF Inv
LEMMA ResumeReturnsStep == ASSUME Inv, ResumeReturns PROVE Inv'
<1> DEFINE c == Top.thread
           s == IF outcome = "yielded" THEN "suspended" ELSE "dead"
           Kept == /\ Restore(s)
                   /\ status' = CASE outcome = "yielded" -> status
                                  [] outcome = "returned" -> [status EXCEPT ![T] = "ok"]
                                  [] OTHER -> [status EXCEPT ![T] = "error"]
                   /\ UNCHANGED <<frames, open, saved, first>>
           Aborted == Restore("dead") /\ Abort(T) /\ frames' = [frames EXCEPT ![T] = <<>>]
<1>1. /\ Top.kind = "resume" /\ outcome \in {"returned", "yielded", "error"}
      /\ host' = Beneath /\ outcome' = "called" /\ (Kept \/ Aborted)
    BY DEF ResumeReturns
<1>2. /\ T = c /\ c \in Co /\ c \in Threads /\ c # Main /\ Top.from \in Threads
      /\ Top.running \in Co \cup {NONE} /\ Top.status \in {"running", NONE}
  <2>1. Top \in HostType /\ c \in Co
    BY <1>1, AtTop, EntryFields
  <2> QED
    BY <1>1, <2>1, EntryFields, ThreadsAssumption DEF T, Threads
<1> HIDE DEF c, s, Kept, Aborted
<1>3. TypeOK
    BY DEF Inv
\* The stack without the resume
<1>4. /\ Len(host) \in Nat /\ Len(host) > 1 /\ host' \in Seq(HostType) /\ host' # <<>> /\ Len(host') = Len(host) - 1
      /\ \A i \in 1 .. Len(host) - 1 : host'[i] = host[i]
      /\ Top' = host'[Len(host')]
  <2>1. Len(host) \in Nat /\ Len(host) >= 1 /\ Top = host[Len(host)]
    BY AtTop
  <2>2. Len(host) # 1
    BY <1>1, <2>1 DEF Inv, Stack, Linked
  <2>3. ASSUME NEW l \in Nat, l >= 1, l # 1 PROVE l > 1 /\ l - 1 # 0
    BY <2>3
  <2>4. Len(host) > 1 /\ Len(host) - 1 # 0
    BY <2>1, <2>2, <2>3
  <2>5. /\ host' \in Seq(HostType) /\ Len(host') = Len(host) - 1 /\ \A i \in 1 .. Len(host) - 1 : host'[i] = host[i]
    BY <1>1, AtTop, FrontOf DEF Beneath
  <2>6. host' # <<>>
    BY <2>4, <2>5
  <2> QED
    BY <2>1, <2>4, <2>5, <2>6 DEF Top, Last
<1>5. /\ Stack(host') /\ Calls(Top', Top) /\ Top'.thread # c
      /\ \A x : Entered(host', x) <=> Entered(host, x) /\ x # c
  <2>1. Top = host[Len(host)] /\ Stack(host) /\ host \in Seq(HostType)
    BY AtTop DEF Inv
  <2>2. /\ Stack(host') /\ Calls(host'[Len(host')], host[Len(host)])
        /\ \A x : Entered(host', x) <=> Entered(host, x) /\ ~(host[Len(host)].kind = "resume" /\ host[Len(host)].thread = x)
        /\ host[Len(host)].kind = "resume" => host'[Len(host')].thread # host[Len(host)].thread
    BY <1>4, <2>1, StackPop
  <2> QED
    BY <1>1, <1>4, <2>1, <2>2 DEF c
<1>6. /\ T' = Top.from /\ T' # c /\ T' \in Threads /\ Top'.kind = "loop" /\ Top.running = Is(T')
      /\ Top.status = IF T' = Main THEN NONE ELSE "running"
    BY <1>1, <1>2, <1>5 DEF Calls, T
<1>7. Entered(host, c)
    BY <1>2, TopEntered
<1>8. T' \in Co => Entered(host', T') /\ Entered(host, T') /\ coStatus[T'] = "normal" /\ ~first[T']
  <2> SUFFICES ASSUME T' \in Co PROVE Entered(host', T') /\ Entered(host, T') /\ coStatus[T'] = "normal" /\ ~first[T']
    OBVIOUS
  <2>1. Len(host') \in 1 .. Len(host') /\ host'[Len(host')].thread = T' /\ T' # Main
    BY <1>4, ThreadsAssumption DEF T
  <2>2. PICK j \in 1 .. Len(host') : host'[j].kind = "resume" /\ host'[j].thread = T'
    BY <1>5, <2>1 DEF Stack, Enters
  <2>3. Entered(host', T')
    BY <2>2 DEF Entered
  <2>4. Entered(host, T')
    BY <1>5, <2>3
  <2>5. coStatus[T'] = "normal"
    BY <1>2, <1>6, <2>4 DEF Inv, Statuses
  <2> QED
    BY <2>3, <2>4, <2>5 DEF Inv, Fresh
\* What resume restores
<1>9. PICK r \in {"suspended", "dead"} :
         /\ Restore(r) /\ (r = "suspended" => outcome = "yielded" /\ Kept)
         /\ (Kept /\ outcome # "yielded" => r = "dead") /\ (Kept /\ outcome = "yielded" => r = "suspended")
         /\ (Kept \/ (r = "dead" /\ Aborted))
  <2>1. CASE Kept
    <3>1. Restore(s) /\ s \in {"suspended", "dead"} /\ (s = "suspended" <=> outcome = "yielded")
      BY <2>1 DEF Kept, s
    <3> WITNESS s \in {"suspended", "dead"}
    <3> QED
      BY <1>1, <2>1, <3>1
  <2>2. CASE Aborted /\ ~Kept
    BY <2>2 DEF Aborted
  <2> QED
    BY <1>1, <2>1, <2>2
<1>10. /\ running' = Top.running
       /\ caller' \in [Co -> Co \cup {NONE}]
       /\ coStatus' \in [Co -> {"none", "suspended", "running", "normal", "dead"}]
       /\ coStatus'[c] = r /\ (T' \in Co => coStatus'[T'] = "running")
       /\ \A x \in Co : x # c /\ x # T' => coStatus'[x] = coStatus[x]
       /\ allowYield' = [allowYield EXCEPT ![c] = allowYield[c] - 1]
  <2>1. /\ running' = Top.running /\ caller' = [caller EXCEPT ![c] = NONE]
        /\ coStatus' = [x \in Co |-> IF x = c THEN r ELSE IF x = Top.from THEN Top.status ELSE coStatus[x]]
        /\ allowYield' = [allowYield EXCEPT ![c] = allowYield[c] - 1]
    BY <1>2, <1>3, <1>9 DEF Restore, c, TypeOK
  <2>2. T' \in Co => Top.status = "running"
    BY <1>6, ThreadsAssumption
  <2>3. caller' \in [Co -> Co \cup {NONE}]
    BY <1>2, <1>3, <2>1 DEF TypeOK
  <2>4. coStatus \in [Co -> {"none", "suspended", "running", "normal", "dead"}]
    BY <1>3 DEF TypeOK
  <2>5. \A x \in Co : coStatus'[x] = IF x = c THEN r ELSE IF x = T' THEN "running" ELSE coStatus[x]
    BY <1>6, <2>1, <2>2
  <2>6. coStatus' \in [Co -> {"none", "suspended", "running", "normal", "dead"}]
    BY <1>6, <2>1, <2>2, <2>4
  <2> QED
    BY <1>2, <1>6, <2>1, <2>3, <2>5, <2>6
<1>11. /\ allowYield' \in [Threads -> 0 .. 1] /\ allowYield'[c] = 0
       /\ \A u \in Threads : u # c => allowYield'[u] = allowYield[u]
  <2>1. allowYield[c] = 1 /\ allowYield \in [Threads -> 0 .. 1]
    BY <1>2, <1>3, <1>7 DEF Inv, Statuses, TypeOK
  <2>2. allowYield' = [allowYield EXCEPT ![c] = 0]
    BY <1>10, <2>1
  <2> QED
    BY <1>2, <2>1, <2>2
\* What it does to the coroutine alone
<1>12. /\ frames' \in [Threads -> Seq(FrameType)] /\ \A u \in Threads : u # c => frames'[u] = frames[u]
       /\ open' \in [Threads -> SUBSET Nat] /\ \A u \in Threads : u # c => open'[u] = open[u]
       /\ saved' \in [Threads -> Nat] /\ \A u \in Threads : u # c => saved'[u] = saved[u]
       /\ status' \in [Threads -> {"ok", "yield", "error"}] /\ \A u \in Threads : u # c => status'[u] = status[u]
       /\ first' \in [Co -> BOOLEAN] /\ \A x \in Co : x # c => first'[x] = first[x]
       /\ Agrees(frames'[c], open'[c]) /\ first'[c] = FALSE
       /\ r = "suspended" => GoesOn(frames'[c], saved'[c])
       /\ status'[c] = "yield" <=> r = "suspended"
  <2>1. ~first[c]
    BY <1>2, AtTop
  <2>2. CASE Kept
    <3>1. frames' = frames /\ open' = open /\ saved' = saved /\ first' = first
      BY <2>2 DEF Kept
    <3>2. /\ status' = CASE outcome = "yielded" -> status
                        [] outcome = "returned" -> [status EXCEPT ![c] = "ok"]
                        [] OTHER -> [status EXCEPT ![c] = "error"]
      BY <1>2, <2>2 DEF Kept
    <3>3. /\ status' \in [Threads -> {"ok", "yield", "error"}] /\ \A u \in Threads : u # c => status'[u] = status[u]
          /\ outcome = "yielded" => status' = status
          /\ outcome # "yielded" => status'[c] # "yield"
      <4>1. CASE outcome = "yielded"
        BY <1>3, <3>2, <4>1 DEF TypeOK
      <4>2. CASE outcome = "returned"
        <5>1. status' = [status EXCEPT ![c] = "ok"]
          BY <3>2, <4>2
        <5> QED
          BY <1>2, <1>3, <4>2, <5>1 DEF TypeOK
      <4>3. CASE outcome = "error"
        <5>1. status' = [status EXCEPT ![c] = "error"]
          BY <3>2, <4>3
        <5> QED
          BY <1>2, <1>3, <4>3, <5>1 DEF TypeOK
      <4> QED
        BY <1>1, <4>1, <4>2, <4>3
    <3>4. outcome = "yielded" => status[c] = "yield" /\ GoesOn(frames[c], saved[c])
      BY <1>2 DEF Inv, Statuses, Yields, Yielded
    <3>5. Agrees(frames[c], open[c])
      BY <1>2, AtTop
    <3>6. r = "suspended" <=> outcome = "yielded"
      BY <1>9, <2>2
    <3>7. status'[c] = "yield" <=> outcome = "yielded"
      BY <3>3, <3>4
    <3> QED
      BY <1>3, <2>1, <3>1, <3>3, <3>4, <3>5, <3>6, <3>7 DEF TypeOK
  <2>3. CASE r = "dead" /\ Aborted
    <3>1. Abort(c) /\ frames' = [frames EXCEPT ![c] = <<>>]
      BY <1>2, <2>3 DEF Aborted
    <3>2. /\ frames' \in [Threads -> Seq(FrameType)] /\ frames'[c] = <<>>
          /\ \A u \in Threads : u # c => frames'[u] = frames[u]
      BY <1>2, <3>1, AtTop, NoFrames, PutFrames
    <3>3. /\ open' \in [Threads -> SUBSET Nat] /\ open'[c] = {} /\ \A u \in Threads : u # c => open'[u] = open[u]
          /\ saved' \in [Threads -> Nat] /\ \A u \in Threads : u # c => saved'[u] = saved[u]
          /\ status' \in [Threads -> {"ok", "yield", "error"}] /\ status'[c] = "error"
          /\ \A u \in Threads : u # c => status'[u] = status[u]
          /\ first' \in [Co -> BOOLEAN] /\ first'[c] = FALSE /\ \A x \in Co : x # c => first'[x] = first[x]
      BY <1>2, <1>3, <3>1, Aborts
    <3> QED
      BY <2>3, <3>2, <3>3, NoFrames
  <2> QED
    BY <1>9, <2>2, <2>3
<1>13. Under(host, frames')
  <2> DEFINE t == host[Len(host)].thread
  <2>1. t = c /\ Top = host[Len(host)] /\ host \in Seq(HostType) /\ frames[c] \in Seq(FrameType)
    BY <1>2, AtTop DEF c
  <2>2. Floor(host[Len(host)]) = 0
    BY <1>1, <2>1 DEF Floor
  <2>3. frames[c] \in Seq(FrameType) /\ frames'[c] \in Seq(FrameType)
    BY <1>2, <1>12, <2>1
  <2>4. SameTo(frames[t], frames'[t], Floor(host[Len(host)]))
    <3>1. 0 <= Len(frames'[c])
      BY <2>3
    <3> QED
      BY <2>1, <2>2, <3>1 DEF SameTo
  <2>5. \A u \in Threads : u # t /\ (u = Main \/ Entered(host, u)) => frames'[u] = frames[u]
    BY <1>12, <2>1
  <2>6. Stack(host) /\ Fits(host, frames) /\ Waits(host, frames)
    BY DEF Inv
  <2>7. frames[t] \in Seq(FrameType) /\ frames'[t] \in Seq(FrameType)
    BY <2>1, <2>3
  <2> QED
    BY ONLY <2>1, <2>4, <2>5, <2>6, <2>7, UnderKept
<1>14. Fits(host', frames') /\ Waits(host', frames') /\ Wait(Top', Top, frames'[T'])
  <2>1. /\ Fits(host', frames') /\ Waits(host', frames')
        /\ host'[Len(host')].kind = "loop" => Wait(host'[Len(host')], host[Len(host)], frames'[host'[Len(host')].thread])
    BY <1>4, <1>13, AtTop, FitsPopped
  <2>2. Top = host[Len(host)] /\ T' = Top'.thread
    BY AtTop DEF T
  <2> QED
    BY <1>4, <1>6, <2>1, <2>2
<1>15. Depth(T)' = Top'.frame + 1 /\ frames'[T'][Depth(T)'].kind = "resume"
    BY <1>1, <1>14 DEF Wait, Depth
<1>16. Works' /\ ~Yields' /\ Yielded'
    BY <1>1, <1>6, <1>15 DEF Works, Yields, Yielded
<1>17. TypeOK'
    BY <1>1, <1>2, <1>4, <1>10, <1>11, <1>12 DEF TypeOK
<1>18. Upvalues'
    BY <1>12 DEF Inv, Upvalues
<1>19. ASSUME NEW x \in Co, x # c, x # T'
       PROVE  /\ x \in Threads /\ coStatus'[x] = coStatus[x] /\ first'[x] = first[x] /\ saved'[x] = saved[x]
              /\ status'[x] = status[x] /\ frames'[x] = frames[x]
    BY <1>10, <1>12, <1>19 DEF Threads
<1>20. Suspended'
    BY <1>10, <1>12, <1>19 DEF Inv, Suspended
<1>21. T' \in Co => first'[T'] = first[T']
    BY <1>6, <1>12
<1>22. Fresh'
  <2> SUFFICES ASSUME NEW x \in Co
               PROVE  /\ first'[x] => frames'[x] = <<>> /\ saved'[x] = 1 /\ coStatus'[x] \in {"none", "suspended"}
                      /\ coStatus'[x] = "none" => first'[x]
    BY DEF Fresh
  <2>1. CASE x = c
    BY <1>10, <1>12, <2>1
  <2>2. CASE x = T'
    BY <1>8, <1>10, <1>21, <2>2
  <2>3. CASE x # c /\ x # T'
    BY <1>19, <2>3 DEF Inv, Fresh
  <2> QED
    BY <2>1, <2>2, <2>3
<1>23. Statuses'
  <2>1. ASSUME NEW x \in Co
        PROVE  /\ coStatus'[x] = "running" <=> x = T'
               /\ coStatus'[x] = "normal" <=> Entered(host', x) /\ x # T'
               /\ allowYield'[x] = IF Entered(host', x) THEN 1 ELSE 0
               /\ status'[x] = "yield" <=> (coStatus'[x] = "suspended" /\ ~first'[x]) \/ (x = T' /\ Yields')
    <3>1. CASE x = c
      BY <1>5, <1>6, <1>10, <1>11, <1>12, <1>16, <3>1
    <3>2. CASE x = T'
      <4>1. x # c /\ coStatus'[x] = "running" /\ Entered(host', x) /\ Entered(host, x) /\ coStatus[x] = "normal"
        BY <1>6, <1>8, <1>10, <3>2
      <4>2. allowYield'[x] = 1
        BY <1>6, <1>11, <3>2, <4>1 DEF Inv, Statuses
      <4>3. status[x] # "yield"
        BY <1>2, <4>1 DEF Inv, Statuses
      <4>4. status'[x] # "yield"
        BY <1>6, <1>12, <3>2, <4>3
      <4> QED
        BY <1>16, <3>2, <4>1, <4>2, <4>4
    <3>3. CASE x # c /\ x # T'
      <4>1. allowYield'[x] = allowYield[x]
        BY <1>11, <3>3 DEF Threads
      <4>2. Entered(host', x) <=> Entered(host, x)
        BY <1>5, <3>3
      <4> QED
        BY <1>2, <1>19, <3>3, <4>1, <4>2 DEF Inv, Statuses
    <3> QED
      BY <3>1, <3>2, <3>3
  <2>2. running' = Is(T')
    BY <1>6, <1>10
  <2>3. allowYield'[Main] = 0 /\ status'[Main] # "yield"
    BY <1>2, <1>11, <1>12 DEF Inv, Statuses, Threads
  <2> QED
    BY <2>1, <2>2, <2>3 DEF Statuses
<1> QED
    BY <1>5, <1>14, <1>16, <1>17, <1>18, <1>20, <1>22, <1>23 DEF Inv
------------------------------------------------------------------------------
(* The invariant *)

LEMMA InitInv == ASSUME Init PROVE Inv
<1> DEFINE e == Loop(Main, 1, 1)
<1>1. /\ e \in HostType /\ e.kind = "loop" /\ e.thread = Main /\ e.frame = 1 /\ e.n = 1
    BY Entries DEF Threads
<1>2. host = <<e>> /\ outcome = "none"
    BY DEF Init
<1>3. Lua \in FrameType /\ Lua.kind = "lua" /\ ~Lua.captured
    BY NewFrames DEF Lua
<1> HIDE DEF e
<1>4. host \in Seq(HostType) /\ host # <<>> /\ Len(host) = 1 /\ host[1] = e
    BY <1>1, <1>2
<1>5. Top = e /\ T = Main
    BY <1>1, <1>4 DEF Top, T, Last
<1>6. frames = [t \in Threads |-> IF t = Main THEN <<Lua>> ELSE <<>>]
    BY DEF Init
<1>7. <<Lua>> \in Seq(FrameType) /\ <<>> \in Seq(FrameType) /\ Len(<<Lua>>) = 1 /\ <<Lua>>[1] = Lua
    BY <1>3
<1>8. /\ frames \in [Threads -> Seq(FrameType)] /\ frames[Main] = <<Lua>>
      /\ \A c \in Co : frames[c] = <<>>
    BY <1>6, <1>7, ThreadsAssumption DEF Threads
<1>9. TypeOK
  <2>1. open \in [Threads -> SUBSET Nat] /\ status \in [Threads -> {"ok", "yield", "error"}]
    BY DEF Init
  <2>2. allowYield \in [Threads -> 0 .. 1] /\ saved \in [Threads -> Nat]
    BY DEF Init
  <2>3. /\ coStatus \in [Co -> {"none", "suspended", "running", "normal", "dead"}]
        /\ first \in [Co -> BOOLEAN] /\ caller \in [Co -> Co \cup {NONE}] /\ running \in Co \cup {NONE}
    BY DEF Init
  <2> QED
    BY <1>2, <1>4, <1>8, <2>1, <2>2, <2>3 DEF TypeOK
<1>10. Stack(host)
  <2>1. Linked(host)
    BY <1>1, <1>4 DEF Linked
  <2>2. Enters(host) /\ Once(host) /\ Ordered(host) /\ Left(host)
    BY <1>1, <1>4 DEF Enters, Once, Ordered, Left
  <2> QED
    BY <2>1, <2>2 DEF Stack
<1>11. Fits(host, frames)
  <2>1. Fit(e, <<Lua>>)
    <3>1. e.frame - e.n = 0 /\ e.n > 0
      BY <1>1
    <3> QED
      BY <1>1, <1>3, <1>7, <3>1 DEF Fit
  <2> QED
    BY <1>1, <1>4, <1>8, <2>1 DEF Fits
<1>12. Waits(host, frames)
    BY <1>4 DEF Waits
<1>13. ~Yields /\ Yielded
    BY <1>2 DEF Yields, Yielded
<1>14. Works
  <2>1. Depth(T) = 1
    BY <1>5, <1>7, <1>8 DEF Depth
  <2> QED
    BY <1>1, <1>2, <1>5, <2>1 DEF Works
<1>15. Suspended /\ Fresh
    BY <1>8 DEF Init, Suspended, Fresh, Threads
<1>16. Statuses
  <2>1. ASSUME NEW c \in Co
        PROVE  c # T /\ ~Entered(host, c) /\ coStatus[c] = "none" /\ allowYield[c] = 0 /\ status[c] = "ok"
    <3>1. c # Main /\ c \in Threads
      BY ThreadsAssumption DEF Threads
    <3>2. ~Entered(host, c)
      BY <1>1, <1>4 DEF Entered
    <3> QED
      BY <1>5, <3>1, <3>2 DEF Init
  <2>2. running = Is(T) /\ allowYield[Main] = 0 /\ status[Main] # "yield"
    BY <1>5 DEF Init, Is, Threads
  <2> QED
    BY <1>13, <2>1, <2>2 DEF Statuses
<1>17. Upvalues
  <2>1. Agrees(<<Lua>>, {})
    BY <1>3, <1>7 DEF Agrees
  <2>2. open = [t \in Threads |-> {}]
    BY DEF Init
  <2> QED
    BY <1>6, <2>1, <2>2, NoFrames DEF Upvalues
<1> QED
    BY <1>9, <1>10, <1>11, <1>12, <1>13, <1>14, <1>15, <1>16, <1>17 DEF Inv

LEMMA StutterInv == ASSUME Inv, UNCHANGED vars PROVE Inv'
<1>1. UNCHANGED <<frames, open, status, allowYield, saved, coStatus, first, caller, running, host, outcome>>
    BY DEF vars, stateVars, threadVars
<1>2. Top' = Top /\ T' = T /\ (Yields' <=> Yields)
    BY <1>1 DEF Top, T, Yields, Depth
<1>3. TypeOK' /\ Upvalues' /\ Suspended' /\ Fresh'
    BY <1>1 DEF Inv, TypeOK, Upvalues, Suspended, Fresh
<1>4. Works' /\ Yielded' /\ Statuses'
    BY <1>1, <1>2 DEF Inv, Works, Yielded, Statuses, Depth
<1> QED
    BY <1>1, <1>3, <1>4 DEF Inv

LEMMA StepInv == ASSUME Inv, [Next]_vars, ~NestedYields, ~NormalResumes PROVE Inv'
<1>1. CASE Call
    BY <1>1, CallStep
<1>2. CASE TailCall
    BY <1>2, TailCallStep
<1>3. CASE Return
    BY <1>3, ReturnStep
<1>4. CASE Capture \/ CloseBlock
    BY <1>4, CaptureStep
<1>5. CASE Throw
    BY <1>5, ThrowStep
<1>6. CASE PCall
    BY <1>6, PCallStep
<1>7. CASE PCallReturns
    BY <1>7, PCallReturnsStep
<1>8. CASE Yield
    BY <1>8, YieldStep
<1>9. CASE CFunctionReturns
    BY <1>9, CFunctionReturnsStep
<1>10. ASSUME NEW c \in Co, Create(c) PROVE Inv'
    BY <1>10, CreateStep
<1>11. ASSUME NEW c \in Co, ResumeRefused(c) PROVE Inv'
    BY <1>11, ResumeRefusedStep
<1>12. ASSUME NEW c \in Co, ResumeAborted(c) PROVE Inv'
    BY <1>12, ResumeAbortedStep
<1>13. ASSUME NEW c \in Co, Resume(c) PROVE Inv'
    BY <1>13, ResumeStep
<1>14. CASE ResumeReturns
    BY <1>14, ResumeReturnsStep
<1>15. CASE UNCHANGED vars
    BY <1>15, StutterInv
<1> QED
    BY <1>1, <1>2, <1>3, <1>4, <1>5, <1>6, <1>7, <1>8, <1>9, <1>10, <1>11, <1>12, <1>13, <1>14, <1>15 DEF Next
------------------------------------------------------------------------------
(* What the invariant tells of the properties *)

LEMMA LoopsMatch == ASSUME Inv PROVE LoopsMatchFrames
<1> SUFFICES ASSUME NEW i \in DOMAIN host, host[i].kind = "loop"
             PROVE  LET l == host[i]
                        fs == frames[l.thread]
                        bottom == l.frame - l.n
                    IN  /\ l.n > 0 /\ bottom >= 0 /\ l.frame <= Len(fs)
                        /\ \A d \in bottom + 1 .. l.frame : fs[d].kind = "lua"
                        /\ bottom > 0 => fs[bottom].kind # "lua"
                        /\ IF i = Len(host) /\ outcome = "none" THEN l.frame = Len(fs)
                           ELSE fs[l.frame + 1].kind # "lua"
    BY DEF LoopsMatchFrames
<1>1. i \in 1 .. Len(host) /\ host[i] \in HostType /\ Len(host) \in Nat
    BY AtTop
<1>2. Fit(host[i], frames[host[i].thread])
    BY <1>1 DEF Inv, Fits
<1>3. CASE i = Len(host)
  <2>1. Top = host[i] /\ T = host[i].thread /\ outcome \in {"none", "called"}
    BY <1>3, AtTop DEF T, Inv, Works
  <2>2. /\ outcome = "none" => Len(frames[T]) = Top.frame
        /\ outcome = "called" => frames[T][Top.frame + 1].kind # "lua"
    BY <2>1, AtLoop
  <2>3. IF i = Len(host) /\ outcome = "none" THEN host[i].frame = Len(frames[host[i].thread])
        ELSE frames[host[i].thread][host[i].frame + 1].kind # "lua"
    BY <1>3, <2>1, <2>2
  <2> QED
    BY <1>2, <2>3 DEF Fit
<1>4. CASE i # Len(host)
  <2>1. i \in 1 .. Len(host) - 1
    BY <1>1, <1>4
  <2>2. Wait(host[i], host[i + 1], frames[host[i].thread]) /\ Calls(host[i], host[i + 1])
    BY <2>1 DEF Inv, Waits, Stack, Linked
  <2>3. host[i + 1].kind # "lua"
    BY <2>2 DEF Calls
  <2>4. frames[host[i].thread][host[i].frame + 1].kind # "lua"
    BY <2>2, <2>3 DEF Wait
  <2> QED
    BY <1>2, <1>4, <2>4 DEF Fit
<1> QED
    BY <1>3, <1>4

LEMMA StatusesHold == ASSUME Inv PROVE StatusesAgree
<1> DEFINE active == {host[i].thread : i \in {j \in DOMAIN host : host[j].kind = "resume"}}
<1>1. DOMAIN host = 1 .. Len(host)
    BY AtTop
<1>2. \A c : c \in active <=> Entered(host, c)
    BY <1>1 DEF Entered
<1> HIDE DEF active
<1>3. ASSUME outcome = "none" PROVE Top.kind = "loop" /\ ~Yields
    BY <1>3 DEF Inv, Works, Yields
<1>4. ASSUME outcome = "none", NEW c \in Co
      PROVE  /\ coStatus[c] = "running" <=> c = T
             /\ coStatus[c] = "normal" <=> c \in active \ {T}
             /\ allowYield[c] > 0 <=> c \in active
             /\ status[c] = "yield" <=> coStatus[c] = "suspended" /\ ~first[c]
    BY <1>2, <1>3, <1>4 DEF Inv, Statuses
<1>5. running = IF T = Main THEN NONE ELSE T
    BY DEF Inv, Statuses, Is
<1>6. \A i, j \in DOMAIN host :
          host[i].kind = "resume" /\ host[j].kind = "resume" /\ host[i].thread = host[j].thread => i = j
    BY <1>1 DEF Inv, Stack, Once
<1> QED
    BY <1>4, <1>5, <1>6 DEF StatusesAgree, active

LEMMA UpvaluesHold == ASSUME Inv PROVE UpvaluesOpenWhileCalled
<1> SUFFICES ASSUME NEW t \in Threads PROVE open[t] = {d \in DOMAIN frames[t] : frames[t][d].captured}
    BY DEF UpvaluesOpenWhileCalled
<1>1. DOMAIN frames[t] = 1 .. Len(frames[t])
    BY AtTop
<1> QED
    BY <1>1 DEF Inv, Upvalues, Agrees

LEMMA SuspendedCanGoOn == ASSUME Inv PROVE YieldedCanGoOn
<1> SUFFICES ASSUME NEW c \in Co, coStatus[c] = "suspended", ~first[c]
             PROVE  /\ Depth(c) = saved[c] + 1
                    /\ frames[c][Depth(c)].kind = "yield"
                    /\ \A d \in 1 .. saved[c] : frames[c][d].kind = "lua"
    BY DEF YieldedCanGoOn
<1>1. GoesOn(frames[c], saved[c])
    BY DEF Inv, Suspended
<1> QED
    BY <1>1 DEF GoesOn, Depth

------------------------------------------------------------------------------
(* Theorems *)

\* The programs that the theorems are about: they do not yield inside of calls
\* made by C functions, which the code does not refuse although its message
\* says so, and do not resume a coroutine that waits for another.
Resumable == ~NestedYields /\ ~NormalResumes

\* The whole invariant: the C++ stack, the frames of each thread and their
\* statuses after every call, return, resume, yield and error.
LEMMA Invariance == ASSUME Resumable PROVE Spec => []Inv
<1>1. Init => Inv
    BY InitInv
<1>2. Inv /\ [Next]_vars => Inv'
    BY StepInv DEF Resumable
<1> QED
    BY <1>1, <1>2, PTL DEF Spec

\* Whatever is called, resumed, yielded, protected or thrown: every loop works
\* on the frames that it has cached and returns with the last of them
\* (runDispatchBackend's nexeccalls), the statuses that coroutine.status and
\* coroutine.running report are those of the C++ stack, and an upvalue is open
\* just as long as the call whose local it is (closeUpvalues).
THEOREM StacksAlwaysAgree == ASSUME Resumable PROVE Spec => []StacksAgree
<1>1. Inv => StacksAgree
    BY LoopsMatch, StatusesHold, UpvaluesHold DEF StacksAgree, Inv
<1> QED
    BY <1>1, Invariance, PTL

\* Thread::resume finds below the frame of a yield the Lua functions that
\* savedNexeccalls_ says are left to return, however deep the yield was.
THEOREM YieldedAlwaysGoOn == ASSUME Resumable PROVE Spec => []YieldedCanGoOn
<1>1. Inv => YieldedCanGoOn
    BY SuspendedCanGoOn
<1> QED
    BY <1>1, Invariance, PTL

\* A loop that ends with Yielded returns to Thread::resume, never to a C
\* function that takes the yield for a return.
THEOREM YieldsReachResume == ASSUME Resumable PROVE Spec => []YieldsToResume
<1>1. Inv => YieldsToResume
    BY DEF Inv, Works, YieldsToResume
<1> QED
    BY <1>1, Invariance, PTL
===============================================================================
