------------------------------ MODULE ObjectList ------------------------------
(***************************************************************************)
(* The list of all objects, the pool of interned strings and the open      *)
(* upvalues under incremental collection, and what happens to userdata     *)
(* when the state is closed: garbage_collector.cpp, gc_sweep.cpp,          *)
(* gc_finalize.cpp, string_pool.cpp, upvalue.cpp.                          *)
(*                                                                         *)
(* GC describes which objects a cycle marks, on heaps of any shape; here   *)
(* the heap is simple and the list is real: next pointers, the sweep's     *)
(* cursor with its predecessor, and the counters.  Four kinds of objects:  *)
(* strings, userdata with a __gc, closures of one upvalue, and upvalues.   *)
(* A freed object can be allocated again at once.                          *)
(*                                                                         *)
(* Left out: roots other than the stack, tables, coroutines, fixed         *)
(* objects, running out of memory, debt and thresholds (a step may happen  *)
(* at any time).                                                           *)
(***************************************************************************)
EXTENDS HeapObjects, Sequences, Functions

CONSTANTS
    DrainLimit,     \* finalizerBudgetPerDrain
    InternsDoomed   \* whether the program may intern a string that the sweep is about to free

ASSUME ObjectListAssumption ==
    /\ Null \notin Objects /\ IsFiniteSet(Objects)
    /\ StackSize \in Nat /\ DrainLimit \in Nat
    /\ InternsDoomed \in BOOLEAN

VARIABLES
    heap,        \* the collector's side: see Init
    stack,       \* the objects in the slots
    open,        \* openUpvalues_: the open upvalue of a slot
    drain,       \* runFinalizers: what is left of the copied queue, Null when it does not run
    callback,    \* the userdata whose __gc runs
    stage,       \* "running", "closing" (finalizeAll) or "closed"
    entered,     \* callbacksEntered of finalizeAll
    finals       \* how often the userdata at an address was finalized

vars == <<heap, stack, open, drain, callback, stage, entered, finals>>

Is(h, o, kind) == h.body[o].kind = kind
Live(h) == {o \in Objects : ~Is(h, o, "free")}
White(h) == {o \in Live(h) : h.color[o] = "White"}
\* GCObject::getSize; a closure grows when it gets its upvalue.
getSize(body) == IF body.kind = "closure" /\ body.up # Null THEN 2 ELSE 1

------------------------------------------------------------------------------
(* Marking *)

\* GCObject::mark: what an object refers to.  An open upvalue reads its slot.
Refs(h, stk, o) ==
    LET b == h.body[o]
    IN CASE b.kind = "closure" -> {b.up} \ {Null}
         [] b.kind = "open" -> {stk[b.at]} \ {Null}
         [] b.kind = "closed" -> {b.value} \ {Null}
         [] OTHER -> {}

markObject(h, os) ==
    LET new == os \cap White(h)
        gray == h.gray \cup new
    IN [h EXCEPT !.gray = gray,
                 !.color = [o \in Objects |-> IF o \in new THEN "Gray" ELSE @[o]],
                 !.capacity = IF Cardinality(gray) > @ THEN Cardinality(gray) ELSE @]

\* One round of propagateMarks, and all of them: each blackens one object.
Scan(h, stk, o) == markObject([h EXCEPT !.gray = @ \ {o}, !.color[o] = "Black"], Refs(h, stk, o))
ScanNext(h, stk) == IF h.gray = {} THEN h ELSE Scan(h, stk, CHOOSE o \in h.gray : TRUE)
propagateMarks(h, stk) ==
    LET after[i \in 0 .. Cardinality(Objects)] ==
            IF i = 0 THEN h ELSE ScanNext(after[i - 1], stk)
    IN  after[Cardinality(Objects)]

writeBarrier(h, stk, owner, child) ==
    IF child # Null /\ h.color[owner] = "Black" /\ child \in White(h)
    THEN propagateMarks(markObject(h, {child}), stk) ELSE h

resetIncrementalCycle(h) ==
    [h EXCEPT !.phase = "Pause", !.current = Null, !.previous = Null, !.gray = {}]

\* An upvalue closes without allocating.
writeBarrierDeferredNoexcept(h, owner, child) ==
    IF child # Null /\ h.color[owner] = "Black" /\ child \in White(h)
    THEN IF h.phase = "Sweep" \/ Cardinality(h.gray) >= h.capacity
         THEN resetIncrementalCycle(h)
         ELSE [h EXCEPT !.gray = @ \cup {child}, !.color[child] = "Gray"]
    ELSE h

------------------------------------------------------------------------------
(* The list *)

\* The objects of the list, in its order: one more after the other, as far as
\* there can be any.
Followed(h, s) ==
    LET o == IF s = <<>> THEN h.head ELSE h.next[s[Len(s)]]
    IN  IF o = Null THEN s ELSE Append(s, o)
Chain(h) ==
    LET first[i \in 0 .. Cardinality(Objects) + 1] ==
            IF i = 0 THEN <<>> ELSE Followed(h, first[i - 1])
    IN  first[Cardinality(Objects) + 1]

\* The elements of a sequence that are in a set, in their order.
Selected(s, S) ==
    LET first[i \in 0 .. Len(s)] ==
            IF i = 0 THEN <<>>
            ELSE IF s[i] \in S THEN Append(first[i - 1], s[i]) ELSE first[i - 1]
    IN  first[Len(s)]

\* registerObject: at the head, black while a cycle runs.  An object that
\* exists before it is registered has been given its references: they are marked.
Linked(h, o, body) ==
    [h EXCEPT !.body[o] = body, !.next[o] = h.head, !.head = o,
              !.color[o] = IF h.phase = "Pause" THEN "White" ELSE "Black",
              !.accounted[o] = getSize(body), !.total = @ + getSize(body), !.count = @ + 1]
Published(h, stk, o) ==
    IF h.phase = "Pause" THEN h ELSE propagateMarks(markObject(h, Refs(h, stk, o)), stk)
registerObjectAtHead(h, stk, o, body) == Published(Linked(h, o, body), stk, o)
registerObject(h, stk, o, body) ==
    LET cursor == IF h.phase = "Sweep" /\ h.previous = Null THEN [h EXCEPT !.previous = o] ELSE h
    IN Published(Linked(cursor, o, body), stk, o)

accountObjectSizeChange(h, o) ==
    LET size == getSize(h.body[o])
    IN [h EXCEPT !.total = @ + size - h.accounted[o], !.accounted[o] = size]

\* destroyObject, once the object is out of the list.
destroyObject(h, o) ==
    [h EXCEPT !.body[o] = Free, !.color[o] = "White", !.next[o] = Null, !.gray = @ \ {o},
              !.pending = Selected(@, Objects \ {o}), !.finalized = @ \ {o},
              !.pool = [c \in Contents |-> IF @[c] = o THEN Null ELSE @[c]],
              !.total = @ - h.accounted[o], !.accounted[o] = 0, !.count = @ - 1]
Unlink(h, before, o) ==
    IF before = Null THEN [h EXCEPT !.head = h.next[o]] ELSE [h EXCEPT !.next[before] = h.next[o]]

\* White objects go, except open upvalues: the state's list still has them.
Goes(h, o) == o \in White(h)
Swept(h, o) == o \in White(h) /\ ~Is(h, o, "open")

------------------------------------------------------------------------------
(* Steps of a cycle *)

Reserved(h) == h.capacity
Reserve(h) == IF h.count > h.capacity THEN h.count ELSE h.capacity

Roots == {stack[s] : s \in Slots} \cup {callback} \cup Range(heap.pending)

Whitened(h) == [h EXCEPT !.color = [o \in Objects |-> "White"], !.gray = {},
                         !.current = Null, !.previous = Null]
beginIncrementalMark(h) ==
    [markObject(Whitened([h EXCEPT !.capacity = Reserve(h)]), Roots) EXCEPT !.phase = "Propagate"]

\* prepareFinalizers: white userdata that were not finalized are queued, in
\* list order, and marked again.
prepareFinalizers(h) ==
    LET due == Selected(Chain(h), {o \in White(h) \ h.finalized : Is(h, o, "userdata")})
    IN markObject([h EXCEPT !.pending = @ \o due, !.finalized = @ \cup Range(due)], Range(due))

Marked(h) == propagateMarks(prepareFinalizers(propagateMarks(markObject(h, Roots), stack)), stack)
performIncrementalAtomic(h) ==
    LET m == Marked(h) IN [m EXCEPT !.phase = "Sweep", !.current = m.head, !.previous = Null]

\* An object is freed, or whitened and left behind as the predecessor.
SweepObject(h, o) ==
    IF Swept(h, o) THEN destroyObject(Unlink(h, h.previous, o), o)
    ELSE [h EXCEPT !.color[o] = "White", !.previous = o]

\* sweepStep for one object.
sweepStep(h) ==
    LET after == h.next[h.current]
    IN  [SweepObject(h, h.current) EXCEPT !.current = after,
                                          !.phase = IF after = Null THEN "Finalize" ELSE @]

\* sweep: all of them, with the predecessor in a variable of its own.
sweep(h) ==
    LET chain == Chain(h)
        after[i \in 0 .. Len(chain)] == IF i = 0 THEN h ELSE SweepObject(after[i - 1], chain[i])
    IN  after[Len(chain)]

\* collectMarkSweep up to its finalizers.
collectMarkSweep(h) ==
    resetIncrementalCycle(sweep(Marked(Whitened([h EXCEPT !.phase = "Pause", !.capacity = Reserve(h)]))))

------------------------------------------------------------------------------
(* The program *)

Init ==
    /\ heap = [body |-> [o \in Objects |-> Free], color |-> [o \in Objects |-> "White"],
               next |-> [o \in Objects |-> Null], accounted |-> [o \in Objects |-> 0],
               head |-> Null, count |-> 0, total |-> 0,
               phase |-> "Pause", current |-> Null, previous |-> Null,
               gray |-> {}, capacity |-> 0, pending |-> <<>>, finalized |-> {},
               pool |-> [c \in Contents |-> Null]]
    /\ stack = [s \in Slots |-> Null]
    /\ open = [s \in Slots |-> Null]
    /\ drain = Null /\ callback = Null
    /\ stage = "running" /\ entered = 0
    /\ finals = [o \in Objects |-> 0]

\* Program code runs, that of a finalizer included.
Runs == (stage = "running" /\ drain = Null) \/ callback # Null
Unused == Objects \ Live(heap)
program == <<drain, callback, stage, entered>>

\* Objects that the sweep has yet to reach and will free.
Doomed(o) ==
    LET chain == Chain(heap)
        left == IF heap.current = Null THEN {}
                ELSE {chain[i] : i \in {j \in DOMAIN chain :
                                          \E k \in 1 .. j : chain[k] = heap.current}}
    IN heap.phase = "Sweep" /\ o \in left /\ Swept(heap, o)

\* StringPool::intern, its result in a slot.  A string found in the pool is
\* returned as it is, whatever its colour.
InternKnown(c, s) ==
    /\ Runs
    /\ heap.pool[c] # Null
    /\ InternsDoomed \/ ~Doomed(heap.pool[c])
    /\ stack' = [stack EXCEPT ![s] = heap.pool[c]]
    /\ UNCHANGED <<heap, open, program, finals>>
InternNew(c, s) ==
    /\ Runs
    /\ heap.pool[c] = Null
    /\ \E o \in Unused :
        /\ heap' = [registerObject(heap, stack, o, String(c)) EXCEPT !.pool[c] = o]
        /\ stack' = [stack EXCEPT ![s] = o]
    /\ UNCHANGED <<open, program, finals>>

NewUserdata(s) ==
    /\ Runs
    /\ \E o \in Unused :
        /\ heap' = registerObject(heap, stack, o, Userdata)
        /\ stack' = [stack EXCEPT ![s] = o]
        /\ finals' = [finals EXCEPT ![o] = 0]
    /\ UNCHANGED <<open, program>>

\* addUpvalue
WithUpvalue(h, f, u) == accountObjectSizeChange([writeBarrier(h, stack, f, u) EXCEPT !.body[f] = Closure(u)], f)

\* OP_CLOSURE: a closure over slot s, in slot t; findOrCreateUpvalue.
NewClosure(s, t) ==
    /\ Runs
    /\ \E f \in Unused, u \in IF open[s] = Null THEN Unused ELSE {open[s]} :
        LET closure == registerObject(heap, stack, f, Closure(Null))
            upvalue == IF open[s] = Null THEN registerObject(closure, stack, u, OpenUpvalue(s)) ELSE closure
        IN /\ f # u
           /\ heap' = WithUpvalue(upvalue, f, u)
           /\ open' = [open EXCEPT ![s] = u]
           /\ stack' = [stack EXCEPT ![t] = f]
    /\ UNCHANGED <<program, finals>>

\* The upvalue of the closure in a slot.
UpvalueIn(t) == IF stack[t] # Null /\ Is(heap, stack[t], "closure") THEN heap.body[stack[t]].up ELSE Null

GetUpvalue(t, s) ==
    /\ Runs
    /\ UpvalueIn(t) # Null
    /\ stack' = [stack EXCEPT ![s] =
                    LET u == heap.body[UpvalueIn(t)]
                    IN IF u.kind = "open" THEN stack[u.at] ELSE u.value]
    /\ UNCHANGED <<heap, open, program, finals>>

\* Upvalue::setValue: the barrier comes first.
SetUpvalue(t, s) ==
    /\ Runs
    /\ UpvalueIn(t) # Null
    /\ LET u == UpvalueIn(t)
           h == writeBarrier(heap, stack, u, stack[s])
       IN IF Is(heap, u, "open")
          THEN /\ heap' = h
               /\ stack' = [stack EXCEPT ![heap.body[u].at] = stack[s]]
          ELSE /\ heap' = [h EXCEPT !.body[u] = ClosedUpvalue(stack[s])]
               /\ UNCHANGED stack
    /\ UNCHANGED <<open, program, finals>>

Clear(s) ==
    /\ Runs
    /\ stack[s] # Null
    /\ stack' = [stack EXCEPT ![s] = Null]
    /\ UNCHANGED <<heap, open, program, finals>>

\* closeUpvalues: from the highest slot down to a level.
CloseSlotUnsaved(h, s) ==
    IF open[s] = Null THEN h
    ELSE [writeBarrierDeferredNoexcept(h, open[s], stack[s]) EXCEPT !.body[open[s]] = ClosedUpvalue(Null)]
CloseSlot(h, s) ==
    IF open[s] = Null THEN h
    ELSE [writeBarrierDeferredNoexcept(h, open[s], stack[s]) EXCEPT !.body[open[s]] = ClosedUpvalue(stack[s])]
Closed(h, level) ==
    LET after[i \in 0 .. StackSize] ==
            IF i = 0 THEN h
            ELSE LET s == StackSize + 1 - i
                 IN  IF s >= level THEN CloseSlot(after[i - 1], s) ELSE after[i - 1]
    IN  after[StackSize]
StillOpen(level) == [s \in Slots |-> IF s >= level THEN Null ELSE open[s]]

LeaveBlock(level) ==
    /\ Runs
    /\ \E s \in Slots : s >= level /\ open[s] # Null
    /\ heap' = Closed(heap, level)
    /\ open' = StillOpen(level)
    /\ UNCHANGED <<stack, program, finals>>

\* A finalizer stores its userdata.
Resurrect(s) ==
    /\ callback # Null
    /\ stack' = [stack EXCEPT ![s] = callback]
    /\ UNCHANGED <<heap, open, program, finals>>

------------------------------------------------------------------------------
(* The collector: step and collect, called by the program, checkpoints or   *)
(* a finalizer                                                             *)

idle == <<stack, open, callback, stage, entered, finals>>

Begin ==
    /\ Runs /\ heap.phase = "Pause"
    /\ heap' = beginIncrementalMark(heap)
    /\ UNCHANGED <<idle, drain>>
Propagate ==
    /\ Runs /\ heap.phase = "Propagate"
    /\ \E h \in IF heap.gray = {} THEN {heap} ELSE {Scan(heap, stack, o) : o \in heap.gray} :
        heap' = [h EXCEPT !.phase = IF h.gray = {} THEN "Atomic" ELSE @]
    /\ UNCHANGED <<idle, drain>>
Atomic ==
    /\ Runs /\ heap.phase = "Atomic"
    /\ heap' = performIncrementalAtomic(heap)
    /\ UNCHANGED <<idle, drain>>
SweepStep ==
    /\ Runs /\ heap.phase = "Sweep"
    /\ heap' = IF heap.current = Null THEN [heap EXCEPT !.phase = "Finalize"] ELSE sweepStep(heap)
    /\ UNCHANGED <<idle, drain>>

\* runFinalizers copies the first DrainLimit of the queue; it does nothing
\* while finalizers run.  The cycle is reset after them.
Scheduled(h) == SubSeq(h.pending, 1, IF Len(h.pending) < DrainLimit THEN Len(h.pending) ELSE DrainLimit)
RunFinalizers(h, byStep) ==
    IF drain = Null /\ stage = "running" /\ Scheduled(h) # <<>>
    THEN /\ heap' = h
         /\ drain' = [left |-> Scheduled(h), byStep |-> byStep]
    ELSE /\ heap' = resetIncrementalCycle(h)
         /\ UNCHANGED drain
Finalize ==
    /\ Runs /\ heap.phase = "Finalize"
    /\ RunFinalizers(heap, TRUE)
    /\ UNCHANGED idle
Collect ==
    /\ Runs
    /\ RunFinalizers(collectMarkSweep(heap), FALSE)
    /\ UNCHANGED idle

Called(u) == finals' = [finals EXCEPT ![u] = @ + 1] /\ callback' = u
StillPending(h, u) == [h EXCEPT !.pending = Selected(@, Objects \ {u})]

CallFinalizer ==
    /\ stage = "running" /\ drain # Null /\ callback = Null
    /\ Called(Head(drain.left))
    /\ UNCHANGED <<heap, stack, open, drain, stage, entered>>
FinalizerReturns ==
    /\ stage = "running" /\ callback # Null
    /\ LET left == Tail(drain.left)
           h == StillPending(heap, callback)
       IN /\ drain' = IF left = <<>> THEN Null ELSE [drain EXCEPT !.left = left]
          /\ heap' = IF left = <<>> THEN resetIncrementalCycle(h) ELSE h
    /\ callback' = Null
    /\ UNCHANGED <<stack, open, stage, entered, finals>>
\* The error ends the drain; step abandons its cycle, collect does not.
FinalizerThrows ==
    /\ stage = "running" /\ callback # Null
    /\ LET h == StillPending(heap, callback)
       IN heap' = IF drain.byStep THEN resetIncrementalCycle(h) ELSE h
    /\ drain' = Null /\ callback' = Null
    /\ UNCHANGED <<stack, open, stage, entered, finals>>

------------------------------------------------------------------------------
(* Closing the state *)

Emptied == [s \in Slots |-> Null]

finalizeAll ==
    /\ stage = "running" /\ drain = Null
    /\ heap' = Closed(resetIncrementalCycle(heap), 0)
    /\ open' = StillOpen(0)
    /\ stack' = Emptied
    /\ stage' = "closing"
    /\ UNCHANGED <<drain, callback, entered, finals>>

\* The last of the queue, or else the first in the list that has not been finalized.
NextToClose(h) ==
    LET left == Selected(Chain(h), {o \in Objects \ h.finalized : Is(h, o, "userdata")})
    IN IF h.pending # <<>> THEN h.pending[Len(h.pending)] ELSE IF left = <<>> THEN Null ELSE Head(left)
TakenUnmarked(h, u) == StillPending(h, u)
Taken(h, u) == [StillPending(h, u) EXCEPT !.finalized = @ \cup {u}]

CloseNext ==
    /\ stage = "closing" /\ callback = Null /\ entered < DrainLimit
    /\ LET u == NextToClose(heap)
       IN /\ u # Null
          /\ heap' = Taken(heap, u)
          /\ Called(u)
    /\ entered' = entered + 1
    /\ UNCHANGED <<stack, open, drain, stage>>
\* It returns or throws: its part of the stack is cleared.
CloseReturns ==
    /\ stage = "closing" /\ callback # Null
    /\ callback' = Null
    /\ stack' = Emptied
    /\ UNCHANGED <<heap, open, drain, stage, entered, finals>>

\* destroyState: clearAll, one object at the head after the other.
destroyAll(h) ==
    LET chain == Chain(h)
        after[i \in 0 .. Len(chain)] ==
            IF i = 0 THEN h ELSE destroyObject(Unlink(after[i - 1], Null, chain[i]), chain[i])
    IN  after[Len(chain)]

ClearAll ==
    /\ stage = "closing" /\ callback = Null
    /\ entered = DrainLimit \/ NextToClose(heap) = Null
    /\ heap' = destroyAll([resetIncrementalCycle(heap) EXCEPT !.pending = <<>>])
    /\ stage' = "closed"
    /\ open' = Emptied
    /\ UNCHANGED <<stack, drain, callback, entered, finals>>

Program ==
    \/ \E c \in Contents, s \in Slots : InternKnown(c, s) \/ InternNew(c, s)
    \/ \E s \in Slots : NewUserdata(s) \/ Clear(s) \/ LeaveBlock(s) \/ Resurrect(s)
    \/ \E s, t \in Slots : NewClosure(s, t) \/ GetUpvalue(t, s) \/ SetUpvalue(t, s)
Collector == Begin \/ Propagate \/ Atomic \/ SweepStep \/ Finalize \/ Collect
Finalizers == CallFinalizer \/ FinalizerReturns \/ FinalizerThrows
Closing == finalizeAll \/ CloseNext \/ CloseReturns \/ ClearAll

Next == Program \/ Collector \/ Finalizers \/ Closing
Spec == Init /\ [][Next]_vars

------------------------------------------------------------------------------
(* Properties *)

Bodies ==
    [kind : {"free", "userdata"}] \cup [kind : {"string"}, text : Contents]
    \cup [kind : {"closure"}, up : Objects \cup {Null}] \cup [kind : {"open"}, at : Slots]
    \cup [kind : {"closed"}, value : Objects \cup {Null}]

\* Types; the cursor exists during the sweep only, and a queue of
\* finalizers is drained only outside of finalizeAll.
TypeOK ==
    /\ heap.body \in [Objects -> Bodies]
    /\ heap.color \in [Objects -> {"White", "Gray", "Black"}]
    /\ heap.phase \in {"Pause", "Propagate", "Atomic", "Sweep", "Finalize"}
    /\ heap.phase # "Sweep" => heap.current = Null
    /\ heap.phase \in {"Pause", "Propagate", "Atomic"} => heap.previous = Null
    /\ heap.finalized \subseteq Objects /\ heap.gray \subseteq Live(heap)
    /\ stack \in [Slots -> Objects \cup {Null}] /\ open \in [Slots -> Objects \cup {Null}]
    /\ stage \in {"running", "closing", "closed"} /\ entered \in 0 .. DrainLimit
    /\ drain # Null => stage = "running" /\ drain.left # <<>>

\* No object is lost: the list runs through every object once, whatever was
\* allocated, unlinked or swept between two slices, and the counters that
\* decide when to collect are the sums over it.
ListIntact ==
    LET chain == Chain(heap)
    IN /\ TypeOK
       /\ Range(chain) = Live(heap) /\ Len(chain) = heap.count
       /\ Cardinality(Live(heap)) = heap.count
       /\ \A o \in Live(heap) : heap.accounted[o] = getSize(heap.body[o])
       /\ heap.total = Cardinality(Live(heap))
                        + Cardinality({o \in Live(heap) : getSize(heap.body[o]) = 2})

\* What can be reached from the stack, the open upvalues and the queue: the
\* objects of every set that holds these and what its objects refer to.
Holders == {stack[s] : s \in Slots} \cup {open[s] : s \in Slots} \cup {callback} \cup Range(heap.pending)
Reached ==
    {o \in Objects : \A S \in SUBSET Objects :
        Holders \ {Null} \subseteq S /\ (\A p \in S : Refs(heap, stack, p) \subseteq S) => o \in S}

\* Nothing that the program, the pool, the lists of the collector or the
\* cursor point to was freed, and equal strings are one object.
PointersAlive ==
    /\ Reached \cup heap.gray \cup ({heap.current, heap.previous} \ {Null}) \subseteq Live(heap)
    /\ \A s \in Slots : open[s] # Null => heap.body[open[s]] = OpenUpvalue(s)
    /\ \A c \in Contents :
        {o \in Objects : heap.body[o] = String(c)} = {heap.pool[c]} \ {Null}

\* writeBarrierDeferredNoexcept never finds the queue full while marking:
\* an upvalue that closes does not abandon the cycle.
GrayFits ==
    heap.phase \in {"Propagate", "Atomic"} /\ White(heap) # {} =>
        Cardinality(heap.gray) < heap.capacity

\* A userdata is finalized once, and before it is destroyed; finalizeAll
\* leaves none out unless it ran as many callbacks as it may.
FinalizedOnce ==
    [][\A o \in Objects :
        /\ finals'[o] <= 1
        /\ Is(heap, o, "userdata") /\ ~Is(heap', o, "userdata") =>
            finals[o] = 1 \/ (stage' = "closed" /\ entered = DrainLimit)]_vars

\* The program cannot tell this collector from any other: what it can reach
\* stays what it made of it, only what is out of its reach vanishes, and every
\* __gc is called once, when the userdata is lost.
Owed == {o \in Objects : Is(heap, o, "userdata") /\ finals[o] = 0}
MemoryOf(h) == [o \in Live(h) |-> h.body[o]]
Mem == INSTANCE Memory WITH memory <- MemoryOf(heap), owed <- Owed
ActsAsMemory == Mem!Spec
=============================================================================
