# TLA+ models of the Lua runtime

Specifications of this Lua 5.1 interpreter: the compiler and the machine that executes its code; the
incremental garbage collector, which works in slices between the instructions of the program it collects
for; the table, which is traversed while it changes; calls, protected calls and coroutines, which nest on
one C++ stack; the debugger and its remote server, whose clients run on other threads than the script; and
the execution policy, which bounds what a script may do. `TLC` checks the specifications on small instances; `TLAPS` proves most of their
safety properties for all instances. Every definition is translated from the code; `PROJECT.json`
("map") names the lines.

## 1. The system

One `GlobalState` owns a collector, a string pool, the registry and the main `LuaState`; coroutines are
heap objects that own a further `LuaState`. All of this belongs to one *owner thread*. Debug clients (a
DAP adapter through `RuntimeDebugServer`, the CLI, an embedding host) are other threads; they share only
`DebugControllerState` and the `BreakpointManager` with the owner, each under a mutex. Source text goes
through the lexer, the parser and the code generator; the verifier checks the prototypes; the VM executes
them, and calls the collector at its allocation checkpoints, the debugger at its safepoints, and the
execution policy at every instruction.

| Component | State | Operations | What is hard | What makes it correct |
|---|---|---|---|---|
| Collector (`gc/`) | `allObjects_`, colours, `grayList_`, `weakTables_`, `pendingFinalizers_`, `incrementalPhase_`, sweep cursor | `registerObject`, `writeBarrier`, `addRoot`, `step`, `collect`, `maybeCollectAutomatic`, `runFinalizers` | marking is interleaved with the program; stacks have no barrier; `__mode` changes; callbacks re-enter the collector; cycles are abandoned | nothing reachable is freed; the tri-colour invariant; weak entries go only with their referents; every userdata is queued once, when it is unreachable; cycles end |
| String pool | interned strings | `intern`, `find`, `remove` | a weak structure outside the collector's marking | one live object per content; never returns a freed one |
| Tables | array part, open-addressed nodes with tombstones | `get`, `set`, `remove`, `next`, `length`, rehash | traversal while erasing; tombstones and fill bound | a map; `next` visits each surviving key once; probing ends |
| Upvalues | per-state open list | find or create, close | sharing, closing under errors, a barrier that may not allocate | one open upvalue per slot; closures see one variable |
| Call stack | `CallInfo` frames, `top_`, hooks | `precall`, `postcall`, tail call, `pcall` | unwinding at any depth | frames nest; a protected call restores what it saved |
| Coroutines (`core/thread`) | status, own stack, links to the caller | `create`, `resume`, yield, `abortResume` | one running thread, a chain of normal ones, errors at every depth | statuses agree with the chain; a failed resume restores its caller |
| Parser, code generator | token position, scopes; `freereg_`, jump lists, blocks | one pass over the tokens, one over the tree | registers, jumps and scopes of every combination of statements; recovery after errors | the code does what the source means and passes the verifier |
| VM loop | frames, `absTop`, registers, upvalues | one handler per opcode | handlers that call metamethods in nested loops; open results | control stays at instructions, values in registers; the program says what its source means |
| Debug controller (`debugger/debug_runtime`) | session state, pause and termination requests, command queue, step, fast-path flags | `IDebugRuntime`, safepoints | mutex released in the middle of a pause; lost wakeups; sessions that come and go | requests are answered; inspections run in their pause; nobody blocks for good |
| Breakpoint manager | requests, bindings, hit snapshot | set, clear, `registerProto`, `match` | a second mutex and a lock-free snapshot | flags follow the bindings |
| Remote server | connection, event sink, lease | accept, authenticate, dispatch, stop | events published outside the mutex; stop against accept | events in an order the client can follow; sessions and stop end |
| Execution policy | budgets, deadline, cancellation | `configure`, `consumeInstruction`, `consumeNativeWork` | boundary values; cancellation from other threads; the console borrows the policy | exactly N instructions; nothing runs after the end |

Printers, trace sinks, most library functions, the REPL and the C API are sequential wrappers or
translations without state that outlives a call, and are left to unit tests. The hazards of all this, with
the line at which each one bites, are in `PROJECT.json` ("hazards").

## 2. Modules

    GC <-- MCGC                      the collector and the program
    GC <-- GCThreads <-- MCGCThreads ... and its coroutines
    GC <-- GCProofs
    HeapObjects                      what strings, userdata, closures and upvalues hold
    Memory                           what a collector promises to the program
    ObjectList <-- MCObjectList      the list of objects, the pool, open upvalues, closing
    ObjectList --> Memory            ... which implements it
    ObjectList <-- ObjectListProofs --> NatLemmas
    LuaTable <-- MCLuaTable          the table and a traversal
    LuaTable <-- LuaTableProofs --> NatLemmas
    Coroutines <-- MCCoroutines      frames, upvalues, protected calls, coroutines
    Coroutines <-- CoroutinesProofs
    Syntax, Bytecode                 trees and instructions
    Parser, Codegen                  tokens to trees to prototypes
    BytecodeVerifier                 the checks of loaded prototypes
    LuaValues <-- VM <-- MCInterpreter    the machine; MCInterpreter puts all of these together
    LuaMeaning, LuaProgram           what a program means, and what running it promises
    DebugRuntime <-- MCDebugRuntime, DebugRuntimeProofs      the debug controller
    RemoteServer <-- MCRemoteServer, RemoteServerProofs      its remote server
    ExecutionPolicy <-- ExecutionPolicyProofs                the execution policy

The `MC` modules hold instances for TLC: the constants of a run and its symmetries.

### GC

One action per entry point of `GarbageCollector`, and one per mutation that the VM can make:

| Action | Code |
|---|---|
| `Load`, `Drop` | reading a field into a register, a register that dies; no barrier, no collector work |
| `TableSet`, `TableErase`, `SetMetatable`, `SetEnvironment` | the stores of `Table` and `Userdata`, with `writeBarrier` |
| `BarrierThrows` | `writeBarrier` that runs out of memory; the store does not happen |
| `SetMeta` | a store to `__mode` or `__gc` in a metatable |
| `Alloc` | construct an object, then `registerObject`, which publishes its children or restarts the cycle |
| `AddRoot`, `RemoveRoot` | `addRoot`, `removeRoot` and the slots guarded by `writeRootBarrier` |
| `BeginMark`, `Propagate`, `PropagateEmpty`, `Atomic`, `Sweep`, `Finalize` | the phases of `incrementalStep`, one object of a budgeted slice at a time |
| `FullCollect` | `collectMarkSweep`, with or without running finalizers |
| `StepFails` | the exception path of `step` |
| `DrainNext`, `DrainReturn`, `DrainThrows`, `DrainEnd` | `runFinalizers` and `callFinalizer`; between `DrainNext` and the callback's end the program and the collector run, re-entrantly |

Abstractions. A table is a set of entries; keys and values that are not collectable are `NULL`. Of a
metatable only `__mode` and `__gc` count. Registers are the set `regs`. The order of `grayList_`, of
the object list and of the finalizer queue is left open, and a slice of work may end after any object,
which covers every budget. Marking that runs to completion is `Closure`, a least set, instead of a
worklist. `Queues` allows any answer when `getFinalizer` reads a metatable that has been freed. Not
modelled: `FIXED` objects, sizes and debt, the `automaticStopped` and `running` flags, collection without
a current state, running out of memory in the middle of `collectMarkSweep`, and closing the state.
`GCThreads` adds `Create`, `Resume`, `Keep`, `Forget` and `Yield`: a Thread's entries are the values on
its stack, which `Thread::mark` scans once.

### ObjectList

What GC leaves open: the list with its `next` pointers, the sweep's cursor and its predecessor, the
counters of objects and bytes, the pool, the open upvalues and `finalizeAll`. `registerObject`,
`markObject`, `propagateMarks`, `writeBarrier`, `writeBarrierDeferredNoexcept`, `prepareFinalizers`,
`sweepStep`, `collectMarkSweep` and `destroyObject` are operators on the collector's record `heap`. Their
loops are recursive functions over the rounds: one of `propagateMarks` blackens one object (`ScanNext`),
one of `sweep` looks at one object of the list (`SweepObject`), one of `clearAll` destroys the head
(`destroyAll`), one of `closeUpvalues` closes one upvalue (`CloseSlot`). The actions are the program's (`InternKnown`, `InternNew`, `NewUserdata`, `NewClosure`, `GetUpvalue`, `SetUpvalue`, `Clear`,
`LeaveBlock`), the collector's steps, the finalizers (`CallFinalizer`, `FinalizerReturns`,
`FinalizerThrows`, `Resurrect`) and the close (`finalizeAll`, `CloseNext`, `CloseReturns`, `ClearAll`).
Four kinds of objects occur: strings, userdata with a `__gc`, closures of one upvalue, and upvalues. Freed
addresses are used again at once. `InternsDoomed` says whether programs intern a string that the sweep is
about to free (finding 13). Not modelled: tables, coroutines, fixed objects, memory that runs out, debt.

`Memory` is the same machine without a collector: no colours, phases, list, cursor or queues, and for memory
only what the objects hold that are there. Its promises are those a program relies on. An object in
reach stays what the program made of it. One that is made is none of those that are there. Equal strings
are one object. Closures over a slot share its variable, which keeps its value when the block is left.
Objects vanish only when nothing leads to them, neither from the stack nor from a userdata whose `__gc`
is owed (`Vanish`). A `__gc` is called once, for a userdata that the program has lost
(`CallFinalizer`), and none is left out when the state is closed, but for those beyond
the limit of `finalizeAll` (`Destroy`). Under the mapping, the memory is what the live objects hold (`MemoryOf`) and
owed are the userdata that no callback was entered for (`Owed`); the collector's steps are
stutters or `Vanish`, a collection that runs to its end `Vanish`es what it sweeps at once. `ActsAsMemory` says that `ObjectList` implements `Memory`.

### LuaTable

`array` is `array_`, `nodes` the slots of `hashNodes_`, `live` and `used` the two counts. The operations
are those of `Table` that change it, and one program's traversal:

| Action | Code |
|---|---|
| `Set`, `Remove` | `set` with a value and with nil: `setArray` and `setArrayRange` with `SetArrayRange`, `setHash` with `SetHash`, `ensureHashInsertCapacity` with `Room`, `rehash` with `Rehashed` |
| `SetList` | the `SETLIST` instruction of a constructor, in batches of `Flush` items |
| `RemoveWeakEntries` | `removeWeakEntries`, for any set of entries whose referents died |
| `Begin`, `Advance` | `pairs`, and `next` with the key it has returned before |

`Find` is `findHashNode`: the loops over the slots from the home slot on are quantifiers over the slots
that come `Before` one. `Length` is `length`: its loops, which double and bisect, are recursive functions
over the rounds (`Unbounded`, `Bisected`), and so is that of `rehash` (`Rehashed`). `MaxIndex` stands for
the greatest i32, near which the doubling stops. `map` is history: what the program has stored, to compare `Get` with.
So are `seen` and `mixed`, by which the properties of a traversal are stated; a store that adds a key ends
the traversal, because Lua defines nothing after it.

Abstractions. Values have an identity only; the hash of a key is a constant. A call that fails (a nil or
NaN key, a limit, no memory) leaves the table as it was and is not a step. `SetList` runs only when no
traversal does: a table under construction has no other reference. Not modelled: `clear`, which nothing
calls, `flags_`, and the size that is accounted to the collector.

### Coroutines

`frames[t]` is `callStack_` of thread t up to `currentCI_`. All threads share `host`, the C++ stack: the
activations of `runDispatchBackend` (with the frame whose function it has cached, and `nexeccalls`), of
`LuaState::pcall` (with the frame it restores) and of `Thread::resume` (with the caller's context it
restores). `outcome` is how the callee of the last one has returned: an action either executes an
instruction in the last loop (`outcome` is "none"), or goes on after such a return.

| Action | Code |
|---|---|
| `Call`, `TailCall`, `Return` | `handleCall`, `handleTailCall`, `handleReturn` for Lua functions |
| `Capture`, `CloseBlock` | `CLOSURE` with `findOrCreateUpvalue`, and `CLOSE` |
| `Throw` | an exception leaves the loop |
| `CFunctionReturns` | `precallImpl` and `handleCall` after a C function: its frame goes, or the loop ends with `Yielded` |
| `PCall`, `PCallReturns` | `luaB_pcall`, `LuaState::pcall`, `VM::call` |
| `Yield` | `coroutine.yield` with its test of `canYield` |
| `Create`, `ResumeRefused`, `ResumeAborted`, `Resume`, `ResumeReturns` | `coroutine.create`, and `Thread::resume` with its early returns, its failures and `abortResume` |

Abstractions. No values, arguments or results. One local of a frame can be captured, so that an open
upvalue is the depth of its frame. pcall stands for every C function that calls back (sort, metamethods).
`captured` is history: whether the frame's local was captured and not closed since. `NestedYields` and
`NormalResumes` say what the programs of an instance do: whether a coroutine yields inside of a call made
by a C function (finding 5), and whether one resumes a coroutine that waits for another one: `resume`
refuses the dead and the running, but not the normal ones, and takes the live frame of the pending
`resume` for that of a yield (finding 16). The passing run leaves both out.

### Parser, Codegen, BytecodeVerifier, VM

`Parser` is the recursive descent over tokens, one operator per production, on a record that holds the
parser's state: position, exception on its way, diagnostics, depth, function scopes, recovery mode. It
yields the trees of `Syntax`. `Codegen` is the pass over the tree: `RegisterAllocator`, `ScopeManager`,
`JumpPatcher`, the expression and statement emitters, each function of theirs an operator on the record
that stands for `CodegenState`. Its registers, its `RK` operands and the batches of `SETLIST` have the
code's structure with smaller limits (constants of the run); the field of the stack size wraps around at
`StackSizes`, 256 in the code. The breaks of a loop are one list threaded through the offsets of their jumps,
as in `JumpPatcher` (`getJump`, `appendBreakJump`, `patchLinked`); the lists of a condition, which
the code collects into a `PatchList` at once, are sets. `BytecodeVerifier` is a predicate on the
tree of prototypes. `VM` has one action per opcode handler, over the stack, the frames, the closures, the
upvalues and the tables; a handler that calls a metamethod, and `TFORLOOP`, leave a frame that waits, and
a `Finish` action is the rest of the handler. Strings are ordered as `Collation`, a constant, orders them (`strcoll` in the
code). `MCInterpreter` holds the programs of its runs as token
sequences, parses and compiles them in its initial states, and compares what the machine says with
`LuaMeaning`, an interpreter of the tree that knows nothing of registers, through the abstract
specification `LuaProgram`.

Left out: characters and positions, debug metadata, texts of errors, numbers that are not integers, hooks,
the debugger, the policy, the collector, coroutines and protected calls, which the other modules have.

### DebugRuntime

An action is one critical section of the controller's mutex, or one access to an atomic outside it. A
client is a thread that makes one call at a time: `Begin` does the critical section, and `Finish` what
follows it (`notify_all`, the second critical section of `setBreakpoints`, the wait for a promise). The
owner is a program counter that follows the VM's instruction: `Fetch` (the fast-path test of
`instructionFlags_`), `Probe`, `MatchBreakpoints`, `MatchStep` (`instructionSafepoint`), `Throw`,
`Rethrow`, `Catch` (`exceptionSafepoint` in each frame that an error leaves), `Load`, `Bound`
(`registerProto`), `Execute` (any instruction, one that visits `semanticSafepoint` included); and
`Enter`, `Suspend`, `Announce`, `Wait`, `ExecuteCommand`, `Leave` for `waitForSafepointRequest`.

Abstractions. One `LuaState` is registered. Whether an instruction has a breakpoint and whether a step
ends at it is an open choice. The generation counter is told apart modulo `MaxPauses`, the queue holds at
most `MaxQueue` commands. `notifySuspended` and `confirmResumed` are left out: only tests call them.
`ProgramTerminated` stands for the embedding host's `notifyProgramTerminated`.

### RemoteServer

The threads of `remote_server.cpp`: the host's (`Start`, and `Stop` in the steps of `stop`), the server's
(`Loop`, `Accept`, `PublishConnection`, the handshake from `Hello` to `Acknowledge`, one action per
request of the serving loop, `ServeSilence`, `ServeStopped`, and the way out through `Disconnect`,
`ResetPolicy`, `CloseConnection`, `UnpublishConnection`), the owner's (`Suspend`, `Answer`, `Wake`,
`Ends`), a second client of the controller in the host process (`Local...`, if `Shared`), and the peer
(`Connect`, `Send`, `HangUp`), which is external. What fails for a reason of its own are steps besides: `StartFails`,
`AcceptFails` (accept returns an error or throws: the thread ends and leaves the listener open until `stop` or
the next `start`), `NoConnection` (no memory for the connection) and `ServeThrows` (an exception
leaves `serve` through the destructors of session and policy). What a controller call tells the event sink it tells
after it unlocked: `TellSink` and `StoreState` are steps of their own. The controller is reduced to its
session. Not modelled: bytes of frames, statistics, output and breakpoint events.

### ExecutionPolicy

`policy` has the fields of `ExecutionPolicy`. The host begins windows (`BeginWindow`), the VM and native
functions take from them (`Instruction`, `NativeWork`, `CheckExecution`), an exception unwinds and may be
caught (`Unwind`), another thread cancels (`requestCancellation`), time passes (`Tick`), and the debugger's
console borrows the policy and puts it back (`Console`). `budget` and `used` are history. Counters have
the greatest value `Unlimited`, the sentinel of the code.

## 3. Runs

| Run | Bounds | Question (states) |
|---|---|---|
| `GC_tricolor` | 3 addresses, 2 registers, 2 roots, 1 entry per table; any table may refer to o2 and o3; marking may run out of memory, cycles may be abandoned in their sweep | barriers, atomic phase, sweep and full collection (80 000) |
| `GC_weak` | one weak table, one key or value, strings; `__mode` changes at will, cycles may be abandoned in their sweep | nothing reachable is freed, weak entries go with their referents only (89 000) |
| `GC_finalizers` | one userdata with `__gc`, an environment that leads back to it; no abandoned sweep | resurrection, re-entrancy, progress (70 000) |
| `Objects_list` | 3 addresses, 2 stack slots, 1 string, at most 2 finalizers at once | list, cursor, counters, pool, open upvalues, closing; implements `Memory` (409 000) |
| `Objects_intern` | the same, and programs intern strings that are about to be freed | finding 13, expected to be violated |
| `Table_map` | integers 1 to 3 of 7, keys x and y, 4 nodes at first in place of 8, at most 3 in each part, 2 values | the table is a map, its length a border, its traversal exact but for finding 4 (80 000) |
| `Coroutines_calls` | two coroutines, 8 frames in all | frames, upvalues, statuses and the C++ stack agree (900 000) |
| `Interpreter_programs` | 43 programs, and each of 14 statements followed by each, in a loop and in a function: 435 programs | compiled programs say what they mean (19 000) |
| `Debug_session` | two client threads, one queued command, two generations | the pause protocol, safety and liveness (138 000) |
| `Remote_session` | one frame on its way, two heartbeats, one pause, one start, a second client in the process | stop and sessions end, events in order (321 000) |
| `Remote_alone` | the same without the second client | the peer's rights end with its session (126 000) |
| `Policy_window` | counters up to 3, one tick, two units of native work, one protected call, two windows, one console | budgets and ends of windows (271 000) |

Why these bounds are enough. A violation of the tri-colour invariant needs an owner, a white object and
a way by which it was hidden: three objects, with the global table as the root. The third is also enough
for a cycle of references and for an intermediate object. Two registers hold the object that is moved and
the one it is moved to. In the object list, three objects are a predecessor, the cursor's object and its
successor. For the debugger, a race needs two clients and the owner; two generations tell a
pause from the one before it, and one queued command besides the one that executes shows both places in
which a command can be lost. For the table, four nodes with three live ones reach the
fill bound, both kinds of rehash (in place and doubled) and the reuse of dead nodes; x collides with 3
and y lies where probing wraps around; three integers give an array with a hole in it, an integer that
waits in the hash part, and the border behind the array. Eight frames hold a coroutine that resumes
another one from inside of a pcall, with an error or a refused yield in the inner one, and a Lua function that
returns into the loop of its Lua caller. The programs of the interpreter hold every kind of statement and
expression, every way a handler calls a metamethod, and every pair of statements of one list, which is
where registers, jumps and scopes of one leak into the other; one of them orders strings, one leaves a
loop by several breaks. `StackSizes` is one more than the largest of them needs. Counters up to 3 tell a budget of one from one of two and from the sentinel, and the console's budget
differs from the window's. `Objects_list` tells states apart by a view that leaves out the counts `finals` of addresses
which hold no userdata: they stay what they were when the userdata went, and are reset when another one takes the address. Symmetry is used where no constant tells the elements apart and no liveness is
checked. What is proved (section 5) does not depend on any of these bounds.

Properties. *GC*: `NoDangling` (no reachable object, through weak pointers either, has been freed),
`TriColor`, `DoomedUnreachable` (what the sweep is about to free stays unreachable),
`FullCollectExact` (a full collection leaves exactly the reachable objects, whatever an incremental
cycle had left behind), `WeakEntryClearedOnlyIfDead`, `ScheduledStayQueued`, `QueuedOnlyIfUnreachable`,
`CycleEnds`. *ObjectList*: `ListIntact` (every object is in the list once, and the counters are the sums
over it), `PointersAlive` (registers, open upvalues, pool, cursor and gray list point to live objects,
equal strings are one object), `GrayFits` (an upvalue that closes while marking finds room in the gray
list), `FinalizedOnce`, `ActsAsMemory` (refinement of `Memory`). *LuaTable*: `NodesSound` (the counters are right, probing ends, a key has one
place, and no chain of probes is cut), `ActsAsMap`, `LengthIsBorder`, `TraversalSound` (next accepts its
keys, gives none twice and leaves none out, the last two as long as no integer key that has a node is
written). *Coroutines*: `StacksAgree` (every C++ loop works on the frame it has cached and returns when
its own functions have, statuses are what is on the C++ stack, upvalues are open while their function is
called), `YieldedCanGoOn`. *Interpreter*: `StaysInside` (control at instructions, registers and open
results inside of the stack), `UpvaluesOfLiveFrames`, `CompilerSatisfiesVerifier`, `ImplementsMeaning`
(refinement of `LuaProgram`, progress included). *DebugRuntime*: `CommandRunsInItsPause`,
`TerminateOnlyIfTerminated`, `FlagsCurrent`, `EveryRequestAnswered` (pause, resume, termination and
inspection requests are answered, and the owner is not blocked when nobody is attached). *RemoteServer*:
`ContinuedAfterStopped`, `StopReturns`, `SessionsEnd`, `PolicyOfPeer`, and in `TypeOK` that the peer's
session exists only while its connection is served. *ExecutionPolicy*: `WithinBudget`,
`NothingAfterTheEnd`, `StopsReachHost`. Each one is violated by a mutant of the model that stands for a
plausible bug (`PROJECT.json`, "mutants").

Fairness. `GC`: `WF(Continue)`, because `maybeCollectAutomatic` advances a cycle at every allocation
checkpoint as long as the phase is not `Pause`, until `collectgarbage("stop")`; and `WF(Drain)`, because
finalizers end. Nothing obliges the program to allocate in a given state or a cycle to begin.
`DebugRuntime`: `WF(Owner)`, the owner's processor goes on unless it is blocked in `condition.wait`, so a
lost wakeup is a deadlock of the model, spurious wakeups being allowed but not fair; and `WF(Finish(c))`,
a client completes the call it has begun. The five-second timeout is allowed, never required, so
that inspections are answered does not rest on it. No script has to end, and no client has to call
anything. `RemoteServer`: the steps of `stop`, of the server's thread (each wait of which has a timeout),
of the owner that wakes and of publication; not the host, the peer or the program, and nothing has to fail. `ExecutionPolicy`: the
VM executes its next instruction, exceptions unwind and the console is left. `VM`: the next instruction
is executed, spelled out in `KeepsRunning`; a jump to itself, which leaves the state as it is, counts as
executed, so that a program caught in one does not say what it means.

Not covered by a passing run, since the code does not keep it: what a coroutine's stack holds across a cycle (2),
every error stops (3), yields inside of C functions' calls (5), normal coroutines (16), a termination
that outlives its session (14) and functions of 256 registers (15).

Deadlock is checked except in `ObjectList`, whose state may be closed, `RemoteServer`, whose peer may be gone for good, and
`ExecutionPolicy`, whose windows are bounded.

## 4. Findings

Those of the listed runs that end with a violation, and further configurations (`*.cfg`) that show a
counterexample when they are run by hand; those that check several properties with TLC's `-continue`, which
shows one after the other:

1. **An abandoned sweep leaves garbage that the next cycle reads** (`GC_abandoned`). `collectMarkSweep`
   starts with `resetIncrementalCycle`, as do the restart in `registerObject` and the end of a drain. If
   the sweep had freed a metatable and not yet the userdata that has it, `prepareFinalizers` of the next
   cycle asks the garbage userdata for its `__gc`.
2. **A suspended coroutine's stack is not scanned again** (`GC_coroutines`). Marked once, resumed, given a
   white object in a local, suspended: the atomic phase does not look at it, and the sweep frees the object.
3. **Exception breakpoints stop once** (`Debug_faults`). With nothing else enabled, the mark that an
   error is already propagating is never cleared, because the instruction safepoint that clears it is skipped.
4. **A traversal that only erases may skip keys** (`Table_traversal`). `next` looks for an erased integer
   key in the hash part if a dead node of it is left there from before it moved to the array, and goes on
   from that node. An assignment to an existing key may also move it to the array during the traversal.
   Lua allows both.
5. **A coroutine can yield inside of a call made by a C function** (`Coroutines_yield`). `canYield` tests
   whether a resume gave permission, not whether a C function is in between; `VM::call` ignores the result
   `Yielded`, pops the wrong frame, and the script goes on in a frame that is not its own.
6. **Swapping two locals does nothing** (`Interpreter_faults`): `a, b = b, a` is compiled to three moves that
   change nothing (`statement_emitter.cpp:478`).
7. **A metamethod's call may overwrite live registers** (`Interpreter_faults`). `absTop` is left low
   by a call with a fixed number of results, and `metatable.cpp:139,180` pushes the function and its
   arguments there; docs/vm/instruction-set.md:50 says that only R(A) changes.
8. **A resumption is not announced** (`Remote_resume`). The owner may publish Running before the server's
   thread has published ResumeRequested; the sink then drops Running, and the peer believes that the
   program is stopped (`remote_server.cpp:127–157`). Events may also follow Terminated.
9. **The peer's rights outlive its session** (`Remote_policy`). `~ResetWritePolicy` is refused when another
   client has attached in between, and that client then has the peer's write policy.
10. **The console forgets a cancellation** (`Policy_faults`, with `-continue`). It puts the policy back with `configure`
    (`stack_inspector.cpp:712,888`), which clears a request that another thread made meanwhile;
    it also resets the metrics of the window.
11. **A stop reason sticks** (`Policy_faults`). `lastStopReason` is not cleared when the error of a limit was
    caught; a later ordinary error is classified as one of the limit (`vm.cpp:133`).
12. **The length of a table may not be a border** (`Table_length`). The doubling search gives up beyond half of
    the greatest index (`table.cpp`, `high > INT_MAX / 2`) and returns the present index where it is: with
    t[2^i] for i up to 30 and t[2^30 + 1], `#t` is 2^30. (A border is what the language promises.)
13. **An interned string is freed while it is held** (`Objects_intern`). `intern` returns a string of the
    pool that the sweep is about to free, without marking it (`string_pool.cpp:39`).
14. **A requested termination is withdrawn** (`Debug_faults`, `TerminationStands`). `attachSession` clears
    `terminateRequested` (`debug_runtime.cpp:737`), also when the script has yet to meet the termination
    that the previous session asked for; so does a client that disconnects to let the script
    continue after its own request to terminate (line 526). The script then runs on.
15. **The stack size of a function wraps** (`Interpreter_faults`, `CompilerSatisfiesVerifier`). The register
    counter is an `int`, the recorded size an unsigned byte, and `register_allocator.hpp:48` compares before
    it truncates: a function that needs 256
    registers records 0 (or what is still in use at its end, `function_compiler.cpp:169`), and the verifier refuses it.
16. **A coroutine that waits for another one can be resumed** (`Coroutines_normal`, `StacksAgree`).
    `Thread::resume` refuses the dead and the running, not the normal ones, and takes the frame of
    the pending `resume` for that of a yield.

Findings 4 to 7 and 12 show in scripts of a few lines; 1, 2 and 13 read freed memory in a sanitizer build of the
interpreter, with scripts that follow the traces. The programs of `Interpreter_programs` keep clear of these miscompilations,
which the models of the compiler reproduce: `local a = 1, g()` never evaluates `g()`; `a, b, c = 1, c`
leaves b nil; a `while` loop whose body begins with `local x` skips the initialisation of x from the
second round on; a condition's temporary may shift the registers of the locals after it; `closeScopeUpvalues` leaves `CLOSE`
out if the last instruction of the block is a `RETURN` of an inner branch; parser recovery
drops a statement without a diagnostic, and a table constructor accepts fields without separators.

## 5. Proofs

All theorems quantify over the constants: any set of addresses, kinds, stores, registers, clients, keys,
hash functions, coroutines, frames, strings, slots, budgets, and any length of the queues. They rest on the named
assumptions of the modules, which TLC evaluates in the runs.

| Theorem | Statement |
|---|---|
| `GCProofs!TypeCorrect` | `Spec => []TypeOK` |
| `GCProofs!Safety` | without userdata, `Spec => [](NoDangling /\ TriColor /\ DoomedUnreachable)` |
| `GCProofs!ScheduledAreKept` | `Spec => []ScheduledStayQueued` |
| `GCProofs!ReachableNeverFreed`, `BlackNeverToWhite`, `CondemnedOutOfReach` | `Spec => []NoDangling`, `[]TriColor`, `[]DoomedUnreachable`, unless userdata exist and sweeps are abandoned |
| `GCProofs!QueuedOnlyUnreachable`, `FullCollectionIsExact`, `WeakEntriesLiveOn` | the action properties `QueuedOnlyIfUnreachable`, `FullCollectExact`, `WeakEntryClearedOnlyIfDead`; same hypothesis |
| `LuaTableProofs!NodesAlwaysSound`, `TableIsMap`, `TraversalIsSound` | `Spec => []NodesSound`, `[]ActsAsMap`, `TraversalSound` |
| `LuaTableProofs!LengthAlwaysBorder` | `Spec => []LengthIsBorder`, if no key is beyond half of the greatest index |
| `CoroutinesProofs!StacksAlwaysAgree`, `YieldedAlwaysGoOn`, `YieldsReachResume` | `Spec => []StacksAgree`, `[]YieldedCanGoOn`, `[]YieldsToResume`, for programs that neither yield inside of a C function's call nor resume a normal coroutine |
| `DebugRuntimeProofs!DebugTypeCorrect`, `QueueSafety`, `TerminationSafety`, `FlagsSafety` | `Spec => []TypeOK`, `[]CommandRunsInItsPause`, `[]TerminateOnlyIfTerminated`, `[]FlagsCurrent` |
| `RemoteServerProofs!SessionWhileServed`, `StopsBeforeItContinues` | `Spec => []TypeOK`, `ContinuedAfterStopped` |
| `RemoteServerProofs!PolicyEndsWithSession` | `Spec => []PolicyOfPeer`, if no other client shares the controller |
| `ObjectListProofs!ListAlwaysIntact`, `PointersAlwaysAlive`, `GrayAlwaysFits` | `Spec => []ListIntact`, `[]PointersAlive`, `[]GrayFits`, for programs that intern no string that the sweep is about to free (`~InternsDoomed`) |
| `ObjectListProofs!UserdataFinalizedOnce` | `Spec => FinalizedOnce`; same hypothesis |
| `ObjectListProofs!ProgramSeesMemory` | `Spec => ActsAsMemory`, the refinement of `Memory`; same hypothesis |
| `ExecutionPolicyProofs!PolicyTypeOK`, `BudgetKept`, `NothingRunsAfterTheEnd` | `Spec => []TypeOK`, `[]WithinBudget`, `NothingAfterTheEnd` |

*The collector.* `NoDangling` is not inductive: a sweep that frees the white objects of its list needs to
know that they are unreachable. `DoomedUnreachable` says so during the sweep, and the atomic phase
establishes it. It marks the roots and registers again, so that they are not white; by `TriColor` a black
object has no white child, weak children apart; so whatever a root leads to is not white, and clearing the
weak entries removes the pointers that marking did not follow. `HeapSafe` is the conjunction of the three
and `TypeOK`. Marking to the end is a least set closed under references, so the argument needs
no induction: what is marked is closed (`ClosureFacts`), and what the program reaches lies in every closed
set that holds its roots (`ReachableLeast`). The steps of the program are brought to three forms
(`MutatorForms`: it roots an object, stores into one, or allocates one), which are looked at once.

*Finalizers.* With userdata, `HeapSafe` is not inductive either. `prepareFinalizers` makes garbage
reachable again, and what this garbage leads to must still be there, although nothing reachable ever
led to it. `Closed` is the strengthening: no pointer leads from an object that will survive the
sweep, reachable or not, to one that will not. A cycle that runs to the end of its sweep keeps it, since all
of what is unreachable goes or all of what leads to it was marked; an abandoned sweep breaks it, which is
finding 1. So the theorems assume `NoAbandonedUserdata`: sweeps are not abandoned, or there are no
userdata. `GC_abandoned` shows that the hypothesis is necessary as the code stands. `QueueInv` is what `runFinalizers`
relies on and holds without it: its copy is a part of the queue, and what is queued is not waiting to be
swept. The action properties follow from these invariants and from what a step marks: `T`, what the
finalizers of a step bring back, holds whatever it leads to (`Holds`).

*The list of objects.* `PointersAlive` speaks of what can be reached, `ListIntact` of where the `next`
pointers lead; neither is inductive. `IInv` says that there are a sequence `c`, a place `k` in it and a set
`K`: `c` is the list and the sweep's cursor stands behind its k-th object (`IsList`, `Cursor`); `K` contains what
the program, the queue and the running callback hold, and what its objects lead to (`Keeps`); ahead of
the cursor no object of `K` is white (`Ahead`). A slice of the sweep frees white objects ahead of the
cursor, so none of `K`, and unlinks each from `c` (`DestroyLemma`). The atomic phase supplies a new `K`,
what is not white after marking, by the tri-colour invariant of the list (`Tri`, with open upvalues
excepted: their slots are marked again). An allocation adds to the head of `c`, so to the part that was
swept. Marking and the barriers only recolour, and keep what is gray, what is queued and the room of the queue in
step (`Recolored`). Loops are handled by induction over their rounds (`PropagateLemma`, `SweepLemma`,
`ClosedLemma`, `DestroyAllLemma`). There is one lemma for each action of the program and the finalizers, and for the collector `CycleKeeps`,
`CollectKeeps` and `FinalizeKeeps`, which cite one fact for each of its phases (`BeginCollected` to
`SweepStepCollected`). Two parts of `IInv` were found missing in proving: that the upvalue of a closure in `K`
is open or closed and not an object of another kind that took its address (`Typed`), which reading and writing an upvalue
rely on; and that a callback of `finalizeAll` is off the queue while it runs, without which a collection inside of it
could let it be finalized twice. `finals` counts the callbacks of a userdata: one that is finalized has
left the queue or is the one whose callback runs (`FinalsOK`), and the sweep frees no userdata that was
not queued (`Ahead`), so what it destroys was finalized.

*What the program sees.* For `ActsAsMemory`, every action has to be an action of `Memory` or leave its
variables alone. For the program's actions this needs of `IInv` that what it has in hand is alive. What is
new is in the steps of the collector: what one frees must be out of the program's reach, and a userdata whose `__gc` is
called must be lost. `Reach` is the intersection of all sets that hold the roots and are closed under
pointers, so it suffices to show one such set that leaves the object out, and no induction over paths is
needed. During the sweep that set is the `K` of `IInv`, with the open upvalues and what is owed. For the finalizers it has to be remembered from the time
when `prepareFinalizers` looked until the callback is entered, while the program runs: `Lost` says that there is a set with what is in
hand, closed under what its objects lead to, in which no userdata waits in the queue. The atomic phase
supplies it, as what was not white before the queued ones were marked; each action keeps it (one lemma
each, `NextLost`), since a program that has lost an object reads only what is in the set and adds what it makes. Two atomic phases in a row
may leave some waiting in the queue: the set is then the intersection of the old and the new one (`CollectedWaits`).

*The table.* A key that has a node is found because every slot probed before its node is in use
(`Chained`) and no other node has the key (`OnePlace`); so `findHashNode` is a search
(`FindIsSearch`), and what an operation does can be told key by key: it changes the key it is about,
and `Get` of no other (`Agrees`). Erasing keeps the chains since a dead node stays in use. An insertion
takes the first slot that is not live, so it extends them (`InsertKeeps`). `rehash` is a loop over the old
slots: after i rounds the new nodes are sound and hold what the first i slots held (`RehashLoop`, by
`NatInduct`). That there is room follows from the counters and from capacities that are powers of two
(`DoubledValues`). For a traversal, `TraversalInv` gives its position: which keys come before `at` in the
array and in the slots, and that `seen` holds the present ones among them; an operation that neither adds
a key nor touches an integer key of the hash part leaves the places of the keys that are left. `length`
keeps an interval between a present and an absent index: a round of the bisection makes it shorter
(`HalvedStraddles`), one of the search moves it up (`WidenedSearching`), until `MaxIndex` bounds it.

*Coroutines.* The C++ stack alternates loops and the C functions they have called (`Linked`). A call of
`pcall` stays in its thread; one of `resume` enters a thread that is not on the stack (`Enters`, `Once`).
So the loops of one thread own disjoint stretches of its frames, in the order of the stack (`Ordered`), and
what the executing thread does to its last frames leaves those that other entries have cached or saved
alone (`Fits`, `Waits`). The statuses follow from which threads a resume has entered (`Statuses`), and a
thread that yields owns nothing of the stack but the loop that ends, so its loop returns to
`Thread::resume` (`Yielded`) and what is left of its frames is what `savedNexeccalls_` says (`Suspended`).

*The debugger.* `SessionInv` holds `TypeOK`, the three properties and `PauseHasSession`: only a session
starts, runs, pauses or resumes. The last is what makes `CommandRunsInItsPause` inductive, since
`attachSession` sets the state without looking at the queue, and does so only when there is no session.
`FlagsCurrent` is split into "stale or matching": a step either refreshes the flags, keeps everything they
stand for, or leaves a thread behind that has yet to refresh them.

*The remote server.* Only the owner suspends the program, and it goes on with its own work only after it
has told the sink (`Tellers`). So while the program is suspended for the peer, or has been asked to go on,
either the owner has yet to tell that it stopped or it has told (`Reported`), and when it reports that it
runs, the last report was the stop. The server's own report of a running program at the end of the
configuration is not sent, since `lastState_` becomes ResumeRequested only after a request of the peer
(`Requested`). `PolicyOfPeer` needs that only the server's thread has a session (`Alone`), so that
`configureWritePolicy` is never refused when the rights are taken back.

*The policy.* `IInv` adds to `WithinBudget` that the console's instructions and what its own limits have
left make up its budget, unless its expression was rejected (`ConsoleWithinBudget`).

*Induction.* The library's induction theorems take an operator as a parameter, which the installed
provers cannot instantiate. `NatLemmas` states induction and recursion over the natural numbers about
sets and functions instead; they follow from the least element of a set of numbers, which the library's
theorems about well-founded relations give without such a parameter.

## 6. Limits

Only model-checked:
- the liveness properties (`CycleEnds`, `EveryRequestAnswered`, `StopReturns`, `SessionsEnd`,
  `StopsReachHost`, and the progress in `ImplementsMeaning`), since the prover handles neither fairness nor
  `ENABLED`;
- the interpreter (`StaysInside`, `UpvaluesOfLiveFrames`, `CompilerSatisfiesVerifier`,
  `ImplementsMeaning`): the parser, the code generator, the verifier and the meaning of a program are recursive operators
  over trees, which the prover does not accept, and what the last two say would be an induction over
  the syntax. `StaysInside` and `UpvaluesOfLiveFrames` are no theorems about `VM` for arbitrary code, not
  even code that the verifier accepts: with finding 7, a metamethod's call overwrites registers of the frame that calls it. They are about
  the compiled programs that the run enumerates.

What the theorems say of userdata assumes that no sweep is abandoned; of coroutines, that they do not
yield inside of a C function's call nor are resumed while they wait for another one; of the peer's rights, that the server is the controller's only client; of the length, that
no key is beyond 2^30; of the list of objects, that no string is interned which the sweep is about to free. The code guarantees none of these, and each has its counterexample in section 4.

Not modelled: printing, tracing, the library functions apart from those that drive the collector, tables
and coroutines, the command line and the C API, which are sequential translations or wrappers; the lexer's
characters; the values that coroutines pass; construction and destruction of the global state; native
modules; the sandbox's tables; debt and thresholds of the collector, whose steps may happen at any time.
The components' notes in `PROJECT.json` say what is left out of each.

## 7. Plan

1. `Memory` for tables, with weak entries, as what `GC` implements.
2. `PauseProtocol`: `DebugRuntime` as an implementation of request, pause, answer.
3. `CApi`: `lua_State` stack indices, `lua_pcall` and `lua_call` boundaries of `api/lapi.cpp` on the
   frames of `Coroutines`.
4. `GCDebt`: allocation debt and thresholds; a cycle starts before the debt exceeds its bound.
5. The limits that `resource_policy.hpp` and `compilation_policy.hpp` put on strings, tables, patterns
   and compilation.
