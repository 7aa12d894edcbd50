----------------------------- MODULE Coroutines -----------------------------
(***************************************************************************)
(* Calls, protected calls and coroutines: Thread::resume and abortResume   *)
(* of src/core/thread.cpp, LuaState::pcall and the open upvalues of        *)
(* src/vm/state/lua_state.cpp, precall, VM::call and the call handlers of  *)
(* src/vm.                                                                 *)
(*                                                                         *)
(* Every thread has a call stack of its own, of CallInfo frames; all       *)
(* threads share the C++ stack of the interpreter, on which executeProto,  *)
(* pcall and resume nest.  An action is one Lua instruction, or the part   *)
(* of a C++ function from the return of its callee to its own return.      *)
(*                                                                         *)
(* Values are left out.  A frame has at most one captured local, so that   *)
(* an open upvalue is the depth of its frame.  pcall stands for the C      *)
(* functions that call Lua functions, and calls Lua functions only.        *)
(* Errors that no pcall or resume is left to catch end the script and are  *)
(* not steps.                                                              *)
(***************************************************************************)
EXTENDS Naturals, Sequences, FiniteSetsExt

CONSTANTS
    Co,             \* bound: the coroutines
    Main,           \* the main state
    NONE,
    MaxFrames,      \* bound: the frames of all threads together
    NestedYields,   \* coroutines may yield inside of calls made by C functions
    NormalResumes   \* coroutines may resume one that waits for a coroutine

Threads == Co \cup {Main}

ASSUME ThreadsAssumption == Main \notin Co /\ NONE \notin Threads
ASSUME FramesAssumption == MaxFrames \in Nat \ {0}
ASSUME ProgramsAssumption == NestedYields \in BOOLEAN /\ NormalResumes \in BOOLEAN

VARIABLES
    frames,      \* callStack_ above the base frame, up to currentCI_
    open,        \* openUpvalues_: the frames whose local is captured
    status,      \* LuaState::status_
    allowYield,  \* LuaState::allowYield_
    saved,       \* savedNexeccalls_
    coStatus,    \* Thread::coStatus_, "none" before the coroutine is created
    first,       \* Thread::firstResume_
    caller,      \* Thread::caller_
    running,     \* GlobalState::runningThread_
    host,        \* the C++ stack
    outcome      \* how the callee of the last of host has returned to it

stateVars == <<frames, open, status, allowYield, saved>>
threadVars == <<coStatus, first, caller, running>>
vars == <<stateVars, threadVars, host, outcome>>

-----------------------------------------------------------------------------
(***************************************************************************)
(* The stacks.                                                             *)
(***************************************************************************)

\* CallInfo: of a Lua function or of one of the C functions pcall, resume and
\* yield; whether a local of it was captured and not closed since is history.
Frame(kind) == [kind |-> kind, captured |-> FALSE]

Lua == Frame("lua")

\* runDispatchBackend of thread t, which has cached the function of frame f,
\* and returns when n more Lua functions have returned: nexeccalls.
Loop(t, f, n) == [kind |-> "loop", thread |-> t, frame |-> f, n |-> n]

\* pcall, with currentCI_ when it was called.
Protected(t, depth) == [kind |-> "pcall", thread |-> t, saved |-> depth]

\* resume, with what it has to restore.
Resumption(c, from) ==
    [kind |-> "resume", thread |-> c, from |-> from, running |-> running,
     status |-> IF from = Main THEN NONE ELSE coStatus[from]]

Last(s) == s[Len(s)]
Front(s) == SubSeq(s, 1, Len(s) - 1)

Top == Last(host)
Beneath == Front(host)
T == Top.thread
Depth(t) == Len(frames[t])

\* Bound: n more frames.
Room(n) == MapThenSumSet(Depth, Threads) + n <= MaxFrames

\* The interpreter executes Lua instructions.
Executing == Top.kind = "loop" /\ outcome = "none"

PushFrame(t, frame) == frames' = [frames EXCEPT ![t] = Append(@, frame)]
PopFrame(t) == frames' = [frames EXCEPT ![t] = Front(@)]

\* closeUpvalues(level): the open upvalues of t from frame d on are closed.
Close(t, d) == open' = [open EXCEPT ![t] = {e \in @ : e < d}]

-----------------------------------------------------------------------------
(***************************************************************************)
(* Lua instructions.                                                       *)
(***************************************************************************)

\* CALL of a Lua function.
Call ==
    /\ Executing /\ Room(1)
    /\ PushFrame(T, Lua)
    /\ host' = Append(Beneath, Loop(T, Depth(T) + 1, Top.n + 1))
    /\ UNCHANGED <<open, status, allowYield, saved, threadVars, outcome>>

\* TAILCALL of a Lua function: the callee takes the frame over.
TailCall ==
    /\ Executing
    /\ Close(T, Depth(T))
    /\ frames' = [frames EXCEPT ![T] = Append(Front(@), Lua)]
    /\ UNCHANGED <<status, allowYield, saved, threadVars, host, outcome>>

\* RETURN.  The last function of a loop keeps its frame, which the caller of
\* executeProto pops; the main chunk does not return.
Return ==
    /\ Executing /\ Beneath # <<>>
    /\ Close(T, Depth(T))
    /\ IF Top.n > 1
       THEN /\ PopFrame(T)
            /\ host' = Append(Beneath, Loop(T, Depth(T) - 1, Top.n - 1))
            /\ outcome' = outcome
       ELSE /\ frames' = [frames EXCEPT ![T][Depth(T)].captured = FALSE]
            /\ host' = Beneath /\ outcome' = "returned"
    /\ UNCHANGED <<status, allowYield, saved, threadVars>>

\* CLOSURE captures the local of the current frame.
Capture ==
    /\ Executing
    /\ open' = [open EXCEPT ![T] = @ \cup {Depth(T)}]
    /\ frames' = [frames EXCEPT ![T][Depth(T)].captured = TRUE]
    /\ UNCHANGED <<status, allowYield, saved, threadVars, host, outcome>>

\* CLOSE at the end of the block of the local.
CloseBlock ==
    /\ Executing
    /\ Close(T, Depth(T))
    /\ frames' = [frames EXCEPT ![T][Depth(T)].captured = FALSE]
    /\ UNCHANGED <<status, allowYield, saved, threadVars, host, outcome>>

\* An error leaves the loop as an exception.
Throw ==
    /\ Executing /\ Beneath # <<>>
    /\ host' = Beneath /\ outcome' = "error"
    /\ UNCHANGED <<stateVars, threadVars>>

-----------------------------------------------------------------------------
(***************************************************************************)
(* C functions.                                                            *)
(***************************************************************************)

\* Mutation: a yield does not remember how many functions are left to return.
CFunctionReturnsUnsaved ==
    /\ Top.kind = "loop" /\ outcome = "called"
    /\ IF status[T] = "yield"
       THEN host' = Beneath /\ outcome' = "yielded" /\ UNCHANGED frames
       ELSE PopFrame(T) /\ outcome' = "none" /\ UNCHANGED host
    /\ UNCHANGED <<open, status, allowYield, saved, threadVars>>

\* precall and the CALL handler, when the C function has returned: a status
\* Yield ends the loop, and leaves the frame of the C function.
CFunctionReturns ==
    /\ Top.kind = "loop" /\ outcome = "called"
    /\ IF status[T] = "yield"
       THEN /\ saved' = [saved EXCEPT ![T] = Top.n]
            /\ host' = Beneath /\ outcome' = "yielded" /\ UNCHANGED frames
       ELSE PopFrame(T) /\ outcome' = "none" /\ UNCHANGED <<saved, host>>
    /\ UNCHANGED <<open, status, allowYield, threadVars>>

\* luaB_pcall, pcall and VM::call of a Lua function.
PCall ==
    /\ Executing /\ Room(2)
    /\ frames' = [frames EXCEPT ![T] = @ \o <<Frame("pcall"), Lua>>]
    /\ host' = host \o <<Protected(T, Depth(T) + 1), Loop(T, Depth(T) + 2, 1)>>
    /\ UNCHANGED <<open, status, allowYield, saved, threadVars, outcome>>

\* Mutation: the frames of the failed call stay.
PCallReturnsUnrestored ==
    /\ Top.kind = "pcall" /\ outcome \in {"returned", "yielded", "error"}
    /\ IF outcome = "error"
       THEN Close(T, Top.saved + 1) /\ UNCHANGED frames
       ELSE PopFrame(T) /\ UNCHANGED open
    /\ status' = [status EXCEPT ![T] = "ok"]
    /\ host' = Beneath /\ outcome' = "called"
    /\ UNCHANGED <<allowYield, saved, threadVars>>

\* VM::call pops a frame, whether the loop returned or yielded; pcall catches
\* an exception, closes the upvalues and restores the frames.
PCallReturns ==
    /\ Top.kind = "pcall" /\ outcome \in {"returned", "yielded", "error"}
    /\ IF outcome = "error"
       THEN /\ Close(T, Top.saved + 1)
            /\ frames' = [frames EXCEPT ![T] = SubSeq(@, 1, Top.saved)]
       ELSE PopFrame(T) /\ UNCHANGED open
    /\ status' = [status EXCEPT ![T] = "ok"]
    /\ host' = Beneath /\ outcome' = "called"
    /\ UNCHANGED <<allowYield, saved, threadVars>>

\* coroutine.yield.
Yield ==
    /\ Executing /\ Room(1) /\ Beneath # <<>>
    /\ allowYield[T] > 0 /\ Last(Beneath).kind = "pcall" => NestedYields
    /\ PushFrame(T, Frame("yield"))
    /\ IF allowYield[T] > 0
       THEN /\ status' = [status EXCEPT ![T] = "yield"]
            /\ outcome' = "called" /\ UNCHANGED host
       ELSE outcome' = "error" /\ host' = Beneath /\ UNCHANGED status
    /\ UNCHANGED <<open, allowYield, saved, threadVars>>

-----------------------------------------------------------------------------
(***************************************************************************)
(* Coroutines.                                                             *)
(***************************************************************************)

\* coroutine.create.
Create(c) ==
    /\ Executing /\ coStatus[c] = "none"
    /\ coStatus' = [coStatus EXCEPT ![c] = "suspended"]
    /\ UNCHANGED <<stateVars, first, caller, running, host, outcome>>

\* resume refuses: the dead, and whoever runs.
ResumeRefused(c) ==
    /\ Executing /\ Room(1)
    /\ coStatus[c] \in {"dead", "running"}
    /\ PushFrame(T, Frame("resume"))
    /\ status' = [status EXCEPT ![c] = "error"]
    /\ outcome' = "called"
    /\ UNCHANGED <<open, allowYield, saved, threadVars, host>>

\* abortResume: nothing is left of the frames of c.
Abort(c) ==
    /\ open' = [open EXCEPT ![c] = {}]
    /\ saved' = [saved EXCEPT ![c] = 1]
    /\ status' = [status EXCEPT ![c] = "error"]
    /\ first' = [first EXCEPT ![c] = FALSE]

\* resume fails before it has changed anything for good: no memory for the
\* arguments or the frame, or an entry that is not a Lua function.
ResumeAborted(c) ==
    /\ Executing /\ Room(1)
    /\ coStatus[c] = "suspended"
    /\ Abort(c)
    /\ frames' = [frames EXCEPT ![c] = <<>>, ![T] = Append(@, Frame("resume"))]
    /\ coStatus' = [coStatus EXCEPT ![c] = "dead"]
    /\ outcome' = "called"
    /\ UNCHANGED <<allowYield, caller, running, host>>

\* resume, up to executeProto.  The frame of yield goes before the loop starts.
Resume(c) ==
    /\ Executing /\ Room(2)
    /\ coStatus[c] = "suspended" \/ (coStatus[c] = "normal" /\ NormalResumes)
    /\ LET fs == IF first[c] THEN <<Lua>> ELSE Front(frames[c])
       IN  /\ frames' = [frames EXCEPT ![c] = fs, ![T] = Append(@, Frame("resume"))]
           /\ host' = host \o <<Resumption(c, T), Loop(c, Len(fs), saved[c])>>
    /\ first' = [first EXCEPT ![c] = FALSE]
    /\ coStatus' = [d \in Co |-> IF d = c THEN "running"
                                 ELSE IF d = T THEN "normal" ELSE coStatus[d]]
    /\ caller' = [caller EXCEPT ![c] = IF T = Main THEN NONE ELSE T]
    /\ status' = [status EXCEPT ![c] = "ok"]
    /\ allowYield' = [allowYield EXCEPT ![c] = @ + 1]
    /\ running' = c
    /\ UNCHANGED <<open, saved, outcome>>

\* restoreCallerContext, and the status of the coroutine from now on.
Restore(s) ==
    /\ running' = Top.running
    /\ caller' = [caller EXCEPT ![Top.thread] = NONE]
    /\ coStatus' = [d \in Co |-> IF d = Top.thread THEN s
                                 ELSE IF d = Top.from THEN Top.status ELSE coStatus[d]]
    /\ allowYield' = [allowYield EXCEPT ![Top.thread] = @ - 1]

\* resume, from executeProto on.  An error object leaves the frames for a
\* traceback; a foreign exception, or no memory for the results, aborts.
ResumeReturns ==
    /\ Top.kind = "resume" /\ outcome \in {"returned", "yielded", "error"}
    /\ \/ /\ Restore(IF outcome = "yielded" THEN "suspended" ELSE "dead")
          /\ status' = CASE outcome = "yielded" -> status
                         [] outcome = "returned" -> [status EXCEPT ![T] = "ok"]
                         [] OTHER -> [status EXCEPT ![T] = "error"]
          /\ UNCHANGED <<frames, open, saved, first>>
       \/ /\ Restore("dead")
          /\ Abort(T)
          /\ frames' = [frames EXCEPT ![T] = <<>>]
    /\ host' = Beneath /\ outcome' = "called"

-----------------------------------------------------------------------------

Init ==
    /\ frames = [t \in Threads |-> IF t = Main THEN <<Lua>> ELSE <<>>]
    /\ open = [t \in Threads |-> {}]
    /\ status = [t \in Threads |-> "ok"]
    /\ allowYield = [t \in Threads |-> 0]
    /\ saved = [t \in Threads |-> 1]
    /\ coStatus = [c \in Co |-> "none"]
    /\ first = [c \in Co |-> TRUE]
    /\ caller = [c \in Co |-> NONE]
    /\ running = NONE
    /\ host = <<Loop(Main, 1, 1)>>
    /\ outcome = "none"

Next ==
    \/ Call \/ TailCall \/ Return \/ Capture \/ CloseBlock \/ Throw
    \/ PCall \/ PCallReturns \/ Yield \/ CFunctionReturns
    \/ \E c \in Co : Create(c) \/ ResumeRefused(c) \/ ResumeAborted(c) \/ Resume(c)
    \/ ResumeReturns

Spec == Init /\ [][Next]_vars

-----------------------------------------------------------------------------
(***************************************************************************)
(* Properties.                                                             *)
(***************************************************************************)

FrameType == [kind : {"lua", "pcall", "resume", "yield"}, captured : BOOLEAN]

HostType ==
    [kind : {"loop"}, thread : Threads, frame : Nat, n : Nat]
    \cup [kind : {"pcall"}, thread : Threads, saved : Nat]
    \cup [kind : {"resume"}, thread : Co, from : Threads,
          running : Co \cup {NONE}, status : {"running", NONE}]

TypeOK ==
    /\ frames \in [Threads -> Seq(FrameType)]
    /\ open \in [Threads -> SUBSET Nat]
    /\ status \in [Threads -> {"ok", "yield", "error"}]
    /\ allowYield \in [Threads -> 0 .. 1]
    /\ saved \in [Threads -> Nat]
    /\ coStatus \in [Co -> {"none", "suspended", "running", "normal", "dead"}]
    /\ first \in [Co -> BOOLEAN]
    /\ caller \in [Co -> Co \cup {NONE}]
    /\ running \in Co \cup {NONE}
    /\ host \in Seq(HostType) /\ host # <<>>
    /\ outcome \in {"none", "called", "returned", "yielded", "error"}

\* Every loop works on the frame whose function it has cached: the last frame
\* of its thread for the one that executes, and the caller of the C function
\* for the others; and it returns when its own Lua functions have, no more and
\* no fewer.
LoopsMatchFrames ==
    \A i \in DOMAIN host : host[i].kind = "loop" =>
        LET l == host[i]
            fs == frames[l.thread]
            bottom == l.frame - l.n
        IN  /\ l.n > 0 /\ bottom >= 0 /\ l.frame <= Len(fs)
            /\ \A d \in bottom + 1 .. l.frame : fs[d].kind = "lua"
            /\ bottom > 0 => fs[bottom].kind # "lua"
            /\ IF i = Len(host) /\ outcome = "none" THEN l.frame = Len(fs)
               ELSE fs[l.frame + 1].kind # "lua"

\* What resume, status and running tell the program is what the C++ stack
\* says: one thread runs, those that wait for it are normal, each of them may
\* yield, and none of them is taken to have yielded.
StatusesAgree ==
    LET active == {host[i].thread : i \in {j \in DOMAIN host : host[j].kind = "resume"}}
    IN  outcome = "none" =>
        /\ running = IF T = Main THEN NONE ELSE T
        /\ \A c \in Co :
              /\ coStatus[c] = "running" <=> c = T
              /\ coStatus[c] = "normal" <=> c \in active \ {T}
              /\ allowYield[c] > 0 <=> c \in active
              /\ status[c] = "yield" <=> coStatus[c] = "suspended" /\ ~first[c]
        /\ \A i, j \in DOMAIN host :
              host[i].kind = "resume" /\ host[j].kind = "resume"
                  /\ host[i].thread = host[j].thread => i = j

\* An upvalue is open as long as the call whose local it is, however the call
\* ends: no closure keeps a stack slot that another call uses.
UpvaluesOpenWhileCalled ==
    \A t \in Threads : open[t] = {d \in DOMAIN frames[t] : frames[t][d].captured}

\* Frames, C++ stack, statuses and open upvalues tell the same story.
StacksAgree == TypeOK /\ LoopsMatchFrames /\ StatusesAgree /\ UpvaluesOpenWhileCalled

\* A coroutine that has yielded can go on: below the frame of yield are the
\* Lua functions that are left to return, and nothing of the C++ stack.
YieldedCanGoOn ==
    \A c \in Co : coStatus[c] = "suspended" /\ ~first[c] =>
        /\ Depth(c) = saved[c] + 1
        /\ frames[c][Depth(c)].kind = "yield"
        /\ \A d \in 1 .. saved[c] : frames[c][d].kind = "lua"

\* coroutine.yield says that it cannot "yield across non-resumable call
\* boundaries": a loop that ends with Yielded returns to resume.  It holds for
\* programs that do not try to.
YieldsToResume == outcome = "yielded" => Top.kind = "resume"

=============================================================================
