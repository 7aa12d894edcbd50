---------------------------- MODULE DebugRuntime ----------------------------
(***************************************************************************)
(* The DebugController of src/debugger: the owner thread, which runs Lua   *)
(* and visits safepoints, against the threads of the debug clients, which  *)
(* attach, configure, pause, inspect, resume, terminate and disconnect.    *)
(*                                                                         *)
(* Every action is one critical section of DebugControllerState::mutex, or *)
(* one access to an atomic outside it; what a function does after it has   *)
(* unlocked is an action of its own.  The owner blocks in                  *)
(* condition.wait and is only woken by a notify_all.                       *)
(*                                                                         *)
(* One LuaState is registered, so that a thread identifier is always the   *)
(* paused thread's.  Which instruction matches a breakpoint and where a    *)
(* step ends is left open.  Bounds: pause generations are counted modulo   *)
(* MaxPauses, and at most MaxQueue inspections wait at once.               *)
(***************************************************************************)
EXTENDS Naturals, Sequences

CONSTANTS
    Clients,    \* the threads that use the IDebugRuntime interface
    NONE,       \* no client, or no command
    MaxPauses,  \* bound: pause generations told apart
    MaxQueue    \* bound: commands in the queue

ASSUME ClientsAssumption == NONE \notin Clients
ASSUME BoundsAssumption == MaxPauses \in Nat \ {0} /\ MaxQueue \in Nat

VARIABLES
    state,        \* DebugSessionState
    attached,     \* activeSessionId is not 0
    pauseReq,     \* pauseRequested
    termReq,      \* terminateRequested
    step,         \* StepExecutionState: a pending mode, an active one, none
    gen,          \* pauseGeneration
    queue,        \* commands
    breakAll,     \* breakOnAllExceptions
    propagating,  \* exceptionPropagationActive
    wanted,       \* breakpoints have been requested
    hits,         \* BreakpointManager::hasBreakpoints
    flags,        \* instructionFlags_
    pc,           \* where the owner thread is
    reason,       \* forcedReason of the safepoint it is in
    unwinding,    \* a Lua error is passing through its frames
    current,      \* the command it executes
    loaded,       \* the script with the breakpoints is loaded
    call,         \* what is left of the call of each client
    waiting       \* clients whose promise is not set

sessionVars == <<state, attached, pauseReq, termReq, step, gen, queue>>
exceptionVars == <<breakAll, propagating>>
breakpointVars == <<wanted, hits, loaded>>
ownerVars == <<pc, reason, unwinding, current>>
clientVars == <<call, waiting>>
vars == <<sessionVars, exceptionVars, breakpointVars, flags, ownerVars,
          clientVars>>

States == {"detached", "starting", "running", "pauseRequested", "suspended",
           "resumeRequested", "terminated"}
Reasons == {"none", "breakpoint", "step", "exception"}
Command == [by : Clients \cup {NONE}, gen : 0 .. MaxPauses]

\* refreshInstructionFlags.
FlagsOf(p, t, h, s) ==
    {f \in {"pause", "terminate", "breakpoint", "step"} :
        \/ f = "pause" /\ p
        \/ f = "terminate" /\ t
        \/ f = "breakpoint" /\ h
        \/ f = "step" /\ s # "none"}

Refresh == flags' = FlagsOf(pauseReq', termReq', hits', step')

\* Mutation: the queue survives the end of the pause.
CancelNone == UNCHANGED <<queue, waiting>>

\* cancelCommandsLocked: the promise of every queued command is set.
Cancel ==
    /\ queue' = <<>>
    /\ waiting' = waiting \ {queue[i].by : i \in 1 .. Len(queue)}

-----------------------------------------------------------------------------
(***************************************************************************)
(* Clients.                                                                *)
(***************************************************************************)

\* The client goes on to notify_all once it has unlocked.
ThenNotify(c) == call' = [call EXCEPT ![c] = "notify"]

\* Mutation: attachSession keeps a termination that was requested before.
AttachKeepsTerminate(c) ==
    /\ call[c] = "idle" /\ ~attached
    /\ attached' = TRUE
    /\ state' = "starting"
    /\ pauseReq' = FALSE
    /\ step' = "none"
    /\ propagating' = FALSE
    /\ UNCHANGED <<termReq, gen, queue, breakAll, breakpointVars, ownerVars,
                   clientVars>>
    /\ Refresh

\* attachSession.
Attach(c) ==
    /\ call[c] = "idle" /\ ~attached
    /\ attached' = TRUE
    /\ state' = "starting"
    /\ pauseReq' = FALSE
    /\ termReq' = FALSE
    /\ step' = "none"
    /\ propagating' = FALSE
    /\ UNCHANGED <<gen, queue, breakAll, breakpointVars, ownerVars, clientVars>>
    /\ Refresh

\* configurationDone.
ConfigurationDone(c) ==
    /\ call[c] = "idle" /\ attached
    /\ state = "starting" /\ state' = "running"
    /\ ThenNotify(c)
    /\ UNCHANGED <<attached, pauseReq, termReq, step, gen, queue, exceptionVars,
                   breakpointVars, flags, ownerVars, waiting>>

\* Mutation: pause does not refresh the instruction flags.
PauseUnflagged(c) ==
    /\ call[c] = "idle" /\ attached
    /\ state = "running" /\ state' = "pauseRequested"
    /\ pauseReq' = TRUE
    /\ ThenNotify(c)
    /\ UNCHANGED <<attached, termReq, step, gen, queue, exceptionVars,
                   breakpointVars, flags, ownerVars, waiting>>

\* pause.
Pause(c) ==
    /\ call[c] = "idle" /\ attached
    /\ state = "running" /\ state' = "pauseRequested"
    /\ pauseReq' = TRUE
    /\ ThenNotify(c)
    /\ UNCHANGED <<attached, termReq, step, gen, queue, exceptionVars,
                   breakpointVars, ownerVars, waiting>>
    /\ Refresh

\* continueExecution (mode is "none") and stepExecution (mode is "pending").
Resume(c, mode) ==
    /\ call[c] = "idle" /\ attached
    /\ state = "suspended" /\ state' = "resumeRequested"
    /\ pauseReq' = FALSE
    /\ step' = mode
    /\ Cancel
    /\ ThenNotify(c)
    /\ UNCHANGED <<attached, termReq, gen, exceptionVars, breakpointVars,
                   ownerVars>>
    /\ Refresh

\* setExceptionBreakpoints.
SetExceptionBreakpoints(c, enabled) ==
    /\ call[c] = "idle" /\ attached /\ state # "terminated"
    /\ breakAll' = enabled
    /\ propagating' = (propagating /\ enabled)
    /\ UNCHANGED <<sessionVars, breakpointVars, flags, ownerVars, clientVars>>

\* setBreakpoints and setFunctionBreakpoints: the BreakpointManager has a mutex
\* of its own; the flags follow in a second critical section.
SetBreakpoints(c, some) ==
    /\ call[c] = "idle"
    /\ wanted' = some
    /\ hits' = (some /\ loaded)
    /\ call' = [call EXCEPT ![c] = "refresh"]
    /\ UNCHANGED <<sessionVars, exceptionVars, loaded, flags, ownerVars, waiting>>

BreakpointsSet(c) ==
    /\ call[c] = "refresh"
    /\ call' = [call EXCEPT ![c] = "idle"]
    /\ UNCHANGED <<sessionVars, exceptionVars, breakpointVars, ownerVars, waiting>>
    /\ Refresh

\* terminateExecution.
Terminate(c) ==
    /\ call[c] = "idle" /\ attached /\ state # "terminated"
    /\ state' = "terminated"
    /\ pauseReq' = FALSE
    /\ termReq' = TRUE
    /\ step' = "none"
    /\ propagating' = FALSE
    /\ Cancel
    /\ ThenNotify(c)
    /\ UNCHANGED <<attached, gen, breakAll, breakpointVars, ownerVars>>
    /\ Refresh

\* Mutation: detachSession changes the state without waking the owner.
DisconnectSilently(c, terminate) ==
    /\ call[c] = "idle" /\ attached
    /\ attached' = FALSE
    /\ state' = IF terminate THEN "terminated" ELSE "detached"
    /\ pauseReq' = FALSE
    /\ termReq' = terminate
    /\ step' = "none"
    /\ propagating' = FALSE
    /\ wanted' = FALSE /\ hits' = FALSE
    /\ Cancel
    /\ UNCHANGED <<gen, breakAll, loaded, ownerVars, call>>
    /\ Refresh

\* detachSession, reached from a DebugSession, from shutdown, or from the
\* server's connection when it ends for any reason.
Disconnect(c, terminate) ==
    /\ call[c] = "idle" /\ attached
    /\ attached' = FALSE
    /\ state' = IF terminate THEN "terminated" ELSE "detached"
    /\ pauseReq' = FALSE
    /\ termReq' = terminate
    /\ step' = "none"
    /\ propagating' = FALSE
    /\ wanted' = FALSE /\ hits' = FALSE
    /\ Cancel
    /\ ThenNotify(c)
    /\ UNCHANGED <<gen, breakAll, loaded, ownerVars>>
    /\ Refresh

\* enqueueOwnerCommand: stackTrace, scopes, variables, evaluate, setVariable.
Inspect(c) ==
    /\ call[c] = "idle" /\ attached
    /\ state = "suspended"
    /\ Len(queue) < MaxQueue
    /\ queue' = Append(queue, [by |-> c, gen |-> gen])
    /\ waiting' = waiting \cup {c}
    /\ call' = [call EXCEPT ![c] = "submit"]
    /\ UNCHANGED <<state, attached, pauseReq, termReq, step, gen, exceptionVars,
                   breakpointVars, flags, ownerVars>>

\* condition.notify_all.
Notify(c) ==
    /\ call[c] \in {"notify", "submit"}
    /\ call' = [call EXCEPT ![c] = IF @ = "submit" THEN "await" ELSE "idle"]
    /\ pc' = IF pc = "asleep" THEN "wait" ELSE pc
    /\ UNCHANGED <<sessionVars, exceptionVars, breakpointVars, flags, reason,
                   unwinding, current, waiting>>

\* Mutation: the caller does not wait for the future.
AnsweredEarly(c) ==
    /\ call[c] = "await"
    /\ call' = [call EXCEPT ![c] = "idle"]
    /\ UNCHANGED <<sessionVars, exceptionVars, breakpointVars, flags, ownerVars,
                   waiting>>

\* The future becomes ready.
Answered(c) ==
    /\ call[c] = "await" /\ c \notin waiting
    /\ call' = [call EXCEPT ![c] = "idle"]
    /\ UNCHANGED <<sessionVars, exceptionVars, breakpointVars, flags, ownerVars,
                   waiting>>

\* wait_for gives up after five seconds.  The command stays in the queue.
TimedOut(c) ==
    /\ call[c] = "await" /\ c \in waiting
    /\ call' = [call EXCEPT ![c] = "idle"]
    /\ waiting' = waiting \ {c}
    /\ queue' = [i \in DOMAIN queue |->
                    IF queue[i].by = c THEN [queue[i] EXCEPT !.by = NONE]
                    ELSE queue[i]]
    /\ current' = IF current # NONE /\ current.by = c
                  THEN [current EXCEPT !.by = NONE] ELSE current
    /\ UNCHANGED <<state, attached, pauseReq, termReq, step, gen, exceptionVars,
                   breakpointVars, flags, pc, reason, unwinding>>

\* A new call on the interface.
Begin(c) ==
    \/ Attach(c) \/ ConfigurationDone(c) \/ Pause(c) \/ Terminate(c)
    \/ \E mode \in {"none", "pending"} : Resume(c, mode)
    \/ \E b \in BOOLEAN :
          SetExceptionBreakpoints(c, b) \/ SetBreakpoints(c, b) \/ Disconnect(c, b)
    \/ Inspect(c)

\* What is left of a call.
Finish(c) == BreakpointsSet(c) \/ Notify(c) \/ Answered(c)

-----------------------------------------------------------------------------
(***************************************************************************)
(* The owner thread.                                                       *)
(***************************************************************************)

notOwner == <<exceptionVars, breakpointVars, clientVars>>

Goto(place) == pc' = place /\ UNCHANGED <<reason, unwinding, current>>

\* The safepoint lets the owner go on, or go on unwinding.
Return ==
    /\ pc' = IF unwinding THEN "unwind" ELSE "ready"
    /\ reason' = "none"
    /\ UNCHANGED <<unwinding, current>>

\* The safepoint answers TerminateExecution, and its caller throws.
Stop ==
    /\ pc' = "unwind" /\ unwinding' = TRUE
    /\ reason' = "none"
    /\ UNCHANGED current

Safepoint(why) ==
    pc' = "entry" /\ reason' = why /\ UNCHANGED <<unwinding, current>>

\* The host starts a script.
Start ==
    /\ pc = "idle"
    /\ Goto("lua")
    /\ UNCHANGED <<sessionVars, flags, notOwner>>

\* The VM loop looks at requiresInstructionSafepoint before an instruction.
Fetch ==
    /\ pc = "lua"
    /\ Goto(IF flags = {} THEN "ready" ELSE "probe")
    /\ UNCHANGED <<sessionVars, flags, notOwner>>

\* Mutation: only a pause request is looked for.
ProbePauseOnly ==
    /\ pc = "probe"
    /\ IF pauseReq THEN Safepoint("none") ELSE Goto("inspect")
    /\ UNCHANGED <<sessionVars, flags, notOwner>>

\* instructionSafepoint: the two atomic requests come first.
Probe ==
    /\ pc = "probe"
    /\ IF termReq \/ pauseReq THEN Safepoint("none") ELSE Goto("inspect")
    /\ UNCHANGED <<sessionVars, flags, notOwner>>

\* A new instruction ends the propagation of the last error; then the
\* breakpoints at this instruction are looked up.
MatchBreakpoints ==
    /\ pc = "inspect"
    /\ propagating' = (propagating /\ state # "running")
    /\ \/ hits /\ Safepoint("breakpoint")
       \/ Goto("step")
    /\ UNCHANGED <<sessionVars, flags, breakAll, breakpointVars, clientVars>>

\* shouldStopStepLocked.
MatchStep ==
    /\ pc = "step"
    /\ \/ /\ attached /\ state = "running" /\ step = "active"
          /\ step' = "none"
          /\ Safepoint("step")
       \/ Goto("ready") /\ step' = step
    /\ UNCHANGED <<state, attached, pauseReq, termReq, gen, queue, notOwner>>
    /\ Refresh

\* exceptionSafepoint: the first of the frames that an error passes through
\* asks for the stop.
ThrowThroughFrame ==
    LET stop == attached /\ breakAll /\ state = "running" /\ ~propagating
    IN  /\ propagating' = (propagating \/ stop)
        /\ pc' = "entry"
        /\ reason' = IF stop THEN "exception" ELSE "none"
        /\ unwinding' = TRUE
        /\ UNCHANGED <<sessionVars, breakAll, breakpointVars, flags, current,
                       clientVars>>

Throw == pc = "ready" /\ ThrowThroughFrame
Rethrow == pc = "unwind" /\ ThrowThroughFrame

\* pcall or the host catches the error.
Catch ==
    /\ pc = "unwind"
    /\ pc' \in {"lua", "idle"}
    /\ unwinding' = FALSE
    /\ UNCHANGED <<sessionVars, flags, reason, current, notOwner>>

\* registerProto: breakpoints bind to a script that is being loaded.
Load ==
    /\ pc = "ready"
    /\ loaded' = TRUE
    /\ hits' = wanted
    /\ Goto(IF hits' # hits THEN "bound" ELSE "lua")
    /\ UNCHANGED <<sessionVars, exceptionVars, wanted, flags, clientVars>>

Bound ==
    /\ pc = "bound"
    /\ Goto("lua")
    /\ UNCHANGED <<sessionVars, notOwner>>
    /\ Refresh

\* Any other instruction, one that calls or returns (semanticSafepoint), or
\* the return from the script.
Execute ==
    /\ pc = "ready"
    /\ \/ Goto("lua") \/ Goto("idle")
       \/ Safepoint("none")
    /\ UNCHANGED <<sessionVars, flags, notOwner>>

\* waitForSafepointRequest, before it locks.
Enter ==
    /\ pc = "entry"
    /\ IF termReq THEN Stop
       ELSE IF reason = "none" /\ ~pauseReq THEN Return
       ELSE Goto("lock")
    /\ UNCHANGED <<sessionVars, flags, notOwner>>

\* waitForSafepointRequest suspends, unless the request is gone by now.
Suspend ==
    /\ pc = "lock"
    /\ UNCHANGED notOwner
    /\ IF termReq \/ state = "terminated"
       THEN Stop /\ UNCHANGED <<sessionVars, flags>>
       ELSE IF \/ ~attached
               \/ /\ state # "pauseRequested"
                  /\ ~(reason # "none" /\ state = "running")
       THEN Return /\ UNCHANGED <<sessionVars, flags>>
       ELSE /\ state' = "suspended"
            /\ pauseReq' = FALSE
            /\ gen' = (gen % MaxPauses) + 1
            /\ pc' = "announce"
            /\ reason' = "none"
            /\ UNCHANGED <<unwinding, current>>
            /\ UNCHANGED <<attached, termReq, step, queue>>
            /\ Refresh

\* publish, with the mutex unlocked.
Announce ==
    /\ pc = "announce"
    /\ Goto("wait")
    /\ UNCHANGED <<sessionVars, flags, notOwner>>

\* condition.wait: leave the pause, take a command, or block.
Wait ==
    /\ pc = "wait"
    /\ UNCHANGED notOwner
    /\ IF state # "suspended" \/ termReq
       THEN /\ step' = IF state = "resumeRequested" /\ step = "pending"
                       THEN "active" ELSE step
            /\ Goto("leave")
            /\ UNCHANGED <<state, attached, pauseReq, termReq, gen, queue>>
            /\ Refresh
       ELSE IF queue # <<>>
       THEN /\ current' = Head(queue)
            /\ queue' = Tail(queue)
            /\ pc' = "execute"
            /\ UNCHANGED <<state, attached, pauseReq, termReq, step, gen, flags,
                           reason, unwinding>>
       ELSE Goto("asleep") /\ UNCHANGED <<sessionVars, flags>>

\* A spurious wakeup.
WakeUp ==
    /\ pc = "asleep"
    /\ Goto("wait")
    /\ UNCHANGED <<sessionVars, flags, notOwner>>

\* Mutation: a command that fails does not set its promise.
ExecuteCommandSilently ==
    /\ pc = "execute"
    /\ current' = NONE
    /\ pc' = "wait"
    /\ UNCHANGED <<sessionVars, exceptionVars, breakpointVars, flags, reason,
                   unwinding, clientVars>>

\* DebugOwnerCommand::execute sets the promise.
ExecuteCommand ==
    /\ pc = "execute"
    /\ waiting' = waiting \ {current.by}
    /\ current' = NONE
    /\ pc' = "wait"
    /\ UNCHANGED <<sessionVars, exceptionVars, breakpointVars, flags, reason,
                   unwinding, call>>

\* The end of waitForSafepointRequest, after endPause.
Leave ==
    /\ pc = "leave"
    /\ IF termReq \/ state = "terminated"
       THEN Stop /\ UNCHANGED state
       ELSE /\ state' = IF state = "resumeRequested" THEN "running" ELSE state
            /\ Return
    /\ UNCHANGED <<attached, pauseReq, termReq, step, gen, queue, flags, notOwner>>

\* notifyProgramTerminated.
ProgramTerminated ==
    /\ pc = "idle" /\ state # "terminated"
    /\ state' = "terminated"
    /\ pauseReq' = FALSE
    /\ step' = "none"
    /\ propagating' = FALSE
    /\ Cancel
    /\ UNCHANGED <<attached, termReq, gen, breakAll, breakpointVars, ownerVars, call>>
    /\ Refresh

Owner ==
    \/ Fetch \/ Probe \/ MatchBreakpoints \/ MatchStep
    \/ Throw \/ Rethrow \/ Catch \/ Load \/ Bound \/ Execute
    \/ Enter \/ Suspend \/ Announce \/ Wait \/ ExecuteCommand \/ Leave

Init ==
    /\ state = "detached" /\ attached = FALSE
    /\ pauseReq = FALSE /\ termReq = FALSE
    /\ step = "none" /\ gen = 0 /\ queue = <<>>
    /\ breakAll = FALSE /\ propagating = FALSE
    /\ wanted = FALSE /\ hits = FALSE /\ loaded = FALSE
    /\ flags = {}
    /\ pc = "idle" /\ reason = "none" /\ unwinding = FALSE /\ current = NONE
    /\ call = [c \in Clients |-> "idle"] /\ waiting = {}

Next ==
    \/ \E c \in Clients : Begin(c) \/ Finish(c) \/ TimedOut(c)
    \/ Start \/ Owner \/ WakeUp \/ ProgramTerminated

Spec == Init /\ [][Next]_vars

\* The owner thread runs as long as it is not blocked, and a client ends the
\* call that it has begun.  No thread has to begin a call, and the library
\* need not wake a thread that nobody notified.
FairSpec ==
    /\ Spec
    /\ WF_vars(Owner)
    /\ \A c \in Clients : WF_vars(Finish(c))

-----------------------------------------------------------------------------
(***************************************************************************)
(* Properties.                                                             *)
(***************************************************************************)

SessionTypeOK ==
    /\ state \in States
    /\ attached \in BOOLEAN /\ pauseReq \in BOOLEAN /\ termReq \in BOOLEAN
    /\ step \in {"none", "pending", "active"}
    /\ gen \in 0 .. MaxPauses
    /\ queue \in Seq(Command)

BreakpointTypeOK ==
    /\ breakAll \in BOOLEAN /\ propagating \in BOOLEAN
    /\ wanted \in BOOLEAN /\ hits \in BOOLEAN /\ loaded \in BOOLEAN
    /\ flags \subseteq {"pause", "terminate", "breakpoint", "step"}

OwnerTypeOK ==
    /\ pc \in {"idle", "lua", "probe", "inspect", "step", "ready", "bound",
               "unwind", "entry", "lock", "announce", "wait", "asleep",
               "execute", "leave"}
    /\ reason \in Reasons
    /\ unwinding \in BOOLEAN
    /\ current \in Command \cup {NONE}

ClientTypeOK ==
    /\ call \in [Clients -> {"idle", "refresh", "notify", "submit", "await"}]
    /\ waiting \subseteq {c \in Clients : call[c] \in {"submit", "await"}}

TypeOK == SessionTypeOK /\ BreakpointTypeOK /\ OwnerTypeOK /\ ClientTypeOK

\* An inspection is executed in the pause it was asked for, or not at all:
\* every way to end a pause empties the queue, so that no command with frame
\* and variable identifiers of an earlier pause reaches the inspector.
CommandRunsInItsPause ==
    /\ queue # <<>> => state = "suspended"
    /\ \A i \in 1 .. Len(queue) : queue[i].gen = gen
    /\ pc = "execute" => current.gen = gen

\* The owner reads terminateRequested without the mutex and stops the script
\* on it alone: it is never set in a session that is not terminated.
TerminateOnlyIfTerminated == termReq => state = "terminated"

\* A pause request that is still pending is visible to the owner, and the fast
\* path of the VM sees every request, unless a thread that changed the
\* breakpoints has yet to take the mutex.
FlagsCurrent ==
    /\ pauseReq <=> state = "pauseRequested"
    /\ (pc # "bound" /\ \A c \in Clients : call[c] # "refresh") =>
          flags = FlagsOf(pauseReq, termReq, hits, step)

\* A pause request is answered by a safepoint, unless the script has ended.
PauseAnswered ==
    state = "pauseRequested" ~> state # "pauseRequested" \/ pc = "idle"

\* The owner wakes up when the client that stopped it resumes it ...
ResumeAnswered == state = "resumeRequested" ~> state # "resumeRequested"

\* ... or leaves: a script never stays blocked without a session.
NeverBlockedDetached == (pc = "asleep" /\ ~attached) ~> pc # "asleep"

\* Every accepted inspection gets an answer from the owner or from the thread
\* that ended the pause, and does not depend on the timeout.
InspectionAnswered == \A c \in Clients : c \in waiting ~> c \notin waiting

\* A termination request ends the script unless a new session withdraws it.
TerminateAnswered == termReq ~> (~termReq \/ unwinding \/ pc = "idle")

\* Every request is answered, whatever order the threads run in.
EveryRequestAnswered ==
    /\ PauseAnswered /\ ResumeAnswered /\ NeverBlockedDetached
    /\ InspectionAnswered /\ TerminateAnswered

\* With exception breakpoints enabled, an error that is thrown while nothing
\* else is pending stops the script.
EveryErrorStops ==
    [][Throw /\ attached /\ state = "running" /\ breakAll =>
          reason' = "exception"]_vars

\* A termination, once requested, is not withdrawn before it has stopped the
\* script that it was meant for: not by the session that comes next, and not
\* by a client that leaves.
TerminationStands ==
    [][termReq /\ ~termReq' => pc = "idle" \/ unwinding]_vars

=============================================================================
