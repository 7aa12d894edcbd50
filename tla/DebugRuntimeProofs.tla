------------------------- MODULE DebugRuntimeProofs -------------------------
(***************************************************************************)
(* Proofs about DebugRuntime, for any number of client threads and of      *)
(* commands in the queue.                                                  *)
(*                                                                         *)
(* DebugTypeCorrect is by cases over the actions.                          *)
(*                                                                         *)
(* The safety theorems share one invariant, SessionInv.  A queue that      *)
(* holds a command keeps the state "suspended", and every action that      *)
(* leaves this state cancels the queue.  That is not inductive on its own: *)
(* attachSession changes the state without a look at the queue.  It may,   *)
(* because it does not replace a session, and no pause is without one      *)
(* (PauseHasSession).                                                      *)
(***************************************************************************)
EXTENDS DebugRuntime, TLAPS

-----------------------------------------------------------------------------
(***************************************************************************)
(* Types.                                                                  *)
(***************************************************************************)

LEMMA FlagsType ==
  ASSUME NEW p, NEW t, NEW h, NEW s
  PROVE  FlagsOf(p, t, h, s) \subseteq {"pause", "terminate", "breakpoint", "step"}
BY DEF FlagsOf

LEMMA CancelFacts ==
  ASSUME TypeOK, Cancel
  PROVE  /\ queue' = <<>> /\ queue' \in Seq(Command) /\ Len(queue') = 0
         /\ waiting' \subseteq waiting
BY DEF Cancel, TypeOK, SessionTypeOK, BreakpointTypeOK, OwnerTypeOK, ClientTypeOK

\* Forgetting the caller of queued commands keeps them where they are.
LEMMA TimedOutFacts ==
  ASSUME TypeOK, NEW c \in Clients, TimedOut(c)
  PROVE  /\ queue' \in Seq(Command) /\ Len(queue') = Len(queue)
         /\ \A i \in 1 .. Len(queue) : queue'[i].gen = queue[i].gen
         /\ current' \in Command \cup {NONE}
         /\ current # NONE => current'.gen = current.gen
<1>1. queue \in Seq(Command) /\ current \in Command \cup {NONE}
  BY DEF TypeOK, SessionTypeOK, BreakpointTypeOK, OwnerTypeOK, ClientTypeOK
<1>2. DOMAIN queue = 1 .. Len(queue) /\ Len(queue) \in Nat
  BY <1>1
<1>3. \A x \in Command : /\ [x EXCEPT !.by = NONE] \in Command
                         /\ [x EXCEPT !.by = NONE].gen = x.gen
  BY DEF Command
<1>4. \A i \in 1 .. Len(queue) : queue[i] \in Command
  BY <1>1, <1>2
<1>5. queue' = [i \in 1 .. Len(queue) |->
                  IF queue[i].by = c THEN [queue[i] EXCEPT !.by = NONE] ELSE queue[i]]
  BY <1>2 DEF TimedOut
<1>6. queue' \in [1 .. Len(queue) -> Command]
  BY <1>3, <1>4, <1>5
<1>7. queue' \in Seq(Command) /\ Len(queue') = Len(queue)
  BY <1>2, <1>6
<1>8. \A i \in 1 .. Len(queue) : queue'[i].gen = queue[i].gen
  BY <1>3, <1>4, <1>5
<1>9. current' \in Command \cup {NONE} /\ (current # NONE => current'.gen = current.gen)
  BY <1>1, <1>3 DEF TimedOut
<1>. QED
  BY <1>7, <1>8, <1>9

\* A client that does not wait for a promise goes on.
LEMMA CallType ==
  ASSUME TypeOK, NEW c \in Clients, call[c] \notin {"submit", "await"},
         NEW x \in {"idle", "refresh", "notify", "submit", "await"},
         call' = [call EXCEPT ![c] = x], waiting' \subseteq waiting
  PROVE  ClientTypeOK'
<1>1. call \in [Clients -> {"idle", "refresh", "notify", "submit", "await"}]
  BY DEF TypeOK, SessionTypeOK, BreakpointTypeOK, OwnerTypeOK, ClientTypeOK
<1>2. waiting \subseteq {d \in Clients : call[d] \in {"submit", "await"}}
  BY DEF TypeOK, SessionTypeOK, BreakpointTypeOK, OwnerTypeOK, ClientTypeOK
<1>. QED
  BY <1>1, <1>2 DEF ClientTypeOK

LEMMA InitType == Init => TypeOK
<1>. SUFFICES ASSUME Init PROVE TypeOK
  OBVIOUS
<1>1. <<>> \in Seq(Command) /\ 0 \in 0 .. MaxPauses
  BY BoundsAssumption
<1>2. queue \in Seq(Command) /\ gen \in 0 .. MaxPauses
  BY <1>1 DEF Init
<1>3. call \in [Clients -> {"idle", "refresh", "notify", "submit", "await"}]
  BY DEF Init
<1>4. waiting \subseteq {d \in Clients : call[d] \in {"submit", "await"}}
  BY DEF Init
<1>. QED
  BY <1>2, <1>3, <1>4 DEF Init, TypeOK,
     SessionTypeOK, BreakpointTypeOK, OwnerTypeOK, ClientTypeOK, States, Reasons

LEMMA BeginType ==
  ASSUME TypeOK, NEW c \in Clients, Begin(c)
  PROVE  TypeOK'
<1>. USE DEF ThenNotify, Refresh, breakpointVars, ownerVars, clientVars, exceptionVars, sessionVars
<1>1. CASE Attach(c)
  BY <1>1, FlagsType DEF Attach, TypeOK,
     SessionTypeOK, BreakpointTypeOK, OwnerTypeOK, ClientTypeOK, States
<1>2. CASE ConfigurationDone(c)
  BY <1>2 DEF ConfigurationDone, TypeOK,
     SessionTypeOK, BreakpointTypeOK, OwnerTypeOK, ClientTypeOK, States
<1>3. CASE Pause(c)
  <2>1. flags' \subseteq {"pause", "terminate", "breakpoint", "step"}
    BY <1>3, FlagsType DEF Pause
  <2>2. ClientTypeOK'
    BY <1>3, CallType DEF Pause
  <2>3. SessionTypeOK'
    BY <1>3 DEF Pause, SessionTypeOK, TypeOK, States
  <2>. QED
    BY <1>3, <2>1, <2>2, <2>3 DEF Pause, TypeOK, BreakpointTypeOK, OwnerTypeOK
<1>4. CASE Terminate(c)
  <2>1. Cancel
    BY <1>4 DEF Terminate
  <2>. QED
    BY <1>4, <2>1, CancelFacts, FlagsType DEF Terminate, TypeOK,
       SessionTypeOK, BreakpointTypeOK, OwnerTypeOK, ClientTypeOK, States
<1>5. ASSUME NEW mode \in {"none", "pending"}, Resume(c, mode)
      PROVE  TypeOK'
  <2>1. Cancel
    BY <1>5 DEF Resume
  <2>2. flags' \subseteq {"pause", "terminate", "breakpoint", "step"}
    BY <1>5, FlagsType DEF Resume
  <2>3. ClientTypeOK'
    BY <1>5, <2>1, CancelFacts, CallType DEF Resume
  <2>4. SessionTypeOK'
    BY <1>5, <2>1, CancelFacts DEF Resume, SessionTypeOK, TypeOK, States
  <2>. QED
    BY <1>5, <2>1, <2>2, <2>3, <2>4 DEF Resume, TypeOK, BreakpointTypeOK, OwnerTypeOK
<1>6. ASSUME NEW b \in BOOLEAN, SetExceptionBreakpoints(c, b)
      PROVE  TypeOK'
  BY <1>6 DEF SetExceptionBreakpoints, TypeOK,
     SessionTypeOK, BreakpointTypeOK, OwnerTypeOK, ClientTypeOK
<1>7. ASSUME NEW b \in BOOLEAN, SetBreakpoints(c, b)
      PROVE  TypeOK'
  BY <1>7 DEF SetBreakpoints, TypeOK,
     SessionTypeOK, BreakpointTypeOK, OwnerTypeOK, ClientTypeOK
<1>8. ASSUME NEW b \in BOOLEAN, Disconnect(c, b)
      PROVE  TypeOK'
  <2>1. Cancel
    BY <1>8 DEF Disconnect
  <2>. QED
    BY <1>8, <2>1, CancelFacts, FlagsType DEF Disconnect, TypeOK,
       SessionTypeOK, BreakpointTypeOK, OwnerTypeOK, ClientTypeOK, States
<1>9. CASE Inspect(c)
  <2>1. [by |-> c, gen |-> gen] \in Command
    BY DEF Command, TypeOK, SessionTypeOK, BreakpointTypeOK, OwnerTypeOK, ClientTypeOK
  <2>2. queue' \in Seq(Command)
    BY <1>9, <2>1 DEF Inspect, TypeOK,
       SessionTypeOK, BreakpointTypeOK, OwnerTypeOK, ClientTypeOK
  <2>. QED
    BY <1>9, <2>2 DEF Inspect, TypeOK,
       SessionTypeOK, BreakpointTypeOK, OwnerTypeOK, ClientTypeOK
<1>. QED
  BY <1>1, <1>2, <1>3, <1>4, <1>5, <1>6, <1>7, <1>8, <1>9 DEF Begin

LEMMA FinishType ==
  ASSUME TypeOK, NEW c \in Clients, Finish(c) \/ TimedOut(c)
  PROVE  TypeOK'
<1>. USE DEF Refresh, breakpointVars, ownerVars, clientVars, exceptionVars, sessionVars
<1>1. CASE BreakpointsSet(c)
  BY <1>1, FlagsType DEF BreakpointsSet, TypeOK,
     SessionTypeOK, BreakpointTypeOK, OwnerTypeOK, ClientTypeOK
<1>2. CASE Notify(c)
  BY <1>2 DEF Notify, TypeOK, SessionTypeOK, BreakpointTypeOK, OwnerTypeOK, ClientTypeOK
<1>3. CASE Answered(c)
  BY <1>3 DEF Answered, TypeOK,
     SessionTypeOK, BreakpointTypeOK, OwnerTypeOK, ClientTypeOK
<1>4. CASE TimedOut(c)
  <2>1. call' \in [Clients -> {"idle", "refresh", "notify", "submit", "await"}]
    BY <1>4 DEF TimedOut, TypeOK,
       SessionTypeOK, BreakpointTypeOK, OwnerTypeOK, ClientTypeOK
  <2>2. waiting' \subseteq {d \in Clients : call'[d] \in {"submit", "await"}}
    BY <1>4 DEF TimedOut, TypeOK,
       SessionTypeOK, BreakpointTypeOK, OwnerTypeOK, ClientTypeOK
  <2>3. queue' \in Seq(Command) /\ current' \in Command \cup {NONE}
    BY <1>4, TimedOutFacts
  <2>. QED
    BY <1>4, <2>1, <2>2, <2>3 DEF TimedOut, TypeOK,
       SessionTypeOK, BreakpointTypeOK, OwnerTypeOK, ClientTypeOK
<1>. QED
  BY <1>1, <1>2, <1>3, <1>4 DEF Finish

\* A step of the owner that leaves the session and the client alone.
LEMMA OwnerMoves ==
  ASSUME TypeOK, UNCHANGED <<sessionVars, flags, notOwner>>, OwnerTypeOK'
  PROVE  TypeOK'
BY DEF TypeOK, SessionTypeOK, BreakpointTypeOK, ClientTypeOK, sessionVars, notOwner,
       exceptionVars, breakpointVars, clientVars

LEMMA GotoType ==
  ASSUME OwnerTypeOK,
         NEW place \in {"idle", "lua", "probe", "inspect", "step", "ready", "bound",
                        "unwind", "entry", "lock", "announce", "wait", "asleep",
                        "execute", "leave"},
         \/ Goto(place)
         \/ Return \/ Stop
         \/ \E why \in Reasons : Safepoint(why)
  PROVE  OwnerTypeOK'
<1>1. CASE Goto(place)
  BY <1>1 DEF Goto, OwnerTypeOK
<1>2. CASE Return
  BY <1>2 DEF Return, OwnerTypeOK, Reasons
<1>3. CASE Stop
  BY <1>3 DEF Stop, OwnerTypeOK, Reasons
<1>4. ASSUME NEW why \in Reasons, Safepoint(why)
      PROVE  OwnerTypeOK'
  BY <1>4 DEF Safepoint, OwnerTypeOK
<1>. QED
  BY <1>1, <1>2, <1>3, <1>4

LEMMA ReasonsFact == \A r \in {"none", "breakpoint", "step", "exception"} : r \in Reasons
BY DEF Reasons

\* The steps of the owner between its waits.
LEMMA RunType ==
  ASSUME TypeOK,
         \/ Start \/ Fetch \/ Probe \/ MatchBreakpoints \/ MatchStep
         \/ Throw \/ Rethrow \/ Catch \/ Load \/ Bound \/ Execute
  PROVE  TypeOK'
<1>0. OwnerTypeOK
  BY DEF TypeOK
<1>1. CASE Start
  BY <1>0, <1>1, GotoType, OwnerMoves DEF Start
<1>2. CASE Fetch
  BY <1>0, <1>2, GotoType, OwnerMoves DEF Fetch
<1>3. CASE Probe
  BY <1>0, <1>3, GotoType, OwnerMoves, ReasonsFact DEF Probe
<1>4. CASE MatchBreakpoints
  <2>1. OwnerTypeOK'
    BY <1>0, <1>4, GotoType, ReasonsFact DEF MatchBreakpoints
  <2>2. propagating' \in BOOLEAN
    BY <1>4 DEF MatchBreakpoints, TypeOK, BreakpointTypeOK
  <2>. QED
    BY <1>4, <2>1, <2>2 DEF MatchBreakpoints, sessionVars, breakpointVars, clientVars,
       TypeOK, SessionTypeOK, BreakpointTypeOK, ClientTypeOK
<1>5. CASE MatchStep
  <2>1. OwnerTypeOK'
    BY <1>0, <1>5, GotoType, ReasonsFact DEF MatchStep
  <2>2. flags' \subseteq {"pause", "terminate", "breakpoint", "step"}
    BY <1>5, FlagsType DEF MatchStep, Refresh
  <2>3. step' \in {"none", "pending", "active"}
    BY <1>5 DEF MatchStep, TypeOK, SessionTypeOK
  <2>. QED
    BY <1>5, <2>1, <2>2, <2>3 DEF MatchStep, notOwner, exceptionVars, breakpointVars,
       clientVars, TypeOK, SessionTypeOK, BreakpointTypeOK, ClientTypeOK
<1>6. CASE Throw \/ Rethrow
  <2>1. ThrowThroughFrame
    BY <1>6 DEF Throw, Rethrow
  <2>2. OwnerTypeOK'
    BY <1>0, <2>1 DEF ThrowThroughFrame, OwnerTypeOK, Reasons
  <2>3. propagating' \in BOOLEAN
    BY <2>1 DEF ThrowThroughFrame
  <2>. QED
    BY <2>1, <2>2, <2>3 DEF ThrowThroughFrame, sessionVars, breakpointVars, clientVars,
       TypeOK, SessionTypeOK, BreakpointTypeOK, ClientTypeOK
<1>7. CASE Catch
  <2>1. OwnerTypeOK'
    BY <1>0, <1>7 DEF Catch, OwnerTypeOK
  <2>. QED
    BY <1>7, <2>1, OwnerMoves DEF Catch
<1>8. CASE Load
  <2>1. OwnerTypeOK'
    BY <1>0, <1>8, GotoType DEF Load
  <2>2. loaded' \in BOOLEAN /\ hits' \in BOOLEAN
    BY <1>8 DEF Load, TypeOK, BreakpointTypeOK
  <2>. QED
    BY <1>8, <2>1, <2>2 DEF Load, sessionVars, exceptionVars, clientVars,
       TypeOK, SessionTypeOK, BreakpointTypeOK, ClientTypeOK
<1>9. CASE Bound
  <2>1. OwnerTypeOK'
    BY <1>0, <1>9, GotoType DEF Bound
  <2>2. flags' \subseteq {"pause", "terminate", "breakpoint", "step"}
    BY <1>9, FlagsType DEF Bound, Refresh
  <2>. QED
    BY <1>9, <2>1, <2>2 DEF Bound, sessionVars, notOwner, exceptionVars, breakpointVars,
       clientVars, TypeOK, SessionTypeOK, BreakpointTypeOK, ClientTypeOK
<1>10. CASE Execute
  BY <1>0, <1>10, GotoType, OwnerMoves, ReasonsFact DEF Execute
<1>. QED
  BY <1>1, <1>2, <1>3, <1>4, <1>5, <1>6, <1>7, <1>8, <1>9, <1>10

\* The steps of the owner in waitForSafepointRequest, and the end of the script.
LEMMA PauseType ==
  ASSUME TypeOK,
         \/ Enter \/ Suspend \/ Announce \/ Wait \/ ExecuteCommand \/ Leave
         \/ WakeUp \/ ProgramTerminated
  PROVE  TypeOK'
<1>0. OwnerTypeOK
  BY DEF TypeOK
<1>1. CASE Enter
  BY <1>0, <1>1, GotoType, OwnerMoves DEF Enter
<1>2. CASE Suspend
  <2>1. OwnerTypeOK'
    <3>1. CASE Return \/ Stop
      BY <1>0, <3>1, GotoType
    <3>2. CASE ~(Return \/ Stop)
      BY <1>0, <1>2, <3>2 DEF Suspend, OwnerTypeOK, Reasons
    <3>. QED
      BY <3>1, <3>2
  <2>2. (gen % MaxPauses) + 1 \in 0 .. MaxPauses
    BY BoundsAssumption DEF TypeOK, SessionTypeOK
  <2>3. flags' \subseteq {"pause", "terminate", "breakpoint", "step"}
    <3>1. Refresh \/ flags' = flags
      BY <1>2 DEF Suspend
    <3>. QED
      BY <3>1, FlagsType DEF Refresh, TypeOK, BreakpointTypeOK
  <2>4. SessionTypeOK'
    BY <1>2, <2>2 DEF Suspend, sessionVars, TypeOK, SessionTypeOK, States
  <2>. QED
    BY <1>2, <2>1, <2>3, <2>4 DEF Suspend, notOwner, exceptionVars, breakpointVars,
       clientVars, TypeOK, BreakpointTypeOK, ClientTypeOK
<1>3. CASE Announce
  BY <1>0, <1>3, GotoType, OwnerMoves DEF Announce
<1>4. CASE Wait
  <2>1. queue # <<>> => Head(queue) \in Command /\ Tail(queue) \in Seq(Command)
    BY DEF TypeOK, SessionTypeOK
  <2>2. OwnerTypeOK'
    <3>1. CASE Goto("leave") \/ Goto("asleep")
      BY <1>0, <3>1, GotoType
    <3>2. CASE ~(Goto("leave") \/ Goto("asleep"))
      BY <1>0, <1>4, <2>1, <3>2 DEF Wait, OwnerTypeOK
    <3>. QED
      BY <3>1, <3>2
  <2>3. flags' \subseteq {"pause", "terminate", "breakpoint", "step"}
    <3>1. Refresh \/ flags' = flags
      BY <1>4 DEF Wait
    <3>. QED
      BY <3>1, FlagsType DEF Refresh, TypeOK, BreakpointTypeOK
  <2>4. SessionTypeOK'
    BY <1>4, <2>1 DEF Wait, sessionVars, TypeOK, SessionTypeOK
  <2>. QED
    BY <1>4, <2>2, <2>3, <2>4 DEF Wait, notOwner, exceptionVars, breakpointVars,
       clientVars, TypeOK, BreakpointTypeOK, ClientTypeOK
<1>5. CASE ExecuteCommand
  <2>1. OwnerTypeOK'
    BY <1>0, <1>5 DEF ExecuteCommand, OwnerTypeOK
  <2>2. ClientTypeOK'
    BY <1>5 DEF ExecuteCommand, TypeOK, ClientTypeOK
  <2>. QED
    BY <1>5, <2>1, <2>2 DEF ExecuteCommand, sessionVars, exceptionVars, breakpointVars,
       TypeOK, SessionTypeOK, BreakpointTypeOK
<1>6. CASE Leave
  <2>1. OwnerTypeOK'
    BY <1>0, <1>6, GotoType DEF Leave
  <2>2. state' \in States
    BY <1>6 DEF Leave, TypeOK, SessionTypeOK, States
  <2>. QED
    BY <1>6, <2>1, <2>2 DEF Leave, notOwner, exceptionVars, breakpointVars,
       clientVars, TypeOK, SessionTypeOK, BreakpointTypeOK, ClientTypeOK
<1>7. CASE WakeUp
  BY <1>0, <1>7, GotoType, OwnerMoves DEF WakeUp
<1>8. CASE ProgramTerminated
  <2>1. Cancel
    BY <1>8 DEF ProgramTerminated
  <2>2. flags' \subseteq {"pause", "terminate", "breakpoint", "step"}
    BY <1>8, FlagsType DEF ProgramTerminated, Refresh
  <2>3. SessionTypeOK'
    BY <1>8, <2>1, CancelFacts DEF ProgramTerminated, TypeOK, SessionTypeOK, States
  <2>4. ClientTypeOK'
    BY <1>8, <2>1, CancelFacts DEF ProgramTerminated, TypeOK, ClientTypeOK
  <2>. QED
    BY <1>8, <2>2, <2>3, <2>4 DEF ProgramTerminated, breakpointVars, ownerVars,
       TypeOK, BreakpointTypeOK, OwnerTypeOK
<1>. QED
  BY <1>1, <1>2, <1>3, <1>4, <1>5, <1>6, <1>7, <1>8

\* Every variable keeps its type, and only a client that has not got its answer
\* has a promise that is not set.
THEOREM DebugTypeCorrect == Spec => []TypeOK
<1>1. TypeOK /\ UNCHANGED vars => TypeOK'
  BY DEF vars, sessionVars, exceptionVars, breakpointVars, ownerVars, clientVars, TypeOK,
         SessionTypeOK, BreakpointTypeOK, OwnerTypeOK, ClientTypeOK
<1>2. TypeOK /\ [Next]_vars => TypeOK'
  BY <1>1, BeginType, FinishType, RunType, PauseType DEF Next, Owner
<1>. QED
  BY InitType, <1>2, PTL DEF Spec

-----------------------------------------------------------------------------
(***************************************************************************)
(* Safety of a session.                                                    *)
(***************************************************************************)

\* Only a session starts, runs, pauses or resumes.
PauseHasSession == state \notin {"detached", "terminated"} => attached

PauseRequestCurrent == pauseReq <=> state = "pauseRequested"

SessionInv ==
    /\ TypeOK
    /\ PauseHasSession
    /\ CommandRunsInItsPause
    /\ TerminateOnlyIfTerminated
    /\ FlagsCurrent

status == <<state, attached, pauseReq, termReq, gen, queue>>

\* A step that has nothing to do with the status, the queue, or the command
\* being executed.
Aside ==
    /\ UNCHANGED status
    /\ pc' = "execute" => pc = "execute" /\ current' = current

LEMMA ClientAside ==
  ASSUME NEW c \in Clients,
         \/ \E b \in BOOLEAN : SetExceptionBreakpoints(c, b) \/ SetBreakpoints(c, b)
         \/ Finish(c)
  PROVE  Aside
<1>. USE DEF Aside, status, sessionVars, ownerVars
<1>1. ASSUME NEW b \in BOOLEAN, SetExceptionBreakpoints(c, b) PROVE Aside
  BY <1>1 DEF SetExceptionBreakpoints
<1>2. ASSUME NEW b \in BOOLEAN, SetBreakpoints(c, b) PROVE Aside
  BY <1>2 DEF SetBreakpoints
<1>3. CASE BreakpointsSet(c)
  BY <1>3 DEF BreakpointsSet
<1>4. CASE Notify(c)
  BY <1>4 DEF Notify
<1>5. CASE Answered(c)
  BY <1>5 DEF Answered
<1>. QED
  BY <1>1, <1>2, <1>3, <1>4, <1>5 DEF Finish

LEMMA OwnerAside ==
  ASSUME \/ Start \/ Fetch \/ Probe \/ MatchBreakpoints \/ MatchStep
         \/ Throw \/ Rethrow \/ Catch \/ Load \/ Bound \/ Execute
         \/ Enter \/ Announce \/ WakeUp
  PROVE  Aside
<1>. USE DEF Aside, status, sessionVars, Goto, Safepoint
<1>1. CASE Start \/ Fetch \/ Probe \/ MatchBreakpoints
  BY <1>1 DEF Start, Fetch, Probe, MatchBreakpoints
<1>2. CASE MatchStep
  BY <1>2 DEF MatchStep
<1>3. CASE Throw \/ Rethrow
  BY <1>3 DEF Throw, Rethrow, ThrowThroughFrame
<1>4. CASE Catch \/ Bound \/ Execute \/ Announce \/ WakeUp
  BY <1>4 DEF Catch, Bound, Execute, Announce, WakeUp
<1>5. CASE Load
  <2>1. Goto("bound") \/ Goto("lua")
    BY <1>5 DEF Load
  <2>. QED
    BY <1>5, <2>1 DEF Load
<1>6. CASE Enter
  BY <1>6 DEF Enter, Stop, Return
<1>. QED
  BY <1>1, <1>2, <1>3, <1>4, <1>5, <1>6

\* The actions that matter to the status of a session.
Change(c) ==
    \/ Attach(c) \/ ConfigurationDone(c) \/ Pause(c) \/ Terminate(c)
    \/ \E mode \in {"none", "pending"} : Resume(c, mode)
    \/ \E b \in BOOLEAN : Disconnect(c, b)
    \/ Inspect(c) \/ TimedOut(c)

LEMMA StepKinds ==
  ASSUME Next
  PROVE  \/ Aside
         \/ \E c \in Clients : Change(c)
         \/ Suspend \/ Wait \/ ExecuteCommand \/ Leave \/ ProgramTerminated
<1>1. ASSUME NEW c \in Clients, Begin(c) \/ Finish(c) \/ TimedOut(c)
      PROVE  Aside \/ Change(c)
  BY <1>1, ClientAside DEF Begin, Change
<1>. QED
  BY <1>1, OwnerAside DEF Next, Owner

\* The state machine of DebugSessionState and its two requests.
LEMMA StatusStep ==
  ASSUME SessionInv, Next
  PROVE  PauseHasSession' /\ TerminateOnlyIfTerminated' /\ PauseRequestCurrent'
<1>. USE DEF PauseHasSession, TerminateOnlyIfTerminated, PauseRequestCurrent
<1>0. PauseHasSession /\ TerminateOnlyIfTerminated /\ PauseRequestCurrent
  BY DEF SessionInv, FlagsCurrent
<1>1. CASE UNCHANGED <<state, attached, pauseReq, termReq>>
  BY <1>0, <1>1
<1>2. ASSUME NEW c \in Clients, Change(c)
      PROVE  PauseHasSession' /\ TerminateOnlyIfTerminated' /\ PauseRequestCurrent'
  <2>1. CASE Attach(c)
    BY <2>1 DEF Attach
  <2>2. CASE ConfigurationDone(c)
    BY <1>0, <2>2 DEF ConfigurationDone
  <2>3. CASE Pause(c)
    BY <1>0, <2>3 DEF Pause
  <2>4. CASE Terminate(c)
    BY <2>4 DEF Terminate
  <2>5. ASSUME NEW mode \in {"none", "pending"}, Resume(c, mode)
        PROVE  PauseHasSession' /\ TerminateOnlyIfTerminated' /\ PauseRequestCurrent'
    BY <1>0, <2>5 DEF Resume
  <2>6. ASSUME NEW b \in BOOLEAN, Disconnect(c, b)
        PROVE  PauseHasSession' /\ TerminateOnlyIfTerminated' /\ PauseRequestCurrent'
    BY <2>6 DEF Disconnect
  <2>7. CASE Inspect(c) \/ TimedOut(c)
    BY <1>1, <2>7 DEF Inspect, TimedOut
  <2>. QED
    BY <1>2, <2>1, <2>2, <2>3, <2>4, <2>5, <2>6, <2>7 DEF Change
<1>3. CASE Suspend
  BY <1>0, <1>1, <1>3 DEF Suspend, sessionVars
<1>4. CASE Wait
  BY <1>1, <1>4 DEF Wait, sessionVars
<1>5. CASE ExecuteCommand
  BY <1>1, <1>5 DEF ExecuteCommand, sessionVars
<1>6. CASE Leave
  BY <1>0, <1>6 DEF Leave
<1>7. CASE ProgramTerminated
  BY <1>7 DEF ProgramTerminated
<1>8. CASE Aside
  BY <1>1, <1>8 DEF Aside, status
<1>. QED
  BY <1>2, <1>3, <1>4, <1>5, <1>6, <1>7, <1>8, StepKinds

\* No command outlives the pause it was asked for.
LEMMA QueueStep ==
  ASSUME SessionInv, Next
  PROVE  CommandRunsInItsPause'
<1>. USE DEF CommandRunsInItsPause
<1>0. /\ CommandRunsInItsPause /\ TypeOK /\ PauseHasSession
      /\ queue \in Seq(Command) /\ current \in Command \cup {NONE}
  BY DEF SessionInv, TypeOK, SessionTypeOK, OwnerTypeOK
<1>1. CASE Aside
  BY <1>0, <1>1 DEF Aside, status
<1>2. ASSUME queue' = <<>>, UNCHANGED <<pc, current, gen>>
      PROVE  CommandRunsInItsPause'
  BY <1>0, <1>2
<1>3. ASSUME state # "suspended", queue' = queue, UNCHANGED <<pc, current, gen>>
      PROVE  CommandRunsInItsPause'
  BY <1>0, <1>3
<1>4. ASSUME NEW c \in Clients, Change(c)
      PROVE  CommandRunsInItsPause'
  <2>1. CASE Attach(c)
    BY <1>0, <1>3, <2>1 DEF Attach, ownerVars, PauseHasSession
  <2>2. CASE ConfigurationDone(c) \/ Pause(c)
    BY <1>3, <2>2 DEF ConfigurationDone, Pause, ownerVars
  <2>3. CASE Terminate(c)
    BY <1>2, <2>3 DEF Terminate, Cancel, ownerVars
  <2>4. ASSUME NEW mode \in {"none", "pending"}, Resume(c, mode)
        PROVE  CommandRunsInItsPause'
    BY <1>2, <2>4 DEF Resume, Cancel, ownerVars
  <2>5. ASSUME NEW b \in BOOLEAN, Disconnect(c, b)
        PROVE  CommandRunsInItsPause'
    BY <1>2, <2>5 DEF Disconnect, Cancel, ownerVars
  <2>6. CASE Inspect(c)
    <3>1. /\ Len(queue') = Len(queue) + 1 /\ Len(queue) \in Nat
          /\ queue'[Len(queue) + 1] = [by |-> c, gen |-> gen]
          /\ \A i \in 1 .. Len(queue) : queue'[i] = queue[i]
      BY <1>0, <2>6 DEF Inspect
    <3>2. gen' = gen /\ state' = state /\ state = "suspended"
      BY <2>6 DEF Inspect
    <3>3. \A i \in 1 .. Len(queue') : queue'[i].gen = gen'
      BY <1>0, <3>1, <3>2
    <3>. QED
      BY <1>0, <2>6, <3>2, <3>3 DEF Inspect, ownerVars
  <2>7. CASE TimedOut(c)
    <3>1. /\ Len(queue') = Len(queue) /\ Len(queue) \in Nat
          /\ \A i \in 1 .. Len(queue) : queue'[i].gen = queue[i].gen
          /\ queue' \in Seq(Command)
          /\ current # NONE => current'.gen = current.gen
      <4>1. Len(queue) \in Nat
        BY <1>0
      <4>. QED
        BY <1>0, <2>7, <4>1, TimedOutFacts
    <3>2. gen' = gen /\ state' = state /\ pc' = pc
          /\ (current = NONE => current' = current)
      BY <2>7 DEF TimedOut
    <3>3. queue' # <<>> => state' = "suspended"
      BY <1>0, <3>1, <3>2
    <3>4. \A i \in 1 .. Len(queue') : queue'[i].gen = gen'
      BY <1>0, <3>1, <3>2
    <3>5. pc' = "execute" => current'.gen = gen'
      BY <1>0, <3>1, <3>2
    <3>. QED
      BY <3>3, <3>4, <3>5
  <2>. QED
    BY <1>4, <2>1, <2>2, <2>3, <2>4, <2>5, <2>6, <2>7 DEF Change
<1>5. CASE Suspend
  <2>1. CASE UNCHANGED sessionVars
    BY <1>0, <1>5, <2>1 DEF Suspend, Stop, Return, sessionVars
  <2>2. CASE ~UNCHANGED sessionVars
    <3>1. /\ state \in {"pauseRequested", "running"} /\ pc' = "announce"
          /\ queue' = queue
      BY <1>5, <2>2 DEF Suspend
    <3>2. queue = <<>>
      BY <1>0, <3>1
    <3>. QED
      BY <3>1, <3>2
  <2>. QED
    BY <2>1, <2>2
<1>6. CASE Wait
  <2>1. CASE UNCHANGED <<state, gen, queue>> /\ pc' # "execute"
    BY <1>0, <2>1
  <2>2. CASE queue # <<>> /\ queue' = Tail(queue) /\ current' = Head(queue)
             /\ UNCHANGED <<state, gen>>
    <3>1. /\ Len(queue) \in Nat /\ Len(queue) > 0 /\ Len(queue') = Len(queue) - 1
          /\ \A i \in 1 .. Len(queue') : queue'[i] = queue[i + 1]
          /\ current' = queue[1]
      BY <1>0, <2>2
    <3>2. current'.gen = gen'
      BY <1>0, <2>2, <3>1
    <3>3. \A i \in 1 .. Len(queue') : queue'[i].gen = gen'
      BY <1>0, <2>2, <3>1
    <3>. QED
      BY <1>0, <2>2, <3>2, <3>3
  <2>. QED
    BY <1>6, <2>1, <2>2 DEF Wait, Goto, sessionVars
<1>7. CASE ExecuteCommand
  BY <1>0, <1>7 DEF ExecuteCommand, sessionVars
<1>8. CASE Leave
  <2>1. UNCHANGED <<gen, queue>> /\ pc' # "execute"
    BY <1>8 DEF Leave, Stop, Return
  <2>2. state' = state \/ state = "resumeRequested"
    BY <1>8 DEF Leave
  <2>. QED
    BY <1>0, <2>1, <2>2
<1>9. CASE ProgramTerminated
  BY <1>2, <1>9 DEF ProgramTerminated, Cancel, ownerVars
<1>. QED
  BY <1>1, <1>4, <1>5, <1>6, <1>7, <1>8, <1>9, StepKinds

\* Some client has changed the breakpoints and has yet to refresh the flags.
Stale == pc = "bound" \/ \E c \in Clients : call[c] = "refresh"

FlagsMatch == flags = FlagsOf(pauseReq, termReq, hits, step)

\* A step that does not touch what the flags stand for.
LEMMA FlagsKept ==
  ASSUME Stale \/ FlagsMatch, UNCHANGED <<flags, pauseReq, termReq, hits, step>>,
         Stale => Stale'
  PROVE  Stale' \/ FlagsMatch'
BY DEF FlagsMatch

\* The fast path of the VM sees every request.
LEMMA FlagsStep ==
  ASSUME SessionInv, Next
  PROVE  Stale' \/ FlagsMatch'
<1>0. Stale \/ FlagsMatch
  BY DEF SessionInv, FlagsCurrent, Stale, FlagsMatch
<1>1. call \in [Clients -> {"idle", "refresh", "notify", "submit", "await"}]
  BY DEF SessionInv, TypeOK, ClientTypeOK
<1>2. Refresh => FlagsMatch'
  BY DEF Refresh, FlagsMatch
<1>3. ASSUME UNCHANGED <<flags, pauseReq, termReq, hits, step, call>>,
             pc = "bound" => pc' = "bound"
      PROVE  Stale' \/ FlagsMatch'
  BY <1>0, <1>3, FlagsKept DEF Stale
<1>4. ASSUME UNCHANGED <<flags, pauseReq, termReq, hits, step>>,
             pc = "bound" => pc' = "bound",
             NEW c \in Clients, call[c] # "refresh",
             NEW x, call' = [call EXCEPT ![c] = x]
      PROVE  Stale' \/ FlagsMatch'
  <2>1. \A d \in Clients : call[d] = "refresh" => call'[d] = "refresh"
    BY <1>1, <1>4
  <2>. QED
    BY <1>0, <1>4, <2>1, FlagsKept DEF Stale
<1>5. ASSUME NEW c \in Clients, Begin(c) \/ Finish(c) \/ TimedOut(c)
      PROVE  Stale' \/ FlagsMatch'
  <2>1. CASE Attach(c) \/ Pause(c) \/ Terminate(c) \/ BreakpointsSet(c)
    BY <1>2, <2>1 DEF Attach, Pause, Terminate, BreakpointsSet
  <2>2. ASSUME NEW mode \in {"none", "pending"}, Resume(c, mode) PROVE FlagsMatch'
    BY <1>2, <2>2 DEF Resume
  <2>3. ASSUME NEW b \in BOOLEAN, Disconnect(c, b) PROVE FlagsMatch'
    BY <1>2, <2>3 DEF Disconnect
  <2>4. ASSUME NEW b \in BOOLEAN, SetBreakpoints(c, b) PROVE Stale'
    BY <1>1, <2>4 DEF SetBreakpoints, Stale
  <2>5. ASSUME NEW b \in BOOLEAN, SetExceptionBreakpoints(c, b)
        PROVE  Stale' \/ FlagsMatch'
    BY <1>3, <2>5 DEF SetExceptionBreakpoints, sessionVars, breakpointVars, ownerVars,
       clientVars
  <2>6. CASE ConfigurationDone(c)
    BY <1>4, <2>6 DEF ConfigurationDone, ThenNotify, breakpointVars, ownerVars
  <2>7. CASE Inspect(c)
    BY <1>4, <2>7 DEF Inspect, breakpointVars, ownerVars
  <2>8. CASE Notify(c)
    BY <1>4, <2>8 DEF Notify, sessionVars, breakpointVars
  <2>9. CASE Answered(c)
    BY <1>4, <2>9 DEF Answered, sessionVars, breakpointVars, ownerVars
  <2>10. CASE TimedOut(c)
    BY <1>4, <2>10 DEF TimedOut, breakpointVars
  <2>. QED
    BY <1>5, <2>1, <2>2, <2>3, <2>4, <2>5, <2>6, <2>7, <2>8, <2>9, <2>10
       DEF Begin, Finish
<1>6. CASE Start \/ Owner \/ WakeUp \/ ProgramTerminated
  <2>. USE DEF Goto, Safepoint, Return, Stop, sessionVars, notOwner, exceptionVars,
               breakpointVars, clientVars
  <2>1. CASE MatchStep \/ Bound \/ ProgramTerminated
    BY <1>2, <2>1 DEF MatchStep, Bound, ProgramTerminated
  <2>2. CASE Start \/ Fetch \/ Probe \/ MatchBreakpoints
    BY <1>3, <2>2 DEF Start, Fetch, Probe, MatchBreakpoints
  <2>3. CASE Throw \/ Rethrow
    BY <1>3, <2>3 DEF Throw, Rethrow, ThrowThroughFrame
  <2>4. CASE Catch \/ Execute \/ Announce \/ WakeUp
    BY <1>3, <2>4 DEF Catch, Execute, Announce, WakeUp
  <2>5. CASE Load
    <3>1. CASE pc' = "bound"
      BY <3>1 DEF Stale
    <3>2. CASE pc' # "bound"
      <4>1. hits' = hits /\ pc # "bound"
        BY <2>5, <3>2 DEF Load
      <4>. QED
        BY <1>3, <2>5, <4>1 DEF Load
    <3>. QED
      BY <3>1, <3>2
  <2>6. CASE Enter \/ Leave \/ ExecuteCommand
    BY <1>3, <2>6 DEF Enter, Leave, ExecuteCommand
  <2>7. CASE Suspend
    <3>1. Refresh \/ (UNCHANGED <<sessionVars, flags, hits, call>> /\ pc # "bound")
      BY <2>7 DEF Suspend
    <3>. QED
      BY <1>2, <1>3, <3>1
  <2>8. CASE Wait
    <3>1. \/ Refresh
          \/ UNCHANGED <<pauseReq, termReq, step, flags, hits, call>> /\ pc # "bound"
      BY <2>8 DEF Wait
    <3>. QED
      BY <1>2, <1>3, <3>1
  <2>. QED
    BY <1>6, <2>1, <2>2, <2>3, <2>4, <2>5, <2>6, <2>7, <2>8 DEF Owner
<1>. QED
  BY <1>5, <1>6 DEF Next

LEMMA SessionInit == Init => SessionInv
<1>. SUFFICES ASSUME Init PROVE SessionInv
  OBVIOUS
<1>1. TypeOK
  BY InitType
<1>2. PauseHasSession /\ TerminateOnlyIfTerminated
  BY DEF Init, PauseHasSession, TerminateOnlyIfTerminated
<1>3. CommandRunsInItsPause
  <2>1. queue = <<>> /\ Len(queue) = 0 /\ pc = "idle"
    BY DEF Init
  <2>. QED
    BY <2>1 DEF CommandRunsInItsPause
<1>4. FlagsCurrent
  <2>1. FlagsOf(FALSE, FALSE, FALSE, "none") = {}
    BY DEF FlagsOf
  <2>2. FlagsOf(pauseReq, termReq, hits, step) = {}
    BY <2>1 DEF Init
  <2>. QED
    BY <2>2 DEF Init, FlagsCurrent
<1>. QED
  BY <1>1, <1>2, <1>3, <1>4 DEF SessionInv

LEMMA SessionStep ==
  ASSUME SessionInv, [Next]_vars
  PROVE  SessionInv'
<1>1. CASE Next
  <2>1. TypeOK'
    BY <1>1, BeginType, FinishType, RunType, PauseType DEF Next, Owner, SessionInv
  <2>2. FlagsCurrent'
    BY <1>1, StatusStep, FlagsStep DEF FlagsCurrent, PauseRequestCurrent, Stale, FlagsMatch
  <2>. QED
    BY <1>1, <2>1, <2>2, StatusStep, QueueStep DEF SessionInv
<1>2. CASE UNCHANGED vars
  BY <1>2 DEF vars, sessionVars, exceptionVars, breakpointVars, ownerVars, clientVars,
     SessionInv, TypeOK, SessionTypeOK, BreakpointTypeOK, OwnerTypeOK, ClientTypeOK,
     PauseHasSession, CommandRunsInItsPause, TerminateOnlyIfTerminated, FlagsCurrent
<1>. QED
  BY <1>1, <1>2

\* No command with identifiers of an earlier pause reaches the inspector
\* (enqueueOwnerCommand and cancelCommandsLocked).
THEOREM QueueSafety == Spec => []CommandRunsInItsPause
<1>1. SessionInv => CommandRunsInItsPause
  BY DEF SessionInv
<1>. QED
  BY <1>1, SessionInit, SessionStep, PTL DEF Spec

\* A script is only stopped in a session that has been terminated
\* (waitForSafepointRequest reads terminateRequested without the mutex).
THEOREM TerminationSafety == Spec => []TerminateOnlyIfTerminated
<1>1. SessionInv => TerminateOnlyIfTerminated
  BY DEF SessionInv
<1>. QED
  BY <1>1, SessionInit, SessionStep, PTL DEF Spec

\* The flags that the VM loop reads are those of the requests
\* (refreshInstructionFlags).
THEOREM FlagsSafety == Spec => []FlagsCurrent
<1>1. SessionInv => FlagsCurrent
  BY DEF SessionInv
<1>. QED
  BY <1>1, SessionInit, SessionStep, PTL DEF Spec

=============================================================================
