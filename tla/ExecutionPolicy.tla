--------------------------- MODULE ExecutionPolicy ---------------------------
(***************************************************************************)
(* The execution policy of a runtime context, execution_policy.hpp, with   *)
(* everything that uses it: the host, which begins a window of execution   *)
(* with its limits; the VM and native functions, which take from them; an  *)
(* exception that unwinds to the innermost protected call and may be       *)
(* caught there; the debugger's console, which evaluates an expression in  *)
(* the middle of the program, under limits of its own in the same policy;  *)
(* another thread, which cancels; and the clock.                           *)
(*                                                                         *)
(* The limits on finalizers are ObjectList's and GC's matter.              *)
(***************************************************************************)
EXTENDS Naturals

CONSTANTS
    Unlimited,          \* the greatest value of the counters' type: no limit
    ConsoleBudget,      \* limits_.maxSideEffectInstructions
    MaxTime,            \* bound: ticks of the clock
    MaxUnits,           \* bound: units of native work asked for at once
    MaxDepth,           \* bound: protected calls in one another
    Windows,            \* bound: windows of execution
    Consoles            \* bound: evaluations of the debugger's console

ASSUME ExecutionPolicyAssumption ==
    /\ Unlimited \in Nat /\ ConsoleBudget \in Nat /\ ConsoleBudget < Unlimited
    /\ MaxTime \in Nat /\ MaxUnits \in Nat /\ MaxDepth \in Nat
    /\ Windows \in Nat /\ Consoles \in Nat

VARIABLES
    policy,     \* the fields of ExecutionPolicy
    requested,  \* cancellationState_->requested
    now,        \* steady_clock
    place,      \* where the owner is: "host", "lua", "compiling" (for the console), "console"
    depth,      \* protected calls around the running code
    thrown,     \* why an exception is on its way: Quiet, "error" or a stop reason
    saved,      \* what the console puts back: the limits, and where the program was
    budget,     \* history: the limits of this window
    used,       \* history: what the program has taken of them, and the console
    left        \* windows and evaluations that the bounds leave

vars == <<policy, requested, now, place, depth, thrown, saved, budget, used, left>>

Count == 0 .. Unlimited
NoDeadline == MaxTime + 1
Time == 0 .. NoDeadline
Reasons == {"cancelled", "deadline", "instructions", "work"}
Quiet == "quiet"

Limits == [instr : Count, work : Count, deadline : Time]
NoLimits == [instr |-> Unlimited, work |-> Unlimited, deadline |-> NoDeadline]

\* configure; it also clears requested.
Configured(limits) ==
    [instr |-> limits.instr, initialInstr |-> limits.instr,
     work |-> limits.work, initialWork |-> limits.work,
     deadline |-> limits.deadline, last |-> Quiet]

NothingUsed == [instr |-> 0, work |-> 0, console |-> 0, asked |-> FALSE]
NothingSaved == [limits |-> NoLimits, depth |-> 0, thrown |-> Quiet]

Init ==
    /\ policy = Configured(NoLimits) /\ requested = FALSE /\ now = 0
    /\ place = "host" /\ depth = 0 /\ thrown = Quiet
    /\ saved = NothingSaved
    /\ budget = NoLimits /\ used = NothingUsed
    /\ left = [windows |-> Windows, consoles |-> Consoles]

------------------------------------------------------------------------------
(* The policy *)

pollStopLate ==
    IF requested THEN "cancelled"
    ELSE IF policy.deadline # NoDeadline /\ now > policy.deadline THEN "deadline"
    ELSE Quiet
pollStop ==
    IF requested THEN "cancelled"
    ELSE IF policy.deadline # NoDeadline /\ now >= policy.deadline THEN "deadline"
    ELSE Quiet

InstructionStopNever == pollStop
\* Why consumeInstruction refuses the next instruction, if it does.
InstructionStop ==
    IF pollStop # Quiet THEN pollStop
    ELSE IF policy.instr = 0 /\ policy.instr # Unlimited THEN "instructions"
    ELSE Quiet
WorkStop(units) ==
    IF pollStop # Quiet THEN pollStop
    ELSE IF policy.work # Unlimited /\ units > policy.work THEN "work"
    ELSE Quiet

Less(n, units) == IF n = Unlimited THEN n ELSE n - units
Stopped(reason) == [policy EXCEPT !.last = reason]
AfterInstruction ==
    IF InstructionStop = Quiet THEN [policy EXCEPT !.instr = Less(@, 1)] ELSE Stopped(InstructionStop)
AfterWork(units) ==
    IF WorkStop(units) = "work" THEN [Stopped("work") EXCEPT !.work = 0]
    ELSE IF WorkStop(units) = Quiet THEN [policy EXCEPT !.work = Less(@, units)]
    ELSE Stopped(WorkStop(units))

------------------------------------------------------------------------------
(* The host *)

\* lua_runtime_begin_execution, configure, reset: never while Lua runs.
BeginWindow(limits) ==
    /\ place = "host" /\ left.windows > 0
    /\ policy' = Configured(limits) /\ requested' = FALSE
    /\ budget' = limits /\ used' = NothingUsed
    /\ left' = [left EXCEPT !.windows = @ - 1]
    /\ UNCHANGED <<now, place, depth, thrown, saved>>
clearCancellation ==
    /\ place = "host"
    /\ requested' = FALSE /\ used' = [used EXCEPT !.asked = FALSE]
    /\ UNCHANGED <<policy, now, place, depth, thrown, saved, budget, left>>
\* Calls in the same window go on with what it has left.
CallLua ==
    /\ place = "host"
    /\ place' = "lua" /\ depth' = 0 /\ thrown' = Quiet
    /\ UNCHANGED <<policy, requested, now, saved, budget, used, left>>

------------------------------------------------------------------------------
(* The running code: the program, or the expression of the console *)

Running == place \in {"lua", "console"} /\ thrown = Quiet

\* What an instruction that was granted does: nothing that matters, enter a
\* protected call, return from one, raise an error, or return from the outermost call.
Does(effect) ==
    \/ effect = "plain" /\ UNCHANGED <<place, depth, thrown>>
    \/ effect = "pcall" /\ depth < MaxDepth /\ depth' = depth + 1 /\ UNCHANGED <<place, thrown>>
    \/ effect = "return" /\ depth > 0 /\ depth' = depth - 1 /\ UNCHANGED <<place, thrown>>
    \/ effect = "finish" /\ depth = 0 /\ place = "lua" /\ place' = "host" /\ UNCHANGED <<depth, thrown>>
    \/ effect = "error" /\ thrown' = "error" /\ UNCHANGED <<place, depth>>
Effects == {"plain", "pcall", "return", "finish", "error"}

\* The histories count what is limited.
Executed ==
    IF place = "console" THEN [used EXCEPT !.console = @ + 1]
    ELSE IF budget.instr # Unlimited THEN [used EXCEPT !.instr = @ + 1]
    ELSE used
Worked(units) ==
    IF place = "lua" /\ budget.work # Unlimited THEN [used EXCEPT !.work = @ + units] ELSE used
Instruction ==
    /\ Running
    /\ policy' = AfterInstruction
    /\ \/ /\ InstructionStop = Quiet
          /\ \E effect \in Effects : Does(effect)
          /\ used' = Executed
       \/ /\ InstructionStop # Quiet
          /\ thrown' = InstructionStop
          /\ UNCHANGED <<place, depth, used>>
    /\ UNCHANGED <<requested, now, saved, budget, left>>

\* LuaState::consumeNativeWork raises; a compilation that the policy stops is
\* a syntax error instead, which load returns to the program.
NativeWork(units, raises) ==
    /\ Running
    /\ policy' = AfterWork(units)
    /\ used' = IF WorkStop(units) = Quiet THEN Worked(units) ELSE used
    /\ thrown' = IF raises THEN WorkStop(units) ELSE thrown
    /\ UNCHANGED <<requested, now, place, depth, saved, budget, left>>
\* lua_checkexecution, between two slices of a native function
CheckExecution ==
    /\ Running /\ pollStop # Quiet
    /\ policy' = Stopped(pollStop) /\ thrown' = pollStop
    /\ UNCHANGED <<requested, now, place, depth, saved, budget, used, left>>
UnwindRetries ==
    /\ place = "lua" \/ (place = "console" /\ depth > 0)
    /\ thrown # Quiet
    /\ thrown' = Quiet
    /\ IF depth > 0 THEN UNCHANGED <<depth, place>> ELSE place' = "host" /\ UNCHANGED depth
    /\ UNCHANGED <<policy, requested, now, saved, budget, used, left>>
\* The exception reaches the innermost protected call, the host's included.
Unwind ==
    /\ place = "lua" \/ (place = "console" /\ depth > 0)
    /\ thrown # Quiet
    /\ thrown' = Quiet
    /\ IF depth > 0 THEN depth' = depth - 1 /\ UNCHANGED place ELSE place' = "host" /\ UNCHANGED depth
    /\ UNCHANGED <<policy, requested, now, saved, budget, used, left>>

------------------------------------------------------------------------------
(* evaluateWithSideEffects, at a safepoint or where an exception stopped *)

OpenConsole ==
    /\ place = "lua" /\ left.consoles > 0
    /\ place' = "compiling" /\ thrown' = Quiet
    /\ saved' = [limits |-> [instr |-> policy.instr, work |-> policy.work, deadline |-> policy.deadline],
                 depth |-> depth, thrown |-> thrown]
    /\ left' = [left EXCEPT !.consoles = @ - 1]
    /\ UNCHANGED <<policy, requested, now, depth, budget, used>>
\* The parser takes its native work from the program's, until the guard puts it back.
CompileConsole(units) ==
    /\ place = "compiling"
    /\ policy' = AfterWork(units)
    /\ IF WorkStop(units) = Quiet THEN UNCHANGED <<place, depth, thrown>>
       ELSE place' = "console" /\ depth' = 0 /\ thrown' = "error"
    /\ used' = [used EXCEPT !.console = 0]
    /\ UNCHANGED <<requested, now, saved, budget, left>>
\* The deadline of the console, now + limits_.sideEffectTimeoutMs, is one tick away.
Sooner(a, b) == IF a < b THEN a ELSE b
ConsoleLimits ==
    [saved.limits EXCEPT !.instr = Sooner(@, ConsoleBudget), !.deadline = Sooner(@, now + 1)]
Evaluate ==
    /\ place = "compiling"
    /\ policy' = Configured(ConsoleLimits) /\ requested' = FALSE
    /\ place' = "console" /\ depth' = 0
    /\ used' = [used EXCEPT !.console = 0]
    /\ UNCHANGED <<now, thrown, saved, budget, left>>
CloseConsoleHalfway ==
    /\ place = "console" /\ depth = 0
    /\ policy' = IF thrown = Quiet THEN Configured(saved.limits) ELSE [policy EXCEPT !.last = Quiet]
    /\ requested' = FALSE
    /\ place' = "lua" /\ depth' = saved.depth /\ thrown' = saved.thrown
    /\ saved' = NothingSaved
    /\ UNCHANGED <<now, budget, used, left>>
\* ~EvaluationGuard, after a result, an error or a rejected expression.
CloseConsole ==
    /\ place = "console" /\ depth = 0
    /\ policy' = Configured(saved.limits) /\ requested' = FALSE
    /\ place' = "lua" /\ depth' = saved.depth /\ thrown' = saved.thrown
    /\ saved' = NothingSaved
    /\ UNCHANGED <<now, budget, used, left>>
------------------------------------------------------------------------------
(* Everyone else *)

requestCancellation ==
    /\ ~requested
    /\ requested' = TRUE /\ used' = [used EXCEPT !.asked = TRUE]
    /\ UNCHANGED <<policy, now, place, depth, thrown, saved, budget, left>>
Tick ==
    /\ now < MaxTime
    /\ now' = now + 1
    /\ UNCHANGED <<policy, requested, place, depth, thrown, saved, budget, used, left>>

Console == OpenConsole \/ Evaluate \/ CloseConsole \/ \E units \in 1 .. MaxUnits : CompileConsole(units)
Code ==
    \/ Instruction \/ CheckExecution \/ Unwind
    \/ \E units \in 1 .. MaxUnits, raises \in BOOLEAN : NativeWork(units, raises)
Host == CallLua \/ clearCancellation \/ \E limits \in Limits : BeginWindow(limits)

Next == Host \/ Code \/ Console \/ requestCancellation \/ Tick

Spec == Init /\ [][Next]_vars

\* The VM goes on, native functions return, and the console is left in the end.
Fairness == WF_vars(Instruction) /\ WF_vars(Unwind) /\ WF_vars(Evaluate) /\ WF_vars(CloseConsole)
FairSpec == Spec /\ Fairness

------------------------------------------------------------------------------
(* Properties *)

TypeOK ==
    /\ policy \in [instr : Count, initialInstr : Count, work : Count, initialWork : Count,
                  deadline : Time, last : Reasons \cup {Quiet}]
    /\ requested \in BOOLEAN /\ now \in 0 .. MaxTime
    /\ place \in {"host", "lua", "compiling", "console"}
    /\ depth \in 0 .. MaxDepth
    /\ thrown \in Reasons \cup {Quiet, "error"}
    /\ saved \in [limits : Limits, depth : 0 .. MaxDepth, thrown : Reasons \cup {Quiet, "error"}]
    /\ budget \in Limits
    /\ used \in [instr : Nat, work : Nat, console : Nat, asked : BOOLEAN]
    /\ left \in [windows : Nat, consoles : Nat]

\* What the program has left, also while the console has the policy.
Left == IF place \in {"compiling", "console"} THEN saved.limits
        ELSE [instr |-> policy.instr, work |-> policy.work, deadline |-> policy.deadline]

\* A window of N instructions allows exactly N, however they are spread over
\* calls, caught errors and evaluations of the console in between; native work
\* never exceeds its limit; the console stays within its own.
WithinBudget ==
    /\ IF budget.instr = Unlimited THEN Left.instr = Unlimited ELSE used.instr + Left.instr = budget.instr
    /\ IF budget.work = Unlimited THEN Left.work = Unlimited ELSE used.work + Left.work <= budget.work
    /\ Left.deadline = budget.deadline
    /\ place = "console" => used.console <= ConsoleBudget

\* The window is over: its instructions are used, or its deadline has passed.
Over == \/ budget.instr # Unlimited /\ used.instr >= budget.instr
        \/ budget.deadline # NoDeadline /\ now >= budget.deadline

\* After the end of its window the program executes nothing, and only the
\* host begins another one.
NothingAfterTheEnd == [][Over /\ left'.windows = left.windows => used'.instr = used.instr]_vars

\* However it catches errors, a program whose window is over returns to the
\* host; and the console is left.
StopsReachHost ==
    /\ place = "lua" /\ Over ~> place = "host"
    /\ place = "console" ~> place # "console"

\* A program that was cancelled executes nothing.
CancellationHeeded == [][used.asked /\ used'.asked => used'.instr = used.instr]_vars

\* What lua_runtime_get_metrics reports is this window.
MetricsOfTheWindow ==
    place = "host" /\ budget.instr # Unlimited =>
        policy.initialInstr = budget.instr /\ policy.initialInstr - policy.instr = used.instr

\* An ordinary error is not reported as a limit that was reached, or as a
\* cancellation: the debugger takes the category from lastStopReason.
ErrorsAreErrors == place = "lua" /\ thrown = "error" => policy.last = Quiet
=============================================================================
