----------------------- MODULE ExecutionPolicyProofs -----------------------
(***************************************************************************)
(* What the execution policy guarantees for all limits and bounds: a       *)
(* window never gives the program more than its budget, and nothing runs   *)
(* after its end, whatever errors are caught and whatever the debugger's   *)
(* console evaluates in between.                                           *)
(***************************************************************************)
EXTENDS ExecutionPolicy, TLAPS

\* The console's instructions are bounded by what its own policy has left; if
\* its expression was rejected, it closes without one.
ConsoleWithinBudget ==
    place = "console" =>
        \/ used.console + policy.instr <= ConsoleBudget
        \/ used.console = 0 /\ depth = 0 /\ thrown # Quiet

\* The inductive invariant
IInv == TypeOK /\ WithinBudget /\ ConsoleWithinBudget

USE ExecutionPolicyAssumption

LEMMA ConfiguredType ==
    ASSUME NEW limits \in Limits
    PROVE  /\ Configured(limits) \in [instr : Count, initialInstr : Count, work : Count, initialWork : Count,
                                       deadline : Time, last : Reasons \cup {Quiet}]
           /\ Configured(limits).instr = limits.instr
           /\ Configured(limits).work = limits.work
           /\ Configured(limits).deadline = limits.deadline
BY DEF Configured, Limits, Count, Time, Reasons

LEMMA InitIInv == Init => IInv
<1> SUFFICES ASSUME Init PROVE IInv
    OBVIOUS
<1>1. NoLimits \in Limits
    BY DEF NoLimits, Limits, Count, Time, NoDeadline
<1>2. TypeOK
  <2>1. NothingSaved \in [limits : Limits, depth : 0 .. MaxDepth, thrown : Reasons \cup {Quiet, "error"}]
    BY <1>1 DEF NothingSaved
  <2>2. NothingUsed \in [instr : Nat, work : Nat, console : Nat, asked : BOOLEAN]
    BY DEF NothingUsed
  <2>3. depth \in 0 .. MaxDepth /\ now \in 0 .. MaxTime /\ left \in [windows : Nat, consoles : Nat]
    BY DEF Init
  <2> QED
    BY <1>1, <2>1, <2>2, <2>3, ConfiguredType DEF Init, TypeOK
<1>3. WithinBudget
    BY <1>1, ConfiguredType DEF Init, WithinBudget, Left, NoLimits, NothingUsed
<1>4. ConsoleWithinBudget
    BY DEF Init, ConsoleWithinBudget
<1> QED
    BY <1>2, <1>3, <1>4 DEF IInv

\* What the next instruction and a piece of native work leave in the policy
LEMMA InstructionTakesOne ==
    ASSUME TypeOK
    PROVE  /\ InstructionStop \in Reasons \cup {Quiet}
           /\ AfterInstruction \in [instr : Count, initialInstr : Count, work : Count, initialWork : Count,
                                     deadline : Time, last : Reasons \cup {Quiet}]
           /\ AfterInstruction.work = policy.work
           /\ AfterInstruction.deadline = policy.deadline
           /\ InstructionStop # Quiet => AfterInstruction.instr = policy.instr
           /\ InstructionStop = Quiet /\ policy.instr = Unlimited => AfterInstruction.instr = Unlimited
           /\ InstructionStop = Quiet /\ policy.instr # Unlimited =>
                  policy.instr > 0 /\ AfterInstruction.instr = policy.instr - 1
<1>1. pollStop \in Reasons \cup {Quiet}
    BY DEF pollStop, Reasons
<1>2. InstructionStop \in Reasons \cup {Quiet}
    BY <1>1 DEF InstructionStop, Reasons
<1>3. CASE InstructionStop # Quiet
    BY <1>2, <1>3 DEF AfterInstruction, Stopped, TypeOK
<1>4. CASE InstructionStop = Quiet
  <2>1. policy.instr = Unlimited \/ policy.instr > 0
    BY <1>4 DEF InstructionStop, TypeOK, Count, Quiet
  <2>2. Less(policy.instr, 1) \in Count
    BY <2>1 DEF Less, TypeOK, Count
  <2> QED
    BY <1>4, <2>1, <2>2 DEF AfterInstruction, Less, TypeOK, Quiet, Reasons
<1> QED
    BY <1>2, <1>3, <1>4

LEMMA WorkTakesUnits ==
    ASSUME TypeOK, NEW units \in Nat
    PROVE  /\ WorkStop(units) \in Reasons \cup {Quiet}
           /\ AfterWork(units) \in [instr : Count, initialInstr : Count, work : Count, initialWork : Count,
                                     deadline : Time, last : Reasons \cup {Quiet}]
           /\ AfterWork(units).instr = policy.instr
           /\ AfterWork(units).deadline = policy.deadline
           /\ policy.work = Unlimited => AfterWork(units).work = Unlimited
           /\ AfterWork(units).work <= policy.work
           /\ WorkStop(units) = Quiet /\ policy.work # Unlimited =>
                  AfterWork(units).work + units = policy.work
<1>1. pollStop \in Reasons \cup {Quiet}
    BY DEF pollStop, Reasons
<1>2. WorkStop(units) \in Reasons \cup {Quiet}
    BY <1>1 DEF WorkStop, Reasons
<1>3. CASE WorkStop(units) = "work"
  <2>1. policy.work # Unlimited
    BY <1>1, <1>3 DEF WorkStop, pollStop, Quiet
  <2>2. Stopped("work") \in [instr : Count, initialInstr : Count, work : Count, initialWork : Count,
                             deadline : Time, last : Reasons \cup {Quiet}]
        /\ Stopped("work").instr = policy.instr /\ Stopped("work").deadline = policy.deadline
    BY DEF Stopped, TypeOK, Reasons
  <2>3. AfterWork(units) = [Stopped("work") EXCEPT !.work = 0]
    BY <1>3 DEF AfterWork
  <2> QED
    BY <1>2, <1>3, <2>1, <2>2, <2>3 DEF TypeOK, Count, Quiet
<1>4. CASE WorkStop(units) = Quiet
  <2>1. policy.work = Unlimited \/ units <= policy.work
    BY <1>4 DEF WorkStop, TypeOK, Count, Quiet
  <2>2. Less(policy.work, units) \in Count
    BY <2>1 DEF Less, TypeOK, Count
  <2>3. AfterWork(units) = [policy EXCEPT !.work = Less(@, units)]
    BY <1>4 DEF AfterWork, Quiet
  <2>4. Less(policy.work, units) <= policy.work
    BY <2>1 DEF Less, TypeOK, Count
  <2> QED
    BY <1>2, <1>4, <2>1, <2>2, <2>3, <2>4 DEF Less, TypeOK, Count
<1>5. CASE WorkStop(units) \notin {"work", Quiet}
    BY <1>2, <1>5 DEF AfterWork, Stopped, TypeOK, Count
<1> QED
    BY <1>2, <1>3, <1>4, <1>5

\* Every step keeps the invariant.
LEMMA StepIInv == IInv /\ [Next]_vars => IInv'
<1> SUFFICES ASSUME IInv, [Next]_vars PROVE IInv'
    OBVIOUS
<1> USE DEF IInv
<1>1. ASSUME NEW limits \in Limits, BeginWindow(limits) PROVE IInv'
  <2>1. TypeOK'
    <3>1. NothingUsed \in [instr : Nat, work : Nat, console : Nat, asked : BOOLEAN]
      BY DEF NothingUsed
    <3>2. left' \in [windows : Nat, consoles : Nat]
      BY <1>1 DEF BeginWindow, TypeOK
    <3> QED
      BY <1>1, <3>1, <3>2, ConfiguredType DEF BeginWindow, TypeOK
  <2>2. WithinBudget'
    BY <1>1, ConfiguredType DEF BeginWindow, TypeOK, WithinBudget, Left, NothingUsed, Limits, Count
  <2>3. ConsoleWithinBudget'
    BY <1>1 DEF BeginWindow, ConsoleWithinBudget
  <2> QED
    BY <2>1, <2>2, <2>3
<1>2. ASSUME clearCancellation PROVE IInv'
    BY <1>2 DEF clearCancellation, TypeOK, WithinBudget, ConsoleWithinBudget, Left
<1>3. ASSUME CallLua PROVE IInv'
    BY <1>3 DEF CallLua, TypeOK, WithinBudget, ConsoleWithinBudget, Left
<1>4. ASSUME Instruction PROVE IInv'
  <2>1. CASE InstructionStop = Quiet
    <3>1. PICK effect \in Effects : Does(effect)
      BY <1>4, <2>1 DEF Instruction
    <3>2. /\ policy' = AfterInstruction /\ used' = Executed
          /\ UNCHANGED <<requested, now, saved, budget, left>>
          /\ place \in {"lua", "console"} /\ thrown = Quiet
      BY <1>4, <2>1 DEF Instruction, Running
    <3>3. depth' \in 0 .. MaxDepth /\ thrown' \in {Quiet, "error"}
      BY <3>1, <3>2 DEF Does, TypeOK
    <3>4. place' \in {"lua", "console", "host"} /\ (place = "console" <=> place' = "console")
      BY <3>1, <3>2 DEF Does
    <3>5. used' \in [instr : Nat, work : Nat, console : Nat, asked : BOOLEAN]
      BY <3>2 DEF Executed, TypeOK
    <3>6. TypeOK'
      BY <3>2, <3>3, <3>4, <3>5, InstructionTakesOne DEF TypeOK
    <3>7. WithinBudget'
      <4>1. CASE place = "lua"
        <5>1. /\ Left = [instr |-> policy.instr, work |-> policy.work, deadline |-> policy.deadline]
              /\ Left' = [instr |-> policy'.instr, work |-> policy'.work, deadline |-> policy'.deadline]
          BY <4>1, <3>2, <3>4 DEF Left
        <5>2. used'.work = used.work /\ used'.instr = IF budget.instr = Unlimited THEN used.instr ELSE used.instr + 1
          BY <4>1, <3>2 DEF Executed, TypeOK
        <5>3. policy.instr \in Count /\ budget.instr \in Count /\ used.instr \in Nat
          BY DEF TypeOK, Limits
        <5>4. policy.instr = Unlimited => budget.instr = Unlimited
          BY <5>1, <5>3 DEF WithinBudget, Count
        <5> QED
          BY <2>1, <3>2, <3>4, <4>1, <5>1, <5>2, <5>3, <5>4, InstructionTakesOne DEF WithinBudget, Count
      <4>2. CASE place = "console"
        <5>1. Left' = Left
          BY <4>2, <3>2, <3>4 DEF Left
        <5>2. used'.work = used.work /\ used'.instr = used.instr /\ used'.console = used.console + 1
          BY <4>2, <3>2 DEF Executed, TypeOK
        <5>3. used.console + policy.instr <= ConsoleBudget
          BY <3>2, <4>2 DEF ConsoleWithinBudget
        <5>4. policy.instr \in Count /\ used.console \in Nat
          BY DEF TypeOK
        <5>5. policy.instr > 0
          BY <2>1, <5>3, <5>4, InstructionTakesOne DEF Count
        <5> QED
          BY <3>2, <5>1, <5>2, <5>3, <5>4, <5>5 DEF WithinBudget, Count
      <4> QED
        BY <3>2, <4>1, <4>2
    <3>8. ConsoleWithinBudget'
      <4> SUFFICES ASSUME place' = "console" PROVE ConsoleWithinBudget'
        BY DEF ConsoleWithinBudget
      <4>1. used'.console = used.console + 1
        BY <3>2, <3>4 DEF Executed, TypeOK
      <4>2. used.console + policy.instr <= ConsoleBudget
        BY <3>2, <3>4 DEF ConsoleWithinBudget
      <4>3. policy.instr \in Count /\ used.console \in Nat
        BY DEF TypeOK
      <4>4. policy.instr # Unlimited
        BY <4>2, <4>3 DEF Count
      <4> QED
        BY <2>1, <3>2, <4>1, <4>2, <4>3, <4>4, InstructionTakesOne DEF ConsoleWithinBudget, Count
    <3> QED
      BY <3>6, <3>7, <3>8
  <2>2. CASE InstructionStop # Quiet
    <3>1. /\ policy' = AfterInstruction /\ thrown' = InstructionStop
          /\ UNCHANGED <<requested, now, saved, budget, left, place, depth, used>>
          /\ thrown = Quiet
      BY <1>4, <2>2 DEF Instruction, Running, Executed, Does
    <3> QED
      BY <2>2, <3>1, InstructionTakesOne DEF TypeOK, WithinBudget, ConsoleWithinBudget, Left
  <2> QED
    BY <2>1, <2>2
<1>5. ASSUME NEW units \in 1 .. MaxUnits, NEW raises \in BOOLEAN, NativeWork(units, raises) PROVE IInv'
  <2>1. /\ policy' = AfterWork(units)
        /\ UNCHANGED <<requested, now, place, depth, saved, budget, left>>
        /\ thrown = Quiet /\ thrown' \in Reasons \cup {Quiet}
        /\ used' = IF WorkStop(units) = Quiet THEN Worked(units) ELSE used
        /\ place \in {"lua", "console"}
    BY <1>5, WorkTakesUnits DEF NativeWork, Running
  <2>2. /\ used' \in [instr : Nat, work : Nat, console : Nat, asked : BOOLEAN]
        /\ used'.instr = used.instr /\ used'.console = used.console
        /\ used'.work = IF WorkStop(units) = Quiet /\ place = "lua" /\ budget.work # Unlimited
                        THEN used.work + units ELSE used.work
    BY <2>1 DEF Worked, TypeOK
  <2>3. TypeOK'
    BY <2>1, <2>2, WorkTakesUnits DEF TypeOK
  <2>4. WithinBudget'
    <3>1. CASE place = "lua"
      <4>1. /\ Left = [instr |-> policy.instr, work |-> policy.work, deadline |-> policy.deadline]
            /\ Left' = [instr |-> policy'.instr, work |-> policy'.work, deadline |-> policy'.deadline]
        BY <2>1, <3>1 DEF Left
      <4>2. /\ policy.work \in Count /\ budget.work \in Count /\ used.work \in Nat
            /\ AfterWork(units).work \in Count
        BY WorkTakesUnits DEF TypeOK, Limits
      <4>3. CASE budget.work = Unlimited
        BY <2>1, <2>2, <3>1, <4>1, <4>3, WorkTakesUnits DEF WithinBudget
      <4>4. CASE budget.work # Unlimited
        <5>1. used.work + policy.work <= budget.work /\ policy.work # Unlimited
          BY <4>1, <4>2, <4>4 DEF WithinBudget, Count
        <5>2. used'.work + policy'.work <= budget.work
          <6>0. units \in Nat
            OBVIOUS
          <6>1. /\ units \in Nat /\ policy'.work \in Nat /\ policy'.work <= policy.work
                /\ policy.work \in Nat /\ used.work \in Nat /\ budget.work \in Nat
            <7>1. AfterWork(units).work <= policy.work
              BY <6>0, WorkTakesUnits
            <7>2. Unlimited \in Nat
              BY ExecutionPolicyAssumption
            <7> QED
              BY <2>1, <4>2, <6>0, <7>1, <7>2 DEF Count
          <6>2. CASE WorkStop(units) = Quiet
            <7>1. policy'.work + units = policy.work /\ used'.work = used.work + units
              BY <2>1, <2>2, <3>1, <4>4, <5>1, <6>1, <6>2, WorkTakesUnits
            <7> QED
              BY <5>1, <6>1, <7>1
          <6>3. CASE WorkStop(units) # Quiet
            <7>1. used'.work = used.work
              BY <2>2, <6>3
            <7> QED
              BY <5>1, <6>1, <7>1
          <6> QED
            BY <6>2, <6>3
        <5> QED
          BY <2>1, <2>2, <3>1, <4>1, <4>4, <5>2, WorkTakesUnits DEF WithinBudget
      <4> QED
        BY <4>3, <4>4
    <3>2. CASE place = "console"
      <4>1. Left' = Left
        BY <2>1, <3>2 DEF Left
      <4> QED
        BY <2>1, <2>2, <3>2, <4>1 DEF WithinBudget
    <3> QED
      BY <2>1, <3>1, <3>2
  <2>5. ConsoleWithinBudget'
    BY <2>1, <2>2, WorkTakesUnits DEF ConsoleWithinBudget
  <2> QED
    BY <2>3, <2>4, <2>5
<1>6. ASSUME CheckExecution PROVE IInv'
  <2>1. pollStop \in Reasons
    BY <1>6 DEF CheckExecution, pollStop, Reasons
  <2>2. /\ policy' \in [instr : Count, initialInstr : Count, work : Count, initialWork : Count,
                        deadline : Time, last : Reasons \cup {Quiet}]
        /\ policy'.instr = policy.instr /\ policy'.work = policy.work /\ policy'.deadline = policy.deadline
    BY <1>6, <2>1 DEF CheckExecution, Stopped, TypeOK
  <2> QED
    BY <1>6, <2>1, <2>2 DEF CheckExecution, Running, TypeOK, WithinBudget, ConsoleWithinBudget, Left
<1>7. ASSUME Unwind PROVE IInv'
    BY <1>7 DEF Unwind, TypeOK, WithinBudget, ConsoleWithinBudget, Left
<1>8. ASSUME OpenConsole PROVE IInv'
  <2>1. TypeOK'
    BY <1>8 DEF OpenConsole, TypeOK, Limits
  <2>2. Left' = Left /\ UNCHANGED <<used, budget>> /\ place' = "compiling"
    BY <1>8 DEF OpenConsole, Left
  <2> QED
    BY <2>1, <2>2 DEF WithinBudget, ConsoleWithinBudget
<1>9. ASSUME NEW units \in 1 .. MaxUnits, CompileConsole(units) PROVE IInv'
  <2>1. /\ used' \in [instr : Nat, work : Nat, console : Nat, asked : BOOLEAN]
        /\ used'.instr = used.instr /\ used'.work = used.work /\ used'.console = 0
    BY <1>9 DEF CompileConsole, TypeOK
  <2>2. TypeOK'
    BY <1>9, <2>1, WorkTakesUnits DEF CompileConsole, TypeOK
  <2>3. Left' = Left /\ UNCHANGED budget
    BY <1>9 DEF CompileConsole, Left
  <2>4. WithinBudget'
    BY <2>1, <2>3 DEF WithinBudget
  <2>5. ConsoleWithinBudget'
    BY <1>9, <2>1 DEF CompileConsole, ConsoleWithinBudget, Quiet
  <2> QED
    BY <2>2, <2>4, <2>5
<1>10. ASSUME Evaluate PROVE IInv'
  <2>1. /\ used' \in [instr : Nat, work : Nat, console : Nat, asked : BOOLEAN]
        /\ used'.instr = used.instr /\ used'.work = used.work /\ used'.console = 0
    BY <1>10 DEF Evaluate, TypeOK
  <2>2. ConsoleLimits \in Limits /\ ConsoleLimits.instr <= ConsoleBudget
    <3>1. saved.limits \in Limits /\ now \in 0 .. MaxTime
      BY DEF TypeOK
    <3>2. Sooner(saved.limits.instr, ConsoleBudget) \in Count /\ Sooner(saved.limits.instr, ConsoleBudget) <= ConsoleBudget
      BY <3>1 DEF Sooner, Limits, Count
    <3>3. Sooner(saved.limits.deadline, now + 1) \in Time
      BY <3>1 DEF Sooner, Limits, Time, NoDeadline
    <3> QED
      BY <3>1, <3>2, <3>3 DEF ConsoleLimits, Limits
  <2>3. /\ policy' \in [instr : Count, initialInstr : Count, work : Count, initialWork : Count,
                        deadline : Time, last : Reasons \cup {Quiet}]
        /\ policy'.instr = ConsoleLimits.instr
    BY <1>10, <2>2, ConfiguredType DEF Evaluate
  <2>4. TypeOK'
    <3>1. /\ place' = "console" /\ depth' = 0 /\ requested' = FALSE
          /\ UNCHANGED <<now, thrown, saved, budget, left>>
      BY <1>10 DEF Evaluate
    <3>2. 0 \in 0 .. MaxDepth
      OBVIOUS
    <3> QED
      BY <2>1, <2>3, <3>1, <3>2 DEF TypeOK
  <2>5. Left' = Left /\ UNCHANGED budget
    BY <1>10 DEF Evaluate, Left
  <2>6. WithinBudget' /\ ConsoleWithinBudget'
    BY <2>1, <2>2, <2>3, <2>5 DEF WithinBudget, ConsoleWithinBudget, Limits, Count
  <2> QED
    BY <2>4, <2>6
<1>11. ASSUME CloseConsole PROVE IInv'
  <2>1. NothingSaved \in [limits : Limits, depth : 0 .. MaxDepth, thrown : Reasons \cup {Quiet, "error"}]
    BY DEF NothingSaved, NoLimits, Limits, Count, Time, NoDeadline
  <2>2. saved.limits \in Limits /\ Left = saved.limits
    BY <1>11 DEF CloseConsole, TypeOK, Left
  <2>3. TypeOK'
    BY <1>11, <2>1, <2>2, ConfiguredType DEF CloseConsole, TypeOK
  <2>4. Left'.instr = Left.instr /\ Left'.work = Left.work /\ Left'.deadline = Left.deadline
    BY <1>11, <2>2, ConfiguredType DEF CloseConsole, Left
  <2>5. WithinBudget'
    BY <1>11, <2>4 DEF CloseConsole, WithinBudget
  <2>6. ConsoleWithinBudget'
    BY <1>11 DEF CloseConsole, ConsoleWithinBudget
  <2> QED
    BY <2>3, <2>5, <2>6
<1>12. ASSUME requestCancellation PROVE IInv'
    BY <1>12 DEF requestCancellation, TypeOK, WithinBudget, ConsoleWithinBudget, Left
<1>13. ASSUME Tick PROVE IInv'
    BY <1>13 DEF Tick, TypeOK, WithinBudget, ConsoleWithinBudget, Left
<1>14. ASSUME UNCHANGED vars PROVE IInv'
    BY <1>14 DEF vars, TypeOK, WithinBudget, ConsoleWithinBudget, Left
<1> QED
    BY <1>1, <1>2, <1>3, <1>4, <1>5, <1>6, <1>7, <1>8, <1>9, <1>10, <1>11, <1>12, <1>13, <1>14
    DEF Next, Host, Code, Console

\* The invariant of the execution policy holds in every reachable state.
THEOREM Invariant == Spec => []IInv
<1> QED
    BY InitIInv, StepIInv, PTL DEF Spec

\* Types of the policy, for every width of the counters and all bounds
THEOREM PolicyTypeOK == Spec => []TypeOK
<1>1. IInv => TypeOK
    BY DEF IInv
<1> QED
    BY Invariant, <1>1, PTL

\* consumeInstruction, consumeNativeWork and ~EvaluationGuard: a window gives
\* the program its budget and no more.
THEOREM BudgetKept == Spec => []WithinBudget
<1>1. IInv => WithinBudget
    BY DEF IInv
<1> QED
    BY Invariant, <1>1, PTL

\* A step that executes an instruction does so within the budget and before
\* the deadline of the window.
LEMMA ExecutesWithin ==
    ASSUME IInv, Next, left'.windows = left.windows, Over
    PROVE  used'.instr = used.instr
<1> USE DEF IInv
<1>1. CASE Instruction
  <2>1. CASE place = "lua"
    <3>1. Left = [instr |-> policy.instr, work |-> policy.work, deadline |-> policy.deadline]
      BY <2>1 DEF Left
    <3>2. policy.instr \in Count /\ used.instr \in Nat /\ budget.instr \in Count
      BY DEF TypeOK, Limits
    <3>3. CASE budget.instr # Unlimited /\ used.instr >= budget.instr
      <4>1. policy.instr = 0 /\ policy.instr # Unlimited
        BY <3>1, <3>2, <3>3 DEF WithinBudget, Count
      <4>2. InstructionStop # Quiet
        BY <4>1 DEF InstructionStop, Quiet
      <4> QED
        BY <1>1, <4>2 DEF Instruction
    <3>4. CASE budget.deadline # NoDeadline /\ now >= budget.deadline
      <4>1. pollStop # Quiet
        BY <3>1, <3>4 DEF WithinBudget, pollStop, Quiet
      <4>2. InstructionStop # Quiet
        BY <4>1 DEF InstructionStop
      <4> QED
        BY <1>1, <4>2 DEF Instruction
    <3> QED
      BY <3>3, <3>4 DEF Over
  <2>2. CASE place = "console"
    BY <1>1, <2>2 DEF Instruction, Executed, TypeOK
  <2> QED
    BY <1>1, <2>1, <2>2 DEF Instruction, Running
<1>2. ASSUME NEW limits \in Limits, BeginWindow(limits) PROVE FALSE
    BY <1>2 DEF BeginWindow, TypeOK
<1>3. CASE Console \/ clearCancellation \/ requestCancellation
    BY <1>3 DEF Console, OpenConsole, Evaluate, CloseConsole, CompileConsole, clearCancellation,
                requestCancellation, TypeOK
<1>4. CASE CallLua \/ CheckExecution \/ Unwind \/ Tick
    BY <1>4 DEF CallLua, CheckExecution, Unwind, Tick
<1>5. ASSUME NEW units \in 1 .. MaxUnits, NEW raises \in BOOLEAN, NativeWork(units, raises)
      PROVE  used'.instr = used.instr
    BY <1>5 DEF NativeWork, Worked, TypeOK
<1> QED
    BY <1>1, <1>2, <1>3, <1>4, <1>5 DEF Next, Host, Code

\* Once its instructions are used or its deadline has passed, the program
\* executes nothing until the host begins another window.
THEOREM NothingRunsAfterTheEnd == Spec => NothingAfterTheEnd
<1>1. IInv /\ [Next]_vars => [Over /\ left'.windows = left.windows => used'.instr = used.instr]_vars
  <2> SUFFICES ASSUME IInv, [Next]_vars, Over, left'.windows = left.windows, ~UNCHANGED vars
               PROVE  used'.instr = used.instr
    OBVIOUS
  <2> QED
    BY ExecutesWithin
<1> QED
    BY Invariant, <1>1, PTL DEF Spec, NothingAfterTheEnd
=============================================================================
