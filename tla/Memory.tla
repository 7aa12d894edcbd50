-------------------------------- MODULE Memory --------------------------------
(***************************************************************************)
(* What a collector promises to the program.  Objects stay what the        *)
(* program made of them while it can reach them, and one that is made is   *)
(* none of those that are there.  Objects out of reach may vanish at any   *)
(* time, in any number, and in no other way.  Equal strings are one        *)
(* object, closures share the variable of a slot, and the __gc of a        *)
(* userdata is called once: when the program has lost it, or at the end.   *)
(*                                                                         *)
(* There are no colours, phases, lists, barriers or queues here.           *)
(***************************************************************************)
EXTENDS HeapObjects

CONSTANT DrainLimit     \* how many finalizers may be called at the end

VARIABLES
    memory,     \* what the objects hold that are there
    stack,      \* the objects in the slots
    open,       \* the open upvalue of a slot
    owed,       \* the userdata whose __gc is still to be called
    callback,   \* the one whose __gc runs
    stage,      \* "running", "closing" or "closed"
    entered     \* how many were called while closing

vars == <<memory, stack, open, owed, callback, stage, entered>>
finalizing == <<callback, stage, entered>>

Emptied == [s \in Slots |-> Null]
Nothing == [o \in {} |-> Free]

Init ==
    /\ memory = Nothing
    /\ stack = Emptied /\ open = Emptied
    /\ owed = {} /\ callback = Null
    /\ stage = "running" /\ entered = 0

Runs == stage = "running" \/ callback # Null

\* What an object refers to.  The value of an open upvalue is in the stack.
Links(body) ==
    CASE body.kind = "closure" -> {body.up} \ {Null}
      [] body.kind = "closed" -> {body.value} \ {Null}
      [] OTHER -> {}

\* What can be reached from some objects: what is in every set that has these
\* and what its objects refer to.
Reach(from) ==
    {o \in DOMAIN memory : \A S \in SUBSET DOMAIN memory :
        from \ {Null} \subseteq S /\ (\A p \in S : Links(memory[p]) \subseteq S) => o \in S}
InHand == {stack[s] : s \in Slots} \cup {open[s] : s \in Slots} \cup {callback}

------------------------------------------------------------------------------
(* The program *)

Put(s, o) == stack' = [stack EXCEPT ![s] = o]
New(o) == o \in Objects \ DOMAIN memory
Holds(o, body) == memory' = [p \in DOMAIN memory \cup {o} |-> IF p = o THEN body ELSE memory[p]]

Intern(c, s) ==
    /\ Runs
    /\ \E o \in Objects :
        /\ Put(s, o)
        /\ IF \E p \in DOMAIN memory : memory[p] = String(c)
           THEN o \in DOMAIN memory /\ memory[o] = String(c) /\ UNCHANGED memory
           ELSE New(o) /\ Holds(o, String(c))
    /\ UNCHANGED <<open, finalizing, owed>>

NewUserdata(s) ==
    /\ Runs
    /\ \E o \in Objects :
        /\ Put(s, o) /\ New(o) /\ Holds(o, Userdata)
        /\ owed' = owed \cup {o}
    /\ UNCHANGED <<open, finalizing>>

\* A closure over slot s, in slot t.
NewClosure(s, t) ==
    /\ Runs
    /\ \E f, u \in Objects :
        /\ Put(t, f) /\ New(f) /\ f # u
        /\ open' = [open EXCEPT ![s] = u]
        /\ IF open[s] = Null THEN New(u) ELSE u = open[s]
        /\ memory' = [o \in DOMAIN memory \cup {f, u} |->
                        IF o = f THEN Closure(u) ELSE IF o = u THEN OpenUpvalue(s) ELSE memory[o]]
    /\ UNCHANGED <<owed, finalizing>>

\* The upvalue of the closure in slot t.
UpvalueIn(t) == IF stack[t] # Null /\ memory[stack[t]].kind = "closure" THEN memory[stack[t]].up ELSE Null
Value(upvalue) == IF upvalue.kind = "open" THEN stack[upvalue.at] ELSE upvalue.value

GetUpvalue(t, s) ==
    /\ Runs /\ UpvalueIn(t) # Null
    /\ Put(s, Value(memory[UpvalueIn(t)]))
    /\ UNCHANGED <<open, finalizing, owed, memory>>
SetUpvalue(t, s) ==
    /\ Runs /\ UpvalueIn(t) # Null
    /\ LET u == UpvalueIn(t)
       IN  IF memory[u].kind = "open"
           THEN Put(memory[u].at, stack[s]) /\ UNCHANGED memory
           ELSE UNCHANGED stack /\ Holds(u, ClosedUpvalue(stack[s]))
    /\ UNCHANGED <<open, finalizing, owed>>

Clear(s) ==
    /\ Runs /\ stack[s] # Null
    /\ Put(s, Null)
    /\ UNCHANGED <<open, finalizing, owed, memory>>

\* The variables of the slots from a level on get a place of their own.
Close(level) ==
    /\ open' = [s \in Slots |-> IF s >= level THEN Null ELSE open[s]]
    /\ memory' = [o \in DOMAIN memory |->
                    IF \E s \in Slots : s >= level /\ open[s] = o
                    THEN ClosedUpvalue(stack[memory[o].at]) ELSE memory[o]]
LeaveBlock(level) ==
    /\ Runs
    /\ \E s \in Slots : s >= level /\ open[s] # Null
    /\ Close(level)
    /\ UNCHANGED <<stack, finalizing, owed>>

------------------------------------------------------------------------------
(* What the program cannot reach *)

\* A userdata that waits for its __gc stays, with what it holds.
Vanish ==
    /\ memory' # memory
    /\ \E gone \in SUBSET DOMAIN memory :
        /\ memory' = [o \in DOMAIN memory \ gone |-> memory[o]]
        /\ gone \cap Reach(InHand \cup owed) = {}
    /\ UNCHANGED <<stack, open, finalizing, owed>>

CallFinalizer(u) ==
    /\ stage # "closed" /\ callback = Null
    /\ callback' = u /\ u \in owed /\ owed' = owed \ {u}
    /\ u \notin Reach(InHand)
    /\ entered' = IF stage = "closing" THEN entered + 1 ELSE entered
    /\ entered' <= DrainLimit
    /\ UNCHANGED <<memory, stack, open, stage>>
\* It stores its userdata.
Resurrect(s) ==
    /\ callback # Null
    /\ Put(s, callback)
    /\ UNCHANGED <<open, finalizing, owed, memory>>
FinalizerEnds ==
    /\ callback # Null
    /\ callback' = Null
    /\ stack' = IF stage = "closing" THEN Emptied ELSE stack
    /\ UNCHANGED <<memory, open, owed, stage, entered>>

------------------------------------------------------------------------------
(* The end *)

CloseState ==
    /\ stage = "running" /\ callback = Null
    /\ stage' = "closing"
    /\ stack' = Emptied /\ Close(0)
    /\ UNCHANGED <<owed, callback, entered>>
\* No __gc is left out, but for those beyond the limit.
Destroy ==
    /\ stage = "closing" /\ callback = Null
    /\ owed = {} \/ entered = DrainLimit
    /\ stage' = "closed"
    /\ memory' = Nothing /\ owed' = {} /\ open' = Emptied
    /\ UNCHANGED <<stack, callback, entered>>

Next ==
    \/ \E c \in Contents, s \in Slots : Intern(c, s)
    \/ \E s, t \in Slots : NewClosure(s, t) \/ GetUpvalue(t, s) \/ SetUpvalue(t, s)
    \/ \E s \in Slots : NewUserdata(s) \/ Clear(s) \/ LeaveBlock(s) \/ Resurrect(s)
    \/ \E u \in Objects : CallFinalizer(u)
    \/ FinalizerEnds \/ CloseState \/ Vanish \/ Destroy

Spec == Init /\ [][Next]_vars
=============================================================================
