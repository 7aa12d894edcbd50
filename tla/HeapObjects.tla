------------------------------ MODULE HeapObjects ------------------------------
(***************************************************************************)
(* What objects hold: gc_string.cpp, userdata.cpp, function.cpp and        *)
(* upvalue.cpp, as far as ObjectList and Memory tell it apart.             *)
(***************************************************************************)
EXTENDS Integers, FiniteSets

CONSTANTS
    Objects,        \* the addresses objects can have
    Null,
    Contents,       \* the strings that occur
    StackSize       \* bound: the slots of the stack

Slots == 1 .. StackSize

Free == [kind |-> "free"]
String(c) == [kind |-> "string", text |-> c]
Userdata == [kind |-> "userdata"]
Closure(u) == [kind |-> "closure", up |-> u]
OpenUpvalue(s) == [kind |-> "open", at |-> s]
ClosedUpvalue(v) == [kind |-> "closed", value |-> v]

=============================================================================
