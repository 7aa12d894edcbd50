---------------------------------- MODULE VM ----------------------------------
(***************************************************************************)
(* The virtual machine: src/vm, running one Lua program.                   *)
(*                                                                         *)
(* runDispatchBackend fetches an instruction and calls its handler; there  *)
(* is one action per handler.  A handler that calls a metamethod, and      *)
(* TFORLOOP, run the callee in a nested VM::call and go on when it         *)
(* returns: the frame then waits (field wait) and a Finish action is the   *)
(* rest of the handler.                                                    *)
(*                                                                         *)
(* Left out: hooks, tracing, the debugger, coroutines, the collector, and  *)
(* protected calls, which the other modules describe.  An error that is    *)
(* thrown ends the program.                                                *)
(***************************************************************************)
EXTENDS Bytecode, LuaValues, SequencesExt

CONSTANTS
    MaxTagLoop,      \* MAXTAGLOOP
    MaxCallDepth,    \* MAX_CALL_DEPTH
    CStack           \* LUA_MINSTACK: slots a C function gets above its arguments

VARIABLES
    program,   \* which chunk runs
    main,      \* its main prototype
    stack,     \* Stack: the values below its size, by position
    absTop,    \* top_ of the LuaState: where the next value is pushed
    calls,     \* callStack_: CallInfo records, the running one last
    upvals,    \* every Upvalue: [at, value], at = -1 when it is closed
    funs,      \* every Lua closure: [proto, ups], proto a path from the chunk
    tables,    \* every table; the first one holds the globals
    trace,     \* what the program has sent to the function "out"
    status     \* "running", "done" or "error"

heap == <<upvals, funs, tables>>
chunk == <<program, main>>
vars == <<chunk, stack, absTop, calls, heap, trace, status>>

------------------------------------------------------------------------------
(* The stack.  Positions are numbered from 0; a slot that comes into use   *)
(* holds nil.                                                              *)

Size(stk) == Cardinality(DOMAIN stk)
setTop(stk, n) == [i \in 0 .. n - 1 |-> IF i \in DOMAIN stk THEN stk[i] ELSE Nil]
Grow(stk, n) == setTop(stk, Max2(n, Size(stk)))
\* The values written from a position on.
Write(stk, at, values) ==
    [i \in DOMAIN Grow(stk, at + Len(values)) |->
        IF i - at + 1 \in DOMAIN values THEN values[i - at + 1]
        ELSE IF i \in DOMAIN stk THEN stk[i] ELSE Nil]
Slots(stk, from, n) == [i \in 1 .. n |-> stk[from + i - 1]]
Nils(n) == [i \in 1 .. n |-> Nil]
\* n of the values, cut or filled with nil; all of them when n is -1.
Adjusted(values, n) ==
    IF n < 0 THEN values ELSE [i \in 1 .. n |-> IF i <= Len(values) THEN values[i] ELSE Nil]

\* The prototype at a path from the main one.
ProtoAt(path) == FoldLeft(LAMBDA p, i : p.protos[i + 1], main, path)

NotWaiting == [for |-> "nothing"]
NotHost == -2
\* host: NotHost, or the results wanted by the VM::call that runs this frame
NewFrame(func, base, top, nres, host) ==
    [func |-> func, base |-> base, top |-> top, pc |-> 0, nres |-> nres, host |-> host,
     wait |-> NotWaiting]

Frame == Last(calls)
Closure == funs[stack[Frame.func][2]]
Code == ProtoAt(Closure.proto).code
Consts == ProtoAt(Closure.proto).k
inst == Code[Frame.pc + 1]
NextPc == Frame.pc + 1
Position(r) == Frame.base + r
Reg(r) == stack[Position(r)]
RK(x) == IF ISK(x) THEN Consts[INDEXK(x) + 1] ELSE Reg(x)

------------------------------------------------------------------------------
(* Upvalues *)

Value(id) == IF upvals[id].at >= 0 THEN stack[upvals[id].at] ELSE upvals[id].value
\* closeUpvalues
Closed(level) ==
    [id \in DOMAIN upvals |->
        IF upvals[id].at >= level THEN [at |-> -1, value |-> stack[upvals[id].at]] ELSE upvals[id]]
\* findOrCreateUpvalue: the list of upvalues, and the one at the position.
OpenAt(ups, at) == {id \in DOMAIN ups : ups[id].at = at}
\* A bug: a second upvalue for the same variable.
WithAnotherUpvalueAt(ups, at) == Append(ups, [at |-> at, value |-> Nil])
WithUpvalueAt(ups, at) ==
    IF OpenAt(ups, at) = {} THEN Append(ups, [at |-> at, value |-> Nil]) ELSE ups
UpvalueAt(ups, at) == CHOOSE id \in OpenAt(ups, at) : TRUE

------------------------------------------------------------------------------
(* Calls, on a record m of the variables that a call changes *)

Machine == [stack |-> stack, absTop |-> absTop, calls |-> calls, tables |-> tables,
            trace |-> trace, status |-> status]
Become(machine) == \E m \in {machine} :
    /\ stack' = m.stack /\ absTop' = m.absTop /\ calls' = m.calls
    /\ tables' = m.tables /\ trace' = m.trace /\ status' = m.status
    /\ UNCHANGED chunk
Failed(m) == [m EXCEPT !.status = "error"]

\* postcall: the results stand at func; the slots up to oldTop are cleared,
\* and what a C frame reserved above the caller's window is given up.
Trimmed(stk, top) == IF Size(stk) > top THEN setTop(stk, top) ELSE stk
Keeping(stk, func, kept, oldTop, callerTop) ==
    LET newTop == func + Len(kept)
    IN [stack |-> Trimmed(Write(stk, func, kept \o Nils(Max2(0, oldTop - newTop))),
                          Max2(newTop, callerTop)),
        absTop |-> newTop]
postcall(stk, func, results, wanted, oldTop, callerTop) ==
    Keeping(stk, func, Adjusted(results, wanted), oldTop, callerTop)

\* External: a C function of the host.  It returns its results and what else
\* it changes: out reports its arguments, pick returns them, fail throws.
Native(m, name, args) ==
    CASE name = "out" -> [m |-> [m EXCEPT !.trace = Append(@, args)], results |-> <<>>]
      [] name = "pick" -> [m |-> m, results |-> args]
      [] name = "fail" -> [m |-> Failed(m), results |-> <<>>]
      [] name = "setmetatable" ->
            [m |-> [m EXCEPT !.tables[args[1][2]].meta = args[2][2]], results |-> <<args[1]>>]

\* precall of a C function, with the call itself
WithStack(m, after) == [m EXCEPT !.stack = after.stack, !.absTop = after.absTop]
ReturnNative(m, r, func, n, nres) ==
    LET above == func + 1 + n
    IN IF r.m.status = "error" THEN Failed(m)
       ELSE WithStack(r.m, postcall(Write(m.stack, above, Nils(CStack)), func, r.results, nres,
                                    above + Max2(CStack, Len(r.results)), Last(m.calls).top))
CallNative(m, func, n, nres) ==
    IF Len(m.calls) >= MaxCallDepth THEN Failed(m)
    ELSE ReturnNative(m, Native(m, m.stack[func][2], Slots(m.stack, func + 1, n)), func, n, nres)

\* precall of a Lua function: the parameters go above the other arguments of
\* a vararg function, and every other register holds nil.
ArgTable(extra) ==
    [map |-> Entered(EnteredRange(EmptyTable.map, 1, extra), Str("n"), Num(Len(extra))),
     meta |-> 0]
Registers(p, locals) == locals \o Nils(p.max - Len(locals))
Locals(m, p, args) ==
    Adjusted(args, p.nparams) \o (IF p.hasArg THEN <<<<"table", Len(m.tables) + 1>>>> ELSE <<>>)
EnterProto(m, p, func, args, extra, nres, host) ==
    LET hidden == IF p.vararg THEN Nils(p.nparams) \o extra ELSE <<>>
        base == func + 1 + Len(hidden)
    IN [m EXCEPT !.stack = Write(@, func + 1, hidden \o Registers(p, Locals(m, p, args))),
                 !.absTop = base + p.max,
                 !.calls = Append(@, NewFrame(func, base, base + p.max, nres, host)),
                 !.tables = IF p.hasArg THEN Append(@, ArgTable(extra)) ELSE @]
EnterWith(m, p, func, args, nres, host) ==
    EnterProto(m, p, func, args,
               IF Len(args) > p.nparams THEN SubSeq(args, p.nparams + 1, Len(args)) ELSE <<>>,
               nres, host)
EnterLua(m, func, n, nres, host) ==
    IF Len(m.calls) >= MaxCallDepth THEN Failed(m)
    ELSE EnterWith(m, ProtoAt(funs[m.stack[func][2]].proto), func, Slots(m.stack, func + 1, n),
                   nres, host)

Enter(m, func, n, nres, host) ==
    IF m.stack[func][1] = "fun" THEN EnterLua(m, func, n, nres, host)
    ELSE CallNative(m, func, n, nres)
\* precallImpl: a value that is no function is called by its metamethod.
Shifted(m, f, func, n) == [m EXCEPT !.stack = Write(@, func, <<f>> \o Slots(@, func, n + 1))]
precall(m, func, n, nres, host) ==
    LET f == Metamethod(m.tables, m.stack[func], "__call")
        callable == IsFunction(m.stack[func])
    IN IF callable \/ IsFunction(f)
       THEN Enter(IF callable THEN m ELSE Shifted(m, f, func, n), func,
                  IF callable THEN n ELSE n + 1, nres, host)
       ELSE Failed(m)

\* VM::call of f, pushed with its arguments at absTop, while this frame waits.
HostCall(f, args, nres, wait) ==
    LET waiting == [calls EXCEPT ![Len(calls)].pc = NextPc, ![Len(calls)].wait = wait]
        m == [Machine EXCEPT !.stack = Write(@, absTop, <<f>> \o args), !.calls = waiting]
    IN Become(precall(m, absTop, Len(args), nres, nres)) /\ UNCHANGED <<upvals, funs>>

\* callTM and callTMWithResult
CallMetamethod(f, args, nres, wait) ==
    IF ~IsFunction(f) THEN status' = "error" /\ UNCHANGED <<chunk, stack, absTop, calls, heap, trace>>
    ELSE HostCall(f, args, nres, wait @@ [savedTop |-> absTop, savedSize |-> Size(stack)])

------------------------------------------------------------------------------
(* Steps of the running frame *)

Ready == status = "running" /\ Len(calls) > 1 /\ Frame.wait = NotWaiting
Fetch(ops) == Ready /\ inst.op \in ops

Throw == status' = "error" /\ UNCHANGED <<chunk, stack, absTop, calls, heap, trace>>
Goto(pc) == calls' = [calls EXCEPT ![Len(calls)].pc = pc] /\ UNCHANGED <<chunk, trace, status>>
Jump(pc) == Goto(pc) /\ UNCHANGED <<stack, absTop, heap>>
Assign(r, v) ==
    stack' = [stack EXCEPT ![Position(r)] = v] /\ Goto(NextPc) /\ UNCHANGED <<absTop, heap>>

handleMove == Fetch({"MOVE"}) /\ Assign(inst.a, Reg(inst.b))
handleLoadK == Fetch({"LOADK"}) /\ Assign(inst.a, Consts[inst.b + 1])
handleLoadNil ==
    /\ Fetch({"LOADNIL"})
    /\ stack' = Write(stack, Position(inst.a), Nils(inst.b - inst.a + 1))
    /\ Goto(NextPc) /\ UNCHANGED <<absTop, heap>>
handleLoadBool ==
    /\ Fetch({"LOADBOOL"})
    /\ stack' = [stack EXCEPT ![Position(inst.a)] = Bool(inst.b # 0)]
    /\ Goto(IF inst.c # 0 THEN NextPc + 1 ELSE NextPc) /\ UNCHANGED <<absTop, heap>>

handleGetUpval == Fetch({"GETUPVAL"}) /\ Assign(inst.a, Value(Closure.ups[inst.b + 1]))
handleSetUpval ==
    LET id == Closure.ups[inst.b + 1]
        v == Reg(inst.a)
    IN /\ Fetch({"SETUPVAL"})
       /\ IF upvals[id].at >= 0
          THEN stack' = [stack EXCEPT ![upvals[id].at] = v] /\ UNCHANGED upvals
          ELSE upvals' = [upvals EXCEPT ![id].value = v] /\ UNCHANGED stack
       /\ Goto(NextPc) /\ UNCHANGED <<absTop, funs, tables>>

\* gettable and settable follow __index and __newindex from table to table.
Follow(v, key, event) ==
    LET Hop(s, i) ==
            LET f == Metamethod(tables, s.v, event)
                found == IsTable(s.v) /\ Raw(tables[s.v[2]].map, key) # Nil
            IN IF s.end # "search" THEN s
               ELSE IF found \/ (IsTable(s.v) /\ f = Nil) THEN [s EXCEPT !.end = "table"]
               ELSE IF f = Nil THEN [s EXCEPT !.end = "error"]
               ELSE IF IsFunction(f) THEN [s EXCEPT !.end = "call", !.f = f]
               ELSE [s EXCEPT !.v = f]
    IN FoldLeft(Hop, [end |-> "search", v |-> v, f |-> Nil], [i \in 1 .. MaxTagLoop |-> i])

Get(r, v, key, stk) ==
    LET s == Follow(v, key, "__index")
    IN CASE s.end = "table" ->
              /\ stack' = [stk EXCEPT ![Position(r)] = Raw(tables[s.v[2]].map, key)]
              /\ Goto(NextPc) /\ UNCHANGED <<absTop, heap>>
         [] s.end = "call" -> CallMetamethod(s.f, <<s.v, key>>, 1, [for |-> "register", reg |-> r])
         [] OTHER -> Throw
Put(v, key, value) ==
    LET s == Follow(v, key, "__newindex")
    IN CASE s.end = "table" /\ key # Nil ->
              /\ tables' = [tables EXCEPT ![s.v[2]].map = Entered(@, key, value)]
              /\ Goto(NextPc) /\ UNCHANGED <<stack, absTop, upvals, funs>>
         [] s.end = "call" -> CallMetamethod(s.f, <<s.v, key, value>>, 0, [for |-> "none"])
         [] OTHER -> Throw

Globals == <<"table", 1>>
handleGetGlobal == Fetch({"GETGLOBAL"}) /\ Get(inst.a, Globals, Consts[inst.b + 1], stack)
handleSetGlobal == Fetch({"SETGLOBAL"}) /\ Put(Globals, Consts[inst.b + 1], Reg(inst.a))
handleGetTable == Fetch({"GETTABLE"}) /\ Get(inst.a, Reg(inst.b), RK(inst.c), stack)
handleSetTable == Fetch({"SETTABLE"}) /\ Put(Reg(inst.a), RK(inst.b), RK(inst.c))
\* The object is stored before the method is looked up.
handleSelf ==
    LET withObject == [stack EXCEPT ![Position(inst.a + 1)] = Reg(inst.b)]
        s == Follow(Reg(inst.b), RK(inst.c), "__index")
    IN /\ Fetch({"SELF"})
       /\ IF s.end # "call" THEN Get(inst.a, Reg(inst.b), RK(inst.c), withObject)
          ELSE LET waiting == [calls EXCEPT ![Len(calls)].pc = NextPc,
                                   ![Len(calls)].wait = [for |-> "register", reg |-> inst.a,
                                        savedTop |-> absTop, savedSize |-> Size(stack)]]
                   m == [Machine EXCEPT !.calls = waiting,
                            !.stack = Write(withObject, absTop, <<s.f, s.v, RK(inst.c)>>)]
               IN Become(precall(m, absTop, 2, 1, 1)) /\ UNCHANGED <<upvals, funs>>
handleNewTable ==
    /\ Fetch({"NEWTABLE"})
    /\ tables' = Append(tables, EmptyTable)
    /\ stack' = [stack EXCEPT ![Position(inst.a)] = <<"table", Len(tables) + 1>>]
    /\ Goto(NextPc) /\ UNCHANGED <<absTop, upvals, funs>>
handleSetList ==
    LET block == IF inst.c = 0 THEN Code[NextPc + 1].b ELSE inst.c
        n == IF inst.b = 0 THEN absTop - Position(inst.a) - 1 ELSE inst.b
        id == Reg(inst.a)[2]
    IN /\ Fetch({"SETLIST"})
       /\ IF ~IsTable(Reg(inst.a)) THEN Throw
          ELSE /\ tables' = [tables EXCEPT ![id].map =
                     EnteredRange(@, (block - 1) * FieldsPerFlush + 1,
                                  Slots(stack, Position(inst.a) + 1, n))]
               /\ absTop' = IF inst.b = 0 THEN Frame.top ELSE absTop
               /\ Goto(IF inst.c = 0 THEN NextPc + 1 ELSE NextPc)
               /\ UNCHANGED <<stack, upvals, funs>>

handleArithmetic ==
    LET v == RK(inst.b)
        w == RK(inst.c)
        f == EitherMetamethod(tables, v, w, EventOf(inst.op))
    IN /\ Fetch({"ADD", "SUB", "MUL"})
       /\ IF IsNumeric(v) /\ IsNumeric(w)
          THEN Assign(inst.a, Num(Arith(inst.op, ToNumber(v), ToNumber(w))))
          ELSE IF f = Nil THEN Throw
          ELSE CallMetamethod(f, <<v, w>>, 1, [for |-> "register", reg |-> inst.a])
handleUnaryMinus ==
    LET v == Reg(inst.b)
        f == EitherMetamethod(tables, v, Nil, "__unm")
    IN /\ Fetch({"UNM"})
       /\ IF IsNumeric(v) THEN Assign(inst.a, Num(-ToNumber(v)))
          ELSE IF f = Nil THEN Throw
          ELSE CallMetamethod(f, <<v, Nil>>, 1, [for |-> "register", reg |-> inst.a])
handleLength ==
    LET v == Reg(inst.b)
    IN /\ Fetch({"LEN"})
       /\ CASE v[1] = "str" -> Assign(inst.a, Num(Len(v[2])))
            [] IsTable(v) -> Assign(inst.a, Num(Border(tables[v[2]].map)))
            [] OTHER -> Throw
\* concat: from the last operand down; stops at a pair that needs a metamethod.
Concat(stk, r, first, last, pc) ==
    LET Joins(from) == \A i \in from .. last : HasText(stk[Position(i)])
        stop == CHOOSE i \in first .. last :    \* what is left to join: first .. i
            /\ i = last \/ Joins(i)
            /\ \A j \in first .. i - 1 : ~Joins(j)
        joined == FoldLeft(LAMBDA s, i : Joined(stk[Position(last - i)], s), stk[Position(last)],
                           [i \in 1 .. last - stop |-> i])
        done == [stk EXCEPT ![Position(stop)] = joined]
        v == done[Position(stop - 1)]
        w == done[Position(stop)]
        f == EitherMetamethod(tables, v, w, "__concat")
        wait == [for |-> "concat", reg |-> r, first |-> first, last |-> stop,
                 savedTop |-> absTop, savedSize |-> Size(stk)]
        m == [Machine EXCEPT !.stack = Write(done, absTop, <<f, v, w>>),
                             !.calls[Len(calls)].wait = wait, !.calls[Len(calls)].pc = pc]
    IN IF stop = first
       THEN /\ stack' = [done EXCEPT ![Position(r)] = done[Position(first)]]
            /\ absTop' = absTop /\ UNCHANGED <<heap, chunk, trace, status>>
            /\ calls' = [calls EXCEPT ![Len(calls)].pc = pc, ![Len(calls)].wait = NotWaiting]
       ELSE IF ~IsFunction(f) THEN Throw
       ELSE Become(precall(m, absTop, 2, 1, 1)) /\ UNCHANGED <<upvals, funs>>
handleConcat == Fetch({"CONCAT"}) /\ Concat(stack, inst.a, inst.b, inst.c, NextPc)

\* A bug: the offset counted from the instruction after the next.
handleJumpTooFar == Fetch({"JMP"}) /\ Jump(NextPc + 1 + inst.b)
handleJump == Fetch({"JMP"}) /\ Jump(NextPc + inst.b)
\* result # (a # 0) skips the jump that follows.
SkipUnless(result, a) == IF result # (a # 0) THEN NextPc + 1 ELSE NextPc
\* A metamethod decides for two values that the operator does not compare.
Compare(v, w) ==
    LET eq == SharedMetamethod(tables, v, w, "__eq")
        lt == SharedMetamethod(tables, v, w, "__lt")
        le == SharedMetamethod(tables, v, w, "__le")
        flipped == SharedMetamethod(tables, w, v, "__lt")
        Ask(f, args, negate) ==
            CallMetamethod(f, args, 1, [for |-> "test", a |-> inst.a, negate |-> negate])
    IN CASE inst.op = "EQ" /\ (v = w \/ eq = Nil \/ ~IsTable(v) \/ ~IsTable(w)) ->
              Jump(SkipUnless(v = w, inst.a))
         [] inst.op = "EQ" /\ v # w /\ eq # Nil /\ IsTable(v) /\ IsTable(w) -> Ask(eq, <<v, w>>, FALSE)
         [] inst.op \in {"LT", "LE"} /\ Ordered(v, w) ->
              Jump(SkipUnless(IF inst.op = "LT" THEN Below(v, w) ELSE ~Below(w, v), inst.a))
         [] inst.op = "LT" /\ ~Ordered(v, w) /\ lt # Nil -> Ask(lt, <<v, w>>, FALSE)
         [] inst.op = "LE" /\ ~Ordered(v, w) /\ le # Nil -> Ask(le, <<v, w>>, FALSE)
         [] inst.op = "LE" /\ ~Ordered(v, w) /\ le = Nil /\ flipped # Nil -> Ask(flipped, <<w, v>>, TRUE)
         [] OTHER -> Throw
handleComparison == Fetch({"EQ", "LT", "LE"}) /\ Compare(RK(inst.b), RK(inst.c))
handleTest ==
    /\ Fetch({"TEST"})
    /\ Jump(IF IsTrue(Reg(inst.a)) # (inst.c # 0) THEN NextPc + 1 ELSE NextPc + 1 + Code[NextPc + 1].b)

handleForPrep ==
    LET a == inst.a
        numbers == [i \in 1 .. 3 |-> Num(ToNumber(Reg(a + i - 1)))]
        start == Num(numbers[1][2] - numbers[3][2])
    IN /\ Fetch({"FORPREP"})
       /\ IF \E i \in 0 .. 2 : ~IsNumeric(Reg(a + i)) THEN Throw
          ELSE /\ stack' = Write(stack, Position(a), <<start, numbers[2], numbers[3]>>)
               /\ Goto(NextPc + inst.b) /\ UNCHANGED <<absTop, heap>>
handleForLoop ==
    LET a == inst.a
        step == Reg(a + 2)[2]
        idx == Reg(a)[2] + step
        limit == Reg(a + 1)[2]
    IN /\ Fetch({"FORLOOP"})
       /\ IF IF step > 0 THEN idx <= limit ELSE idx >= limit
          THEN /\ stack' = [stack EXCEPT ![Position(a)] = Num(idx), ![Position(a + 3)] = Num(idx)]
               /\ Goto(NextPc + inst.b) /\ UNCHANGED <<absTop, heap>>
          ELSE Jump(NextPc)

\* tforLoop calls the iterator from copies above the control variables.
handleTForLoop ==
    LET cb == Position(inst.a) + 3
        copies == <<Reg(inst.a), Reg(inst.a + 1), Reg(inst.a + 2)>>
        m == [Machine EXCEPT !.stack = setTop(Write(@, cb, copies), cb + 3),
                             !.absTop = cb + 3,
                             !.calls[Len(calls)].pc = NextPc,
                             !.calls[Len(calls)].wait = [for |-> "tforloop", a |-> inst.a]]
    IN /\ Fetch({"TFORLOOP"})
       /\ Become(precall(m, cb, 2, inst.c, inst.c)) /\ UNCHANGED <<upvals, funs>>

handleClose ==
    Fetch({"CLOSE"}) /\ upvals' = Closed(Position(inst.a)) /\ Goto(NextPc)
    /\ UNCHANGED <<stack, absTop, funs, tables>>
\* closure: the instructions that follow say where each upvalue comes from.
handleClosure ==
    LET nups == ProtoAt(Closure.proto).protos[inst.b + 1].nups
        Capture(s, i) ==
            LET pseudo == Code[NextPc + i]
                at == Position(pseudo.b)
                found == WithUpvalueAt(s.upvals, at)
            IN IF pseudo.op = "MOVE"
               THEN [upvals |-> found, ups |-> Append(s.ups, UpvalueAt(found, at))]
               ELSE [s EXCEPT !.ups = Append(@, Closure.ups[pseudo.b + 1])]
        s1 == FoldLeft(Capture, [upvals |-> upvals, ups |-> <<>>], [i \in 1 .. nups |-> i])
    IN /\ Fetch({"CLOSURE"})
       /\ upvals' = s1.upvals
       /\ funs' = Append(funs, [proto |-> Append(Closure.proto, inst.b), ups |-> s1.ups])
       /\ stack' = [stack EXCEPT ![Position(inst.a)] = <<"fun", Len(funs) + 1>>]
       /\ Goto(NextPc + nups) /\ UNCHANGED <<absTop, tables>>
handleVararg ==
    LET p == ProtoAt(Closure.proto)
        n == Max2(0, Frame.base - Frame.func - 1 - p.nparams)
        values == Adjusted(Slots(stack, Frame.base - n, n), inst.b - 1)
    IN /\ Fetch({"VARARG"})
       /\ stack' = Write(stack, Position(inst.a), values)
       /\ absTop' = IF inst.b = 0 THEN Position(inst.a) + n ELSE absTop
       /\ Goto(NextPc) /\ UNCHANGED heap

------------------------------------------------------------------------------
(* Call and return *)

NArgs(b, func) == IF b = 0 THEN absTop - (func + 1) ELSE b - 1
Saved == [Machine EXCEPT !.calls[Len(calls)].pc = NextPc]
handleCall ==
    LET func == Position(inst.a)
        m == precall(Saved, func, NArgs(inst.b, func), inst.c - 1, NotHost)
        returned == Len(m.calls) = Len(calls)      \* it was a C function
    IN /\ Fetch({"CALL"}) /\ UNCHANGED <<upvals, funs>>
       /\ Become(IF returned /\ inst.c > 0 /\ m.status = "running"
                 THEN [m EXCEPT !.stack = setTop(@, Frame.top), !.absTop = Frame.top] ELSE m)

\* reuseCurrentFrameForTailCall: the callee's frame takes the caller's place.
Reuse(m) ==
    LET callee == Last(m.calls)
        shift == callee.func - Frame.func
        top == callee.top - shift
    IN [m EXCEPT !.stack = setTop(Write(@, Frame.func, Slots(@, callee.func, callee.top - callee.func)), top),
                 !.absTop = top,
                 !.calls = Append(Front(calls),
                     [callee EXCEPT !.func = @ - shift, !.base = @ - shift, !.top = top,
                                    !.host = Frame.host])]
handleTailCall ==
    LET func == Position(inst.a)
        m == precall(Saved, func, NArgs(inst.b, func), -1, NotHost)
    IN /\ Fetch({"TAILCALL"})
       /\ upvals' = Closed(Frame.base) /\ UNCHANGED funs
       /\ Become(IF Len(m.calls) > Len(calls) THEN Reuse(m) ELSE m)

\* handleReturn, and what VM::call does when the frame was its own: the
\* results go to the caller, whose registers are there again when it runs on.
handleReturn ==
    LET first == Position(inst.a)
        results == Slots(stack, first, IF inst.b = 0 THEN absTop - first ELSE inst.b - 1)
        newTop == Frame.func + Len(results)
        caller == calls[Len(calls) - 1]
        after == postcall(setTop(Write(stack, Frame.func, results), newTop), Frame.func, results,
                          IF Frame.host = NotHost THEN Frame.nres ELSE Frame.host, newTop, caller.top)
    IN /\ Fetch({"RETURN"})
       /\ upvals' = Closed(Frame.base)
       /\ stack' = IF Frame.host = NotHost THEN Grow(after.stack, caller.top) ELSE after.stack
       /\ absTop' = after.absTop
       /\ calls' = Front(calls)
       /\ UNCHANGED <<chunk, funs, tables, trace, status>>

------------------------------------------------------------------------------
(* The rest of a handler whose VM::call has returned *)

Waiting(for) == status = "running" /\ Frame.wait.for = for
Result == IF absTop > Frame.wait.savedTop THEN stack[Frame.wait.savedTop] ELSE Nil
\* restoreStack
Restored ==
    [i \in 0 .. Frame.wait.savedSize - 1 |-> IF i < Frame.wait.savedTop THEN stack[i] ELSE Nil]
Resume(stk, pc) ==
    /\ stack' = stk /\ absTop' = Frame.wait.savedTop
    /\ calls' = [calls EXCEPT ![Len(calls)].pc = pc, ![Len(calls)].wait = NotWaiting]
    /\ UNCHANGED <<chunk, heap, trace, status>>

FinishRegister ==
    Waiting("register") /\ Resume([Restored EXCEPT ![Position(Frame.wait.reg)] = Result], Frame.pc)
FinishAssignment == Waiting("none") /\ Resume(Restored, Frame.pc)
FinishTest ==
    /\ Waiting("test")
    /\ LET result == IsTrue(Result) # Frame.wait.negate
       IN Resume(Restored, IF result # (Frame.wait.a # 0) THEN Frame.pc + 1 ELSE Frame.pc)
\* The next pair is joined with the saved top and size in force again.
FinishConcat ==
    LET w == Frame.wait
        stk == [Restored EXCEPT ![Position(w.last - 1)] = Result]
        back == [calls EXCEPT ![Len(calls)].wait = NotWaiting]
    IN /\ Waiting("concat")
       /\ IF w.last - 1 = w.first
          THEN Resume([stk EXCEPT ![Position(w.reg)] = Result], Frame.pc)
          ELSE \* go back to the instruction with the joined operands in place
               /\ stack' = stk /\ absTop' = w.savedTop
               /\ calls' = [calls EXCEPT ![Len(calls)].wait =
                                [for |-> "operands", reg |-> w.reg, first |-> w.first, last |-> w.last - 1]]
               /\ UNCHANGED <<chunk, heap, trace, status>>
ContinueConcat ==
    LET w == Frame.wait IN Waiting("operands") /\ Concat(stack, w.reg, w.first, w.last, Frame.pc)
FinishTForLoop ==
    LET a == Frame.wait.a
        stk == setTop(stack, Frame.top)
        first == stk[Position(a + 3)]
        back == Frame.pc + 1 + Code[Frame.pc + 1].b
    IN /\ Waiting("tforloop")
       /\ stack' = IF first # Nil THEN [stk EXCEPT ![Position(a + 2)] = first] ELSE stk
       /\ absTop' = Frame.top
       /\ calls' = [calls EXCEPT ![Len(calls)].pc = IF first # Nil THEN back ELSE Frame.pc + 1,
                                 ![Len(calls)].wait = NotWaiting]
       /\ UNCHANGED <<chunk, heap, trace, status>>
\* The main function has returned to the host.
Finish ==
    /\ status = "running" /\ Len(calls) = 1
    /\ status' = "done" /\ UNCHANGED <<chunk, stack, absTop, calls, heap, trace>>

------------------------------------------------------------------------------
(* The program *)

\* The host has pushed the main function and calls it for all its results.
Loaded(name, proto) ==
    /\ program = name /\ main = proto
    /\ upvals = <<>> /\ funs = <<[proto |-> <<>>, ups |-> <<>>]>>
    /\ tables = <<[map |-> [k \in {Str(n) : n \in Natives} |-> <<"native", k[2]>>], meta |-> 0]>>
    /\ trace = <<>> /\ status = "running"
    /\ stack = Write([i \in {} |-> Nil], 0, <<<<"fun", 1>>>> \o Nils(proto.max))
    /\ absTop = 1 + proto.max
    /\ calls = <<NewFrame(0, 0, 0, 0, NotHost),
                 NewFrame(0, 1, 1 + proto.max, -1, -1)>>

Next ==
    \/ handleMove \/ handleLoadK \/ handleLoadNil \/ handleLoadBool
    \/ handleGetUpval \/ handleSetUpval \/ handleGetGlobal \/ handleSetGlobal
    \/ handleGetTable \/ handleSetTable \/ handleSelf \/ handleNewTable \/ handleSetList
    \/ handleArithmetic \/ handleUnaryMinus \/ handleLength \/ handleConcat
    \/ handleJump \/ handleComparison \/ handleTest
    \/ handleForPrep \/ handleForLoop \/ handleTForLoop
    \/ handleClose \/ handleClosure \/ handleVararg
    \/ handleCall \/ handleTailCall \/ handleReturn
    \/ FinishRegister \/ FinishAssignment \/ FinishTest \/ FinishConcat \/ ContinueConcat
    \/ FinishTForLoop \/ Finish

------------------------------------------------------------------------------
(* Properties *)

Known(v) ==
    CASE v[1] = "fun" -> v[2] \in DOMAIN funs
      [] IsTable(v) -> v[2] \in DOMAIN tables
      [] OTHER -> v[1] \in {"nil", "true", "false", "num", "str", "native"}

\* The types of the variables: the top is within the stack, and every value
\* that the stack, an upvalue or a table holds refers to an object there is.
TypeOK ==
    /\ DOMAIN stack = 0 .. Size(stack) - 1 /\ absTop \in 0 .. Size(stack)
    /\ \A i \in DOMAIN stack : Known(stack[i])
    /\ \A id \in DOMAIN upvals : Known(upvals[id].value) /\ upvals[id].at < Size(stack)
    /\ \A f \in DOMAIN funs : \A i \in DOMAIN funs[f].ups : funs[f].ups[i] \in DOMAIN upvals
    /\ \A t \in DOMAIN tables : \A k \in DOMAIN tables[t].map : Known(k) /\ Known(tables[t].map[k])
    /\ Len(calls) \in 1 .. MaxCallDepth
    /\ status \in {"running", "done", "error"}

\* Positions in the code of a prototype that are operands and no instructions:
\* the captures after CLOSURE and the block number after SETLIST.
Data(p) ==
    UNION {CASE p.code[i].op = "CLOSURE" -> i + 1 .. i + p.protos[p.code[i].b + 1].nups
             [] p.code[i].op = "SETLIST" /\ p.code[i].c = 0 -> {i + 1}
             [] OTHER -> {} : i \in DOMAIN p.code}

\* What the handlers take for granted: the stacks keep their shape; control is at an instruction and never
\* at an operand of one or past the end; the frame has all its registers; the
\* frame of a callee begins inside or above its caller's; and an instruction
\* that takes "all values up to the top" finds the top at or above the first.
StaysInside ==
    /\ TypeOK
    /\ Ready =>
        /\ Frame.pc + 1 \in DOMAIN Code \ Data(ProtoAt(Closure.proto))
        /\ Size(stack) >= Frame.top
        /\ \A i \in 2 .. Len(calls) - 1 : calls[i].base <= calls[i + 1].func
        /\ (inst.op \in {"CALL", "TAILCALL", "SETLIST"} /\ inst.b = 0) => absTop > Position(inst.a)
        /\ (inst.op = "RETURN" /\ inst.b = 0) => absTop >= Position(inst.a)

\* findOrCreateUpvalue and closeUpvalues: a variable has one open upvalue at
\* most, and it stands at a register of a frame that is still called.  (A
\* closure that outlives the frame would read what the next call puts there.)
UpvaluesOfLiveFrames ==
    \A id \in DOMAIN upvals : upvals[id].at >= 0 =>
        /\ OpenAt(upvals, upvals[id].at) = {id}
        /\ \E i \in 2 .. Len(calls) :
              /\ upvals[id].at \in calls[i].base .. calls[i].top - 1
              /\ i < Len(calls) => upvals[id].at < calls[i + 1].func

\* docs/vm/instruction-set.md, GETTABLE: the one register the instruction
\* changes is R(A).  So what a handler pushes to call a metamethod stands
\* above every register of the frame that waits for it.
MetamethodsAboveRegisters ==
    \A i \in 2 .. Len(calls) :
        calls[i].wait.for \in {"register", "none", "test", "concat"} =>
            calls[i].wait.savedTop >= calls[i].top
=============================================================================
