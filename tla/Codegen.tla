------------------------------- MODULE Codegen -------------------------------
(***************************************************************************)
(* The code generator: src/compiler/codegen and the register allocator.    *)
(* A syntax tree goes in, a function prototype comes out.  The generator   *)
(* is a sequential pass over the tree, so it is a family of operators on   *)
(* one record g, the state of the function being compiled (CodegenState):  *)
(*                                                                         *)
(*   code      instructions [op, a, b, c]; sBx and Bx are in b; pcs from 0 *)
(*   k, protos the constants and the compiled sub-functions                *)
(*   free, max freereg_ of the RegisterAllocator, maxStackSize of the Proto*)
(*   locals    every local declared so far [name, reg, cap, open]          *)
(*   active    activeVarCount_                                             *)
(*   blocks    the enclosing loops, innermost last: [breaklist, active]    *)
(*   ups       captured variables [name, inStack, index]                   *)
(*   up        the enclosing function's state, <<>> at the top             *)
(*   force, reads   forceNilLocalInitialization_, futureReads_             *)
(*   bad       a CodegenError was thrown                                   *)
(*                                                                         *)
(* The trees are described in Syntax.                                      *)
(* The breaks of a loop are a list threaded through the offsets of the     *)
(* jumps themselves, as in the code.  A PatchList, which the code keeps as *)
(* a vector of pcs, is a set of pcs.  The list jpc_ of jumps to the next   *)
(* instruction only ever holds the one jump into a generic for, which the  *)
(* next instruction patches: it is patched at once.  Line numbers, debug   *)
(* metadata and the compilation budget are left out.                       *)
(***************************************************************************)
EXTENDS Bytecode, Syntax, FiniteSets, Folds

------------------------------------------------------------------------------
(* The function state, registers and instructions *)

NewFunction(nparams, isVararg, hasArg, up) ==
    [code |-> <<>>, k |-> <<>>, protos |-> <<>>, free |-> 0, max |-> 2,
     locals |-> <<>>, active |-> 0, blocks |-> <<>>, ups |-> <<>>,
     up |-> up, force |-> FALSE, reads |-> {}, bad |-> FALSE,
     nparams |-> nparams, vararg |-> isVararg, hasArg |-> hasArg]

getLabel(g) == Len(g.code)
\* A bug: the stack size of the prototype is not raised.
checkStackNot(g, n) == g
\* RegisterAllocator::checkStack: the field has 8 bits, the comparison has not.
checkStack(g, n) == [g EXCEPT !.max = IF g.free + n > @ THEN (g.free + n) % StackSizes ELSE @]
setFreeReg(g, r) == [g EXCEPT !.free = r]
setFreeRegAndCheck(g, r) == checkStack(setFreeReg(g, r), 0)
ensureRegAtLeast(g, r) == [g EXCEPT !.free = Max2(@, r)]
allocReg(g) == setFreeRegAndCheck(g, g.free + 1)    \* the register is g.free
freeReg(g, r) ==
    IF r >= g.active /\ r = g.free - 1 THEN [g EXCEPT !.free = @ - 1] ELSE g

\* JumpPatcher::fixJump and patchList: the offset is relative to the next pc.
fixJump(g, pc, dest) == [g EXCEPT !.code[pc + 1].b = dest - (pc + 1)]
patchList(g, pcs, dest) ==
    [g EXCEPT !.code = [i \in DOMAIN @ |->
        IF i - 1 \in pcs THEN [@[i] EXCEPT !.b = dest - i] ELSE @[i]]]
patchToHere(g, pcs) == patchList(g, pcs, getLabel(g))

\* A list that is threaded through the jumps is the pc of its first jump: the
\* offset of each leads to the next one, and NoJump as an offset ends the list.
NoJump == -1
getJump(g, pc) ==
    LET offset == g.code[pc + 1].b IN IF offset = NoJump THEN NoJump ELSE pc + 1 + offset
RECURSIVE lastJump(_, _)
lastJump(g, list) == IF getJump(g, list) = NoJump THEN list ELSE lastJump(g, getJump(g, list))
RECURSIVE patchLinked(_, _, _)
patchLinked(g, list, dest) ==
    IF list = NoJump THEN g ELSE patchLinked(fixJump(g, list, dest), getJump(g, list), dest)

\* CodegenOps::codeABC, codeABx, codeAsBx
codeABC(g, op, a, b, c) ==
    [g EXCEPT !.code = Append(@, [op |-> op, a |-> a, b |-> b, c |-> c])]
LastPc(g) == Len(g.code) - 1
Jump(g) == codeABC(g, "JMP", 0, NoJump, 0)

\* addConstant: one entry per value.
addConstant(g, v) == IF Contains(g.k, v) THEN g ELSE [g EXCEPT !.k = Append(@, v)]
IndexOfK(g, v) == CHOOSE i \in 0 .. Len(g.k) - 1 : g.k[i + 1] = v

------------------------------------------------------------------------------
(* Scopes: locals, blocks, upvalues *)

OpenLocals(g, name) ==
    {i \in DOMAIN g.locals : g.locals[i].name = name /\ g.locals[i].open}
findLocal(g, name) ==
    IF OpenLocals(g, name) = {} THEN -1
    ELSE g.locals[CHOOSE i \in OpenLocals(g, name) :
                    \A j \in OpenLocals(g, name) : j <= i].reg
markCaptured(g, reg) ==
    LET at == {i \in DOMAIN g.locals : g.locals[i].reg = reg /\ g.locals[i].open}
    IN IF at = {} THEN g
       ELSE [g EXCEPT !.locals[CHOOSE i \in at : \A j \in at : j <= i].cap = TRUE]

addLocalVar(g, name) ==
    checkStack([g EXCEPT !.locals = Append(@, [name |-> name, reg |-> g.free,
                                               cap |-> FALSE, open |-> TRUE]),
                         !.free = @ + 1], 0)
adjustLocalVars(g, n) ==
    checkStack([g EXCEPT !.active = @ + n, !.free = g.active + n], 0)
AddLocals(g, names) ==
    adjustLocalVars(FoldLeft(addLocalVar, g, names), Len(names))

\* ScopeManager::closeScopeUpvalues
closeScopeUpvalues(g, level) ==
    IF \/ g.active <= level
       \/ ~ \E i \in DOMAIN g.locals :
              g.locals[i].open /\ g.locals[i].reg >= level /\ g.locals[i].cap
       \/ g.code # <<>> /\ Last(g.code).op = "RETURN"
    THEN g ELSE codeABC(g, "CLOSE", level, 0, 0)

\* closeLocals ends the newest open locals, one for each that leaves.
closeLocals(g, level) ==
    LET open == {i \in DOMAIN g.locals : g.locals[i].open}
        leaving == {i \in open :
                      Cardinality({j \in open : j > i}) < g.active - level}
    IN [g EXCEPT !.locals = [i \in DOMAIN @ |->
                      IF i \in leaving THEN [@[i] EXCEPT !.open = FALSE] ELSE @[i]],
                 !.active = level]
removeLocalVars(g, level) ==
    LET f == closeScopeUpvalues(g, level)
        h == IF f.active > level THEN closeLocals(f, level) ELSE f
    IN setFreeRegAndCheck(h, h.active)

enterBlock(g) == [g EXCEPT !.blocks = Append(@, [breaklist |-> NoJump, active |-> g.active])]
leaveBlock(g) ==
    LET b == Last(g.blocks)
        f == removeLocalVars([g EXCEPT !.blocks = Front(@)], b.active)
    IN patchLinked(f, b.breaklist, getLabel(f))

\* A bug: the jump takes the place of the list's other jumps.
appendBreakJumpAlone(g, pc) == [g EXCEPT !.blocks[Len(g.blocks)].breaklist = pc]
\* ScopeManager::appendBreakJump, concatJumpList: the jump goes to the list's end.
appendBreakJump(g, pc) ==
    LET list == Last(g.blocks).breaklist
    IN IF list = NoJump THEN [g EXCEPT !.blocks[Len(g.blocks)].breaklist = pc]
       ELSE fixJump(g, lastJump(g, list), pc)

\* UpvalueContext::add and ScopeManager::resolveUpvalue: index -1 is a global.
addUpvalue(g, name, inStack, index) ==
    IF \E i \in DOMAIN g.ups : g.ups[i].name = name THEN g
    ELSE [g EXCEPT !.ups = Append(@, [name |-> name, inStack |-> inStack, index |-> index])]
findUpvalue(g, name) ==
    LET at == {i \in DOMAIN g.ups : g.ups[i].name = name}
    IN IF at = {} THEN -1 ELSE (CHOOSE i \in at : TRUE) - 1

RECURSIVE resolveUpvalue(_, _)
resolveUpvalue(g, name) ==
    IF g.up = <<>> THEN g
    ELSE LET local == findLocal(g.up, name) IN
         IF local >= 0
         THEN addUpvalue([g EXCEPT !.up = markCaptured(@, local)], name, TRUE, local)
         ELSE LET parent == resolveUpvalue(g.up, name)
                  f == [g EXCEPT !.up = parent]
                  index == findUpvalue(parent, name)
              IN IF index >= 0 THEN addUpvalue(f, name, FALSE, index) ELSE f

\* NameBinder::resolve: a local's register, an upvalue, or a global's constant.
resolve(g, name) ==
    IF findLocal(g, name) >= 0 THEN [g |-> g, kind |-> "local", index |-> findLocal(g, name)]
    ELSE LET f == resolveUpvalue(g, name) IN
         IF findUpvalue(f, name) >= 0 /\ f.up # <<>>
         THEN [g |-> f, kind |-> "upvalue", index |-> findUpvalue(f, name)]
         ELSE LET h == addConstant(f, <<"str", name>>)
              IN [g |-> h, kind |-> "global", index |-> IndexOfK(h, <<"str", name>>)]

------------------------------------------------------------------------------
(* Right values (ValueResult) and how they reach registers *)

\* The emitters call one another through one recursive operator, so that
\* TLC's coverage expands each of them once.
RECURSIVE Emitted(_, _, _, _, _)
aValue(g, e) == Emitted("value", g, e, 0, 0)
aCall(g, e, target) == Emitted("call", g, e, target, 0)
aCond(g, e, on) == Emitted("cond", g, e, on, 0)
aStatement(g, s) == Emitted("statement", g, s, 0, 0)
aFunction(g, e) == Emitted("function", g, e, 0, 0)
materialized(g, v, r) == Emitted("materialize", g, v, r, 0)
resolved(g, name) == Emitted("resolve", g, name, 0, 0)
inRK(g, v) == Emitted("rk", g, v, 0, 0)
inAnyReg(g, v) == Emitted("register", g, v, 0, 0)
aMulti(g, e, r, n) == Emitted("multi", g, e, r, n)
inOrder(g, stmts) == Emitted("statements", g, stmts, 0, 0)
aBlock(g, stmts) == Emitted("block", g, stmts, 0, 0)
anLValue(g, e) == Emitted("lvalue", g, e, 0, 0)
emittedTo(g, e, r) == Emitted("to", g, e, r, 0)

Immediate(v) == [kind |-> "immediate", v |-> v]
Constant(k) == [kind |-> "constant", k |-> k]
Register(r, owns) == [kind |-> "register", reg |-> r, owns |-> owns]
PendingLoad(access, r, aux) == [kind |-> "pending", access |-> access, reg |-> r, aux |-> aux]
Relocatable(pc) == [kind |-> "relocatable", pc |-> pc]
MultiRet(access, pc) == [kind |-> "multi", access |-> access, pc |-> pc]
With(g, v) == [g |-> g, v |-> v]

Truthiness(v) ==
    CASE v.kind = "immediate" -> IF v.v \in {<<"nil">>, <<"false">>} THEN "falsy" ELSE "truthy"
      [] v.kind = "constant" -> "truthy"
      [] OTHER -> "runtime"
IsNumber(v) == v.kind = "immediate" /\ Head(v.v) = "num"
Owns(v) == v.kind = "register" /\ v.owns

SetArg(g, pc, arg, x) == [g EXCEPT !.code[pc + 1][arg] = x]
\* setWantedResults; n = -1 keeps all the results (setOpenMultiRet).
setWanted(g, access, pc, n) == SetArg(g, pc, IF access = "call" THEN "c" ELSE "b", n + 1)
CallBase(g, v) == g.code[v.pc + 1].a

\* A call or a vararg used as one value.
forceSingleValue(g, v) ==
    IF v.kind # "multi" THEN With(g, v)
    ELSE With(setWanted(g, v.access, v.pc, 1),
              IF v.access = "call" THEN Register(CallBase(g, v), FALSE) ELSE Relocatable(v.pc))

LoadConstant(g, v, r) ==
    LET f == addConstant(g, v) IN codeABC(f, "LOADK", r, IndexOfK(f, v), 0)

materializeValue(g, v, r) ==
    CASE v.kind = "immediate" /\ v.v = <<"nil">> -> codeABC(g, "LOADNIL", r, r, 0)
      [] v.kind = "immediate" /\ v.v \in {<<"true">>, <<"false">>} ->
            codeABC(g, "LOADBOOL", r, IF v.v = <<"true">> THEN 1 ELSE 0, 0)
      [] IsNumber(v) -> LoadConstant(g, v.v, r)
      [] v.kind = "constant" -> codeABC(g, "LOADK", r, v.k, 0)
      [] v.kind = "register" -> IF v.reg = r THEN g ELSE codeABC(g, "MOVE", r, v.reg, 0)
      [] v.kind = "pending" /\ v.access = "global" -> codeABC(g, "GETGLOBAL", r, v.aux, 0)
      [] v.kind = "pending" /\ v.access = "upvalue" -> codeABC(g, "GETUPVAL", r, v.aux, 0)
      [] v.kind = "pending" /\ v.access = "index" -> codeABC(g, "GETTABLE", r, v.reg, v.aux)
      [] v.kind = "relocatable" -> SetArg(g, v.pc, "a", r)
      [] v.kind = "multi" /\ v.access = "call" ->
            LET f == setWanted(g, "call", v.pc, 1)
            IN IF CallBase(f, v) = r THEN f ELSE codeABC(f, "MOVE", r, CallBase(f, v), 0)
      [] v.kind = "multi" /\ v.access = "vararg" ->
            setWanted(SetArg(g, v.pc, "a", r), "vararg", v.pc, 1)

\* Returns the register that holds the value.
valueToAnyReg(g, v) ==
    CASE v.kind = "register" -> [g |-> g, reg |-> v.reg]
      [] v.kind = "multi" /\ v.access = "call" ->
            [g |-> setWanted(g, "call", v.pc, 1), reg |-> CallBase(g, v)]
      [] OTHER -> [g |-> materialized(allocReg(g), v, g.free), reg |-> g.free]

\* A constant that fits an operand, else a register.
valueToRK(g, v) ==
    LET f == IF v.kind = "immediate" THEN addConstant(g, v.v) ELSE g
        k == CASE v.kind = "immediate" -> IndexOfK(f, v.v)
               [] v.kind = "constant" -> v.k
               [] OTHER -> MaxIndexRK + 1
    IN IF k <= MaxIndexRK THEN [g |-> f, reg |-> AsK(k)] ELSE inAnyReg(f, v)

\* Both operands are released, the higher register first.
freeOperands(g, a, b) ==
    IF a > b THEN freeReg(freeReg(g, a), b) ELSE freeReg(freeReg(g, b), a)

MoveRange(g, dst, src, n) ==
    LET Move(h, i) == codeABC(h, "MOVE", dst + i, src + i, 0)
        up == [i \in 1 .. n |-> i - 1]
    IN IF dst = src THEN g ELSE FoldLeft(Move, g, IF dst < src THEN up ELSE Reverse(up))

materializeCondResult(g, trues, r) ==
    LET f == codeABC(g, "LOADBOOL", r, 0, 1)
    IN codeABC(patchToHere(f, trues), "LOADBOOL", r, 1, 0)

------------------------------------------------------------------------------
(* What the emitters ask about the tree *)

Comparisons == {"==", "~=", "<", "<=", ">", ">="}
Arithmetic == [o \in {"+", "-", "*"} |->
                 CASE o = "+" -> "ADD" [] o = "-" -> "SUB" [] o = "*" -> "MUL"]
Fold(op, m, n) == CASE op = "+" -> m + n [] op = "-" -> m - n [] op = "*" -> m * n

RECURSIVE producesBoolean(_)
producesBoolean(e) ==
    CASE e[1] \in {"true", "false"} -> TRUE
      [] e[1] = "paren" -> producesBoolean(e[2])
      [] e[1] = "un" -> e[2] = "not"
      [] e[1] = "bin" -> \/ e[2] \in Comparisons
                         \/ /\ e[2] \in {"and", "or"}
                            /\ producesBoolean(e[3]) /\ producesBoolean(e[4])
      [] OTHER -> FALSE

\* literalTruthiness: "unknown" for what is not a literal.
RECURSIVE literalTruthiness(_)
literalTruthiness(e) ==
    CASE e[1] \in {"nil", "false"} -> "falsy"
      [] e[1] \in {"true", "num", "str"} -> "truthy"
      [] e[1] = "paren" -> literalTruthiness(e[2])
      [] OTHER -> "unknown"

RECURSIVE concatOperands(_)
concatOperands(e) ==
    IF e[1] = "bin" /\ e[2] = ".." THEN concatOperands(e[3]) \o concatOperands(e[4]) ELSE <<e>>

\* collectStmtReads and collectExprReads: an assignment to a name does not read it.
RECURSIVE collectReads(_)
collectReads(n) ==
    LET below == CASE n[1] = "function" -> n[4]
                   [] n[1] \in {"localfunction", "functionstmt"} -> <<n[3]>>
                   [] n[1] = "assign" -> SelectSeq(n[2], LAMBDA t : t[1] # "name") \o n[3]
                   [] OTHER -> SubExprs(n) \o SubStmts(n)
        own == CASE n[1] = "name" -> {n[2]}
                 [] n[1] = "functionstmt" -> {Last(n[2])}
                 [] OTHER -> {}
    IN own \cup UNION {collectReads(below[i]) : i \in DOMAIN below}

RECURSIVE expressionHasCall(_)
expressionHasCall(e) ==
    IsCall(e) \/ \E i \in DOMAIN SubExprs(e) : expressionHasCall(SubExprs(e)[i])

Indices(seq) == [i \in DOMAIN seq |-> i]

------------------------------------------------------------------------------
(* Expressions.  emitX(g, e) is the state afterwards and the value in it;  *)
(* statement and block give the state alone.                               *)

\* One value, forced and put in register r.
emitTo(g, e, r) ==
    LET x == aValue(g, e)
        y == forceSingleValue(x.g, x.v)
    IN materialized(y.g, y.v, r)

emitVarargExpr(g) ==
    LET f == codeABC(g, "VARARG", 0, 1, 0)
    IN With(IF g.vararg THEN f ELSE [f EXCEPT !.bad = TRUE], MultiRet("vararg", LastPc(f)))

\* A call or '...' as the source of n values from register r on (-1: all).
emitMulti(g, e, r, n) ==
    LET x == IF e[1] = "vararg" THEN emitVarargExpr(g) ELSE aCall(g, e, r)
        f == IF e[1] = "vararg" THEN SetArg(x.g, x.v.pc, "a", r) ELSE x.g
    IN setWanted(f, x.v.access, x.v.pc, n)

\* target = -1: the call may take any base.
emitCallExpr(g, e, target) ==
    LET self == e[1] = "method"
        args == Last(e)
        width == IF self THEN 2 ELSE 1
        \* the method's name is an operand, which may take a register
        Self(callee, key, rk) ==
            LET obj == IF IndexOfK(key, <<"str", e[3]>>) <= MaxIndexRK
                       THEN freeReg(rk.g, callee.reg) ELSE rk.g
            IN With(codeABC(setFreeRegAndCheck(obj, obj.free + 2), "SELF", obj.free,
                            callee.reg, rk.reg), obj.free)
        Named(callee, key) == Self(callee, key, inRK(key, Constant(IndexOfK(key, <<"str", e[3]>>))))
        Callee(callee) ==
            IF self THEN Named(callee, addConstant(callee.g, <<"str", e[3]>>))
            ELSE With(callee.g, callee.reg)
        OpenArg(i) == i = Len(args) /\ IsMulti(args[i])
        Arg(h, i, r) ==
            ensureRegAtLeast(IF OpenArg(i) THEN aMulti(h, args[i], r, -1)
                             ELSE emittedTo(h, args[i], r), r + 1)
        Called(f, from, base) ==
            LET first == base + width
                ready == checkStack(setFreeRegAndCheck(MoveRange(f, base, from, width), first),
                                    Len(args))
                b == IF args # <<>> /\ OpenArg(Len(args)) THEN 0 ELSE Len(args) + width
            IN codeABC(FoldLeft(LAMBDA h, i : Arg(h, i, first + i - 1), ready, Indices(args)),
                       "CALL", base, b, 2)
        End(called, f, base) ==
            With(setFreeRegAndCheck(called, Max2(f.free, base + 1)), MultiRet("call", LastPc(called)))
        At(f, from, base) == End(Called(f, from, base), f, base)
        From(x, c) ==
            LET disposable == /\ ~self /\ c.v = c.g.free - 1
                              /\ x.v.kind = "register" => x.v.owns
            IN At(c.g, c.v, IF target >= 0 THEN target
                            ELSE IF c.v < c.g.free /\ ~disposable THEN c.g.free ELSE c.v)
        Of(x) == From(x, Callee(inAnyReg(x.g, x.v)))
    IN Of(aValue(g, e[2]))

\* emitComparisonJump: one jump, taken when the comparison's outcome is on.
emitComparisonJump(g, e, on) ==
    LET l == aValue(g, e[3])
        o1 == inRK(l.g, l.v)
        r == aValue(o1.g, e[4])
        o2 == inRK(r.g, r.v)
        swap == e[2] \in {">", ">="}
        op == CASE e[2] \in {"==", "~="} -> "EQ" [] e[2] \in {"<", ">"} -> "LT" [] OTHER -> "LE"
        f == codeABC(freeOperands(o2.g, o1.reg, o2.reg), op,
                     IF on = (e[2] # "~=") THEN 1 ELSE 0,
                     IF swap THEN o2.reg ELSE o1.reg, IF swap THEN o1.reg ELSE o2.reg)
    IN With(Jump(f), {LastPc(f) + 1})

\* emitCondResult (on = FALSE) and emitCondResultTrue (on = TRUE): the jumps
\* taken when the condition is on; otherwise control falls through.
emitCond(g, e, on) ==
    CASE e[1] = "paren" -> aCond(g, e[2], on)
      [] e[1] = "un" /\ e[2] = "not" -> aCond(g, e[3], ~on)
      [] e[1] = "bin" /\ e[2] \in Comparisons -> emitComparisonJump(g, e, on)
      [] e[1] = "bin" /\ e[2] \in {"and", "or"} ->
            LET both == (e[2] = "or") = on
                l == aCond(g, e[3], IF both THEN on ELSE ~on)
                r == aCond(l.g, e[4], on)
            IN IF both THEN With(r.g, l.v \cup r.v) ELSE With(patchToHere(r.g, l.v), r.v)
      [] OTHER ->
            LET x == aValue(g, e)
                y == forceSingleValue(x.g, x.v)
                r == inAnyReg(y.g, y.v)
                t == Jump(codeABC(r.g, "TEST", r.reg, 0, IF on THEN 1 ELSE 0))
            IN CASE Truthiness(y.v) = "runtime" -> With(freeReg(t, r.reg), {LastPc(t)})
                 [] Truthiness(y.v) = (IF on THEN "truthy" ELSE "falsy") ->
                        With(Jump(y.g), {LastPc(Jump(y.g))})
                 [] OTHER -> With(y.g, {})

\* The condition as a boolean in a new register.
emitBoolean(g, e) ==
    LET c == aCond(g, e, TRUE)
    IN With(materializeCondResult(allocReg(c.g), c.v, c.g.free), Register(c.g.free, TRUE))

\* and/or: the left value stays unless the right one replaces it.
emitShortCircuit(g, e) ==
    LET x == aValue(g, e[3])
        l == forceSingleValue(x.g, x.v)
        r == IF Owns(l.v) THEN l.v.reg ELSE l.g.free
        f == IF Owns(l.v) THEN l.g ELSE materialized(allocReg(l.g), l.v, r)
        t == Jump(codeABC(f, "TEST", r, 0, IF e[2] = "and" THEN 0 ELSE 1))
    IN With(patchToHere(emittedTo(t, e[4], r), {LastPc(t)}), Register(r, TRUE))

emitConcat(g, e) ==
    LET operands == concatOperands(e)
        n == Len(operands)
        Operand(h, i) == emittedTo(h, operands[i], g.free + i - 1)
        many == FoldLeft(Operand, setFreeRegAndCheck(g, g.free + n), Indices(operands))
        x == aValue(g, operands[1])
        xs == forceSingleValue(x.g, x.v)
        l == inAnyReg(xs.g, xs.v)
        y == aValue(l.g, operands[2])
        ys == forceSingleValue(y.g, y.v)
        r == inAnyReg(ys.g, ys.v)
        two == materialized(materialized(setFreeRegAndCheck(r.g, r.g.free + 2),
                   Register(l.reg, FALSE), r.g.free), Register(r.reg, FALSE), r.g.free + 1)
        target == IF n > 2 THEN g.free ELSE r.g.free
        f == codeABC(IF n > 2 THEN many ELSE two, "CONCAT", target, target, target + n - 1)
    IN With(setFreeRegAndCheck(f, target + 1), Register(target, TRUE))

emitArithmetic(g, e) ==
    LET l == aValue(g, e[3])
        early == IF IsNumber(l.v) THEN [g |-> l.g, reg |-> 0] ELSE inRK(l.g, l.v)
        r == aValue(early.g, e[4])
        o1 == IF IsNumber(l.v) THEN inRK(r.g, l.v) ELSE [g |-> r.g, reg |-> early.reg]
        o2 == inRK(o1.g, r.v)
        f == codeABC(freeOperands(o2.g, o1.reg, o2.reg), Arithmetic[e[2]], 0, o1.reg, o2.reg)
    IN IF IsNumber(l.v) /\ IsNumber(r.v)
       THEN With(r.g, Immediate(<<"num", Fold(e[2], l.v.v[2], r.v.v[2])>>))
       ELSE With(f, Relocatable(LastPc(f)))

emitUnary(g, e) ==
    LET x == aValue(g, e[3])
        r == inAnyReg(x.g, x.v)
        f == codeABC(freeReg(r.g, r.reg), IF e[2] = "-" THEN "UNM" ELSE "LEN", 0, r.reg, 0)
        inner == e[3]
    IN CASE e[2] = "-" /\ IsNumber(x.v) -> With(x.g, Immediate(<<"num", -x.v.v[2]>>))
         [] /\ e[2] = "not" /\ inner[1] = "un" /\ inner[2] = "not"
            /\ literalTruthiness(inner[3]) # "unknown" ->
                With(g, Immediate(<<IF literalTruthiness(inner[3]) = "truthy"
                                    THEN "true" ELSE "false">>))
         [] e[2] = "not" /\ ~(inner[1] = "un" /\ inner[2] = "not"
                              /\ literalTruthiness(inner[3]) # "unknown") -> emitBoolean(g, e)
         [] OTHER -> With(f, Relocatable(LastPc(f)))

\* emitSetList: a block number too large for C is a raw word of its own.
emitSetList(g, table, count, block) ==
    IF block <= MaxArgC THEN codeABC(g, "SETLIST", table, count, block)
    ELSE codeABC(codeABC(g, "SETLIST", table, count, 0), "RAW", 0, block, 0)

emitValueTable(g, e) ==
    LET fields == e[2]
        table == g.free
        pc == getLabel(g)
        Open(i) == i = Len(fields) /\ Len(fields[i]) = 1 /\ IsMulti(fields[i][1])
        \* s: the state, array and hash fields so far, values not yet stored
        Hash(s, i) ==
            LET key == aValue(s.g, fields[i][1])
                k == inRK(key.g, key.v)
                value == aValue(k.g, fields[i][2])
                v == inRK(value.g, value.v)
                f == codeABC(v.g, "SETTABLE", table, k.reg, v.reg)
            IN [s EXCEPT !.g = checkStack(setFreeReg(f, s.g.free), 0), !.nh = @ + 1]
        Block(na) == (na - 1) \div FieldsPerFlush + 1
        Flush(s, count) ==
            [s EXCEPT !.g = setFreeRegAndCheck(emitSetList(s.g, table, count, Block(s.na)), table + 1),
                      !.pending = 0]
        Item(s, i) ==
            LET r == table + s.pending + 1
                f == [s EXCEPT !.na = @ + 1, !.pending = @ + 1,
                               !.g = IF Open(i) THEN aMulti(s.g, fields[i][1], r, -1)
                                     ELSE setFreeRegAndCheck(emittedTo(s.g, fields[i][1], r), r + 1)]
            IN IF ~Open(i) /\ f.pending = FieldsPerFlush THEN Flush(f, f.pending) ELSE f
        Field(s, i) == IF Len(fields[i]) = 2 THEN Hash(s, i) ELSE Item(s, i)
        open == fields # <<>> /\ Open(Len(fields))
        s0 == [g |-> allocReg(codeABC(g, "NEWTABLE", table, 0, 0)), na |-> 0, nh |-> 0, pending |-> 0]
        s1 == FoldLeft(Field, s0, Indices(fields))
        s2 == IF s1.pending = 0 THEN s1 ELSE Flush(s1, IF open THEN 0 ELSE s1.pending)
    IN With(SetArg(SetArg(s2.g, pc, "b", IF open THEN s2.na - 1 ELSE s2.na), pc, "c", s2.nh),
            Register(table, TRUE))

emitClosureUpvalues(g, ups) ==
    FoldLeft(LAMBDA h, u : codeABC(h, IF u.inStack THEN "MOVE" ELSE "GETUPVAL", 0, u.index, 0),
             g, ups)
emitClosure(c, r) ==    \* c: the result of compileFunction
    emitClosureUpvalues(codeABC(c.g, "CLOSURE", r, Len(c.g.protos) - 1, 0), c.ups)

symbolToValue(s) ==
    CASE s.kind = "local" -> Register(s.index, FALSE)
      [] s.kind = "upvalue" -> PendingLoad("upvalue", -1, s.index)
      [] s.kind = "global" -> PendingLoad("global", -1, s.index)

emitValue(g, e) ==
    CASE e[1] \in {"nil", "true", "false", "num"} -> With(g, Immediate(e))
      [] e[1] = "str" -> With(addConstant(g, e), Constant(IndexOfK(addConstant(g, e), e)))
      [] e[1] = "vararg" -> emitVarargExpr(g)
      [] e[1] = "name" -> LET s == resolved(g, e[2]) IN With(s.g, symbolToValue(s))
      [] e[1] = "bin" ->
            (CASE e[2] \in Comparisons \/ producesBoolean(e) -> emitBoolean(g, e)
               [] e[2] \in {"and", "or"} /\ ~producesBoolean(e) -> emitShortCircuit(g, e)
               [] e[2] = ".." -> emitConcat(g, e)
               [] e[2] \in DOMAIN Arithmetic -> emitArithmetic(g, e))
      [] e[1] = "un" -> emitUnary(g, e)
      [] e[1] = "paren" ->
            LET x == aValue(g, e[2])
                y == forceSingleValue(x.g, x.v)
                r == inAnyReg(y.g, y.v)
            IN IF y.v.kind \in {"immediate", "constant"} THEN y
               ELSE With(r.g, Register(r.reg, TRUE))
      [] e[1] = "index" ->
            LET x == aValue(g, e[2])
                t == inAnyReg(x.g, x.v)
                y == aValue(t.g, e[3])
                k == inRK(y.g, y.v)
            IN With(k.g, PendingLoad("index", t.reg, k.reg))
      [] IsCall(e) -> aCall(g, e, -1)
      [] e[1] = "table" -> emitValueTable(g, e)
      [] e[1] = "function" ->
            LET c == aFunction(g, e)
            IN With(emitClosure([c EXCEPT !.g = allocReg(@)], c.g.free), Register(c.g.free, TRUE))

------------------------------------------------------------------------------
(* Assignment *)

\* emitLValue: a local's register, an upvalue, a global or a table and key.
emitLValue(g, e) ==
    LET x == aValue(g, e)
        s == resolved(g, e[2])
    IN CASE e[1] = "name" -> With(s.g, [kind |-> s.kind, slot |-> s.index])
         [] e[1] = "index" -> With(x.g, [kind |-> "index", table |-> x.v.reg, key |-> x.v.aux])
         [] OTHER -> With([g EXCEPT !.bad = TRUE], [kind |-> "none"])

emitStore(g, t, v) ==
    LET x == forceSingleValue(g, v)
        r == IF t.kind = "index" THEN inRK(x.g, x.v) ELSE inAnyReg(x.g, x.v)
        f == CASE t.kind = "upvalue" -> codeABC(r.g, "SETUPVAL", r.reg, t.slot, 0)
               [] t.kind = "global" -> codeABC(r.g, "SETGLOBAL", r.reg, t.slot, 0)
               [] t.kind = "index" -> codeABC(r.g, "SETTABLE", t.table, t.key, r.reg)
               [] t.kind = "none" -> g
    IN IF t.kind = "local"
       THEN materialized(IF Owns(v) THEN freeReg(g, v.reg) ELSE g, v, t.slot)
       ELSE IF Owns(x.v) THEN freeReg(f, r.reg) ELSE f

localReg(g, e) == IF e[1] = "name" THEN findLocal(g, e[2]) ELSE -1

\* Only locals on both sides (tryEmitLocalNameAssignment); "general" when a
\* value would be overwritten before it is read.
localMoves(t, v) ==
    CASE t = v -> "none"
      [] t # v /\ Len(t) = 2 /\ t = Reverse(v) -> "swap"
      [] t # v /\ ~(Len(t) = 2 /\ t = Reverse(v)) ->
            IF \E i, j \in DOMAIN t : i < j /\ t[i] = v[j] THEN "general" ELSE "moves"

emitLocalMoves(g, t, v) ==
    LET Move(h, i) == IF t[i] = v[i] THEN h ELSE codeABC(h, "MOVE", t[i], v[i], 0)
        temp == setFreeRegAndCheck(g, g.free + 1)
        Three(h, m) == codeABC(h, "MOVE", m[1], m[2], 0)
    IN CASE localMoves(t, v) = "none" -> g
         [] localMoves(t, v) = "swap" ->
                setFreeRegAndCheck(FoldLeft(Three, temp,
                    <<<<g.free, v[1]>>, <<t[1], v[2]>>, <<t[2], g.free>>>>), g.free)
         [] localMoves(t, v) = "moves" -> FoldLeft(Move, g, Indices(t))

freezeRegister(g, r) ==
    LET f == setFreeRegAndCheck(g, g.free + 1)
    IN IF r = g.free THEN f ELSE codeABC(f, "MOVE", g.free, r, 0)

emitAssign(g, targets, values) ==
    LET nv == Len(targets)
        ne == Len(values)
        direct == IF nv < ne THEN nv ELSE ne
        t == [i \in 1 .. nv |-> localReg(g, targets[i])]
        v == [i \in 1 .. ne |-> localReg(g, values[i])]
        onlyLocals == nv = ne /\ \A i \in 1 .. nv : t[i] >= 0 /\ v[i] >= 0
        rhsHasCall == \E i \in 1 .. ne : expressionHasCall(values[i])
        \* a local that this statement does not assign
        Stable(e) == localReg(g, e) >= 0 /\ \A i \in 1 .. nv : targets[i] # e
        Frozen(x, s, e) ==
            LET keepTable == x.v.kind # "index" \/ (~rhsHasCall /\ Stable(e[2]))
                f == IF keepTable THEN x.g ELSE freezeRegister(x.g, x.v.table)
                keepKey == x.v.kind # "index" \/ ISK(x.v.key) \/ (~rhsHasCall /\ Stable(e[3]))
                h == IF keepKey THEN f ELSE freezeRegister(f, x.v.key)
                l == IF x.v.kind # "index" THEN x.v
                     ELSE [x.v EXCEPT !.table = IF keepTable THEN @ ELSE x.g.free,
                                      !.key = IF keepKey THEN @ ELSE f.free]
            IN [g |-> h, lv |-> Append(s.lv, l)]
        freezeLValue(s, e) == Frozen(anLValue(s.g, e), s, e)
        \* s: the state and the values to store, in the order of the targets
        Value(s, i, base) ==
            LET r == base + i - 1
                wanted == nv - i + 1
                x == aValue(setFreeRegAndCheck(s.g, r), values[i])
                y == forceSingleValue(x.g, x.v)
                borrow == (nv = 1 /\ ne = 1) \/ (i = direct /\ localReg(g, values[i]) >= 0)
            IN IF i = ne /\ ne <= nv /\ IsMulti(values[i])
               THEN [g |-> setFreeRegAndCheck(aMulti(s.g, values[i], r, wanted), r + wanted),
                     vals |-> s.vals \o [j \in 1 .. wanted |-> Register(r + j - 1, FALSE)]]
               ELSE [g |-> setFreeRegAndCheck(IF borrow THEN y.g ELSE materialized(y.g, y.v, r), r + 1),
                     vals |-> Append(s.vals, IF borrow THEN y.v ELSE Register(r, FALSE))]
        Discard(h, i, scratch) ==
            LET f == setFreeRegAndCheck(h, scratch)
            IN setFreeRegAndCheck(IF IsMulti(values[i]) THEN aMulti(f, values[i], scratch, 0)
                                  ELSE emittedTo(f, values[i], scratch), scratch)
        Rights(lefts) ==
            FoldLeft(LAMBDA s, i : Value(s, i, lefts.g.free), [g |-> lefts.g, vals |-> <<>>],
                     [i \in 1 .. direct |-> i])
        Extra(lefts, rights) ==
            FoldLeft(LAMBDA h, i : Discard(h, i, lefts.g.free + nv), rights.g,
                     [i \in 1 .. ne - direct |-> direct + i])
        Stores(lefts, rights) ==
            FoldLeft(LAMBDA h, i : emitStore(h, lefts.lv[i], IF i <= Len(rights.vals) THEN rights.vals[i]
                                                             ELSE Immediate(<<"nil">>)),
                     Extra(lefts, rights), Reverse(Indices(targets)))
        Assigned(lefts) == Stores(lefts, Rights(lefts))
    IN IF onlyLocals /\ localMoves(t, v) # "general" THEN emitLocalMoves(g, t, v)
       ELSE Assigned(FoldLeft(freezeLValue, [g |-> g, lv |-> <<>>], targets))

------------------------------------------------------------------------------
(* Statements *)

\* One statement after the other, each with the names that are read after it.
statements(g, stmts) ==
    IF g.bad \/ stmts = <<>> THEN g
    ELSE LET after == UNION {collectReads(stmts[j]) : j \in 2 .. Len(stmts)}
         IN  inOrder(aStatement([g EXCEPT !.reads = after], stmts[1]), Tail(stmts))
block(g, stmts) ==
    removeLocalVars([inOrder(g, stmts) EXCEPT !.reads = g.reads], g.active)

emitLocal(g, names, values) ==
    LET nv == Len(names)
        ne == Len(values)
        base == g.active
        start == setFreeReg(g, base)
        last == values[ne]
        \* registers that need no LOADNIL: fresh at function entry, or never read
        alreadyNil == /\ ne = 0 /\ ~g.force
                      /\ getLabel(g) = 0 \/ \A i \in 1 .. nv : names[i] \notin g.reads
        onlyNil == ne > 0 /\ \A i \in 1 .. ne : values[i] = <<"nil">>
        Value(h, i) == setFreeRegAndCheck(emittedTo(h, values[i], base + i - 1), base + i)
        before == FoldLeft(Value, start, [i \in 1 .. (IF ne - 1 < nv THEN ne - 1 ELSE nv) |-> i])
        wanted == nv - ne + 1
        r == base + ne - 1
        c == aCall(before, last, -1)
        call == MoveRange(setWanted(c.g, "call", c.v.pc, wanted), r, CallBase(c.g, c.v), wanted)
        filled ==
            CASE ne = 0 -> start
              [] onlyNil -> setFreeRegAndCheck(codeABC(start, "LOADNIL", base, base + nv - 1, 0), base + nv)
              [] ne > nv -> before
              [] ne > 0 /\ ne <= nv /\ ~onlyNil ->
                    CASE IsCall(last) -> setFreeRegAndCheck(call, base + nv)
                      [] last[1] = "vararg" -> setFreeRegAndCheck(aMulti(before, last, r, wanted), base + nv)
                      [] ~IsMulti(last) -> setFreeRegAndCheck(emittedTo(before, last, r), base + ne)
        complete == ne >= nv \/ alreadyNil \/ onlyNil \/ (ne > 0 /\ IsMulti(last))
        f == IF complete THEN filled ELSE codeABC(filled, "LOADNIL", base + ne, base + nv - 1, 0)
    IN AddLocals(setFreeReg(f, base), names)

emitReturn(g, values) ==
    LET n == Len(values)
        regs == [i \in 1 .. n |-> localReg(g, values[i])]
        direct == \A i \in 1 .. n : regs[i] >= 0 /\ regs[i] = regs[1] + i - 1
        base == g.active
        Value(h, i) == setFreeRegAndCheck(emittedTo(h, values[i], base + i - 1), base + i)
        before == FoldLeft(Value, checkStack(setFreeReg(g, base), n), [i \in 1 .. n - 1 |-> i])
        f == aMulti(setFreeReg(before, base + n - 1), values[n], base + n - 1, -1)
        tail == IF n = 1 /\ IsCall(values[n])
                THEN [f EXCEPT !.code[Len(f.code)].op = "TAILCALL"] ELSE f
    IN CASE n = 0 -> codeABC(g, "RETURN", 0, 1, 0)
         [] n > 0 /\ direct -> codeABC(g, "RETURN", regs[1], n + 1, 0)
         [] n > 0 /\ ~direct /\ IsMulti(values[n]) -> codeABC(tail, "RETURN", base, 0, 0)
         [] n > 0 /\ ~direct /\ ~IsMulti(values[n]) ->
                codeABC(emittedTo(setFreeReg(before, base + n - 1), values[n], base + n - 1),
                        "RETURN", base, n + 1, 0)

emitIf(g, branches, orelse) ==
    LET \* s: the state, the jumps out of the statement, the jumps of a false condition
        Out(s) == [g |-> patchToHere(Jump(s.g), s.f), out |-> s.out \cup {getLabel(s.g)}]
        Branch(s, b) ==
            LET c == aCond(s.g, b[1], FALSE) IN [g |-> aBlock(c.g, b[2]), out |-> s.out, f |-> c.v]
        first == Branch([g |-> g, out |-> {}], branches[1])
        all == FoldLeft(LAMBDA s, b : Branch(Out(s), b), first, Tail(branches))
    IN IF orelse = <<>> THEN patchToHere(all.g, all.out \cup all.f)
       ELSE patchToHere(aBlock(Out(all).g, orelse), Out(all).out)

emitWhile(g, cond, body) ==
    LET c == aCond(g, cond, FALSE)
        f == Jump(aBlock(enterBlock(c.g), body))
    IN patchToHere(leaveBlock(patchList(f, {LastPc(f)}, getLabel(g))), c.v)

emitRepeat(g, body, cond) ==
    LET inside == FoldLeft(aStatement, [enterBlock(g) EXCEPT !.force = TRUE], body)
        f == [inside EXCEPT !.force = g.force]
        x == IF cond = <<"nil">> THEN With(f, Immediate(<<"false">>)) ELSE aValue(f, cond)
        y == forceSingleValue(x.g, x.v)
        r == inAnyReg(y.g, y.v)
        t == Jump(codeABC(removeLocalVars(r.g, g.active), "TEST", r.reg, 0, 0))
    IN IF cond = <<"true">> THEN leaveBlock(removeLocalVars(f, g.active))
       ELSE leaveBlock(patchList(t, {LastPc(t)}, getLabel(g)))

emitFornum(g, var, init, limit, step, body) ==
    LET base == g.free
        Part(h, i) == setFreeRegAndCheck(emittedTo(h, <<init, limit, step>>[i], base + i - 1), base + i)
        two == FoldLeft(Part, g, <<1, 2>>)
        three == IF step = <<>> THEN setFreeRegAndCheck(LoadConstant(two, <<"num", 1>>, base + 2), base + 3)
                 ELSE Part(two, 3)
        scope == AddLocals(setFreeReg(enterBlock(three), base),
                           <<"(for index)", "(for limit)", "(for step)", var>>)
        prep == codeABC(setFreeRegAndCheck(scope, base + 4), "FORPREP", base, 0, 0)
        f == aBlock(prep, body)
        closed == IF body = <<>> THEN f ELSE codeABC(f, "CLOSE", base + 3, 0, 0)
        loop == codeABC(closed, "FORLOOP", base, getLabel(prep) - getLabel(closed) - 1, 0)
    IN leaveBlock(fixJump(loop, LastPc(prep), LastPc(loop)))

emitForin(g, vars, iterators, body) ==
    LET base == g.free
        n == Len(iterators)
        \* s: the state and how many of generator, state and control are set
        Iterator(s, i) ==
            LET x == aValue(s.g, iterators[i])
                y == forceSingleValue(x.g, x.v)
                r == inAnyReg(y.g, y.v)
            IN CASE s.filled < 3 /\ i = n /\ IsMulti(iterators[i]) ->
                       [g |-> setFreeRegAndCheck(aMulti(s.g, iterators[i], base + s.filled, 3 - s.filled), base + 3),
                        filled |-> 3]
                 [] s.filled < 3 /\ ~(i = n /\ IsMulti(iterators[i])) ->
                       [g |-> setFreeRegAndCheck(materialized(y.g, y.v, base + s.filled), base + s.filled + 1),
                        filled |-> s.filled + 1]
                 [] s.filled = 3 -> [s EXCEPT !.g = freeReg(r.g, r.reg)]
        set == FoldLeft(Iterator, [g |-> g, filled |-> 0], Indices(iterators))
        nils == FoldLeft(LAMBDA h, i : codeABC(h, "LOADNIL", base + i, base + i, 0), set.g,
                         [i \in 1 .. 3 - set.filled |-> set.filled + i - 1])
        scope == AddLocals(setFreeReg(enterBlock(setFreeRegAndCheck(nils, base + 3)), base),
                           <<"(for generator)", "(for state)", "(for control)">> \o vars)
        entry == Jump(setFreeRegAndCheck(scope, base + 3 + Len(vars)))
        f == codeABC(aBlock(entry, body), "CLOSE", base + 3, 0, 0)
        next == codeABC(patchToHere(f, {LastPc(entry)}), "TFORLOOP", base, 0, Len(vars))
    IN leaveBlock(codeABC(next, "JMP", 0, getLabel(entry) - getLabel(next) - 1, 0))

\* function path.name() ... end
emitFunction(g, path, function) ==
    LET c == aFunction(g, function)
        n == Len(path)
        target == anLValue(c.g, <<"name", path[1]>>)
        simple == emitStore(emitClosure([c EXCEPT !.g = allocReg(target.g)], target.g.free),
                            target.v, Register(target.g.free, FALSE))
        s == resolved(c.g, path[1])
        receiver == IF s.kind = "local" THEN [g |-> s.g, reg |-> s.index]
                    ELSE [g |-> materialized(allocReg(s.g), symbolToValue(s), s.g.free), reg |-> s.g.free]
        Key(h, name) == LET k == addConstant(h, <<"str", name>>)
                        IN inRK(k, Constant(IndexOfK(k, <<"str", name>>)))
        Step(t, name) == LET k == Key(allocReg(t.g), name)
                         IN [g |-> freeReg(codeABC(k.g, "GETTABLE", t.g.free, t.reg, k.reg), k.reg),
                             reg |-> t.g.free]
        table == FoldLeft(Step, receiver, SubSeq(path, 2, n - 1))
        k == Key(emitClosure([c EXCEPT !.g = allocReg(table.g)], table.g.free), path[n])
        field == codeABC(k.g, "SETTABLE", table.reg, k.reg, table.g.free)
    IN checkStack(setFreeReg(IF n = 1 THEN simple ELSE field, g.free), 0)

emitLocalFunction(g, name, function) ==
    LET c == aFunction(addLocalVar(g, name), function)
    IN adjustLocalVars(emitClosure(c, g.free), 1)

emitBreak(g) ==
    LET loop == Last(g.blocks)
        f == Jump(closeScopeUpvalues(g, loop.active))
    IN IF g.blocks = <<>> THEN [g EXCEPT !.bad = TRUE]
       ELSE appendBreakJump(f, LastPc(f))

emitCallStmt(g, call) ==
    LET c == aCall(g, call, -1) IN setWanted(c.g, "call", c.v.pc, 0)

\* Every statement gives its temporaries back; after an error there is no other.
statement(g, s) ==
    LET End(f) == IF g.bad THEN g ELSE setFreeReg(f, f.active)
    IN  End(CASE s[1] = "local" -> emitLocal(g, s[2], s[3])
              [] s[1] = "assign" -> emitAssign(g, s[2], s[3])
              [] s[1] = "callstmt" -> emitCallStmt(g, s[2])
              [] s[1] = "do" -> aBlock(g, s[2])
              [] s[1] = "return" -> emitReturn(g, s[2])
              [] s[1] = "break" -> emitBreak(g)
              [] s[1] = "if" -> emitIf(g, s[2], s[3])
              [] s[1] = "while" -> emitWhile(g, s[2], s[3])
              [] s[1] = "repeat" -> emitRepeat(g, s[2], s[3])
              [] s[1] = "fornum" -> emitFornum(g, s[2], s[3], s[4], s[5], s[6])
              [] s[1] = "forin" -> emitForin(g, s[2], s[3], s[4])
              [] s[1] = "functionstmt" -> emitFunction(g, s[2], s[3])
              [] s[1] = "localfunction" -> emitLocalFunction(g, s[2], s[3]))

------------------------------------------------------------------------------
(* Functions *)

Proto(g) == [code |-> g.code, k |-> g.k, protos |-> g.protos, nparams |-> g.nparams,
             vararg |-> g.vararg, hasArg |-> g.hasArg, max |-> g.max, nups |-> Len(g.ups)]

\* FunctionCompiler::compile: the parent with the new prototype, and what it captures.
compileFunction(g, e) ==
    LET params == e[2]
        hasArg == e[3] /\ \A i \in DOMAIN e[4] : ~usesDirectVararg(e[4][i])
        child == AddLocals(NewFunction(Len(params), e[3], hasArg, g),
                           IF hasArg THEN Append(params, "arg") ELSE params)
        Within(f) ==
            [g |-> [f.up EXCEPT !.protos = Append(@, Proto(f)), !.bad = @ \/ f.bad], ups |-> f.ups]
    IN  Within(checkStack(codeABC(aBlock(child, e[4]), "RETURN", 0, 1, 0), 0))

\* CodeGenerator::generate: a chunk is a vararg function without parameters.
generate(chunk) ==
    LET Generated(f) == [proto |-> Proto(f), bad |-> f.bad]
    IN  Generated(codeABC(aBlock(NewFunction(0, TRUE, FALSE, <<>>), chunk), "RETURN", 0, 1, 0))

Emitted(what, a1, a2, a3, a4) ==
    CASE what = "value" -> emitValue(a1, a2)
      [] what = "call" -> emitCallExpr(a1, a2, a3)
      [] what = "cond" -> emitCond(a1, a2, a3)
      [] what = "statement" -> statement(a1, a2)
      [] what = "function" -> compileFunction(a1, a2)
      [] what = "materialize" -> materializeValue(a1, a2, a3)
      [] what = "resolve" -> resolve(a1, a2)
      [] what = "rk" -> valueToRK(a1, a2)
      [] what = "register" -> valueToAnyReg(a1, a2)
      [] what = "multi" -> emitMulti(a1, a2, a3, a4)
      [] what = "statements" -> statements(a1, a2)
      [] what = "block" -> block(a1, a2)
      [] what = "lvalue" -> emitLValue(a1, a2)
      [] what = "to" -> emitTo(a1, a2, a3)
=============================================================================
