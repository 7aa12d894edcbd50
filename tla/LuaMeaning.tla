------------------------------ MODULE LuaMeaning ------------------------------
(***************************************************************************)
(* What a Lua program means: an interpreter of the syntax tree, with no    *)
(* registers, no stack and no instructions.  It is the reference that the  *)
(* compiled program is compared with, and models no code of its own.       *)
(*                                                                         *)
(* A state s is a record of the cells that hold the local variables, the   *)
(* closures [params, vararg, body, env], the tables, the trace of the      *)
(* calls of "out", and ok: no error so far.  An environment gives a name's *)
(* cell; the cell of "..." holds the list of the extra arguments.  A       *)
(* signal is <<"next">>, <<"break">> or <<"return", values>>.              *)
(***************************************************************************)
EXTENDS LuaValues, Syntax

NoEnv == [x \in {} |-> 0]
Vals(s, vs) == [s |-> s, vs |-> vs]
Fail(s) == [s EXCEPT !.ok = FALSE]
First(vs) == IF vs = <<>> THEN Nil ELSE vs[1]
Nth(vs, i) == IF i <= Len(vs) THEN vs[i] ELSE Nil
Signal(s, sig) == [s |-> s, sig |-> sig]

\* New cells for names, and the environment that knows them.
Declare(s, env, names, vs) ==
    LET at(x) == Len(s.cells) + (CHOOSE i \in DOMAIN names :
                                    names[i] = x /\ \A j \in DOMAIN names : names[j] = x => j <= i)
    IN [s |-> [s EXCEPT !.cells = @ \o [i \in DOMAIN names |-> Nth(vs, i)]],
        env |-> [x \in ToSet(names) |-> at(x)] @@ env]

GlobalNamed(s, x) == Raw(s.tables[1].map, Str(x))

\* The definitions call one another through one recursive operator, so that
\* TLC's coverage expands each of them once.
RECURSIVE Again(_, _, _, _, _)
eval(s, e, env) == Again("eval", s, e, env, 0)
evalList(s, es, env) == Again("list", s, es, env, 0)
apply(s, f, args) == Again("apply", s, f, args, 0)
exec(s, st, env) == Again("exec", s, st, env, 0)
run(s, body, env) == Again("run", s, body, env, 0)
index(s, t, k) == Again("index", s, t, k, 0)
setIndex(s, t, k, v) == Again("set", s, t, k, v)

One(s, e, env) == LET r == eval(s, e, env) IN [s |-> r.s, v |-> First(r.vs)]

\* Every expression gives one value, but the last may give many.
EvalList(s, es, env) ==
    IF es = <<>> THEN Vals(s, <<>>)
    ELSE LET x == eval(s, es[1], env)
             rest == evalList(x.s, Tail(es), env)
         IN IF ~x.s.ok THEN x
            ELSE IF Len(es) = 1 THEN x
            ELSE Vals(rest.s, <<First(x.vs)>> \o rest.vs)

------------------------------------------------------------------------------
(* Calls and metamethods *)

Apply(s, f, args) ==
    LET c == s.funs[f[2]]
        extra == IF Len(args) > Len(c.params) THEN SubSeq(args, Len(c.params) + 1, Len(args)) ELSE <<>>
        d == Declare(s, c.env, c.params, args)
        dots == [s |-> [d.s EXCEPT !.cells = Append(@, extra)],
                 env |-> ("..." :> Len(d.s.cells) + 1) @@ d.env]
        argTable == [map |-> Entered(EnteredRange(EmptyTable.map, 1, extra), Str("n"), Num(Len(extra))),
                     meta |-> 0]
        withArg == Declare([dots.s EXCEPT !.tables = Append(@, argTable)], dots.env, <<"arg">>,
                           <<<<"table", Len(s.tables) + 1>>>>)
        \* a vararg function that never says "..." has a table arg instead
        start == IF ~c.vararg THEN d
                 ELSE IF usesDirectVararg(<<"do", c.body>>) \/ c.main THEN dots ELSE withArg
        r == run(start.s, c.body, start.env)
        g == Metamethod(s.tables, f, "__call")
    IN CASE ~s.ok -> Vals(s, <<>>)
         [] s.ok /\ f[1] = "fun" -> Vals(r.s, IF r.sig[1] = "return" THEN r.sig[2] ELSE <<>>)
         [] s.ok /\ f[1] = "native" ->
              (CASE f[2] = "out" -> Vals([s EXCEPT !.trace = Append(@, args)], <<>>)
                 [] f[2] = "pick" -> Vals(s, args)
                 [] f[2] = "fail" -> Vals(Fail(s), <<>>)
                 [] f[2] = "setmetatable" ->
                      Vals([s EXCEPT !.tables[args[1][2]].meta = args[2][2]], <<args[1]>>))
         [] s.ok /\ ~IsFunction(f) ->
              IF IsFunction(g) THEN apply(s, g, <<f>> \o args) ELSE Vals(Fail(s), <<>>)

Index(s, t, k) ==
    LET direct == IF IsTable(t) THEN Raw(s.tables[t[2]].map, k) ELSE Nil
        h == Metamethod(s.tables, t, "__index")
    IN IF direct # Nil THEN Vals(s, <<direct>>)
       ELSE IF h = Nil THEN IF IsTable(t) THEN Vals(s, <<Nil>>) ELSE Vals(Fail(s), <<>>)
       ELSE IF IsFunction(h) THEN apply(s, h, <<t, k>>) ELSE index(s, h, k)
SetIndex(s, t, k, v) ==
    LET h == Metamethod(s.tables, t, "__newindex")
    IN IF IsTable(t) /\ (Raw(s.tables[t[2]].map, k) # Nil \/ h = Nil)
       THEN IF k = Nil THEN Fail(s) ELSE [s EXCEPT !.tables[t[2]].map = Entered(@, k, v)]
       ELSE IF h = Nil THEN Fail(s)
       ELSE IF IsFunction(h) THEN apply(s, h, <<t, k, v>>).s ELSE setIndex(s, h, k, v)

\* The answer of a metamethod that must be there.
Ask(s, f, args) == IF f = Nil THEN Vals(Fail(s), <<>>) ELSE apply(s, f, args)
Answer(s, f, args, negate) ==
    LET r == Ask(s, f, args) IN Vals(r.s, <<Bool(IsTrue(First(r.vs)) # negate)>>)
OpName == [o \in {"+", "-", "*"} |-> CASE o = "+" -> "ADD" [] o = "-" -> "SUB" [] o = "*" -> "MUL"]

RECURSIVE Operate(_, _, _, _)
Operate(s, op, v, w) ==
    LET eq == SharedMetamethod(s.tables, v, w, "__eq")
        lt == SharedMetamethod(s.tables, v, w, "__lt")
        le == SharedMetamethod(s.tables, v, w, "__le")
        Equal == IF v = w \/ ~IsTable(v) \/ ~IsTable(w) \/ eq = Nil THEN Vals(s, <<Bool(v = w)>>)
                 ELSE Answer(s, eq, <<v, w>>, FALSE)
    IN CASE op \in DOMAIN OpName ->
              IF IsNumeric(v) /\ IsNumeric(w)
              THEN Vals(s, <<Num(Arith(OpName[op], ToNumber(v), ToNumber(w)))>>)
              ELSE Ask(s, EitherMetamethod(s.tables, v, w, EventOf(OpName[op])), <<v, w>>)
         [] op = ".." -> IF HasText(v) /\ HasText(w) THEN Vals(s, <<Joined(v, w)>>)
                         ELSE Ask(s, EitherMetamethod(s.tables, v, w, "__concat"), <<v, w>>)
         [] op = "==" -> Equal
         [] op = "~=" -> Vals(Equal.s, <<Bool(~IsTrue(First(Equal.vs)))>>)
         [] op = ">" -> Operate(s, "<", w, v)
         [] op = ">=" -> Operate(s, "<=", w, v)
         [] op = "<" -> IF Ordered(v, w) THEN Vals(s, <<Bool(Below(v, w))>>) ELSE Answer(s, lt, <<v, w>>, FALSE)
         [] op = "<=" -> IF Ordered(v, w) THEN Vals(s, <<Bool(~Below(w, v))>>)
                         ELSE IF le # Nil THEN Answer(s, le, <<v, w>>, FALSE)
                         ELSE Answer(s, SharedMetamethod(s.tables, w, v, "__lt"), <<w, v>>, TRUE)

------------------------------------------------------------------------------
(* Expressions: the values *)

Closure(s, e, env) ==
    Vals([s EXCEPT !.funs = Append(@, [params |-> e[2], vararg |-> e[3], body |-> e[4], env |-> env,
                                       main |-> FALSE])],
         <<<<"fun", Len(s.funs) + 1>>>>)

\* The fields of a constructor, from the i-th, the next list item at position n.
RECURSIVE Fields(_, _, _, _, _, _)
Fields(s, t, fields, i, n, env) ==
    LET f == fields[i]
        key == One(s, f[1], env)
        value == One(key.s, f[2], env)
        item == eval(s, f[1], env)
        vs == IF i = Len(fields) THEN item.vs ELSE <<First(item.vs)>>
        filled == [item.s EXCEPT !.tables[t].map = EnteredRange(@, n, vs)]
    IN IF ~s.ok \/ i > Len(fields) THEN s
       ELSE IF Len(f) = 2
       THEN Fields(IF value.s.ok THEN setIndex(value.s, <<"table", t>>, key.v, value.v) ELSE value.s,
                   t, fields, i + 1, n, env)
       ELSE Fields(IF item.s.ok THEN filled ELSE item.s, t, fields, i + 1, n + 1, env)

Eval(s, e, env) ==
    CASE ~s.ok -> Vals(s, <<>>)
      [] s.ok /\ e[1] \in {"nil", "true", "false", "num", "str"} -> Vals(s, <<e>>)
      [] s.ok /\ e[1] = "vararg" -> Vals(s, s.cells[env["..."]])
      [] s.ok /\ e[1] = "name" ->
            Vals(s, <<IF e[2] \in DOMAIN env THEN s.cells[env[e[2]]] ELSE GlobalNamed(s, e[2])>>)
      [] s.ok /\ e[1] = "paren" -> LET x == One(s, e[2], env) IN Vals(x.s, <<x.v>>)
      [] s.ok /\ e[1] = "function" -> Closure(s, e, env)
      [] s.ok /\ e[1] = "bin" ->
            (LET l == One(s, e[3], env)
                 r == One(l.s, e[4], env)
                 short == IF e[2] = "and" THEN ~IsTrue(l.v) ELSE IsTrue(l.v)
             IN IF e[2] \in {"and", "or"} THEN IF ~l.s.ok \/ short THEN Vals(l.s, <<l.v>>) ELSE Vals(r.s, <<r.v>>)
                ELSE IF ~r.s.ok THEN Vals(r.s, <<>>)
                ELSE LET x == Operate(r.s, e[2], l.v, r.v) IN Vals(x.s, <<First(x.vs)>>))
      [] s.ok /\ e[1] = "un" ->
            (LET x == One(s, e[3], env)
                 m == Ask(x.s, Metamethod(x.s.tables, x.v, "__unm"), <<x.v, Nil>>)
             IN CASE ~x.s.ok -> Vals(x.s, <<>>)
                  [] x.s.ok /\ e[2] = "not" -> Vals(x.s, <<Bool(~IsTrue(x.v))>>)
                  [] x.s.ok /\ e[2] = "-" ->
                        IF IsNumeric(x.v) THEN Vals(x.s, <<Num(-ToNumber(x.v))>>)
                        ELSE Vals(m.s, <<First(m.vs)>>)
                  [] x.s.ok /\ e[2] = "#" ->
                        IF x.v[1] = "str" THEN Vals(x.s, <<Num(Len(x.v[2]))>>)
                        ELSE IF IsTable(x.v) THEN Vals(x.s, <<Num(Border(x.s.tables[x.v[2]].map))>>)
                        ELSE Vals(Fail(x.s), <<>>))
      [] s.ok /\ e[1] = "index" ->
            (LET t == One(s, e[2], env)
                 k == One(t.s, e[3], env)
                 r == index(k.s, t.v, k.v)
             IN IF k.s.ok THEN Vals(r.s, <<First(r.vs)>>) ELSE Vals(k.s, <<>>))
      [] s.ok /\ e[1] = "call" ->
            (LET f == One(s, e[2], env)
                 args == evalList(f.s, e[3], env)
             IN IF args.s.ok THEN apply(args.s, f.v, args.vs) ELSE Vals(args.s, <<>>))
      [] s.ok /\ e[1] = "method" ->
            (LET o == One(s, e[2], env)
                 f == index(o.s, o.v, Str(e[3]))
                 args == evalList(f.s, e[4], env)
             IN IF o.s.ok /\ args.s.ok THEN apply(args.s, First(f.vs), <<o.v>> \o args.vs)
                ELSE Vals(args.s, <<>>))
      [] s.ok /\ e[1] = "table" ->
            LET t == Len(s.tables) + 1
            IN Vals(Fields([s EXCEPT !.tables = Append(@, EmptyTable)], t, e[2], 1, 1, env),
                    <<<<"table", t>>>>)

------------------------------------------------------------------------------
(* Statements *)

\* Where an assignment goes: <<"cell",i>>, <<"global",x>> or <<"entry",t,k>>.
Target(s, e, env) ==
    IF e[1] = "name"
    THEN [s |-> s, to |-> IF e[2] \in DOMAIN env THEN <<"cell", env[e[2]]>> ELSE <<"global", e[2]>>]
    ELSE LET t == One(s, e[2], env)
             k == One(t.s, e[3], env)
         IN [s |-> k.s, to |-> <<"entry", t.v, k.v>>]
Store(s, to, v) ==
    CASE ~s.ok -> s
      [] s.ok /\ to[1] = "cell" -> [s EXCEPT !.cells[to[2]] = v]
      [] s.ok /\ to[1] = "global" -> [s EXCEPT !.tables[1].map = Entered(@, Str(to[2]), v)]
      [] s.ok /\ to[1] = "entry" -> setIndex(s, to[2], to[3], v)

\* Targets, then values, then the stores from the last one on.
AssignAll(s, targets, values, env) ==
    LET left == FoldLeft(LAMBDA a, e : LET t == Target(a.s, e, env)
                                       IN [s |-> t.s, tos |-> Append(a.tos, t.to)],
                         [s |-> s, tos |-> <<>>], targets)
        right == evalList(left.s, values, env)
    IN FoldLeft(LAMBDA a, j : LET i == Len(targets) + 1 - j
                              IN Store(a, left.tos[i], Nth(right.vs, i)),
                right.s, [i \in DOMAIN targets |-> i])

\* function a.b.c() ... end is an assignment to a.b.c.
Path(names) == FoldLeft(LAMBDA e, x : <<"index", e, <<"str", x>>>>, <<"name", names[1]>>, Tail(names))

RECURSIVE While(_, _, _, _)
While(s, c, body, env) ==
    LET x == One(s, c, env)
        b == run(x.s, body, env)
    IN IF ~x.s.ok \/ ~IsTrue(x.v) THEN Signal(x.s, <<"next">>)
       ELSE IF b.sig[1] = "return" THEN b
       ELSE IF b.sig[1] = "break" \/ ~b.s.ok THEN Signal(b.s, <<"next">>)
       ELSE While(b.s, c, body, env)
RECURSIVE For(_, _, _, _, _, _, _)
For(s, x, i, limit, step, body, env) ==
    LET d == Declare(s, env, <<x>>, <<Num(i)>>)
        b == run(d.s, body, d.env)
    IN IF ~s.ok \/ (IF step > 0 THEN i > limit ELSE i < limit) THEN Signal(s, <<"next">>)
       ELSE IF b.sig[1] = "return" THEN b
       ELSE IF b.sig[1] = "break" THEN Signal(b.s, <<"next">>)
       ELSE For(b.s, x, i + step, limit, step, body, env)
RECURSIVE ForIn(_, _, _, _, _, _, _)
ForIn(s, f, state, control, names, body, env) ==
    LET r == apply(s, f, <<state, control>>)
        d == Declare(r.s, env, names, r.vs)
        b == run(d.s, body, d.env)
    IN IF ~r.s.ok \/ First(r.vs) = Nil THEN Signal(r.s, <<"next">>)
       ELSE IF b.sig[1] = "return" THEN b
       ELSE IF b.sig[1] = "break" THEN Signal(b.s, <<"next">>)
       ELSE ForIn(b.s, f, state, First(r.vs), names, body, env)

\* A block: each statement may extend the environment of the next ones.
RECURSIVE Steps(_, _, _)
Steps(s, body, env) ==
    LET x == exec(s, body[1], env)
    IN IF body = <<>> \/ ~s.ok THEN [s |-> s, sig |-> <<"next">>, env |-> env]
       ELSE IF x.sig[1] # "next" THEN x
       ELSE Steps(x.s, Tail(body), x.env)
Run(s, body, env) == LET x == Steps(s, body, env) IN Signal(x.s, x.sig)

\* The condition of a repeat sees the body's locals.
RECURSIVE Repeat(_, _, _, _)
Repeat(s, body, c, env) ==
    LET b == Steps(s, body, env)
        x == One(b.s, c, b.env)
    IN IF b.sig[1] = "return" THEN Signal(b.s, b.sig)
       ELSE IF b.sig[1] = "break" \/ ~x.s.ok \/ IsTrue(x.v) THEN Signal(IF b.sig[1] = "break" THEN b.s ELSE x.s, <<"next">>)
       ELSE Repeat(x.s, body, c, env)

RECURSIVE If(_, _, _, _)
If(s, branches, other, env) ==
    LET c == One(s, branches[1][1], env)
    IN IF branches = <<>> THEN run(s, other, env)
       ELSE IF ~c.s.ok THEN Signal(c.s, <<"next">>)
       ELSE IF IsTrue(c.v) THEN run(c.s, branches[1][2], env)
       ELSE If(c.s, Tail(branches), other, env)

Exec(s, st, env) ==
    LET Here(r) == [s |-> r.s, sig |-> r.sig, env |-> env]
        Then(t) == [s |-> t, sig |-> <<"next">>, env |-> env]
        Bound(d) == [s |-> d.s, sig |-> <<"next">>, env |-> d.env]
    IN CASE st[1] = "local" ->
              (LET r == evalList(s, st[3], env) IN Bound(Declare(r.s, env, st[2], r.vs)))
         [] st[1] = "localfunction" ->
              (LET d == Declare(s, env, <<st[2]>>, <<>>)
                   f == Closure(d.s, st[3], d.env)
               IN Bound([d EXCEPT !.s = [f.s EXCEPT !.cells[d.env[st[2]]] = f.vs[1]]]))
         [] st[1] = "functionstmt" -> Then(AssignAll(s, <<Path(st[2])>>, <<st[3]>>, env))
         [] st[1] = "assign" -> Then(AssignAll(s, st[2], st[3], env))
         [] st[1] = "callstmt" -> Then(eval(s, st[2], env).s)
         [] st[1] = "do" -> Here(run(s, st[2], env))
         [] st[1] = "return" -> (LET r == evalList(s, st[2], env) IN Here(Signal(r.s, <<"return", r.vs>>)))
         [] st[1] = "break" -> Here(Signal(s, <<"break">>))
         [] st[1] = "if" -> Here(If(s, st[2], st[3], env))
         [] st[1] = "while" -> Here(While(s, st[2], st[3], env))
         [] st[1] = "repeat" -> Here(Repeat(s, st[2], st[3], env))
         [] st[1] = "fornum" ->
              (LET r == evalList(s, <<<<"paren", st[3]>>, <<"paren", st[4]>>, <<"paren", st[5]>>>>, env)
                   numbers == r.s.ok /\ \A i \in 1 .. 3 : IsNumeric(r.vs[i])
               IN IF ~numbers THEN Then(Fail(r.s))
                  ELSE Here(For(r.s, st[2], ToNumber(r.vs[1]), ToNumber(r.vs[2]), ToNumber(r.vs[3]),
                                st[6], env)))
         [] st[1] = "forin" ->
              (LET r == evalList(s, st[3], env)
               IN IF ~r.s.ok THEN Then(r.s)
                  ELSE Here(ForIn(r.s, Nth(r.vs, 1), Nth(r.vs, 2), Nth(r.vs, 3), st[2], st[4], env)))

------------------------------------------------------------------------------
(* A whole program: what it sends to "out", and whether it ends normally. *)

Meaning(chunk) ==
    LET main == [params |-> <<>>, vararg |-> TRUE, body |-> chunk, env |-> NoEnv, main |-> TRUE]
        s0 == [cells |-> <<>>, funs |-> <<main>>, trace |-> <<>>, ok |-> TRUE,
               tables |-> <<[map |-> [k \in {Str(n) : n \in Natives} |-> <<"native", k[2]>>], meta |-> 0]>>]
        r == apply(s0, <<"fun", 1>>, <<>>)
    IN [trace |-> r.s.trace, ok |-> r.s.ok]

Again(what, a1, a2, a3, a4) ==
    CASE what = "eval" -> Eval(a1, a2, a3)
      [] what = "list" -> EvalList(a1, a2, a3)
      [] what = "apply" -> Apply(a1, a2, a3)
      [] what = "exec" -> Exec(a1, a2, a3)
      [] what = "run" -> Run(a1, a2, a3)
      [] what = "index" -> Index(a1, a2, a3)
      [] what = "set" -> SetIndex(a1, a2, a3, a4)
=============================================================================
