-------------------------------- MODULE Parser --------------------------------
(***************************************************************************)
(* The recursive-descent parser: src/compiler/parser.                      *)
(*                                                                         *)
(* The lexer is abstracted to the tokens it returns: a token is the string *)
(* the reader would write, and NewLine marks where the source line ends.   *)
(* A parse is a family of operators on one record p, the parser's state:   *)
(*   toks, pos   the tokens [t, line], and the current one                 *)
(*   err         an exception (ParseError) is propagating: nothing         *)
(*               advances and no token matches until a block catches it    *)
(*   diags       how many errors were published to diagnostics()           *)
(*   caught      how many exceptions parseBlock has recovered from         *)
(*   depth       recursionDepth_ of ParseState                             *)
(*   recover     ParseRecoveryMode::StatementBoundary                      *)
(*   scopes      functionScopes_: [locals, upvalues] of each open function *)
(* The trees are the tuples that the code generator takes.                 *)
(***************************************************************************)
EXTENDS Integers, Sequences, FiniteSets, SequencesExt

CONSTANTS
    Numeral,         \* the numbers that occur, from their spelling
    Literal,         \* the string literals that occur, from their spelling
    MaxDepth,        \* MAX_RECURSION_DEPTH
    MaxBlockDepth,   \* MAX_BLOCK_RECURSION_DEPTH
    MaxRightDepth,   \* MAX_RIGHT_ASSOC_RECURSION_DEPTH
    MaxLocals,       \* MAX_LOCAL_VARIABLES
    MaxUpvals        \* MAX_UPVALUES_PER_FUNCTION

NewLine == "\n"
Eos == "<eof>"

Keywords == {"and", "break", "do", "else", "elseif", "end", "false", "for", "function", "if",
             "in", "local", "nil", "not", "or", "repeat", "return", "then", "true", "until", "while"}
Symbols == {"+", "-", "*", "/", "%", "^", "#", "==", "~=", "<=", ">=", "<", ">", "=", "(", ")",
            "{", "}", "[", "]", ";", ":", ",", ".", "..", "..."}
isName(t) == t \notin Keywords \cup Symbols \cup DOMAIN Numeral \cup DOMAIN Literal \cup {Eos}

\* The token stream: every token with its line.
Lexed(source) ==
    FoldLeft(LAMBDA s, t : IF t = NewLine THEN [s EXCEPT !.line = @ + 1]
                           ELSE [s EXCEPT !.toks = Append(@, [t |-> t, line |-> s.line])],
             [toks |-> <<>>, line |-> 1], source)

------------------------------------------------------------------------------
(* Tokens and errors *)

tokenAt(p, i) == IF i > Len(p.toks) THEN Eos ELSE p.toks[i].t
current(p) == tokenAt(p, p.pos)
peek(p) == tokenAt(p, p.pos + 1)
check(p, t) == ~p.err /\ current(p) = t
checkIn(p, ts) == ~p.err /\ current(p) \in ts
onNewLine(p) ==
    p.pos > 1 /\ p.pos <= Len(p.toks) /\ p.toks[p.pos].line > p.toks[p.pos - 1].line

advance(p) == IF p.err \/ p.pos > Len(p.toks) THEN p ELSE [p EXCEPT !.pos = @ + 1]
match(p, t) == IF check(p, t) THEN advance(p) ELSE p
\* errorAt publishes and throws; a guard only throws.
error(p) == IF p.err THEN p ELSE [p EXCEPT !.err = TRUE, !.diags = @ + 1]
throw(p) == [p EXCEPT !.err = TRUE]
expect(p, t) == IF check(p, t) THEN advance(p) ELSE error(p)
rejectAmbiguousNewlineCall(p) == IF onNewLine(p) THEN error(p) ELSE p
ParseName(p) == IF ~p.err /\ isName(current(p)) THEN advance(p) ELSE error(p)

\* RecursionGuard: Enter before a production, Leave at its end, error or not.
Enter(p, limit) ==
    IF p.err THEN p ELSE IF p.depth + 1 > limit THEN throw(p) ELSE [p EXCEPT !.depth = @ + 1]
Leave(p, before) == [p EXCEPT !.depth = before.depth]

\* synchronize: skip to a statement boundary.
BlockEnds == {"end", "else", "elseif", "until"}
StatementStarts == {"local", "function", "if", "while", "for", "repeat", "return", "break"}
synchronize(p) ==
    LET stops == {i \in p.pos .. Len(p.toks) + 1 :
                    tokenAt(p, i) \in {";", Eos} \cup BlockEnds \cup StatementStarts}
        at == CHOOSE i \in stops : \A j \in stops : i <= j
    IN match([p EXCEPT !.pos = at, !.err = FALSE, !.caught = @ + 1], ";")

------------------------------------------------------------------------------
(* Functions' scopes, kept for the limits on locals and upvalues *)

enterFunctionSyntaxScope(p, params) ==
    IF p.err THEN p ELSE
    [p EXCEPT !.scopes = Append(@, [locals |-> ToSet(params) \ {"..."}, upvalues |-> {}])]
leaveFunctionSyntaxScope(p) ==
    IF p.err \/ p.scopes = <<>> THEN p ELSE [p EXCEPT !.scopes = Front(@)]

declareLocalName(p, name) ==
    LET scope == Last(p.scopes)
    IN IF p.err \/ p.scopes = <<>> \/ name \in scope.locals THEN p
       ELSE IF Cardinality(scope.locals) >= MaxLocals THEN throw(p)
       ELSE [p EXCEPT !.scopes[Len(p.scopes)].locals = @ \cup {name}]

\* A use of an enclosing function's local is an upvalue of every function between.
noteNameUse(p, name) ==
    LET owners == {i \in DOMAIN p.scopes : name \in p.scopes[i].locals}
        owner == CHOOSE i \in owners : \A j \in owners : j <= i
        full == {i \in owner + 1 .. Len(p.scopes) :
                   name \notin p.scopes[i].upvalues
                   /\ Cardinality(p.scopes[i].upvalues) >= MaxUpvals}
    IN IF p.err \/ owners = {} THEN p
       ELSE IF full # {} THEN throw(p)
       ELSE [p EXCEPT !.scopes = SubSeq(@, 1, owner) \o
                [i \in 1 .. Len(@) - owner |-> [@[owner + i] EXCEPT !.upvalues = @ \cup {name}]]]

------------------------------------------------------------------------------
(* Expressions.  Each production gives the state after it and the tree v.  *)

Parsed(p, v) == [p |-> p, v |-> v]
Bin(op, l, r) == <<"bin", op, l, r>>

\* The productions call one another through one recursive operator, so that
\* TLC's coverage expands each of them once.
RECURSIVE Production(_, _, _)
anExpression(p) == Production("expression", p, 0)
aUnaryExpr(p) == Production("unary", p, 0)
aPostfixExpr(p, base) == Production("postfix", p, base)
aTable(p) == Production("table", p, 0)
aBlock(p) == Production("block", p, 0)

\* a, b, c parsed by one production
RECURSIVE MoreExprs(_, _)
MoreExprs(p, list) ==
    IF check(p, ",") THEN LET x == anExpression(advance(p)) IN MoreExprs(x.p, Append(list, x.v))
    ELSE Parsed(p, list)
parseExprList(p) == LET x == anExpression(p) IN MoreExprs(x.p, <<x.v>>)

RECURSIVE MoreNames(_, _)
MoreNames(p, names) ==
    IF check(p, ",") THEN MoreNames(ParseName(advance(p)), Append(names, peek(p)))
    ELSE Parsed(p, names)
RECURSIVE ParamsFrom(_, _)
ParamsFrom(p, names) ==
    IF checkIn(p, {"..."}) THEN Parsed(advance(p), Append(names, "..."))
    ELSE LET q == ParseName(p)
             more == Append(names, current(p))
         IN IF check(q, ",") THEN ParamsFrom(advance(q), more) ELSE Parsed(q, more)
parseParamList(p) == IF check(p, ")") THEN Parsed(p, <<>>) ELSE ParamsFrom(p, <<>>)

\* (params) block end; self is <<"self">> for a method.
FunctionRest(p, self) ==
    LET ps == parseParamList(expect(p, "("))
        names == self \o SelectSeq(ps.v, LAMBDA x : x # "...")
        body == aBlock(enterFunctionSyntaxScope(expect(ps.p, ")"), names))
    IN Parsed(expect(leaveFunctionSyntaxScope(body.p), "end"),
              <<"function", names, ps.v # <<>> /\ Last(ps.v) = "...", body.v>>)

parseFunctionExpr(p) ==
    LET f == FunctionRest(expect(Enter(p, MaxDepth), "function"), <<>>)
    IN Parsed(Leave(f.p, p), f.v)

Constants == {"nil", "true", "false"}
parsePrimaryExpr(p) ==
    LET t == current(p)
        inner == anExpression(advance(p))
    IN CASE p.err -> Parsed(p, <<"nil">>)
         [] ~p.err /\ t \in Constants -> Parsed(advance(p), <<t>>)
         [] ~p.err /\ t \in DOMAIN Numeral -> Parsed(advance(p), <<"num", Numeral[t]>>)
         [] ~p.err /\ t \in DOMAIN Literal -> Parsed(advance(p), <<"str", Literal[t]>>)
         [] ~p.err /\ t = "..." -> Parsed(advance(p), <<"vararg">>)
         [] ~p.err /\ t = "{" -> aTable(p)
         [] ~p.err /\ t = "function" -> parseFunctionExpr(p)
         [] ~p.err /\ t = "(" -> aPostfixExpr(expect(inner.p, ")"), <<"paren", inner.v>>)
         [] ~p.err /\ isName(t) -> aPostfixExpr(advance(noteNameUse(p, t)), <<"name", t>>)
         [] OTHER -> Parsed(error(p), <<"nil">>)

\* ( args ), a string or a table.  Only the parenthesised form is guarded.
Arguments(p) ==
    LET q == Enter(advance(p), MaxBlockDepth)
        xs == IF check(q, ")") THEN Parsed(q, <<>>) ELSE parseExprList(q)
        table == aTable(p)
    IN CASE check(p, "(") -> Parsed(Leave(expect(xs.p, ")"), p), xs.v)
         [] checkIn(p, DOMAIN Literal) -> Parsed(advance(p), <<<<"str", Literal[current(p)]>>>>)
         [] check(p, "{") -> Parsed(table.p, <<table.v>>)
         [] OTHER -> Parsed(error(p), <<>>)
StartsArguments == {"(", "{"} \cup DOMAIN Literal

parsePostfixExpr(p, base) ==
    LET args == Arguments(rejectAmbiguousNewlineCall(p))
        key == anExpression(advance(p))
        name == peek(p)
        named == ParseName(advance(p))
        method == Arguments(IF checkIn(named, StartsArguments)
                            THEN rejectAmbiguousNewlineCall(named) ELSE named)
    IN CASE checkIn(p, StartsArguments) -> aPostfixExpr(args.p, <<"call", base, args.v>>)
         [] check(p, "[") -> aPostfixExpr(expect(key.p, "]"), <<"index", base, key.v>>)
         [] check(p, ".") -> aPostfixExpr(named, <<"index", base, <<"str", name>>>>)
         [] check(p, ":") -> aPostfixExpr(method.p, <<"method", base, name, method.v>>)
         [] OTHER -> Parsed(p, base)

\* One field; a comma or semicolon after it is taken when it is there.
RECURSIVE TableFields(_, _)
TableFields(p, fields) ==
    LET key == anExpression(advance(p))
        keyed == anExpression(expect(expect(key.p, "]"), "="))
        named == anExpression(advance(advance(p)))
        item == anExpression(p)
        field == CASE check(p, "[") -> Parsed(keyed.p, <<key.v, keyed.v>>)
                   [] ~p.err /\ isName(current(p)) /\ peek(p) = "=" ->
                        Parsed(named.p, <<<<"str", current(p)>>, named.v>>)
                   [] OTHER -> Parsed(item.p, <<item.v>>)
        after == IF check(field.p, ",") THEN advance(field.p) ELSE match(field.p, ";")
    IN IF p.err \/ check(p, "}") THEN Parsed(p, fields)
       ELSE TableFields(after, Append(fields, field.v))
parseTableConstructor(p) ==
    LET fields == TableFields(expect(Enter(p, MaxDepth), "{"), <<>>)
    IN Parsed(Leave(expect(fields.p, "}"), p), <<"table", fields.v>>)

parsePowerExpr(p) ==
    LET l == parsePrimaryExpr(p)
        r == aUnaryExpr(Enter(advance(l.p), MaxRightDepth))
    IN IF check(l.p, "^") THEN Parsed(Leave(r.p, l.p), Bin("^", l.v, r.v)) ELSE l
parseUnaryExpr(p) ==
    LET x == aUnaryExpr(advance(p))
    IN IF checkIn(p, {"not", "-", "#"}) THEN Parsed(x.p, <<"un", current(p), x.v>>)
       ELSE parsePowerExpr(p)

\* parseOrExpr to parseMultiplicativeExpr: one function per level of operators,
\* each of which parses its operands with the function of the next level.
\* Together they read the operators above a level; .. associates to the right.
Levels == <<{"or"}, {"and"}, {"<", ">", "<=", ">=", "==", "~="}, {".."}, {"+", "-"}, {"*", "/", "%"}>>
Level(op) == CHOOSE i \in DOMAIN Levels : op \in Levels[i]
Above(p, level) == checkIn(p, UNION {Levels[i] : i \in level + 1 .. Len(Levels)})

RECURSIVE Binary(_, _)
Binary(l, level) ==
    LET op == current(l.p)
        concat == Binary(aUnaryExpr(Enter(advance(l.p), MaxRightDepth)), Level("..") - 1)
        r == IF op = ".." THEN Parsed(Leave(concat.p, l.p), concat.v)
             ELSE Binary(aUnaryExpr(advance(l.p)), Level(op))
    IN  IF Above(l.p, level) THEN Binary(Parsed(r.p, Bin(op, l.v, r.v)), level) ELSE l

parseExpression(p) ==
    LET Left(x) == Parsed(Leave(x.p, p), x.v) IN  Left(Binary(aUnaryExpr(Enter(p, MaxDepth)), 0))

------------------------------------------------------------------------------
(* Statements *)

NoStatement == <<"none">>

RECURSIVE Branches(_, _)
Branches(p, list) ==    \* from just after if or elseif
    LET c == anExpression(p)
        b == aBlock(expect(c.p, "then"))
        more == Append(list, <<c.v, b.v>>)
    IN IF check(b.p, "elseif") THEN Branches(advance(b.p), more) ELSE Parsed(b.p, more)
parseIfStmt(p) ==
    LET bs == Branches(expect(p, "if"), <<>>)
        other == aBlock(advance(bs.p))
    IN IF check(bs.p, "else") THEN Parsed(expect(other.p, "end"), <<"if", bs.v, other.v>>)
       ELSE Parsed(expect(bs.p, "end"), <<"if", bs.v, <<>>>>)

DoBody(p) == LET b == aBlock(expect(p, "do")) IN Parsed(expect(b.p, "end"), b.v)
parseWhileStmt(p) ==
    LET c == anExpression(expect(p, "while"))
        b == DoBody(c.p)
    IN Parsed(b.p, <<"while", c.v, b.v>>)
parseRepeatStmt(p) ==
    LET b == aBlock(expect(p, "repeat"))
        c == anExpression(expect(b.p, "until"))
    IN Parsed(c.p, <<"repeat", b.v, c.v>>)

parseForStmt(p) ==
    LET first == expect(p, "for")
        q == ParseName(first)
        init == anExpression(advance(q))
        limit == anExpression(expect(init.p, ","))
        step == IF check(limit.p, ",") THEN anExpression(advance(limit.p))
                ELSE Parsed(limit.p, <<"num", 1>>)
        numeric == DoBody(step.p)
        names == MoreNames(q, <<current(first)>>)
        exprs == parseExprList(expect(names.p, "in"))
        generic == DoBody(exprs.p)
    IN CASE check(q, "=") ->
              Parsed(numeric.p, <<"fornum", current(first), init.v, limit.v, step.v, numeric.v>>)
         [] checkIn(q, {",", "in"}) ->
              Parsed(generic.p, <<"forin", names.v, exprs.v, generic.v>>)
         [] OTHER -> Parsed(error(q), NoStatement)

RECURSIVE LocalNames(_, _)
LocalNames(p, names) ==
    LET q == ParseName(declareLocalName(IF isName(current(p)) THEN p ELSE error(p), current(p)))
        more == Append(names, current(p))
    IN IF check(q, ",") THEN LocalNames(advance(q), more) ELSE Parsed(q, more)
parseLocalStmt(p) ==
    LET q == expect(p, "local")
        f == advance(q)
        named == ParseName(declareLocalName(IF isName(current(f)) THEN f ELSE error(f), current(f)))
        fun == FunctionRest(named, <<>>)
        names == LocalNames(q, <<>>)
        values == parseExprList(advance(names.p))
    IN CASE check(q, "function") -> Parsed(fun.p, <<"localfunction", current(f), fun.v>>)
         [] ~check(q, "function") /\ check(names.p, "=") ->
                Parsed(values.p, <<"local", names.v, values.v>>)
         [] OTHER -> Parsed(names.p, <<"local", names.v, <<>>>>)

RECURSIVE FunctionName(_, _)
FunctionName(p, path) ==
    LET q == ParseName(p)
        longer == Append(path, current(p))
    IN IF check(q, ".") THEN FunctionName(advance(q), longer)
       ELSE IF check(q, ":")
       THEN [p |-> ParseName(advance(q)), v |-> Append(longer, peek(q)), method |-> TRUE]
       ELSE [p |-> q, v |-> longer, method |-> FALSE]
parseFunctionStmt(p) ==
    LET n == FunctionName(expect(p, "function"), <<>>)
        f == FunctionRest(n.p, IF n.method THEN <<"self">> ELSE <<>>)
    IN Parsed(f.p, <<"functionstmt", n.v, f.v>>)

parseReturnStmt(p) ==
    LET q == expect(p, "return")
        xs == IF checkIn(q, BlockEnds \cup {Eos, ";"}) THEN Parsed(q, <<>>) ELSE parseExprList(q)
    IN Parsed(match(xs.p, ";"), <<"return", xs.v>>)

\* An assignment or a call.  Targets are not checked here.
parseExprStmt(p) ==
    LET x == anExpression(p)
        targets == MoreExprs(x.p, <<x.v>>)
        values == parseExprList(expect(targets.p, "="))
    IN CASE checkIn(x.p, {",", "="}) -> Parsed(values.p, <<"assign", targets.v, values.v>>)
         [] ~x.p.err /\ current(x.p) \notin {",", "="} /\ x.v[1] \in {"call", "method"} ->
                Parsed(x.p, <<"callstmt", x.v>>)
         [] OTHER -> Parsed(error(x.p), NoStatement)

parseStatement(p) ==
    LET body == DoBody(p)
    IN CASE current(p) = "if" -> parseIfStmt(p)
         [] current(p) = "while" -> parseWhileStmt(p)
         [] current(p) = "do" -> Parsed(body.p, <<"do", body.v>>)
         [] current(p) = "for" -> parseForStmt(p)
         [] current(p) = "repeat" -> parseRepeatStmt(p)
         [] current(p) = "function" -> parseFunctionStmt(p)
         [] current(p) = "local" -> parseLocalStmt(p)
         [] current(p) = "break" -> Parsed(advance(p), <<"break">>)
         [] current(p) = "return" -> parseReturnStmt(p)
         [] OTHER -> parseExprStmt(p)

\* One turn of parseBlock's loop.  A return ends the block; an error is
\* recovered from here, or passes on.  sep: a semicolon may follow.
RECURSIVE Statements(_, _, _)
Statements(p, list, sep) ==
    LET Next(s) ==
            IF s.p.err
            THEN IF p.recover THEN Statements(synchronize(s.p), list, sep) ELSE Parsed(s.p, list)
            ELSE IF current(p) = "return" THEN Parsed(s.p, Append(list, s.v))
            ELSE Statements(s.p, IF current(p) = ";" THEN list ELSE Append(list, s.v), current(p) # ";")
    IN IF p.err \/ current(p) \in BlockEnds \cup {Eos} THEN Parsed(p, list)
       ELSE Next(IF current(p) # ";" THEN parseStatement(p)
                 ELSE Parsed(IF sep THEN advance(p) ELSE error(p), NoStatement))
parseBlock(p) ==
    LET Block(b) == Parsed(Leave(b.p, p), b.v)
    IN  Block(Statements(Enter(p, MaxBlockDepth), <<>>, FALSE))

------------------------------------------------------------------------------
(* Parser::Impl::parse: a chunk, or the first error *)

parse(source, recovery) ==
    LET p0 == [toks |-> Lexed(source).toks, pos |-> 1, err |-> FALSE, diags |-> 0, caught |-> 0,
               depth |-> 0, recover |-> recovery, scopes |-> <<>>]
        Chunk(p, v) == [ok |-> ~p.err /\ p.diags = 0, chunk |-> v, p |-> p]
        Whole(b) == Chunk(IF checkIn(b.p, {Eos}) THEN b.p ELSE error(b.p), b.v)
    IN  Whole(aBlock(enterFunctionSyntaxScope(p0, <<>>)))

\* An exception ends every production on its way to the handler.
Production(what, p, base) ==
    IF p.err THEN Parsed(p, <<>>)
    ELSE CASE what = "expression" -> parseExpression(p)
           [] what = "unary" -> parseUnaryExpr(p)
           [] what = "postfix" -> parsePostfixExpr(p, base)
           [] what = "table" -> parseTableConstructor(p)
           [] what = "block" -> parseBlock(p)
=============================================================================
