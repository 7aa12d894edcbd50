----------------------------- MODULE MCInterpreter -----------------------------
(***************************************************************************)
(* Small programs, parsed, compiled, verified and run, and compared with   *)
(* what they mean.                                                         *)
(***************************************************************************)
EXTENDS VM

Numeral == [t \in {"0", "1", "2", "3", "4", "5", "6", "7", "8", "9"} |->
              CHOOSE n \in 0 .. 9 : ToString(n) = t]
Literal == [t \in {"'!'", "'1'", "'2'", "'a'", "'b'", "'c'", "'n'", "'p'", "'q'", "'x'", "'y'", "'z'"} |->
              CHOOSE s \in {"!", "1", "2", "a", "b", "c", "n", "p", "q", "x", "y", "z"} : t = "'" \o s \o "'"]
MaxDepth == 92
MaxBlockDepth == 80
MaxRightDepth == 200
MaxLocals == 200
MaxUpvals == 60

LOCAL P == INSTANCE Parser
LOCAL G == INSTANCE Codegen
LOCAL V == INSTANCE BytecodeVerifier
LOCAL M == INSTANCE LuaMeaning


\* Every statement and expression, calls in every position, and every way in
\* which a handler calls a metamethod.
Programs ==
    "assignments" :> <<"local", "a", ",", "b", "=", "1", ",", "2", "local", "t", "=", "{", "1",
          ",", "2", "}", "a", ",", "t", "[", "1", "]", ",", "t", "[", "2", "]", "=",
          "t", "[", "2", "]", ",", "b", ",", "a", "b", "=", "b", "+", "a", "out",
          "(", "a", ",", "b", ",", "t", "[", "1", "]", ",", "t", "[", "2", "]", ")">> @@
    "closures" :> <<"local", "t", "=", "{", "}", "for", "i", "=", "1", ",", "2", "do", "t",
          "[", "i", "]", "=", "function", "(", ")", "i", "=", "i", "+", "3",
          "return", "i", "end", "end", "out", "(", "t", "[", "1", "]", "(", ")", ",",
          "t", "[", "1", "]", "(", ")", ",", "t", "[", "2", "]", "(", ")", ")">> @@
    "counter" :> <<"local", "function", "new", "(", ")", "local", "n", "=", "0", "return",
          "function", "(", ")", "n", "=", "n", "+", "1", "return", "n", "end", ",",
          "function", "(", ")", "return", "n", "end", "end", "local", "add", ",",
          "get", "=", "new", "(", ")", "add", "(", ")", "add", "(", ")", "local",
          "other", "=", "new", "(", ")", "out", "(", "get", "(", ")", ",", "other",
          "(", ")", ")">> @@
    "breaks" :> <<"local", "f", "for", "i", "=", "1", ",", "3", "do", "local", "x", "=", "i",
          "f", "=", "function", "(", ")", "x", "=", "x", "+", "1", "return", "x",
          "end", "if", "i", "==", "2", "then", "break", "end", "end", "out", "(",
          "f", "(", ")", ",", "f", "(", ")", ")">> @@
    "manybreaks" :> <<"local", "function", "f", "(", "n", ")", "while", "true",
          "do", "if", "n", "==", "1", "then", "break", "end", "if", "n", "==", "2",
          "then", "n", "=", "9", "break", "end", "if", "n", "==", "3", "then",
          "break", "end", "n", "=", "n", "-", "3", "end", "return", "n", "end",
          "out", "(", "f", "(", "1", ")", ",", "f", "(", "2", ")", ",", "f", "(",
          "6", ")", ")">> @@
    "shadowed" :> <<"local", "x", "=", "1", "do", "local", "x", "=", "x", "+", "1", "out", "(",
          "x", ")", "end", "repeat", "local", "y", "=", "x", "x", "=", "x", "+", "1",
          "until", "y", ">=", "2", "out", "(", "x", ")">> @@
    "varargs" :> <<"local", "function", "v", "(", "...", ")", "local", "a", ",", "b", "=",
          "...", "return", "...", ",", "b", "end", "out", "(", "v", "(", "1", ",",
          "2", ",", "3", ")", ")", "out", "(", "(", "v", "(", "4", ",", "5", ")",
          ")", ")">> @@
    "openresults" :> <<"local", "function", "two", "(", ")", "return", "1", ",", "2", "end",
          "local", "t", "=", "{", "two", "(", ")", ",", "two", "(", ")", "}", "out",
          "(", "#", "t", ",", "two", "(", ")", ",", "(", "two", "(", ")", ")", ")",
          "local", "u", "=", "{", "pick", "(", "5", ",", "6", ",", "7", ",", "8",
          ",", "9", ")", ",", "'z'", "}", "out", "(", "#", "u", ",", "u", "[", "2",
          "]", ")">> @@
    "flushes" :> <<"local", "t", "=", "{", "1", ",", "2", ",", "3", ",", "x", "=", "4", ",",
          "5", ",", "6", ",", "7", ",", "8", "}", "out", "(", "#", "t", ",", "t",
          ".", "x", ",", "t", "[", "3", "]", ",", "t", "[", "7", "]", ")">> @@
    "arg" :> <<"local", "function", "v", "(", "...", ")", "return", "arg", ".", "n", ",",
          "arg", "[", "2", "]", "end", "out", "(", "v", "(", "7", ",", "8", ",", "9",
          ")", ")">> @@
    "tailcalls" :> <<"local", "function", "loop", "(", "n", ",", "...", ")", "if", "n", "==",
          "0", "then", "return", "...", "end", "return", "loop", "(", "n", "-", "1",
          ",", "n", ",", "...", ")", "end", "out", "(", "loop", "(", "3", ")", ")">> @@
    "recursion" :> <<"local", "function", "f", "(", "n", ")", "if", "n", "<", "2", "then",
          "return", "1", "end", "return", "n", "*", "f", "(", "n", "-", "1", ")",
          "end", "out", "(", "f", "(", "3", ")", ")">> @@
    "concats" :> <<"local", "s", "=", "'p'", "..", "1", "+", "1", "..", "'q'", "..", "3",
          "out", "(", "s", ",", "#", "s", ",", "'x'", "..", "s", ")">> @@
    "conditions" :> <<"local", "a", ",", "b", "=", "1", "local", "c", "=", "a", "and",
          "(", "b", "or", "'y'", ")", "or", "'n'", "out", "(", "c", ")">> @@
    "negations" :> <<"local", "a", ",", "b", "=", "1", "out", "(", "not", "a", "==",
          "nil", ",", "a", "~=", "b", ",", "not", "(", "a", "and", "b", ")", ")">> @@
    "both" :> <<"local", "a", "=", "1", "out", "(", "a", ">=", "1", "and", "1", "<",
          "2", ")">> @@
    "branches" :> <<"for", "i", "=", "1", ",", "3", "do", "if", "i", "==", "1", "then", "out",
          "(", "'a'", ")", "elseif", "i", ">", "2", "or", "nil", "then", "out", "(",
          "'b'", ")", "else", "out", "(", "'c'", ")", "end", "end">> @@
    "whiles" :> <<"local", "i", "=", "0", "while", "i", "<", "4", "do", "i", "=", "i", "+",
          "1", "if", "i", "==", "2", "then", "out", "(", "i", ")", "elseif", "i",
          "==", "3", "then", "break", "end", "end", "out", "(", "i", ")">> @@
    "fors" :> <<"for", "i", "=", "3", ",", "1", ",", "-", "2", "do", "out", "(", "i", ")",
          "end", "for", "i", "=", "1", ",", "0", "do", "out", "(", "i", ")", "end",
          "for", "i", "=", "'1'", ",", "2", "do", "out", "(", "-", "i", ")", "end">> @@
    "iterators" :> <<"local", "t", "=", "{", "}", "for", "i", ",", "v", "in", "function", "(",
          "s", ",", "c", ")", "if", "c", "<", "s", "then", "return", "c", "+", "1",
          ",", "c", "*", "2", "end", "end", ",", "2", ",", "0", "do", "t", "[", "i",
          "]", "=", "function", "(", ")", "return", "i", "+", "v", "end", "end",
          "out", "(", "t", "[", "1", "]", "(", ")", ",", "t", "[", "2", "]", "(",
          ")", ")">> @@
    "nativeiterator" :> <<"for", "x", "in", "pick", ",", "nil", ",", "nil", "do", "out", "(", "x",
          ")", "end", "out", "(", "'z'", ")">> @@
    "methods" :> <<"local", "o", "=", "{", "n", "=", "1", "}", "function", "o", ":", "get",
          "(", "k", ")", "return", "self", ".", "n", "+", "k", "end", "function",
          "o", ".", "set", "(", "v", ")", "o", ".", "n", "=", "v", "end", "o", ".",
          "set", "(", "5", ")", "out", "(", "o", ":", "get", "(", "4", ")", ")">> @@
    "globals" :> <<"x", "=", "1", "function", "f", "(", ")", "x", "=", "x", "+", "1",
          "return", "x", "end", "out", "(", "f", "(", ")", ",", "x", ",", "y", ")">> @@
    "index" :> <<"local", "t", "=", "setmetatable", "(", "{", "}", ",", "{", "__index", "=",
          "function", "(", "t", ",", "k", ")", "return", "k", "..", "'!'", "end",
          "}", ")", "out", "(", "t", ".", "a", ",", "t", "[", "1", "]", "..", "t",
          ".", "b", ")">> @@
    "chain" :> <<"local", "base", "=", "{", "f", "=", "1", "}", "local", "t", "=",
          "setmetatable", "(", "{", "}", ",", "{", "__index", "=", "base", ",",
          "__newindex", "=", "base", "}", ")", "t", ".", "g", "=", "2", "out", "(",
          "base", ".", "g", ",", "t", ".", "f", ",", "t", ".", "h", ")">> @@
    "newindex" :> <<"local", "t", "=", "setmetatable", "(", "{", "x", "=", "1", "}", ",", "{",
          "__newindex", "=", "function", "(", "t", ",", "k", ",", "v", ")", "out",
          "(", "k", ",", "v", ")", "end", "}", ")", "t", ".", "x", "=", "2", "t",
          ".", "y", "=", "3", "out", "(", "t", ".", "x", ",", "t", ".", "y", ")">> @@
    "selfmethod" :> <<"local", "t", "=", "setmetatable", "(", "{", "}", ",", "{", "__index", "=",
          "function", "(", "t", ",", "k", ")", "return", "function", "(", "self",
          ",", "x", ")", "return", "x", ",", "k", "end", "end", "}", ")", "out", "(",
          "t", ":", "m", "(", "4", ")", ")">> @@
    "arithmetic" :> <<"local", "m", "=", "{", "}", "m", ".", "__add", "=", "function", "(", "a",
          ",", "b", ")", "return", "7", "end", "m", ".", "__unm", "=", "function",
          "(", "a", ",", "b", ")", "return", "8", "end", "local", "t", "=",
          "setmetatable", "(", "{", "}", ",", "m", ")", "out", "(", "t", "+", "1",
          ",", "2", "+", "t", ",", "-", "t", ")">> @@
    "comparisons" :> <<"local", "m", "=", "{", "}", "m", ".", "__eq", "=", "function", "(", "a",
          ",", "b", ")", "return", "1", "end", "m", ".", "__lt", "=", "function",
          "(", "a", ",", "b", ")", "return", "nil", "end", "local", "t", ",", "u",
          "=", "setmetatable", "(", "{", "}", ",", "m", ")", ",", "setmetatable",
          "(", "{", "}", ",", "m", ")", "out", "(", "t", "==", "u", ",", "t", "<",
          "u", ",", "t", "<=", "u", ",", "t", "~=", "u", ")", "if", "t", "<", "u",
          "then", "out", "(", "1", ")", "else", "out", "(", "2", ")", "end">> @@
    "strings" :> <<"local", "s", "=", "'a'", "if", "s", "<", "'b'", "then", "out",
          "(", "1", ")", "else", "out", "(", "2", ")", "end", "out", "(", "'b'",
          "<=", "s", ",", "s", ">=", "'a'", ",", "'p'", "<", "s", ",", "s", ">",
          "'b'", ")">> @@
    "lessequal" :> <<"local", "m", "=", "{", "}", "m", ".", "__le", "=", "pick", "local", "t",
          "=", "setmetatable", "(", "{", "}", ",", "m", ")", "out", "(", "t", "<=",
          "t", ",", "t", ">=", "t", ")">> @@
    "concatenation" :> <<"local", "t", "=", "setmetatable", "(", "{", "}", ",", "{",
          "__concat", "=", "function", "(", "a", ",", "b", ")", "return", "'c'", "end",
          "}", ")", "out", "(", "1", "..", "t", "..", "2", ")">> @@
    "concatright" :> <<"local", "t", "=", "setmetatable", "(", "{", "}", ",", "{",
          "__concat", "=", "function", "(", "a", ",", "b", ")", "return", "'c'", "end",
          "}", ")", "out", "(", "t", "..", "t", ",", "3", "..", "4", "..", "t", ")">> @@
    "callable" :> <<"local", "t", "=", "setmetatable", "(", "{", "}", ",", "{", "__call", "=",
          "function", "(", "self", ",", "x", ")", "return", "x", ",", "9", "end",
          "}", ")", "out", "(", "t", "(", "3", ")", ")", "local", "function", "g",
          "(", ")", "return", "t", "(", "1", ")", "end", "out", "(", "g", "(", ")",
          ")">> @@
    "closinginner" :> <<"local", "f", ",", "g", "do", "local", "a", "=", "1", "f", "=", "function",
          "(", ")", "a", "=", "a", "+", "1", "return", "a", "end", "g", "=",
          "function", "(", ")", "return", "a", "end", "end", "local", "b", "=", "9",
          "f", "(", ")", "out", "(", "g", "(", ")", ",", "b", ")">> @@
    "untilclosure" :> <<"local", "f", "repeat", "local", "c", "=", "1", "f", "=", "function",
          "(", ")", "c", "=", "c", "+", "1", "return", "c", "end", "until", "f", "(", ")",
          "==", "2", "out", "(", "f", "(", ")", ")">> @@
    "nested" :> <<"local", "a", "=", "1", "local", "function", "f", "(", ")", "local", "b",
          "=", "2", "return", "function", "(", ")", "a", "=", "a", "+", "b",
          "return", "function", "(", ")", "return", "a", "+", "b", "end", "end",
          "end", "out", "(", "f", "(", ")", "(", ")", "(", ")", ")">> @@
    "pcallless" :> <<"out", "(", "1", ")", "fail", "(", ")", "out", "(", "2", ")">> @@
    "badindex" :> <<"local", "t", "=", "{", "}", "out", "(", "t", ".", "x", ")", "out", "(",
          "t", ".", "x", ".", "y", ")">> @@
    "badcall" :> <<"local", "t", "=", "{", "}", "t", "(", ")">> @@
    "badarith" :> <<"local", "t", "=", "{", "}", "out", "(", "1", "+", "'2'", ")", "out", "(",
          "t", "+", "1", ")">> @@
    "badcompare" :> <<"out", "(", "1", "<", "2", ")", "out", "(", "1", "<", "'x'", ")">> @@
    "badfor" :> <<"for", "i", "=", "1", ",", "{", "}", "do", "out", "(", "i", ")", "end">>

\* Two statements, one after the other, around which variables, a table and a
\* function are declared before and looked at afterwards.
Statements ==
    "assign" :> <<"a", "=", "b", "+", "1">> @@
    "results" :> <<"a", ",", "b", "=", "two", "(", ")">> @@
    "element" :> <<"t", "[", "a", "]", "=", "b">> @@
    "list" :> <<"t", "=", "{", "a", ",", "two", "(", ")", "}">> @@
    "branch" :> <<"if", "a", "==", "1", "then", "b", "=", "3", "else", "a", "=", "2", "end">> @@
    "closure" :> <<"two", "=", "function", "(", ")", "a", "=", "a", "+", "1", "return", "a",
          "end">> @@
    "scope" :> <<"do", "local", "a", "=", "b", "b", "=", "a", "+", "2", "end">> @@
    "while" :> <<"while", "a", "<", "3", "do", "a", "=", "a", "+", "1", "end">> @@
    "until" :> <<"repeat", "local", "c", "=", "a", "c", "=", "c", "+", "1", "a", "=", "c",
          "until", "c", ">", "1">> @@
    "logic" :> <<"b", "=", "a", "==", "1", "and", "t", "[", "1", "]", "or", "7">> @@
    "report" :> <<"out", "(", "a", ",", "two", "(", ")", ")">> @@
    "shadow" :> <<"local", "a", "=", "b">> @@
    "method" :> <<"function", "t", ":", "f", "(", "x", ")", "a", "=", "x", "return", "self",
          "end", "t", ":", "f", "(", "4", ")">> @@
    "leave" :> <<"if", "a", "==", "1", "then", "return", "a", ",", "two", "(", ")", "end">>
Around ==
    "inloop" :> [before |-> <<"for", "n", "=", "1", ",", "2", "do">>, after |-> <<"end">>] @@
    "incall" :> [before |-> <<"local", "function", "g", "(", "...", ")">>, after |-> <<"end", "out", "(", "g", "(", "6", ")", ")">>]
Before ==
    <<"local", "a", ",", "b", ",", "t", "=", "1", ",", "2", ",", "{", "5", "}",
      "local", "function", "two", "(", ")", "return", "3", ",", "4", "end">>
After ==
    <<"out", "(", "a", ",", "b", ",", "t", "[", "1", "]", ",", "t", "[", "2", "]",
      ")", "out", "(", "(", "two", "(", ")", ")", ")">>
Combined(f, g, w) ==
    Before \o Around[w].before \o Statements[f] \o Statements[g] \o Around[w].after \o After
StatementPairs == (DOMAIN Statements) \X (DOMAIN Statements) \X (DOMAIN Around)
Combinations ==
    [c \in {<<p>> : p \in DOMAIN Programs} \cup StatementPairs |->
        IF Len(c) = 1 THEN Programs[c[1]] ELSE Combined(c[1], c[2], c[3])]

\* Two locals change places.
SwapProgram ==
    <<"swap">> :> <<"local", "a", ",", "b", "=", "1", ",", "2", "a", ",", "b", "=", "b", ",",
          "a", "out", "(", "a", ",", "b", ")">>

\* A metamethod is called after a Lua function has returned.
MetamethodProgram ==
    <<"metamethodtop">> :> <<"local", "t", "=", "setmetatable", "(", "{", "}", ",", "{", "__index", "=",
          "function", "(", "t", ",", "k", ")", "return", "1", "end", "}", ")",
          "local", "function", "f", "(", ")", "return", "2", "end", "local", "a",
          "=", "f", "(", ")", "local", "b", "=", "3", "local", "c", "=", "t", ".",
          "x", "out", "(", "a", ",", "b", ",", "c", ")">>

\* A call that needs StackSizes registers, one more than a prototype can record.
WideProgram ==
    <<"wide">> :> <<"out", "(", "1", ",", "2", ",", "3", ",", "4", ",", "5", ",", "6", ",", "7",
          ",", "8", ",", "9", ",", "1", ",", "2", ",", "3", ",", "4", ",", "5", ")">>

Names == {"out", "pick", "fail", "setmetatable"}
Texts == ("1" :> 1) @@ ("2" :> 2)
\* The order of the C locale.
Alphabet == <<"a", "b", "p">>

Limits == [depth |-> 5, protos |-> 10, code |-> 100, constants |-> 50]

------------------------------------------------------------------------------
(* Properties of the compiler and the machine together *)

\* compileSource hands every prototype to verifyBytecode before it runs: what
\* the code generator emits for a program that it accepts passes.
CompilerSatisfiesVerifier == trace = <<>> => V!verify(main, Limits)

\* What the source of the running program means.
VARIABLE meaning
\* The source is parsed and compiled, and its main function is called.
InitMeant(programs) ==
    \E p \in DOMAIN programs :
        \E tree \in {P!parse(programs[p], FALSE).chunk} :
            \E proto \in {G!generate(tree).proto} :
                Loaded(p, proto) /\ meaning = M!Meaning(tree)
Stopped == status # "running" /\ UNCHANGED <<vars, meaning>>
NextMeant == (Next /\ UNCHANGED meaning) \/ Stopped
\* Weak fairness of Next, spelled out: as long as the program runs some step is
\* possible (the run checks that no other state is a deadlock), and it changes
\* the state unless it is a jump to itself, which a program may run for ever.
JumpsToItself == Fetch({"JMP"}) /\ inst.b = -1
KeepsRunning == []<>(status # "running" \/ JumpsToItself) \/ []<><<TRUE>>_vars
Runs == [][NextMeant]_<<vars, meaning>> /\ KeepsRunning
SpecMeant == InitMeant(Combinations) /\ Runs
SpecFaults == InitMeant(SwapProgram @@ MetamethodProgram @@ WideProgram) /\ Runs

\* The compiled program says what its source means, value by value, and ends
\* as it means: it implements LuaProgram, and it gets to the end.
Meant == INSTANCE LuaProgram WITH said <- trace, ending <- status
ImplementsMeaning == Meant!Spec

\* The values alone, for a program whose end is not asked for.
SaysWhatItMeans == IsPrefix(trace, meaning.trace)
===============================================================================
