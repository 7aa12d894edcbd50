------------------------------- MODULE LuaValues -------------------------------
(***************************************************************************)
(* Lua values as the virtual machine sees them, and what its helpers do    *)
(* with two of them: src/core/value.hpp, src/core/metatable.cpp and        *)
(* src/vm/vm_ops.cpp.                                                      *)
(*                                                                         *)
(*   <<"nil">> <<"true">> <<"false">> <<"num",n>> <<"str",s>>              *)
(*   <<"table",id>> <<"fun",id>> <<"native",name>>                         *)
(*                                                                         *)
(* Numbers are integers.  A table is a record [map, meta]: its entries     *)
(* that are not nil, and the id of its metatable (0: none).  How entries   *)
(* are stored and traversed is in LuaTable.                                *)
(***************************************************************************)
EXTENDS Integers, Sequences, FiniteSets, TLC

CONSTANTS
    NumericText,     \* the numbers that occur, from their text
    Collation,       \* the strings that are compared, in the order of strcoll
    Natives          \* the C functions the programs call

Nil == <<"nil">>
Bool(b) == IF b THEN <<"true">> ELSE <<"false">>
Num(n) == <<"num", n>>
Str(s) == <<"str", s>>
IsTrue(v) == v \notin {Nil, Bool(FALSE)}
IsFunction(v) == v[1] \in {"fun", "native"}
IsTable(v) == v[1] = "table"
Type(v) == CASE v[1] \in {"true", "false"} -> "boolean" [] IsFunction(v) -> "function" [] OTHER -> v[1]

\* tryToNumber: a number, or a string that reads as one.
IsNumeric(v) == v[1] = "num" \/ (v[1] = "str" /\ v[2] \in DOMAIN NumericText)
ToNumber(v) == IF v[1] = "num" THEN v[2] ELSE NumericText[v[2]]
\* concatOperandText
HasText(v) == v[1] \in {"num", "str"}
Text(v) == IF v[1] = "num" THEN ToString(v[2]) ELSE v[2]
Joined(v, w) == Str(Text(v) \o Text(w))

\* Numbers and strings are ordered among themselves (luaStringCompare; embedded
\* zeros are left out); all other operands need a metamethod.
Ordered(v, w) == v[1] = w[1] /\ v[1] \in {"num", "str"}
Rank(s) == CHOOSE i \in DOMAIN Collation : Collation[i] = s
Below(v, w) == IF v[1] = "num" THEN v[2] < w[2] ELSE Rank(v[2]) < Rank(w[2])

Arith(op, m, n) == CASE op = "ADD" -> m + n [] op = "SUB" -> m - n [] op = "MUL" -> m * n
EventOf(op) == CASE op = "ADD" -> "__add" [] op = "SUB" -> "__sub" [] op = "MUL" -> "__mul"

------------------------------------------------------------------------------
(* Tables *)

EmptyTable == [map |-> [k \in {} |-> Nil], meta |-> 0]
Raw(map, key) == IF key \in DOMAIN map THEN map[key] ELSE Nil
\* Table::set: nil removes the entry.
Entered(map, key, value) ==
    [k \in IF value = Nil THEN DOMAIN map \ {key} ELSE DOMAIN map \cup {key} |->
        IF k = key THEN value ELSE map[k]]
\* setArrayRange
EnteredRange(map, first, values) ==
    [k \in (DOMAIN map \cup {Num(first + i - 1) : i \in DOMAIN values})
           \ {Num(first + i - 1) : i \in {j \in DOMAIN values : values[j] = Nil}} |->
        LET i == IF k[1] = "num" THEN k[2] - first + 1 ELSE 0
        IN IF i \in DOMAIN values THEN values[i] ELSE map[k]]
\* Table::length, for tables without holes
Border(map) ==
    CHOOSE n \in 0 .. Cardinality(DOMAIN map) :
        /\ \A i \in 1 .. n : Num(i) \in DOMAIN map
        /\ Num(n + 1) \notin DOMAIN map

------------------------------------------------------------------------------
(* Metamethods.  Only tables have metatables here.                         *)

\* getMetamethodByObject
Metamethod(tables, v, event) ==
    IF IsTable(v) /\ tables[v[2]].meta # 0
    THEN Raw(tables[tables[v[2]].meta].map, Str(event)) ELSE Nil
\* getComparisonTM (__eq) and callOrderTM: both operands must agree.
SharedMetamethod(tables, v, w, event) ==
    LET f == Metamethod(tables, v, event)
    IN IF f = Metamethod(tables, w, event) THEN f ELSE Nil
\* callBinaryTM: the left operand's, or the right one's.
EitherMetamethod(tables, v, w, event) ==
    LET f == Metamethod(tables, v, event)
    IN IF f = Nil THEN Metamethod(tables, w, event) ELSE f
=============================================================================
