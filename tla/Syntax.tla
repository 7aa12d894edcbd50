-------------------------------- MODULE Syntax --------------------------------
(***************************************************************************)
(* Syntax trees: src/compiler/ast.hpp, and the walks over them.            *)
(*                                                                         *)
(* The tree is made of tuples whose first member is the kind of the node:  *)
(*   <<"nil">> <<"true">> <<"false">> <<"num",n>> <<"str",s>> <<"vararg">> *)
(*   <<"name",x>> <<"bin",op,l,r>> <<"un",op,e>> <<"paren",e>>             *)
(*   <<"index",t,key>> <<"call",f,args>> <<"method",obj,name,args>>        *)
(*   <<"table",fields>> with fields <<key,value>> or <<value>>             *)
(*   <<"function",params,isVararg,body>>                                   *)
(*   <<"local",names,values>> <<"assign",targets,values>> <<"do",body>>    *)
(*   <<"callstmt",call>> <<"return",values>> <<"break">>                   *)
(*   <<"if",branches,else>> with branches <<condition,body>>               *)
(*   <<"while",c,body>> <<"repeat",body,c>> <<"forin",vars,exprs,body>>    *)
(*   <<"fornum",var,init,limit,step,body>> (step <<>> when absent)         *)
(*   <<"localfunction",name,function>> <<"functionstmt",path,function>>    *)
(* Locations are left out.                                                 *)
(***************************************************************************)
EXTENDS Sequences, SequencesExt

\* The expressions and the statements directly below a node.
SubExprs(n) ==
    CASE n[1] = "bin" -> <<n[3], n[4]>>
      [] n[1] \in {"un", "index"} -> IF n[1] = "un" THEN <<n[3]>> ELSE <<n[2], n[3]>>
      [] n[1] \in {"paren", "callstmt", "while"} -> <<n[2]>>
      [] n[1] = "call" -> <<n[2]>> \o n[3]
      [] n[1] = "method" -> <<n[2]>> \o n[4]
      [] n[1] = "table" -> FlattenSeq(n[2])
      [] n[1] = "local" -> n[3]
      [] n[1] = "assign" -> n[2] \o n[3]
      [] n[1] = "return" -> n[2]
      [] n[1] = "if" -> [i \in DOMAIN n[2] |-> n[2][i][1]]
      [] n[1] = "repeat" -> <<n[3]>>
      [] n[1] = "fornum" -> <<n[3], n[4]>> \o (IF n[5] = <<>> THEN <<>> ELSE <<n[5]>>)
      [] n[1] = "forin" -> n[3]
      [] OTHER -> <<>>
SubStmts(n) ==
    CASE n[1] = "if" -> FlattenSeq([i \in DOMAIN n[2] |-> n[2][i][2]]) \o n[3]
      [] n[1] = "while" -> n[3]
      [] n[1] \in {"repeat", "do"} -> n[2]
      [] n[1] = "fornum" -> n[6]
      [] n[1] = "forin" -> n[4]
      [] OTHER -> <<>>

IsCall(e) == e[1] \in {"call", "method"}
IsMulti(e) == IsCall(e) \/ e[1] = "vararg"

\* stmtListUsesDirectVararg: '...' outside nested functions.
RECURSIVE usesDirectVararg(_)
usesDirectVararg(n) ==
    \/ n[1] = "vararg"
    \/ LET below == SubExprs(n) \o SubStmts(n)
       IN \E i \in DOMAIN below : usesDirectVararg(below[i])
=============================================================================
