---------------------------- MODULE BytecodeVerifier ----------------------------
(***************************************************************************)
(* The verifier of loaded prototypes: src/runtime/bytecode_verifier.cpp.   *)
(* Its answer is a predicate on the tree of prototypes; the messages, the  *)
(* line metadata and the types of the constants are left out.              *)
(***************************************************************************)
EXTENDS Bytecode, FiniteSetsExt, SequencesExt

VerifyRegister(p, r) == 0 <= r /\ r < p.max
VerifyRange(p, first, n) == first >= 0 /\ n >= 0 /\ first + n <= p.max
VerifyRK(p, x) == IF ISK(x) THEN INDEXK(x) < Len(p.k) ELSE VerifyRegister(p, x)

Pcs(p) == 0 .. Len(p.code) - 1
At(p, pc) == p.code[pc + 1]

\* The words after an instruction that are data: the block number of a
\* SETLIST, the captures of a CLOSURE.
Extra(p, pc) ==
    LET i == At(p, pc)
    IN CASE i.op = "SETLIST" /\ i.c = 0 -> 1
         [] i.op = "CLOSURE" /\ i.b < Len(p.protos) -> p.protos[i.b + 1].nups
         [] OTHER -> 0
\* The first pass walks from instruction to instruction; the rest is data.
Starts(p) ==
    LET Step(s, pc) == IF pc = s.next THEN [next |-> pc + 1 + Extra(p, pc), at |-> s.at \cup {pc}] ELSE s
    IN FoldLeft(Step, [next |-> 0, at |-> {}], [i \in DOMAIN p.code |-> i - 1]).at

VerifyTarget(p, pc) == pc \in Starts(p)
VerifyJumpAt(p, pc) ==
    VerifyTarget(p, pc) /\ At(p, pc).op = "JMP" /\ VerifyTarget(p, pc + 1 + At(p, pc).b)

\* The data words are there and mean something.
VerifyExtra(p, pc) ==
    LET i == At(p, pc)
    IN /\ pc + Extra(p, pc) \in Pcs(p)
       /\ i.op = "SETLIST" /\ i.c = 0 => At(p, pc + 1).b > 0
       /\ i.op = "CLOSURE" =>
            /\ i.b < Len(p.protos)
            /\ \A w \in {At(p, pc + n) : n \in 1 .. Extra(p, pc)} :
                 \/ w.op = "MOVE" /\ VerifyRegister(p, w.b)
                 \/ w.op = "GETUPVAL" /\ 0 <= w.b /\ w.b < p.nups

VerifyInstruction(p, pc) ==
    LET i == At(p, pc)
        regA == VerifyRegister(p, i.a)
        regB == VerifyRegister(p, i.b)
        rkB == VerifyRK(p, i.b)
        rkC == VerifyRK(p, i.c)
        constant == i.b < Len(p.k)
        upvalue == 0 <= i.b /\ i.b < p.nups
        jump == VerifyTarget(p, pc + 1 + i.b)
    IN CASE i.op \in {"MOVE", "UNM", "NOT", "LEN"} -> regA /\ regB
         [] i.op \in {"LOADK", "GETGLOBAL", "SETGLOBAL"} -> regA /\ constant
         [] i.op = "LOADBOOL" -> regA /\ (i.c = 0 \/ VerifyTarget(p, pc + 2))
         [] i.op = "LOADNIL" -> i.a <= i.b /\ VerifyRange(p, i.a, i.b - i.a + 1)
         [] i.op \in {"GETUPVAL", "SETUPVAL"} -> regA /\ upvalue
         [] i.op = "GETTABLE" -> regA /\ regB /\ rkC
         [] i.op \in {"SETTABLE", "ADD", "SUB", "MUL"} -> regA /\ rkB /\ rkC
         [] i.op \in {"NEWTABLE", "CLOSE"} -> regA
         [] i.op = "SELF" -> VerifyRange(p, i.a, 2) /\ regB /\ rkC
         [] i.op = "CONCAT" -> regA /\ i.b <= i.c /\ VerifyRange(p, i.b, i.c - i.b + 1)
         [] i.op = "JMP" -> jump
         [] i.op \in {"EQ", "LT", "LE"} -> i.a <= 1 /\ rkB /\ rkC /\ VerifyTarget(p, pc + 2)
         [] i.op = "TEST" -> regA /\ i.c <= 1 /\ VerifyJumpAt(p, pc + 1)
         [] i.op = "CALL" -> /\ regA
                             /\ i.b = 0 \/ VerifyRange(p, i.a, i.b)
                             /\ i.c <= 1 \/ VerifyRange(p, i.a, i.c - 1)
         [] i.op = "TAILCALL" -> regA /\ (i.b = 0 \/ VerifyRange(p, i.a, i.b))
         [] i.op = "RETURN" -> regA /\ (i.b <= 1 \/ VerifyRange(p, i.a, i.b - 1))
         [] i.op \in {"FORLOOP", "FORPREP"} -> VerifyRange(p, i.a, 4) /\ jump
         [] i.op = "TFORLOOP" -> i.c > 0 /\ VerifyRange(p, i.a, i.c + 3) /\ VerifyJumpAt(p, pc + 1)
         [] i.op = "SETLIST" -> regA /\ (i.b = 0 \/ VerifyRange(p, i.a + 1, i.b))
         [] i.op = "CLOSURE" -> regA /\ i.b < Len(p.protos)
         \* An open VARARG may start where the frame ends.
         [] i.op = "VARARG" -> p.vararg /\ VerifyRange(p, i.a, IF i.b <= 1 THEN 0 ELSE i.b - 1)
         [] OTHER -> FALSE

VerifyOne(p) ==
    /\ p.max > 0 /\ p.nparams <= p.max /\ p.code # <<>>
    /\ \A pc \in Starts(p) : VerifyExtra(p, pc) /\ VerifyInstruction(p, pc)

\* The whole tree, within the limits [depth, protos, code, constants].
RECURSIVE Depth(_)
Depth(p) == 1 + (IF p.protos = <<>> THEN 0 ELSE Max({Depth(p.protos[i]) : i \in DOMAIN p.protos}))
RECURSIVE AllProtos(_)
AllProtos(p) == <<p>> \o FlattenSeq([i \in DOMAIN p.protos |-> AllProtos(p.protos[i])])
Total(p, Count(_)) == FoldLeft(LAMBDA n, q : n + Count(q), 0, AllProtos(p))

verify(root, limits) ==
    /\ Depth(root) <= limits.depth
    /\ Total(root, LAMBDA p : 1) <= limits.protos
    /\ Total(root, LAMBDA p : Len(p.code)) <= limits.code
    /\ Total(root, LAMBDA p : Len(p.k)) <= limits.constants
    /\ \A p \in ToSet(AllProtos(root)) : VerifyOne(p)
=============================================================================
