------------------------------- MODULE Bytecode -------------------------------
(***************************************************************************)
(* The instruction format that the code generator, the verifier and the    *)
(* virtual machine share: src/compiler/opcode.hpp.                         *)
(*                                                                         *)
(* An instruction is a record [op, a, b, c]; Bx and sBx are in b, and RAW  *)
(* is a data word (the block number after a SETLIST whose C is 0).  A      *)
(* prototype is a record [code, k, protos, nparams, vararg, hasArg, max,   *)
(* nups]; pcs, registers and constants are numbered from 0.                *)
(***************************************************************************)
EXTENDS Integers, Sequences

CONSTANTS
    MaxIndexRK,      \* MAXINDEXRK: the last constant an RK operand can name
    BitRK,           \* BITRK: marks an operand as a constant
    FieldsPerFlush,  \* LFIELDS_PER_FLUSH
    MaxArgC,         \* MAXARG_C
    StackSizes       \* 2^8: the stack sizes that a prototype's u8 field holds

ASSUME BytecodeAssumption ==
    /\ MaxIndexRK \in Nat /\ BitRK \in Nat /\ MaxIndexRK < BitRK
    /\ FieldsPerFlush \in Nat \ {0} /\ MaxArgC \in Nat \ {0}
    /\ StackSizes \in Nat /\ StackSizes > 2

ISK(rk) == rk >= BitRK
INDEXK(rk) == rk - BitRK
AsK(k) == BitRK + k

Max2(m, n) == IF m > n THEN m ELSE n
=============================================================================
