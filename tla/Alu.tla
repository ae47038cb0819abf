--------------------------------- MODULE Alu ---------------------------------
(***************************************************************************)
(* The arithmetic of Machine::Execute and MemStage (riscvsim.cpp), with    *)
(* registers of XLEN bits (64 in the code) and words of WLEN (32), and     *)
(* masks of shift amounts scaled accordingly. Values are integers in two's *)
(* complement, as int64_t is.                                              *)
(*                                                                         *)
(* An amount of a shift that is not below the width is masked, as the      *)
(* machine instruction does that a variable amount compiles to.            *)
(***************************************************************************)
EXTENDS Words

Int64(x)  == Signed(XLEN, x)
UInt64(x) == Unsigned(XLEN, x)
Int32(x)  == Signed(WLEN, x)
UInt32(x) == Unsigned(WLEN, x)

Truth(condition) == IF condition THEN 1 ELSE 0

And(x, y) == Number(Bits(x, XLEN) \cap Bits(y, XLEN), XLEN)
Or(x, y)  == Number(Bits(x, XLEN) \cup Bits(y, XLEN), XLEN)
Xor(x, y) == Number((Bits(x, XLEN) \cup Bits(y, XLEN)) \ (Bits(x, XLEN) \cap Bits(y, XLEN)), XLEN)

\* A shift to the left, and one to the right of a signed or an unsigned number,
\* whose width is that of the amount.
Left(x, amount, width)  == x * Pow2[amount % width]
Right(x, amount, width) == x \div Pow2[amount % width]

\* sig64ext(31, val): see Decoder.
ExtendedWord(x) == IF Int32(x) < 0 THEN {Int32(x), -1} ELSE {Int32(x)}

\* A bug: compares as signed numbers.
LessSigned(x, y) == x < y

LessUnsigned(x, y) == UInt64(x) < UInt64(y)

\* Whether a branch is taken.
Taken(name, vA, vB) ==
  CASE name = "beq"  -> vA = vB
    [] name = "bne"  -> vA # vB
    [] name = "blt"  -> vA < vB
    [] name = "bge"  -> vA >= vB
    [] name = "bltu" -> LessUnsigned(vA, vB)
    [] name = "bgeu" -> ~LessUnsigned(vA, vB)

BranchNames == {"beq", "bne", "blt", "bge", "bltu", "bgeu"}

\* The outcomes of Execute's switch: vE. The operations mul, mulh, div and rem
\* it has as well belong to no word Decode accepts.
ValE(name, addr, vA, vB, imm) ==
  CASE name = "add"   -> {Int64(vA + vB)}
    [] name = "sub"   -> {Int64(vA - vB)}
    [] name = "sll"   -> {Int64(Left(vA, vB, XLEN))}
    [] name = "slt"   -> {Truth(vA < vB)}
    [] name = "sltu"  -> {Truth(LessUnsigned(vA, vB))}
    [] name = "xor"   -> {Int64(Xor(vA, vB))}
    [] name = "srl"   -> {Int64(Right(UInt64(vA), vB, XLEN))}
    [] name = "sra"   -> {Right(vA, vB, XLEN)}
    [] name = "or"    -> {Int64(Or(vA, vB))}
    [] name = "and"   -> {Int64(And(vA, vB))}
    [] name \in {"lb", "lbu", "lh", "lhu", "lw", "lwu", "ld", "addi", "sb", "sh", "sw", "sd"}
                      -> {Int64(vA + imm)}
    [] name = "slli"  -> {Int64(Left(vA, imm, XLEN))}
    [] name = "slti"  -> {Truth(vA < imm)}
    [] name = "sltiu" -> {Truth(LessUnsigned(vA, imm))}
    [] name = "xori"  -> {Int64(Xor(vA, imm))}
    [] name = "srli"  -> {Int64(Right(UInt64(vA), imm, XLEN))}
    [] name = "srai"  -> {Right(vA, imm, XLEN)}
    [] name = "ori"   -> {Int64(Or(vA, imm))}
    [] name = "andi"  -> {Int64(And(vA, imm))}
    [] name \in {"jal", "jalr"} -> {Int64(addr + 4)}
    [] name \in BranchNames     -> {Truth(Taken(name, vA, vB))}
    [] name = "srliw" -> {Right(UInt32(vA), imm, WLEN)}
    [] name = "slliw" -> {UInt32(Left(vA, imm % WLEN, XLEN))}
    [] name = "addiw" -> ExtendedWord(vA + imm)
    [] name = "sraiw" -> {Right(Int32(vA), imm, WLEN)}
    [] name \in {"addw", "subw"} -> {Int32(Int32(vA) + Int32(vB))}
    [] name = "sllw"  -> {Int32(Left(Int32(vA), vB, WLEN))}
    [] name = "srlw"  -> {UInt32(Left(UInt32(vA), vB, WLEN))}
    [] name = "sraw"  -> {Int32(Left(Int32(vA), vB, WLEN))}
    [] name = "auipc" -> {Int64(addr + imm)}
    [] name = "lui"   -> {Int64(imm)}
    [] OTHER          -> {0}

\* vC: where a taken branch or a jalr goes.
ValC(name, addr, vA, imm) ==
  IF name = "jalr" THEN Int64(2 * ((vA + imm) \div 2)) ELSE Int64(addr + imm)

-----------------------------------------------------------------------------
\* Bits a load or a store transfers.
Width(name) == CASE name \in {"lb", "lbu", "sb"} -> XLEN \div 8
                 [] name \in {"lh", "lhu", "sh"} -> XLEN \div 4
                 [] name \in {"lw", "lwu", "sw"} -> XLEN \div 2
                 [] name \in {"ld", "sd"}        -> XLEN

\* vM of a load, from the bits in memory.
ValM(name, data) == IF name \in {"lbu", "lhu", "lwu"} THEN Unsigned(Width(name), data)
                                                      ELSE Signed(Width(name), data)

\* What is in memory, as a number, after a store.
Stored(name, data, vB) == data - Unsigned(Width(name), data) + Unsigned(Width(name), vB)

=============================================================================
