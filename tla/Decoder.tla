------------------------------- MODULE Decoder -------------------------------
(***************************************************************************)
(* What Machine::Decode makes of an instruction word (riscvsim.cpp): its   *)
(* name and type, the registers it reads and writes, and its immediate.    *)
(***************************************************************************)
EXTENDS Words, Sequences

(* maskInstr. In sig64ext(31, val) a word with its highest bit set is      *)
(* shifted by its whole width to make the mask of the sign: the build      *)
(* without optimisation masks the amount and gets -1, others may get what  *)
(* was meant.                                                              *)

sig64ext(len, val) == IF len \in Bits(val, len + 1) THEN val - Pow2[len+1] ELSE val

Opcode(w) == Field(w, 0, 7)
Rd(w)     == Field(w, 7, 5)
Funct3(w) == Field(w, 12, 3)
Rs1(w)    == Field(w, 15, 5)
Rs2(w)    == Field(w, 20, 5)
Funct7(w) == Field(w, 25, 7)

ImmI(w) == sig64ext(11, Field(w, 20, 12))
ImmS(w) == sig64ext(11, Rd(w) + Pow2[5] * Funct7(w))

\* A bug: the bit that is in the place of rd's lowest is left there.
ImmSBByFields(w) == sig64ext(12, Rd(w) + Pow2[5] * Field(w, 25, 6) + Pow2[12] * Field(w, 31, 1))

ImmSB(w) == sig64ext(12, 2 * Field(w, 8, 4) + Pow2[5] * Field(w, 25, 6)
                           + Pow2[11] * Field(w, 7, 1) + Pow2[12] * Field(w, 31, 1))
ImmUJ(w) == sig64ext(20, 2 * Field(w, 21, 10) + Pow2[11] * Field(w, 20, 1)
                           + Pow2[12] * Field(w, 12, 8) + Pow2[20] * Field(w, 31, 1))
ImmU(w)  == LET meant == sig64ext(19, Field(w, 12, 20)) * Pow2[12]
            IN  IF meant < 0 THEN {meant, -1} ELSE {meant}

-----------------------------------------------------------------------------
\* The switches of Decode: what funct3 means under an opcode.
Table(names) == [f \in 0 .. Len(names)-1 |-> names[f + 1]]

Branches  == Table(<<"beq", "bne", "illegal", "illegal", "blt", "bge", "bltu", "bgeu">>)
Loads     == Table(<<"lb", "lh", "lw", "ld", "lbu", "lhu", "lwu", "illegal">>)
Stores    == Table(<<"sb", "sh", "sw", "sd", "illegal", "illegal", "illegal", "illegal">>)
Immediates(f7) ==
  Table(<<"addi", "slli", "slti", "sltiu", "xori", IF f7 > 0 THEN "srai" ELSE "srli", "ori", "andi">>)
Registers(f7) ==
  Table(<<IF f7 = 0 THEN "add" ELSE "sub", "sll", "slt", "sltu", "xor",
          IF f7 = 0 THEN "srl" ELSE "sra", "or", "and">>)
WordImmediates(f7) ==
  Table(<<"addiw", "slliw", "illegal", "illegal", "illegal",
          IF f7 = 0 THEN "srliw" ELSE "sraiw", "illegal", "illegal">>)
WordRegisters(f7) ==
  Table(<<IF f7 = 0 THEN "addw" ELSE "subw", "sllw", "illegal", "illegal", "illegal",
          IF f7 = 0 THEN "srlw" ELSE "sraw", "illegal", "illegal">>)

Name(w) ==
  LET f3 == Funct3(w)
      f7 == Funct7(w)
      op == Opcode(w)
  IN  CASE op = 55  -> "lui"
        [] op = 23  -> "auipc"
        [] op = 111 -> "jal"
        [] op = 103 -> "jalr"
        [] op = 99  -> Branches[f3]
        [] op = 3   -> Loads[f3]
        [] op = 35  -> Stores[f3]
        [] op = 19  -> Immediates(f7)[f3]
        [] op = 51  -> Registers(f7)[f3]
        [] op = 27  -> WordImmediates(f7)[f3]
        [] op = 59  -> WordRegisters(f7)[f3]
        [] op = 115 -> "ecall"
        [] op = 0   -> "nop"
        [] OTHER    -> "illegal"

Type(w) ==
  LET op == Opcode(w)
  IN  CASE op \in {51, 59, 115, 0} -> "R_type"
        [] op \in {103, 3, 19, 27} -> "I_type"
        [] op = 35                 -> "S_type"
        [] op = 99                 -> "SB_type"
        [] op \in {55, 23}         -> "U_type"
        [] OTHER                   -> "UJ_type"

Imm(w) == CASE Type(w) = "I_type"  -> {ImmI(w)}
            [] Type(w) = "S_type"  -> {ImmS(w)}
            [] Type(w) = "SB_type" -> {ImmSB(w)}
            [] Type(w) = "U_type"  -> ImmU(w)
            [] Type(w) = "UJ_type" -> {ImmUJ(w)}
            [] OTHER               -> {0}

\* A bug: an unsigned load is not known as one.
IsLoadSigned(name) == name \in {"lb", "lh", "lw", "ld"}

IsLoad(name) == name \in {"lb", "lbu", "lh", "lhu", "lw", "lwu", "ld"}

\* What Decode puts into ERegO; an operand or a result that is not there is x0.
Decoded(w, imm) ==
  LET rd == IF Type(w) \in {"S_type", "SB_type"} THEN 0 ELSE Rd(w)
  IN  [name |-> Name(w), imm |-> imm,
       srcA |-> IF Type(w) \in {"U_type", "UJ_type"} THEN 0 ELSE Rs1(w),
       srcB |-> IF Type(w) \in {"R_type", "S_type", "SB_type"} THEN Rs2(w) ELSE 0,
       dstE |-> IF IsLoad(Name(w)) THEN 0 ELSE rd,
       dstM |-> IF IsLoad(Name(w)) THEN rd ELSE 0]

=============================================================================
