------------------------------- MODULE Manual -------------------------------
(***************************************************************************)
(* The base instruction set of the RISC-V manual: how an instruction is    *)
(* encoded in a word, and what it does to the registers, the memory and    *)
(* the program counter. Registers hold integers of XLEN bits. This is the  *)
(* reference the simulator is compared with, and is written on its own     *)
(* terms: bits, not shifts and masks.                                      *)
(***************************************************************************)
EXTENDS Words

-----------------------------------------------------------------------------
(* Encoding.                                                               *)

\* Opcode, funct3 and funct7, or 0 where the format has none of them.
Row(opcode, f3, f7) == [opcode |-> opcode, f3 |-> f3, f7 |-> f7]

RFormat ==
  [add  |-> Row(51, 0, 0), sub  |-> Row(51, 0, 32), sll  |-> Row(51, 1, 0),
   slt  |-> Row(51, 2, 0), sltu |-> Row(51, 3, 0),  xor  |-> Row(51, 4, 0),
   srl  |-> Row(51, 5, 0), sra  |-> Row(51, 5, 32), or   |-> Row(51, 6, 0),
   and  |-> Row(51, 7, 0), addw |-> Row(59, 0, 0),  subw |-> Row(59, 0, 32),
   sllw |-> Row(59, 1, 0), srlw |-> Row(59, 5, 0),  sraw |-> Row(59, 5, 32),
   mul  |-> Row(51, 0, 1), div  |-> Row(51, 4, 1),  rem  |-> Row(51, 6, 1)]

\* Shifts by an immediate have the amount in its low bits and funct7 above.
Shifts ==
  [slli  |-> Row(19, 1, 0), srli  |-> Row(19, 5, 0), srai  |-> Row(19, 5, 32),
   slliw |-> Row(27, 1, 0), srliw |-> Row(27, 5, 0), sraiw |-> Row(27, 5, 32)]

IFormat ==
  [jalr  |-> Row(103, 0, 0), lb   |-> Row(3, 0, 0),  lh    |-> Row(3, 1, 0),
   lw    |-> Row(3, 2, 0),   ld   |-> Row(3, 3, 0),  lbu   |-> Row(3, 4, 0),
   lhu   |-> Row(3, 5, 0),   lwu  |-> Row(3, 6, 0),  addi  |-> Row(19, 0, 0),
   slti  |-> Row(19, 2, 0),  sltiu |-> Row(19, 3, 0), xori |-> Row(19, 4, 0),
   ori   |-> Row(19, 6, 0),  andi |-> Row(19, 7, 0), addiw |-> Row(27, 0, 0),
   fence |-> Row(15, 0, 0),  ecall |-> Row(115, 0, 0)]

\* The loads among them.
LoadNames == {"lb", "lbu", "lh", "lhu", "lw", "lwu", "ld"}

SFormat == [sb |-> Row(35, 0, 0), sh |-> Row(35, 1, 0), sw |-> Row(35, 2, 0), sd |-> Row(35, 3, 0)]

BFormat ==
  [beq |-> Row(99, 0, 0), bne  |-> Row(99, 1, 0), blt  |-> Row(99, 4, 0),
   bge |-> Row(99, 5, 0), bltu |-> Row(99, 6, 0), bgeu |-> Row(99, 7, 0)]

UFormat == [lui |-> Row(55, 0, 0), auipc |-> Row(23, 0, 0)]
JFormat == [jal |-> Row(111, 0, 0)]

Mnemonics == UNION {DOMAIN RFormat, DOMAIN Shifts, DOMAIN IFormat, DOMAIN SFormat,
                    DOMAIN BFormat, DOMAIN UFormat, DOMAIN JFormat}

RowOf(name) ==
  CASE name \in DOMAIN RFormat -> RFormat[name]
    [] name \in DOMAIN Shifts  -> Shifts[name]
    [] name \in DOMAIN IFormat -> IFormat[name]
    [] name \in DOMAIN SFormat -> SFormat[name]
    [] name \in DOMAIN BFormat -> BFormat[name]
    [] name \in DOMAIN UFormat -> UFormat[name]
    [] name \in DOMAIN JFormat -> JFormat[name]

\* A number at bit "at" of a word, and a slice of the bits of a number there.
Put(x, len, at)      == {at + k : k \in Bits(x, len)}
Slice(x, hi, lo, at) == {at + k - lo : k \in {j \in lo .. hi : j \in Bits(x, hi + 1)}}

\* An instruction [name, rd, rs1, rs2, imm]; the immediate of lui and auipc is
\* the multiple of 4096 it stands for.
Encode(i) ==
  LET row    == RowOf(i.name)
      opcode == Put(row.opcode, 7, 0)
      f3     == Put(row.f3, 3, 12)
      f7     == Put(row.f7, 7, 25)
      rd     == Put(i.rd, 5, 7)
      rs1    == Put(i.rs1, 5, 15)
      rs2    == Put(i.rs2, 5, 20)
      format(names) == i.name \in DOMAIN names
  IN  opcode \cup
      CASE format(RFormat) -> f3 \cup f7 \cup rd \cup rs1 \cup rs2
        [] format(Shifts)  -> f3 \cup f7 \cup rd \cup rs1 \cup Put(i.imm, 6, 20)
        [] format(IFormat) -> f3 \cup rd \cup rs1 \cup Slice(i.imm, 11, 0, 20)
        [] format(SFormat) -> f3 \cup rs1 \cup rs2 \cup Slice(i.imm, 4, 0, 7) \cup Slice(i.imm, 11, 5, 25)
        [] format(BFormat) -> f3 \cup rs1 \cup rs2 \cup Slice(i.imm, 4, 1, 8) \cup Slice(i.imm, 10, 5, 25)
                                 \cup Slice(i.imm, 11, 11, 7) \cup Slice(i.imm, 12, 12, 31)
        [] format(UFormat) -> rd \cup Put(i.imm \div 4096, 20, 12)
        [] format(JFormat) -> rd \cup Slice(i.imm, 10, 1, 21) \cup Slice(i.imm, 11, 11, 20)
                                 \cup Slice(i.imm, 19, 12, 12) \cup Slice(i.imm, 20, 20, 31)

\* The immediates that fit the fields of their format.
Encodable(i) ==
  LET imm == i.imm
      format(names) == i.name \in DOMAIN names
      multiple(n, lo, hi) == imm % n = 0 /\ imm \div n \in lo .. hi
  IN  CASE format(RFormat)              -> TRUE
        [] format(Shifts)               -> imm \in 0 .. IF RowOf(i.name).opcode = 19 THEN 63 ELSE 31
        [] i.name = "ecall"             -> imm = 0
        [] format(BFormat)              -> multiple(2, -Pow2[11], Pow2[11]-1)
        [] format(UFormat)              -> multiple(4096, -Pow2[19], Pow2[19]-1)
        [] format(JFormat)              -> multiple(2, -Pow2[19], Pow2[19]-1)
        [] OTHER                        -> imm \in -Pow2[11] .. Pow2[11]-1

-----------------------------------------------------------------------------
(* Semantics: x and y are the values of rs1 and rs2.                       *)

Register(word) == Signed(XLEN, Number(word, XLEN))
ExtendWord(x)  == Signed(WLEN, x)

\* Bits moved by n, zeros or the highest of len bits shifted in.
ShiftUp(x, n, len)   == {k \in 0 .. len-1 : k - n \in Bits(x, len)}
ShiftDown(x, n, len) == {k \in 0 .. len-1 : k + n \in Bits(x, len)}
ShiftSign(x, n, len) == ShiftDown(x, n, len) \cup
                        IF len-1 \in Bits(x, len) THEN len-n .. len-1 ELSE {}

Below(x, y)         == IF x < y THEN 1 ELSE 0
BelowUnsigned(x, y) == Below(Unsigned(XLEN, x), Unsigned(XLEN, y))

\* Division rounds towards zero; by zero it gives -1 and the dividend as remainder.
Magnitude(x)   == IF x < 0 THEN -x ELSE x
Quotient(x, y) == IF y = 0 THEN -1
                  ELSE LET q == Magnitude(x) \div Magnitude(y)
                       IN  IF (x < 0) = (y < 0) THEN q ELSE -q
Remainder(x, y) == IF y = 0 THEN x ELSE x - y * Quotient(x, y)

\* The value of rd after an instruction with second operand z: rs2, or the immediate.
\* The low bits of the operand are the amount of a shift.
Operation(op, x, z) ==
  LET long   == z % XLEN
      short  == z % WLEN
  IN  CASE op = "add"  -> Signed(XLEN, x + z)
        [] op = "sub"  -> Signed(XLEN, x - z)
        [] op = "slt"  -> Below(x, z)
        [] op = "sltu" -> BelowUnsigned(x, z)
        [] op = "xor"  -> Register({k \in 0 .. XLEN-1 : (k \in Bits(x, XLEN)) # (k \in Bits(z, XLEN))})
        [] op = "or"   -> Register({k \in 0 .. XLEN-1 : k \in Bits(x, XLEN) \/ k \in Bits(z, XLEN)})
        [] op = "and"  -> Register({k \in 0 .. XLEN-1 : k \in Bits(x, XLEN) /\ k \in Bits(z, XLEN)})
        [] op = "sll"  -> Register(ShiftUp(x, long, XLEN))
        [] op = "srl"  -> Register(ShiftDown(x, long, XLEN))
        [] op = "sra"  -> Register(ShiftSign(x, long, XLEN))
        [] op = "addw" -> ExtendWord(x + z)
        [] op = "subw" -> ExtendWord(x - z)
        [] op = "sllw" -> ExtendWord(Number(ShiftUp(x, short, WLEN), WLEN))
        [] op = "srlw" -> ExtendWord(Number(ShiftDown(x, short, WLEN), WLEN))
        [] op = "sraw" -> ExtendWord(Number(ShiftSign(x, short, WLEN), WLEN))
        [] op = "mul"  -> Signed(XLEN, x * z)
        [] op = "div"  -> Signed(XLEN, Quotient(x, z))
        [] op = "rem"  -> Signed(XLEN, Remainder(x, z))

\* The operation of an instruction with an immediate.
WithImmediate ==
  [addi |-> "add", slti |-> "slt", sltiu |-> "sltu", xori  |-> "xor",  ori   |-> "or",
   andi |-> "and", slli |-> "sll", srli  |-> "srl",  srai  |-> "sra",  addiw |-> "addw",
   slliw |-> "sllw", srliw |-> "srlw", sraiw |-> "sraw"]

Condition(name, x, y) ==
  CASE name = "beq"  -> x = y
    [] name = "bne"  -> x # y
    [] name = "blt"  -> x < y
    [] name = "bge"  -> x >= y
    [] name = "bltu" -> BelowUnsigned(x, y) = 1
    [] name = "bgeu" -> BelowUnsigned(x, y) = 0

\* The part of a register an access transfers, as what it is divided by.
AccessBits ==
  [lb |-> 8, lbu |-> 8, sb |-> 8, lh |-> 4, lhu |-> 4, sh |-> 4,
   lw |-> 2, lwu |-> 2, sw |-> 2, ld |-> 1, sd |-> 1]

\* The bits of an access, from the lowest in memory.
Accessed(name) == 0 .. XLEN \div AccessBits[name] - 1

Loaded(name, data) ==
  LET bits == Bits(data, XLEN) \cap Accessed(name)
      high == XLEN \div AccessBits[name] - 1
      sign == IF name \in {"lb", "lh", "lw"} /\ high \in bits THEN high .. XLEN-1 ELSE {}
  IN  Register(bits \cup sign)

Overwritten(name, data, y) ==
  Number((Bits(data, XLEN) \ Accessed(name)) \cup (Bits(y, XLEN) \cap Accessed(name)), XLEN)

\* What instruction i at pc does: the value of rd (0 if it has none), the next
\* pc, and the bits at the address it accesses, which held data. What the
\* environment does for ecall, and memory ordering, are not part of it.
Executed(i, pc, x, y, data) ==
  LET has(names) == i.name \in DOMAIN names
      effect(rd, next, mem) == [rd |-> rd, pc |-> next, mem |-> mem]
      next   == Signed(XLEN, pc + 4)
      target == Signed(XLEN, pc + i.imm)
  IN  CASE has(RFormat)       -> effect(Operation(i.name, x, y), next, data)
        [] has(WithImmediate) -> effect(Operation(WithImmediate[i.name], x, i.imm), next, data)
        [] has(SFormat)       -> effect(0, next, Overwritten(i.name, data, y))
        [] has(BFormat)       -> effect(0, IF Condition(i.name, x, y) THEN target ELSE next, data)
        [] i.name = "lui"     -> effect(Signed(XLEN, i.imm), next, data)
        [] i.name = "auipc"   -> effect(target, next, data)
        [] i.name = "jal"     -> effect(next, target, data)
        [] i.name = "jalr"    -> effect(next, Register(Bits(x + i.imm, XLEN) \ {0}), data)
        [] i.name \in {"fence", "ecall"} -> effect(0, next, data)
        [] OTHER              -> effect(Loaded(i.name, data), next, data)

=============================================================================
