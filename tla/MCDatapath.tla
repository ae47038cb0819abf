----------------------------- MODULE MCDatapath -----------------------------
(***************************************************************************)
(* Instructions to decode, with registers and immediates at the edges of   *)
(* their fields, and instructions to compute with, in registers of eight   *)
(* bits.                                                                   *)
(***************************************************************************)
EXTENDS Datapath

In(name, rd, rs1, rs2, imm) == [name |-> name, rd |-> rd, rs1 |-> rs1, rs2 |-> rs2, imm |-> imm]

Case(instr, x, y, data) ==
  [instr |-> instr, addr |-> 16, x |-> x, y |-> y, data |-> data]

Names(format) == DOMAIN format

\* Immediates that set a bit of each slice of their format, and signs.
Imm12  == {0, 1, 2, 5, 31, 32, 64, 1024, 2047, -1, -2, -32, -1025, -2048}
ImmB   == {0, 2, 16, 30, 32, 1024, 2048, 4094, -2, -32, -2048, -4096}
Imm20  == {0, 4096, 8192, 134217728, 262144 * 4096, -4096, -8192, -524287 * 4096}
ImmJ   == {0, 2, 1024, 2048, 4096, 524288, 1048574, -2, -2048, -4096, -1048576}
Amount == {0, 1, 15, 31, 32, 63}
ImmOf(name) ==
  IF name \in Names(RFormat) \cup {"ecall", "fence"} THEN {0}
  ELSE IF name \in Names(Shifts)
    THEN {n \in Amount : n < 32 \/ name \in {"slli", "srli", "srai"}}
  ELSE IF name \in Names(BFormat) THEN ImmB
  ELSE IF name \in Names(UFormat) THEN Imm20
  ELSE IF name = "jal" THEN ImmJ ELSE Imm12

DecodeCases ==
  UNION {{Case(In(name, rd, rs1, rs2, imm), 33, -77, 90) :
            rd \in {0, 5, 26}, rs1 \in {10, 21}, rs2 \in {1, 30}, imm \in ImmOf(name)} :
         name \in Mnemonics}

\* The registers of eight bits: signs, carries and amounts of shifts at their edges.
X == {-128, -127, -65, -9, -8, -2, -1, 0, 1, 7, 8, 9, 64, 127}
Y == {-128, -65, -9, -3, -1, 0, 1, 4, 7, 8, 9, 127}

RegisterCases ==
  {Case(In(name, 5, 6, 7, 16), x, y, 178) :
     name \in Names(RFormat) \cup Names(BFormat), x \in X, y \in Y}

ImmediateCases ==
  {Case(In(name, 5, 6, 7, imm), x, 1, 178) :
     name \in Names(IFormat) \ {"ecall", "fence"}, x \in X, imm \in Y}
  \cup {Case(In(name, 5, 6, 7, amount), x, 1, 178) :
          name \in Names(Shifts), x \in X, amount \in 0 .. 9}

StoreCases ==
  {Case(In(name, 5, 6, 7, 3), 8, y, data) :
     name \in Names(SFormat) \cup {"lb", "lh", "lw", "ld", "lbu", "lhu", "lwu"},
     y \in Y, data \in {0, 77, 178, 255}}

AllCases == DecodeCases \cup RegisterCases \cup ImmediateCases \cup StoreCases

AgreedCases  == {c \in AllCases : ~Diverges(c)}
\* For the run of those: one program text, all operands.
DivergingCases == {c \in RegisterCases : c.instr.name \in {"subw", "srlw", "sraw", "mul"}}
=============================================================================
