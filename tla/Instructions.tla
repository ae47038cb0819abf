---------------------------- MODULE Instructions ----------------------------
(***************************************************************************)
(* The instruction set the simulator decodes, at the level of detail its   *)
(* pipeline distinguishes: which registers an instruction reads, which one *)
(* it writes and at which stage the value is known.                        *)
(*                                                                         *)
(* One operation stands for each group of instructions the pipeline treats *)
(* alike ("alu" for every register-register operation, "alui" for every    *)
(* register-immediate one, "branch" for the six conditional branches).     *)
(* Addresses count instructions, so the program counter advances by one    *)
(* where the code adds 4; data words are the unit of data memory.          *)
(***************************************************************************)
EXTENDS Naturals

CONSTANTS
  NREG,   \* number of registers (REG_NUM), register 0 reads as zero
  WORD    \* registers, addresses and immediates are taken modulo WORD

ASSUME NREGAssumption == NREG \in Nat \ {0}
ASSUME WORDAssumption == WORD \in Nat \ {0, 1}

Reg  == 0 .. NREG-1
Word == 0 .. WORD-1

ZEROREG == 0

\* The types of enum instrType, as sets of operations.
RType  == {"alu", "nop", "ecall"}
IType  == {"alui", "load", "jalr"}
SType  == {"store"}
SBType == {"branch"}
UType  == {"lui"}
UJType == {"jal"}

Legal == RType \cup IType \cup SType \cup SBType \cup UType \cup UJType

\* "illegal" is every word on which Decode's switch reaches ASSERT(false).
Op    == Legal \cup {"illegal"}
Instr == [op : Op, rd : Reg, rs1 : Reg, rs2 : Reg, imm : Word]

-----------------------------------------------------------------------------
\* Mutant of Plus: sums do not wrap.
PlusUnwrapped(x, y) == x + y

\* Two's complement sums wrap; a negative immediate is its residue in Word.
Plus(x, y) == (x + y) % WORD

\* The source and destination fields Decode puts into ERegO; 0 means none.
SrcA(i) == IF i.op \in RType \cup IType \cup SType \cup SBType THEN i.rs1 ELSE ZEROREG

SrcB(i) == IF i.op \in RType \cup SType \cup SBType THEN i.rs2 ELSE ZEROREG

DstM(i) == IF i.op = "load" THEN i.rd ELSE ZEROREG

DstE(i) == IF i.op \in (RType \cup IType \cup UType \cup UJType) \ {"load"}
             THEN i.rd ELSE ZEROREG

\* What Execute's switch leaves in vE. A branch leaves its outcome there
\* (1 taken, 0 not taken), a load or a store the address it will access.
ValE(i, addr, vA, vB) ==
  CASE i.op = "alu"                       -> Plus(vA, vB)
    [] i.op \in {"alui", "load", "store"} -> Plus(vA, i.imm)
    [] i.op \in {"jal", "jalr"}           -> Plus(addr, 1)
    [] i.op = "lui"                       -> i.imm
    [] i.op = "branch"                    -> IF vA = vB THEN 1 ELSE 0
    [] OTHER                              -> 0

=============================================================================
