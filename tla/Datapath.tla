------------------------------ MODULE Datapath ------------------------------
(***************************************************************************)
(* One instruction on its way through Fetch, Decode, Execute and MemStage  *)
(* of class Machine, alone in the pipeline: what Pipeline leaves out of    *)
(* the stages. The machine sees the word the assembler made of the         *)
(* instruction; the reference is the manual.                               *)
(***************************************************************************)
EXTENDS Decoder, Alu, Manual

CONSTANTS
  Cases     \* instructions to run, and the operands x and y, address and data they find

RegNum == 0 .. 31

Instruction == [name : Mnemonics, rd : RegNum, rs1 : RegNum, rs2 : RegNum, imm : Int]

ASSUME CasesAssumption ==
  \A c \in Cases : /\ c.instr \in Instruction /\ Encodable(c.instr)
                   /\ c.addr \in Int /\ c.x \in Int /\ c.y \in Int
                   /\ Int64(c.x) = c.x /\ Int64(c.y) = c.y
                   /\ c.data \in 0 .. Pow2[XLEN]-1

VARIABLES
  case,       \* never changes
  ival,       \* the word at the address
  predPC,
  predJ,      \* of a branch: whether Fetch followed it
  ERegO,      \* the fields Decode has filled in
  vE, vM,
  mem,        \* the bits at the address the instruction accesses
  stage

vars == <<case, ival, predPC, predJ, ERegO, vE, vM, mem, stage>>

NoFields == [name |-> "nop", imm |-> 0, srcA |-> 0, srcB |-> 0, dstE |-> 0, dstM |-> 0]

Init ==
  /\ case \in Cases
  /\ ival = Encode(case.instr)
  /\ predPC = case.addr /\ predJ = FALSE
  /\ ERegO = NoFields /\ vE = 0 /\ vM = 0 /\ mem = case.data
  /\ stage = "Fetch"

\* Fetch knows the two formats whose target it follows, a branch if it is so predicted.
Fetch ==
  /\ stage = "Fetch"
  /\ predJ' \in IF Opcode(ival) = 99 THEN BOOLEAN ELSE {predJ}
  /\ predPC' = Int64(case.addr + (CASE Opcode(ival) = 111            -> ImmUJ(ival)
                                    [] Opcode(ival) = 99 /\ predJ'   -> ImmSB(ival)
                                    [] OTHER                         -> 4))
  /\ stage' = "Decode"
  /\ UNCHANGED <<case, ival, ERegO, vE, vM, mem>>

Decode ==
  /\ stage = "Decode" /\ Name(ival) # "illegal"
  /\ \E imm \in Imm(ival) : ERegO' = Decoded(ival, imm)
  /\ stage' = "Execute"
  /\ UNCHANGED <<case, ival, predPC, predJ, vE, vM, mem>>

DecodeFault ==
  /\ stage = "Decode" /\ Name(ival) = "illegal"
  /\ stage' = "aborted"
  /\ UNCHANGED <<case, ival, predPC, predJ, ERegO, vE, vM, mem>>

\* The register file: x in rs1, y in rs2, and something in the others.
registers(c, r) ==
  CASE r = 0                                      -> 0
    [] r = c.instr.rs1 /\ r # 0                   -> c.x
    [] r = c.instr.rs2 /\ r \notin {0, c.instr.rs1} -> c.y
    [] OTHER                                      -> Int64(1 - r)

valA == registers(case, ERegO.srcA)
valB == registers(case, ERegO.srcB)

\* Execute follows the other way if Fetch did not follow the right one.
Execute ==
  /\ stage = "Execute"
  /\ vE' \in ValE(ERegO.name, case.addr, valA, valB, ERegO.imm)
  /\ LET target == ValC(ERegO.name, case.addr, valA, ERegO.imm)
         wrong  == ERegO.name \in BranchNames /\ ~(predJ <=> vE' = 1)
     IN  predPC' = CASE ERegO.name = "jalr" -> target
                     [] wrong               -> IF vE' = 1 THEN target ELSE Int64(case.addr + 4)
                     [] OTHER               -> predPC
  /\ stage' = "MemStage"
  /\ UNCHANGED <<case, ival, predJ, ERegO, vM, mem>>

MemStage ==
  /\ stage = "MemStage"
  /\ vM' = IF IsLoad(ERegO.name) THEN ValM(ERegO.name, mem) ELSE 0
  /\ mem' = IF ERegO.name \in {"sb", "sh", "sw", "sd"} THEN Stored(ERegO.name, mem, valB) ELSE mem
  /\ stage' = "done"
  /\ UNCHANGED <<case, ival, predPC, predJ, ERegO, vE>>

Next == Fetch \/ Decode \/ DecodeFault \/ Execute \/ MemStage

Spec == Init /\ [][Next]_vars

-----------------------------------------------------------------------------
(* Properties.                                                             *)

\* Which registers an instruction names in its format.
Instr == case.instr
Has(format) == Instr.name \in DOMAIN format
ReadsRs1 == ~(Has(UFormat) \/ Has(JFormat))
ReadsRs2 == Has(RFormat) \/ Has(SFormat) \/ Has(BFormat)
WritesRd == ~(Has(SFormat) \/ Has(BFormat))

(* Decode recovers from a word what the assembler put into it: the          *)
(* instruction, the registers it reads and writes, and an immediate whose   *)
(* bits the formats scatter over the word (maskInstr, sig64ext and the      *)
(* switches of Decode).                                                     *)
DecodesAsEncoded ==
  stage = "Execute" =>
    /\ ERegO.name = Instr.name
    /\ ERegO.srcA = IF ReadsRs1 THEN Instr.rs1 ELSE 0
    /\ ERegO.srcB = IF ReadsRs2 THEN Instr.rs2 ELSE 0
    /\ {ERegO.dstE, ERegO.dstM} = {0, IF WritesRd THEN Instr.rd ELSE 0}
    /\ IF Has(Shifts) THEN ERegO.imm % 64 = Instr.imm % 64
                      ELSE ERegO.imm = IF Has(RFormat) THEN 0 ELSE Instr.imm

Expected(c) ==
  Executed(c.instr, c.addr, registers(c, c.instr.rs1), registers(c, c.instr.rs2), c.data)

(* What an instruction leaves in its destination register, in memory and    *)
(* in the program counter is what the manual says, for every operand,       *)
(* immediate and prediction (Fetch, Decode, Execute and MemStage).          *)
ExecutesTheManual ==
  stage = "done" =>
    /\ WritesRd /\ Instr.rd # 0 =>
         (IF ERegO.dstM = Instr.rd THEN vM ELSE IF ERegO.dstE = Instr.rd THEN vE ELSE 0) = Expected(case).rd
    /\ mem = Expected(case).mem
    /\ predPC = Expected(case).pc

(* What the code does otherwise than the manual. It takes a multiplication  *)
(* or a division for another operation, and srli by 32 or more for srai;    *)
(* lui and auipc may lose the sign of a negative immediate. Of what it      *)
(* decodes, subw, srlw and sraw do something else, and other operations on  *)
(* words get the sign of some results wrong.                                *)
Misdecoded(i) ==
  \/ i.name \in {"mul", "div", "rem"}
  \/ i.name = "srli" /\ i.imm > 31
  \/ i.name \in {"lui", "auipc"} /\ i.imm < 0

Diverges(c) ==
  LET name   == c.instr.name
      result == Expected(c).rd
  IN  \/ Misdecoded(c.instr)
      \/ name \in {"subw", "srlw", "sraw"}
      \/ name \in {"slliw", "srliw"} /\ result < 0
      \/ name = "addiw" /\ result < -1

\* The operation of the pipeline's model an instruction belongs to.
Group(name) ==
  CASE name \in DOMAIN SFormat              -> "store"
    [] name \in LoadNames                   -> "load"
    [] name \in DOMAIN BFormat              -> "branch"
    [] name \in {"jal", "jalr", "lui", "ecall", "nop"} -> name
    [] name = "auipc"                       -> "lui"
    [] name \in DOMAIN RFormat              -> "alu"
    [] OTHER                                -> "alui"

Model == INSTANCE Instructions WITH NREG <- 32, WORD <- Pow2[XLEN]

\* The same instruction in the model of the pipeline.
InModel == [op |-> Group(Instr.name), rd |-> Instr.rd, rs1 |-> Instr.rs1, rs2 |-> Instr.rs2, imm |-> 0]

(* The pipeline's hazard tests compare the fields Decode leaves in ERegO:   *)
(* they are those Pipeline computes, with one operation for each group of   *)
(* instructions (Instructions).                                             *)
HazardFieldsAsModelled ==
  stage = "Execute" /\ Instr.name # "ecall" =>
    /\ ERegO.srcA = Model!SrcA(InModel) /\ ERegO.srcB = Model!SrcB(InModel)
    /\ ERegO.dstE = Model!DstE(InModel) /\ ERegO.dstM = Model!DstM(InModel)

=============================================================================
