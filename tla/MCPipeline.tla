----------------------------- MODULE MCPipeline -----------------------------
(***************************************************************************)
(* Small instances of the pipeline. A program is a body that ranges over   *)
(* every sequence of a menu of instructions, followed by a tail that calls *)
(* exit; the eight addresses of a Word of eight are all mapped and legal   *)
(* unless the name of the set says otherwise.                              *)
(***************************************************************************)
EXTENDS PipelineISA

\* Register 1 is the stack pointer, 2 is a0 and 3 is a7.
I(op, rd, rs1, rs2, imm) == [op |-> op, rd |-> rd, rs1 |-> rs1, rs2 |-> rs2, imm |-> imm]

Nop  == I("nop", 0, 0, 0, 0)
Ending == <<Nop, I("alui", 3, 0, 0, SYS_EXIT), I("ecall", 0, 0, 0, 0), Nop>>

\* The program with this body at 0 .. n-1, the tail behind it and nops up to WORD.
Assemble(body, n) ==
  [a \in Word |-> IF a < n THEN body[a] ELSE IF a - n < 4 THEN Ending[a - n + 1] ELSE Nop]

Bodies(menu, n) == [0 .. n-1 -> menu]

\* Chains of dependences over two registers, x1 also as an address, with a branch
\* over one instruction.
DataMenu == {I("alui", 1, 1, 0, 1), I("alui", 2, 1, 0, 1), I("alu", 1, 1, 2, 0),
             I("alu", 2, 2, 1, 0), I("load", 1, 1, 0, 0), I("load", 2, 1, 0, 1),
             I("store", 0, 1, 2, 0), I("branch", 0, 1, 2, 2)}

DataPrograms == {Assemble(b, 4) : b \in Bodies(DataMenu, 4)}

\* Every address holds another value, so that a wrong address shows.
OneMemory == {[a \in DataAddr |-> (a + 3) % WORD]}

\* Junk that would matter: registers and values a test might take for real ones.
OneJunk == {[addr |-> 0, instr |-> Nop, predJ |-> TRUE, srcA |-> 1, srcB |-> 2, valA |-> 6,
             valB |-> 7, valE |-> 5, valM |-> 4, dstE |-> 1, dstM |-> 2,
             bubble |-> FALSE, stall |-> FALSE]}

CleanDataPrograms == {p \in DataPrograms : ~Clobbered(p)}

\* Branches that depend on data, are always taken or test for zero; jal and jalr
\* to either side; loads and system calls to stall on.
ControlMenu == {I("branch", 0, 1, 2, 2), I("branch", 0, 1, 1, 7), I("branch", 0, 2, 0, 2),
                I("jal", 1, 0, 0, 2), I("jal", 2, 0, 0, 7), I("jalr", 2, 1, 0, 6),
                I("jalr", 0, 2, 0, 0), I("alui", 2, 2, 0, 1), I("load", 1, 1, 0, 0),
                I("ecall", 0, 0, 0, 0)}

ControlPrograms == {Assemble(b, 3) : b \in Bodies(ControlMenu, 3)}

\* System calls with results computed, loaded and overwritten around them. One
\* ecall has register fields, which Decode treats as those of any R-type. The
\* jalr goes to the tail.
CallMenu == {I("alui", 3, 0, 0, SYS_PRINT), I("alui", 3, 0, 0, SYS_SCANINT),
             I("load", 2, 1, 0, 0), I("alui", 2, 2, 0, 1), I("ecall", 0, 0, 0, 0),
             I("ecall", 2, 2, 2, 0), I("jalr", 2, 0, 0, 5)}

CallPrograms == {Assemble(b, 4) : b \in Bodies(CallMenu, 4)}

DataAndCallPrograms == CleanDataPrograms \cup CallPrograms

\* Programs that end at the edge of their mapped addresses, with a word that
\* is no instruction, accesses beyond the mapped data, and all system calls.
\* Half of them have nothing behind the body.
FaultMenu == {I("alui", 1, 1, 0, 1), I("alui", 3, 0, 0, SYS_PRINTSTR),
              I("alui", 3, 0, 0, SYS_PRINT), I("ecall", 0, 0, 0, 0), I("load", 2, 1, 0, 0),
              I("store", 0, 1, 1, 0), I("jalr", 2, 1, 0, 0), I("branch", 0, 2, 0, 2),
              I("alui", 3, 0, 0, SYS_SCANINT), I("illegal", 0, 0, 0, 0)}

FaultPrograms ==
  {[a \in 0 .. 5 |-> IF a < 4 THEN b[a] ELSE Ending[a - 2]] : b \in Bodies(FaultMenu, 4)}
    \cup Bodies(FaultMenu, 4)

MappedData == 0 .. 5
=============================================================================
