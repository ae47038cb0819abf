------------------------------ MODULE Pipeline ------------------------------
(***************************************************************************)
(* The five-stage pipeline of class Machine: Machine::Run (machine.cpp)    *)
(* and the stages it calls, Fetch, Decode, Execute, MemStage and Writeback *)
(* (riscvsim.cpp). Run calls them in this order, front to back, then       *)
(* latches every output register into the next pipeline register. A call   *)
(* of a stage is one action here and so is the latching; "stage" says      *)
(* which one is next.                                                      *)
(*                                                                         *)
(* XReg is the input latch of stage X and XRegO the signals the stage      *)
(* before it produced in this cycle. Later stages overwrite what earlier   *)
(* ones left there in the same cycle: that is how bubbles are injected and *)
(* operands forwarded.                                                     *)
(***************************************************************************)
EXTENDS Instructions, Predictor

CONSTANTS
  Programs,      \* the programs to run, each a function from addresses to Instr
  Memories,      \* the initial contents of data memory
  DataAddr,      \* the data addresses that have a page table entry
  ENTRY,         \* entry point of the program
  A0, A7, SPREG, \* the registers the machine itself uses
  STACKTOP,      \* initial stack pointer
  SYS_PRINT, SYS_PRINTSTR, SYS_SCANINT, SYS_EXIT, \* system call numbers
  Schemes,       \* the prediction schemes to run with
  Junk           \* what the uninitialised latches may hold

Stage  == {"Fetch", "Decode", "Execute", "MemStage", "Writeback", "Latch"}
Status == {"running", "halted", "aborted"}

PipReg == [addr : Word, instr : Instr, predJ : BOOLEAN,
           srcA : Reg, srcB : Reg, valA : Word, valB : Word,
           valE : Word, valM : Word, dstE : Reg, dstM : Reg,
           bubble : BOOLEAN, stall : BOOLEAN]

IsProgram(p) == /\ DOMAIN p \subseteq Word
                /\ p \in [DOMAIN p -> Instr]

ASSUME ProgramsAssumption  == \A p \in Programs : IsProgram(p)
ASSUME MemoriesAssumption  == /\ DataAddr \subseteq Word
                              /\ Memories \subseteq [DataAddr -> Word]
ASSUME RegistersAssumption == {A0, A7, SPREG} \subseteq Reg \ {ZEROREG}
ASSUME EntryAssumption     == {ENTRY, STACKTOP} \subseteq Word
ASSUME SchemesAssumption   == Schemes \subseteq Scheme
ASSUME JunkAssumption      == Junk \subseteq PipReg

VARIABLES
  prog,                   \* the user program (never written: see README)
  mem,                    \* data memory as the program sees it
  registers, PC, predPC,
  forwardA, forwardB,     \* operand already forwarded by a younger producer?
  FStall,                 \* FReg.stall (FReg.bubble is only ever cleared)
  DReg, DRegO, EReg, ERegO, MReg, MRegO, WReg, WRegO,
  predScm, MyPred,
  stage, status,
  out                     \* the last value a system call printed

latches == <<DReg, DRegO, EReg, ERegO, MReg, MRegO, WReg, WRegO>>
vars == <<prog, mem, registers, PC, predPC, forwardA, forwardB, FStall, latches,
          predScm, MyPred, stage, status, out>>

-----------------------------------------------------------------------------
(* Machine::Run up to its loop. Only bubble and stall of the input latches *)
(* are initialised; everything else in them, and the forwarding flags of   *)
(* the first cycle, are indeterminate.                                     *)

Bubble(latch) == [latch EXCEPT !.bubble = TRUE, !.stall = FALSE]
Bubbles == {Bubble(junk) : junk \in Junk}

Init ==
  /\ prog \in Programs /\ mem \in Memories
  /\ registers = [r \in Reg |-> IF r = SPREG THEN STACKTOP ELSE 0]
  /\ PC = ENTRY /\ predPC = ENTRY
  /\ forwardA \in BOOLEAN /\ forwardB \in BOOLEAN
  /\ FStall = FALSE
  /\ DReg \in Bubbles /\ EReg \in Bubbles /\ MReg \in Bubbles /\ WReg \in Bubbles
  /\ DRegO \in Junk /\ ERegO \in Junk /\ MRegO \in Junk /\ WRegO \in Junk
  /\ predScm \in Schemes /\ MyPred = PredInit
  /\ stage = "Fetch" /\ status = "running" /\ out = 0

At(s) == status = "running" /\ stage = s
Idle(latch) == latch.bubble \/ latch.stall

\* A failed ASSERT, or a fault of the simulator itself, ends the process.
Abort == /\ status' = "aborted"
         /\ UNCHANGED <<prog, mem, registers, PC, predPC, forwardA, forwardB, FStall,
                        latches, predScm, MyPred, stage, out>>

-----------------------------------------------------------------------------
(* Machine::Fetch. A branch follows its prediction and jal its target;     *)
(* everything else, jalr included, falls through until Execute knows more. *)

FetchFault == At("Fetch") /\ predPC \notin DOMAIN prog /\ Abort

Fetch ==
  /\ At("Fetch") /\ predPC \in DOMAIN prog
  /\ LET instr  == prog[predPC]
         branch == instr.op \in SBType
         taken  == branch /\ Predict(predScm, MyPred, predPC)
     IN  /\ PC' = predPC
         /\ predPC' = Plus(predPC, IF taken \/ instr.op = "jal" THEN instr.imm ELSE 1)
         /\ DRegO' = [DRegO EXCEPT !.addr = predPC, !.instr = instr,
                                   !.predJ = IF branch THEN taken ELSE @,
                                   !.bubble = FALSE, !.stall = FALSE]
  /\ stage' = "Decode"
  /\ UNCHANGED <<prog, mem, registers, forwardA, forwardB, FStall, DReg, EReg, ERegO,
                 MReg, MRegO, WReg, WRegO, predScm, MyPred, status, out>>

-----------------------------------------------------------------------------
(* Machine::Decode. Operands are read before Writeback of the same cycle   *)
(* writes; Execute, MemStage and Writeback repair ERegO by forwarding.     *)

DecodeFault == At("Decode") /\ ~Idle(DReg) /\ DReg.instr.op \notin Legal /\ Abort

DecodeIdle ==
  /\ At("Decode") /\ Idle(DReg)
  /\ ERegO' = Bubble(DReg)
  /\ stage' = "Execute"
  /\ UNCHANGED <<prog, mem, registers, PC, predPC, forwardA, forwardB, FStall, DReg, DRegO,
                 EReg, MReg, MRegO, WReg, WRegO, predScm, MyPred, status, out>>

\* x0 always reads 0, which is also what an unused operand is set to.
Decode ==
  /\ At("Decode") /\ ~Idle(DReg) /\ DReg.instr.op \in Legal
  /\ LET i == DReg.instr
     IN  /\ ERegO' = [DReg EXCEPT !.srcA = SrcA(i), !.valA = registers[SrcA(i)],
                                  !.srcB = SrcB(i), !.valB = registers[SrcB(i)],
                                  !.dstE = DstE(i), !.dstM = DstM(i)]
         /\ FStall' = (FStall \/ i.op = "ecall")
         /\ DRegO' = [DRegO EXCEPT !.bubble = @ \/ i.op = "ecall"]
  /\ stage' = "Execute"
  /\ UNCHANGED <<prog, mem, registers, PC, predPC, forwardA, forwardB, DReg, EReg, MReg,
                 MRegO, WReg, WRegO, predScm, MyPred, status, out>>

-----------------------------------------------------------------------------
(* Machine::Execute. Resolves branches and jalr, trains the predictor,     *)
(* forwards its result and detects load-use hazards.                       *)

ExVal == ValE(EReg.instr, EReg.addr, EReg.valA, EReg.valB)

\* vC, the target of a taken branch or of jalr.
ExTarget == Plus(IF EReg.instr.op = "jalr" THEN EReg.valA ELSE EReg.addr, EReg.instr.imm)

Mispredicted == EReg.instr.op \in SBType /\ EReg.predJ # (ExVal = 1)

\* Mutant of Flush: jalr does not wash away what follows it.
FlushMispredicted == Mispredicted

\* Both younger instructions, in Decode and in Fetch, become bubbles.
Flush == EReg.instr.op = "jalr" \/ Mispredicted

\* Mutant of Redirect: a branch wrongly predicted taken does not fall through.
RedirectTaken == ExTarget

Redirect == IF EReg.instr.op = "jalr" \/ ExVal = 1 THEN ExTarget ELSE Plus(EReg.addr, 1)

ExForwards(src) == EReg.dstE # ZEROREG /\ EReg.dstE = src

\* The instruction in Decode needs a value only MemStage will have.
LoadUse == EReg.dstM # ZEROREG /\ EReg.dstM \in {ERegO.srcA, ERegO.srcB}

\* Mutant of Hold: a system call does not hold what is behind it.
HoldLoadUse == LoadUse

\* Fetch and Decode repeat what they did in this cycle.
Hold == LoadUse \/ EReg.instr.op = "ecall"

\* Mutant of Dropped: a flush forgets the instruction in Decode.
DroppedOnHold == Hold

\* What Decode produced in this cycle does not enter Execute.
Dropped == Flush \/ Hold

ExecuteIdle ==
  /\ At("Execute") /\ Idle(EReg)
  /\ MRegO' = Bubble(MRegO)
  /\ stage' = "MemStage"
  /\ UNCHANGED <<prog, mem, registers, PC, predPC, forwardA, forwardB, FStall, DReg, DRegO,
                 EReg, ERegO, MReg, WReg, WRegO, predScm, MyPred, status, out>>

Execute ==
  /\ At("Execute") /\ ~Idle(EReg)
  /\ predPC' = IF Flush THEN Redirect ELSE predPC
  /\ FStall' = (Hold \/ (FStall /\ ~Flush))
  /\ DRegO' = [DRegO EXCEPT !.bubble = @ \/ Flush]
  /\ DReg' = [DReg EXCEPT !.bubble = (@ \/ Flush) /\ ~LoadUse,
                          !.stall = Hold \/ (@ /\ ~Flush)]
  /\ ERegO' = [ERegO EXCEPT !.bubble = @ \/ Dropped,
                            !.valA = IF ExForwards(ERegO.srcA) THEN ExVal ELSE @,
                            !.valB = IF ExForwards(ERegO.srcB) THEN ExVal ELSE @]
  /\ forwardA' = (forwardA \/ ExForwards(ERegO.srcA))
  /\ forwardB' = (forwardB \/ ExForwards(ERegO.srcB))
  /\ MyPred' = IF EReg.instr.op \in SBType
                 THEN Update(predScm, MyPred, ~Mispredicted, EReg.addr) ELSE MyPred
  /\ MRegO' = [EReg EXCEPT !.valE = ExVal]
  /\ stage' = "MemStage"
  /\ UNCHANGED <<prog, mem, registers, PC, EReg, MReg, WReg, WRegO, predScm, status, out>>

-----------------------------------------------------------------------------
(* Machine::MemStage. Accesses data memory and forwards both an older ALU  *)
(* result, unless Execute forwarded already, and a loaded value.           *)

MemVal == IF MReg.instr.op = "load" THEN mem[MReg.valE] ELSE 0

\* Mutant of MemForwardsE: overrides the younger value Execute forwarded.
MemForwardsAlways(src, forwarded) == MReg.dstE # ZEROREG /\ MReg.dstE = src

MemForwardsE(src, forwarded) ==
  MReg.dstE # ZEROREG /\ MReg.dstE = src /\ ~forwarded

\* Unlike the test above, this one does not look at forwardA and forwardB.
MemForwardsM(src) == MReg.dstM # ZEROREG /\ MReg.dstM = src

MemForwarded(src, val, forwarded) ==
  IF MemForwardsM(src) THEN MemVal
  ELSE IF MemForwardsE(src, forwarded) THEN MReg.valE ELSE val

MemMapped == MReg.instr.op \in {"load", "store"} => MReg.valE \in DataAddr

MemFault == At("MemStage") /\ ~Idle(MReg) /\ ~MemMapped /\ Abort

MemStageIdle ==
  /\ At("MemStage") /\ Idle(MReg)
  /\ WRegO' = Bubble(WRegO)
  /\ stage' = "Writeback"
  /\ UNCHANGED <<prog, mem, registers, PC, predPC, forwardA, forwardB, FStall, DReg, DRegO,
                 EReg, ERegO, MReg, MRegO, WReg, predScm, MyPred, status, out>>

MemStage ==
  /\ At("MemStage") /\ ~Idle(MReg) /\ MemMapped
  /\ mem' = IF MReg.instr.op = "store" THEN [mem EXCEPT ![MReg.valE] = MReg.valB] ELSE mem
  /\ ERegO' = [ERegO EXCEPT !.valA = MemForwarded(ERegO.srcA, @, forwardA),
                            !.valB = MemForwarded(ERegO.srcB, @, forwardB)]
  /\ forwardA' = (forwardA \/ MemForwardsM(ERegO.srcA) \/ MemForwardsE(ERegO.srcA, forwardA))
  /\ forwardB' = (forwardB \/ MemForwardsM(ERegO.srcB) \/ MemForwardsE(ERegO.srcB, forwardB))
  /\ LET ecall == MReg.instr.op = "ecall"
     IN  /\ FStall' = (FStall \/ ecall)
         /\ DReg' = [DReg EXCEPT !.stall = @ \/ ecall]
         /\ EReg' = [EReg EXCEPT !.stall = @ \/ ecall]
         /\ MRegO' = [MRegO EXCEPT !.bubble = @ \/ ecall]
  /\ WRegO' = [MReg EXCEPT !.valM = MemVal]
  /\ stage' = "Writeback"
  /\ UNCHANGED <<prog, registers, PC, predPC, DRegO, MReg, WReg, predScm, MyPred, status, out>>

-----------------------------------------------------------------------------
(* Machine::Writeback and the system calls it makes.                       *)

\* Mutant of WbForwarded: a loaded value is not forwarded from Writeback.
WbForwardedE(src, val, forwarded) ==
  IF WReg.dstE # ZEROREG /\ WReg.dstE = src /\ ~forwarded THEN WReg.valE ELSE val

WbForwarded(src, val, forwarded) ==
  IF WReg.dstM # ZEROREG /\ WReg.dstM = src /\ ~forwarded THEN WReg.valM
  ELSE IF WReg.dstE # ZEROREG /\ WReg.dstE = src /\ ~forwarded THEN WReg.valE ELSE val

WriteRegisters(regs) ==
  [r \in Reg |-> IF r # ZEROREG /\ r = WReg.dstE THEN WReg.valE
                 ELSE IF r # ZEROREG /\ r = WReg.dstM THEN WReg.valM ELSE regs[r]]

WritebackIdle ==
  /\ At("Writeback") /\ Idle(WReg)
  /\ stage' = "Latch"
  /\ UNCHANGED <<prog, mem, registers, PC, predPC, forwardA, forwardB, FStall, latches,
                 predScm, MyPred, status, out>>

Writeback ==
  /\ At("Writeback") /\ ~Idle(WReg) /\ WReg.instr.op # "ecall"
  /\ registers' = WriteRegisters(registers)
  /\ ERegO' = [ERegO EXCEPT !.valA = WbForwarded(ERegO.srcA, @, forwardA),
                            !.valB = WbForwarded(ERegO.srcB, @, forwardB)]
  /\ stage' = "Latch"
  /\ UNCHANGED <<prog, mem, PC, predPC, forwardA, forwardB, FStall, DReg, DRegO, EReg,
                 MReg, MRegO, WReg, WRegO, predScm, MyPred, status, out>>

AtSyscall == At("Writeback") /\ ~Idle(WReg) /\ WReg.instr.op = "ecall"

SyscallReturns == /\ stage' = "Latch"
                  /\ UNCHANGED <<prog, mem, PC, predPC, forwardA, forwardB, FStall, latches,
                                 predScm, MyPred, status>>

SyscallPrint == /\ AtSyscall /\ registers[A7] = SYS_PRINT
                /\ out' = registers[A0]
                /\ SyscallReturns /\ UNCHANGED registers

\* The character read is stored through an uninitialised char used as a pointer.
SyscallPrintStr == AtSyscall /\ registers[A7] = SYS_PRINTSTR /\ Abort

SyscallScanInt == /\ AtSyscall /\ registers[A7] = SYS_SCANINT
                  /\ \E x \in Word : registers' = [registers EXCEPT ![A0] = x]
                  /\ SyscallReturns /\ UNCHANGED out

SyscallUnknown ==
  /\ AtSyscall
  /\ registers[A7] \notin {SYS_PRINT, SYS_PRINTSTR, SYS_SCANINT, SYS_EXIT}
  /\ SyscallReturns /\ UNCHANGED <<registers, out>>

SyscallExit == /\ AtSyscall /\ registers[A7] = SYS_EXIT
               /\ status' = "halted"
               /\ UNCHANGED <<prog, mem, registers, PC, predPC, forwardA, forwardB, FStall,
                              latches, predScm, MyPred, stage, out>>

Syscall == \/ SyscallPrint \/ SyscallPrintStr \/ SyscallScanInt
           \/ SyscallUnknown \/ SyscallExit

-----------------------------------------------------------------------------
(* The end of the loop body of Machine::Run.                               *)

\* Mutant of Advance: a stalled latch is overwritten.
AdvanceAlways(reg, output) == output

Advance(reg, output) == IF reg.stall THEN [reg EXCEPT !.stall = FALSE] ELSE output

Latch ==
  /\ At("Latch")
  /\ predPC' = IF FStall THEN PC ELSE predPC
  /\ FStall' = FALSE
  /\ DReg' = Advance(DReg, DRegO)
  /\ EReg' = Advance(EReg, ERegO)
  /\ MReg' = Advance(MReg, MRegO)
  /\ WReg' = Advance(WReg, WRegO)
  /\ forwardA' = FALSE /\ forwardB' = FALSE
  /\ registers' = [registers EXCEPT ![ZEROREG] = 0]
  /\ stage' = "Fetch"
  /\ UNCHANGED <<prog, mem, PC, DRegO, ERegO, MRegO, WRegO, predScm, MyPred, status, out>>

\* exit(0) and abort() leave no process behind.
Ended == status # "running" /\ UNCHANGED vars

Next == \/ Fetch     \/ FetchFault
        \/ Decode    \/ DecodeIdle    \/ DecodeFault
        \/ Execute   \/ ExecuteIdle
        \/ MemStage  \/ MemStageIdle  \/ MemFault
        \/ Writeback \/ WritebackIdle \/ Syscall
        \/ Latch     \/ Ended

Spec == Init /\ [][Next]_vars

\* Run is a plain loop in the only thread: it never stops taking steps.
FairSpec == Spec /\ WF_vars(Next)

=============================================================================
