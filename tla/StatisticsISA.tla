---------------------------- MODULE StatisticsISA ----------------------------
(***************************************************************************)
(* The statistics implement the counting of CountingISA: the mapping from  *)
(* what the stages have counted so far, each when it sees an instruction,  *)
(* to what the sequential machine has executed.                            *)
(***************************************************************************)
EXTENDS Statistics, PipelineISA

\* Execute has counted the instruction in MReg, or MRegO, and MemStage has not
\* executed it.
PendingM == ~MReg.bubble /\ stage \notin {"Writeback", "Latch"}
PendingO == ~MRegO.bubble /\ stage \in {"MemStage", "Writeback", "Latch"}

IsJalr(latch) == latch.instr.op = "jalr"

UsedByNext(latch) ==
  LET next == Plus(latch.addr, 1)
  IN  /\ latch.dstM # ZEROREG /\ next \in DOMAIN prog
      /\ latch.dstM \in {SrcA(prog[next]), SrcB(prog[next])}

\* Writeback has counted the call that ends the simulation before making it.
CallFailed == status = "aborted" /\ stage = "Writeback"

Instrs   == machineStats.instrCnt + One(WRegPending /\ ~IsEcall(WReg))
              + One(WRegOPending /\ ~IsEcall(WRegO))
Ecalls   == machineStats.ecallNum - One(CallFailed)
Branches == machineStats.misPrediction + machineStats.sucPrediction
              - One(PendingM /\ IsBranch(MReg)) - One(PendingO /\ IsBranch(MRegO))
Jumps    == machineStats.controlHazard - machineStats.misPrediction
              - One(PendingM /\ IsJalr(MReg)) - One(PendingO /\ IsJalr(MRegO))
Waits    == machineStats.loadUseHazard
              - One(PendingM /\ UsedByNext(MReg)) - One(PendingO /\ UsedByNext(MRegO))

Counting == INSTANCE CountingISA WITH
  pc <- AbsPC, regs <- AbsRegs, status <- SeenStatus,
  instrs <- Instrs, ecalls <- Ecalls, branches <- Branches, jumps <- Jumps, loadUses <- Waits

(* The statistics count the program: every instruction, call, branch and   *)
(* jalr the sequential machine executes once, and a load-use hazard for    *)
(* each load whose result the next instruction reads. What is squashed,    *)
(* held or decoded twice is not counted, though the stages count before    *)
(* they know, and count again what they repeat (Execute, Writeback).       *)
CountsTheProgram == Counting!CountingSpec

=============================================================================
