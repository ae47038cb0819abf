----------------------------- MODULE PipelineISA -----------------------------
(***************************************************************************)
(* The pipeline implements the instruction set: the mapping of a state in  *)
(* the middle of a cycle, with up to five instructions in flight, to the   *)
(* state of the sequential machine ISA.                                    *)
(*                                                                         *)
(* An instruction takes effect when MemStage has processed it: its store   *)
(* is then in memory and its register result is in the latches in front of *)
(* Writeback. A system call takes effect in Writeback.                     *)
(***************************************************************************)
EXTENDS PipelineProps

\* WReg waits for Writeback until Writeback has run in this cycle; after
\* MemStage has run, WRegO holds the result of the instruction it processed.
WRegPending  == ~WReg.bubble /\ stage # "Latch"
WRegOPending == ~WRegO.bubble /\ stage \in {"Writeback", "Latch"}

Result(latch, r, otherwise) ==
  IF r # ZEROREG /\ ~IsEcall(latch) /\ r = latch.dstE THEN latch.valE
  ELSE IF r # ZEROREG /\ ~IsEcall(latch) /\ r = latch.dstM THEN latch.valM
  ELSE otherwise

\* The register file once every instruction past MemStage has written back.
AbsRegs ==
  [r \in Reg |->
     LET written == IF WRegPending THEN Result(WReg, r, registers[r]) ELSE registers[r]
     IN  IF WRegOPending THEN Result(WRegO, r, written) ELSE written]

\* The oldest instruction that has not taken effect yet is the next one the
\* sequential machine executes. All of DReg, EReg and MReg are on the right
\* path; what Fetch is about to read is, if nothing older is in flight.
MRegPending == ~MReg.bubble /\ (stage \in {"Writeback", "Latch"} => IsEcall(MReg))

AbsPC == IF WRegPending /\ IsEcall(WReg) THEN WReg.addr
         ELSE IF MRegPending THEN MReg.addr
         ELSE IF ~EReg.bubble THEN EReg.addr
         ELSE IF ~DReg.bubble THEN DReg.addr
         ELSE IF stage = "Fetch" THEN predPC ELSE PC

Sequential == INSTANCE ISA WITH pc <- AbsPC, regs <- AbsRegs

\* The end of the simulation, where that in Fetch, Decode or Writeback is seen
\* as simply stopping there, and the sequential machine without its promise to
\* run on.
SeenStatus == IF status = "aborted" /\ stage # "MemStage" THEN "running" ELSE status

Prefix == INSTANCE ISA WITH pc <- AbsPC, regs <- AbsRegs, status <- SeenStatus

-----------------------------------------------------------------------------
(* Whatever the pipeline holds, predicts, forwards, stalls or squashes,    *)
(* the program sees registers, memory, output and control flow of the      *)
(* sequential machine, and execution never stops making progress (Fetch,   *)
(* Decode, Execute, MemStage, Writeback and Run together). Holds for       *)
(* programs without faults in which no ALU instruction overwrites the      *)
(* result of the load before it; see OperandsAreCurrent.                   *)
ImplementsISA == Sequential!Spec

(* A simulation that ends in an abort has executed a prefix of what the    *)
(* sequential machine executes: nothing fetched behind the fault, or on a  *)
(* wrong path, has reached registers, memory or output. An abort in        *)
(* MemStage happens only where the sequential machine faults, and in the   *)
(* same state.                                                             *)
AbortsInAnISAState == Prefix!Init /\ [][Prefix!Next]_(Prefix!vars)

=============================================================================
