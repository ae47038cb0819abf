----------------------------- MODULE Statistics -----------------------------
(***************************************************************************)
(* The statistics of class Machine (machineStats, machineCycle and         *)
(* TicksPerCycle): what Run and the stages count while they run the        *)
(* pipeline, and what Halt reports at the end.                             *)
(*                                                                         *)
(* The counters are superposed on Pipeline: a step counts what the code of *)
(* that step counts, and no state of the pipeline depends on them. Times   *)
(* of day are left out. A memory access takes one time for an instruction  *)
(* and one for data: which level of cache serves it is the subject of      *)
(* Cache.                                                                  *)
(***************************************************************************)
EXTENDS PipelineProps, Integers

CONSTANTS
  instrPfm,       \* ticks Execute takes for an operation
  FETCH_TICKS,    \* ticks of the access to memory of Fetch
  DATA_TICKS      \* ticks of the one of MemStage

ASSUME TicksAssumption == /\ instrPfm \in [Legal -> Nat]
                          /\ FETCH_TICKS \in Nat /\ DATA_TICKS \in Nat

VARIABLES
  machineStats,   \* machineCycle is one of its fields here
  TicksPerCycle

statistics == <<machineStats, TicksPerCycle>>

StatField == {"machineCycle", "cycle", "instrCnt", "ecallNum", "loadUseHazard", "controlHazard",
            "misPrediction", "sucPrediction", "dataHazard", "FSTALL"}

StatInit == Init /\ machineStats = [c \in StatField |-> 0] /\ TicksPerCycle = 1

-----------------------------------------------------------------------------
One(condition) == IF condition THEN 1 ELSE 0

\* The operands of the instruction in ERegO among which a stage forwards to.
Forwards(a, b) == One(a) + One(b)

Longer(ticks) == IF ticks > TicksPerCycle THEN ticks ELSE TicksPerCycle

CountFetch ==
  /\ Fetch
  /\ TicksPerCycle' = Longer(FETCH_TICKS)
  /\ UNCHANGED machineStats

CountDecode == (Decode \/ DecodeIdle) /\ UNCHANGED statistics

\* A bug: whatever is no misprediction is a success.
PredictedAny == ~Mispredicted

Predicted == EReg.instr.op \in SBType /\ ~Mispredicted

\* A bug: only mispredictions count as control hazards.
ControlHazardOfBranches == Mispredicted

\* A bug: counted once for each operand that waits, as forwarding is.
LoadUsesOfOperands == IF EReg.dstM = ZEROREG THEN 0
                      ELSE Forwards(ERegO.srcA = EReg.dstM, ERegO.srcB = EReg.dstM)

LoadUses == One(LoadUse)

\* A jalr is a control hazard, and so is a misprediction.
ControlHazard == Flush

CountExecute ==
  /\ Execute
  /\ machineStats' = [machineStats EXCEPT
       !.controlHazard = @ + One(ControlHazard),
       !.misPrediction = @ + One(Mispredicted),
       !.sucPrediction = @ + One(Predicted),
       !.dataHazard    = @ + Forwards(ExForwards(ERegO.srcA), ExForwards(ERegO.srcB)),
       !.loadUseHazard = @ + LoadUses]
  /\ TicksPerCycle' = Longer(instrPfm[EReg.instr.op])

CountMemStage ==
  /\ MemStage
  /\ machineStats' = [machineStats EXCEPT
       !.dataHazard = @ + Forwards(MemForwardsE(ERegO.srcA, forwardA), MemForwardsE(ERegO.srcB, forwardB))
                        + Forwards(MemForwardsM(ERegO.srcA), MemForwardsM(ERegO.srcB))]
  /\ TicksPerCycle' = IF MReg.instr.op \in {"load", "store"} THEN Longer(DATA_TICKS) ELSE TicksPerCycle

\* Writeback forwards what no stage before it forwarded.
WbForwards(dst) == LET reads(src, forwarded) == dst # ZEROREG /\ src = dst /\ ~forwarded
                   IN  Forwards(reads(ERegO.srcA, forwardA), reads(ERegO.srcB, forwardB))

CountWriteback ==
  /\ Writeback
  /\ machineStats' = [machineStats EXCEPT
       !.dataHazard = @ + WbForwards(WReg.dstE) + WbForwards(WReg.dstM),
       !.instrCnt   = @ + 1]
  /\ UNCHANGED TicksPerCycle

\* The call of exit is counted before Halt prints the statistics.
CountSyscall ==
  /\ Syscall
  /\ machineStats' = [machineStats EXCEPT !.ecallNum = @ + 1]
  /\ UNCHANGED TicksPerCycle

CountIdle == (ExecuteIdle \/ MemStageIdle \/ WritebackIdle) /\ UNCHANGED statistics

\* A bug: a cycle starts with the ticks of the one before it.
FirstTicksCarried == TicksPerCycle

FirstTicks == 1

CountLatch ==
  /\ Latch
  /\ machineStats' = [machineStats EXCEPT
       !.FSTALL = @ + One(FStall),
       !.machineCycle = @ + 1,
       !.cycle = @ + TicksPerCycle]
  /\ TicksPerCycle' = FirstTicks

CountAbort == (FetchFault \/ DecodeFault \/ MemFault \/ Ended) /\ UNCHANGED statistics

StatNext == \/ CountFetch   \/ CountDecode    \/ CountExecute
            \/ CountMemStage \/ CountWriteback \/ CountSyscall
            \/ CountIdle    \/ CountLatch     \/ CountAbort

StatSpec == StatInit /\ [][StatNext]_<<vars, statistics>> /\ WF_<<vars, statistics>>(StatNext)

-----------------------------------------------------------------------------
(* Properties.                                                             *)

(* Where the cycles go: at the start of a cycle each one so far has        *)
(* retired an instruction, made a call or carried a bubble, and the        *)
(* bubbles are the four the pipeline starts with, one for a load-use       *)
(* hazard, two for a control hazard and up to three behind a system call.  *)
(* A cycle in which Fetch repeats itself is one of these, or was withdrawn *)
(* by a flush (Run, Decode, Execute and MemStage together).                *)
BubblesInFlight ==
  One(DReg.bubble) + One(EReg.bubble) + One(MReg.bubble) + One(WReg.bubble)

\* Bubbles put behind a system call so far.
Behind(latch, n) == IF ~latch.bubble /\ IsEcall(latch) THEN n ELSE 0
EcallBubbles ==
  3 * machineStats.ecallNum + Behind(EReg, 1) + Behind(MReg, 2) + Behind(WReg, 3)

CyclesAreAccounted ==
  At("Fetch") =>
    /\ machineStats.machineCycle + BubblesInFlight =
         machineStats.instrCnt + machineStats.ecallNum + 4 + machineStats.loadUseHazard
           + 2 * machineStats.controlHazard + EcallBubbles
    /\ machineStats.FSTALL = machineStats.loadUseHazard + EcallBubbles

(* What Halt prints adds up: the cycles of a run are its instructions, four *)
(* for each system call, one for each load-use hazard and two for each      *)
(* control hazard, the repeated fetches one for a hazard and three a call.  *)
ReportAddsUp ==
  status = "halted" =>
    /\ machineStats.machineCycle =
         machineStats.instrCnt + 4 * machineStats.ecallNum + machineStats.loadUseHazard
           + 2 * machineStats.controlHazard
    /\ machineStats.FSTALL = machineStats.loadUseHazard + 3 * machineStats.ecallNum

(* A cycle lasts as long as the slowest of what its stages did: the fetch,  *)
(* the instruction Execute processed, the access of the one MemStage did    *)
(* (TicksPerCycle, which Run resets and four stages raise).                 *)
CycleOfTheSlowest ==
  At("Latch") =>
    LET executed == IF Idle(EReg) THEN {} ELSE {instrPfm[EReg.instr.op]}
        accessed == IF ~WRegO.bubble /\ WRegO.instr.op \in {"load", "store"} THEN {DATA_TICKS} ELSE {}
        ticks    == {1, FETCH_TICKS} \cup executed \cup accessed
    IN  TicksPerCycle \in ticks /\ \A t \in ticks : t <= TicksPerCycle

=============================================================================
