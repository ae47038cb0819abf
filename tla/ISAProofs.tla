------------------------------ MODULE ISAProofs ------------------------------
(***************************************************************************)
(* What a program sees of the pipeline is a prefix of what the sequential  *)
(* machine ISA does with it. Most steps are invisible; MemStage takes the  *)
(* step of the instruction it handles and Writeback that of a system call. *)
(*                                                                         *)
(* The invariants of PipelineProofs say that the latches hold successive   *)
(* instructions and that operands are current when they leave Decode. Here *)
(* "InStep" follows each instruction on from there: its operands are still *)
(* the registers behind what is in front of it when MemStage handles it,   *)
(* its result is what they make of it, and the address of the oldest       *)
(* instruction that has not taken effect is the same before and after the  *)
(* end of a cycle.                                                         *)
(***************************************************************************)
EXTENDS PipelineProofs, PipelineISA

-----------------------------------------------------------------------------
\* What Execute made of its operands.
Computed(latch) == ~latch.bubble =>
  latch.valE = ValE(latch.instr, latch.addr, latch.valA, latch.valB)

\* An operand is the register behind the instruction in latch w.
OperandBehind(src, val, w) ==
  val = IF From(w, src) THEN w.valE ELSE IF FromM(w, src) THEN w.valM ELSE registers[src]

\* And behind that in latch m, which is not a load of it.
OperandAfter(src, val, m, w) == val = Value(registers, m, w, src) /\ ~FromM(m, src)

OperandsBehind(latch, w) == ~latch.bubble =>
  /\ OperandBehind(SrcA(latch.instr), latch.valA, w)
  /\ OperandBehind(SrcB(latch.instr), latch.valB, w)

BehindBoth(latch, m, w) == ~latch.bubble =>
  /\ OperandAfter(SrcA(latch.instr), latch.valA, m, w)
  /\ OperandAfter(SrcB(latch.instr), latch.valB, m, w)

\* The instruction does not need what the one in front of it loads.
NeedsNoLoad(latch, m) ==
  ~latch.bubble => ~FromM(m, SrcA(latch.instr)) /\ ~FromM(m, SrcB(latch.instr))

SameInstr(r, s) == r.bubble = s.bubble /\ (~r.bubble => r.addr = s.addr /\ r.instr = s.instr)

EcallDone == ~MReg.bubble /\ IsEcall(MReg) /\ stage \in {"Writeback", "Latch"}

InStep ==
  /\ stage \in {"Fetch", "Decode", "Execute"} => BehindBoth(EReg, MReg, WReg)
  /\ stage \notin {"Writeback", "Latch"} => Computed(MReg) /\ OperandsBehind(MReg, WReg)
  /\ stage = "MemStage" => BehindBoth(MRegO, MReg, WReg)
  /\ stage = "Writeback" => BehindBoth(MRegO, WRegO, WReg) /\ Alone(WReg, WRegO)
  /\ stage = "Latch" => OperandsBehind(MRegO, WRegO)
  /\ stage \in {"MemStage", "Writeback"} =>
       /\ Alone(WReg, MRegO)
       /\ ~WReg.bubble /\ IsEcall(WReg) => PC = Actual(WReg)
  /\ stage \in {"Writeback", "Latch"} => SameInstr(WRegO, MReg)
  /\ stage \in {"MemStage", "Writeback", "Latch"} =>
       /\ Computed(MRegO) /\ NeedsNoLoad(ERegO, MRegO)
       /\ ~EcallDone => After(EReg, After(DReg, PC))
             = After(MRegO, After(Advance(EReg, ERegO), After(Advance(DReg, DRegO), NextPC)))

-----------------------------------------------------------------------------
\* Everything there is to know about the latches.
Known == TypeOK /\ BubblesAndStalls /\ OnPath /\ OperandInv

LEMMA InStepInit == Init => InStep
<1>1. ASSUME NEW r \in Bubbles PROVE r.bubble
  BY JunkAssumption DEF Bubbles, Bubble, PipReg
<1>. QED  BY <1>1 DEF Init, InStep, BehindBoth, OperandsBehind, Computed

\* Fetch and Decode leave alone what InStep speaks of.
LEMMA InStepFront == InStep /\ (Fetch \/ Decode \/ DecodeIdle) => InStep'
<1>. SUFFICES ASSUME InStep, Fetch \/ Decode \/ DecodeIdle PROVE InStep'
  OBVIOUS
<1>1. /\ UNCHANGED <<registers, EReg, MReg, WReg>>
      /\ stage \in {"Fetch", "Decode"} /\ stage' \in {"Decode", "Execute"}
  BY DEF Fetch, Decode, DecodeIdle, At
<1>2. BehindBoth(EReg, MReg, WReg) /\ Computed(MReg) /\ OperandsBehind(MReg, WReg)
  BY <1>1 DEF InStep
<1>3. BehindBoth(EReg, MReg, WReg)'
  BY <1>1, <1>2 DEF BehindBoth, OperandAfter, Value, From, FromM
<1>4. Computed(MReg)' /\ OperandsBehind(MReg, WReg)'
  BY <1>1, <1>2 DEF Computed, OperandsBehind, OperandBehind, From, FromM
<1>. QED  BY <1>1, <1>3, <1>4 DEF InStep

LEMMA InStepExecuteIdle == Known /\ InStep /\ ExecuteIdle => InStep'
<1>. SUFFICES ASSUME Known, InStep, ExecuteIdle PROVE InStep'
  OBVIOUS
<1>1. /\ MRegO'.bubble /\ EReg.bubble /\ ~DReg.stall /\ ~EReg.stall
      /\ UNCHANGED <<registers, prog, DReg, DRegO, EReg, ERegO, MReg, WReg, PC, predPC, FStall>>
      /\ stage' = "MemStage" /\ stage = "Execute"
  BY DEF Known, ExecuteIdle, TypeOK, PipReg, Bubble, Idle, At, BubblesAndStalls
<1>2. After(ERegO, After(DRegO, NextPC)) = After(DReg, PC)
  BY FrontOfExecute DEF ExecuteIdle, Known
<1>3. Computed(MReg) /\ OperandsBehind(MReg, WReg)
  BY <1>1 DEF InStep
<1>4. Computed(MReg)' /\ OperandsBehind(MReg, WReg)'
  BY <1>1, <1>3 DEF Computed, OperandsBehind, OperandBehind, From, FromM
<1>5. BehindBoth(MRegO, MReg, WReg)' /\ Computed(MRegO)' /\ NeedsNoLoad(ERegO, MRegO)'
      /\ Alone(WReg, MRegO)'
  BY <1>1 DEF BehindBoth, Computed, NeedsNoLoad, FromM, Alone
<1>6. (After(EReg, After(DReg, PC))
         = After(MRegO, After(Advance(EReg, ERegO), After(Advance(DReg, DRegO), NextPC))))'
<2>1. After(EReg, After(DReg, PC)) = After(ERegO, After(DRegO, NextPC))
  BY <1>1, <1>2 DEF After
<2>. QED  BY <1>1, <2>1 DEF After, Advance, NextPC
<1>7. ASSUME ~WReg.bubble, IsEcall(WReg) PROVE PC = Actual(WReg)
<2>1. DReg.bubble /\ EReg.bubble /\ MReg.bubble
  BY <1>1, <1>7 DEF Known, BubblesAndStalls, Alone
<2>2. After(MReg, After(EReg, After(DReg, PC))) = Actual(WReg)
  BY <1>1, <1>7 DEF Known, OnPath, Chain
<2>. QED  BY <2>1, <2>2 DEF After
<1>8. (~WReg.bubble /\ IsEcall(WReg) => PC = Actual(WReg))'
  BY <1>1, <1>7 DEF IsEcall, Actual, IsBranch
<1>. QED  BY <1>1, <1>4, <1>5, <1>6, <1>8 DEF InStep

LEMMA InStepExecute == Known /\ InStep /\ Execute => InStep'
<1>. SUFFICES ASSUME Known, InStep, Execute PROVE InStep'
  OBVIOUS
<1>1. /\ ~EReg.bubble /\ ~EReg.stall /\ stage = "Execute" /\ stage' = "MemStage"
      /\ Alone(WReg, EReg) /\ (~IsEcall(WReg) \/ WReg.bubble)
      /\ UNCHANGED <<registers, prog, EReg, MReg, WReg, PC>>
  BY DEF Known, Execute, At, Idle, BubblesAndStalls, Alone
<1>2. /\ MRegO'.bubble = EReg.bubble /\ MRegO'.addr = EReg.addr /\ MRegO'.instr = EReg.instr
      /\ MRegO'.valA = EReg.valA /\ MRegO'.valB = EReg.valB /\ MRegO'.dstM = EReg.dstM
      /\ MRegO'.valE = ExVal
  BY DEF Known, Execute, TypeOK, PipReg
<1>3. /\ ERegO'.instr = ERegO.instr
      /\ ~ERegO'.bubble => ~ERegO.bubble /\ ~LoadUse
  BY DEF Known, Execute, TypeOK, PipReg, Dropped, Hold
<1>4. Computed(MReg) /\ OperandsBehind(MReg, WReg) /\ BehindBoth(EReg, MReg, WReg)
  BY <1>1 DEF InStep
<1>5. Computed(MReg)' /\ OperandsBehind(MReg, WReg)'
  BY <1>1, <1>4 DEF Computed, OperandsBehind, OperandBehind, From, FromM
<1>6. BehindBoth(MRegO, MReg, WReg)'
  BY <1>1, <1>2, <1>4 DEF BehindBoth, OperandAfter, Value, From, FromM
<1>7. Computed(MRegO)'
  BY <1>2 DEF Computed, ExVal
<1>8. NeedsNoLoad(ERegO, MRegO)'
<2>1. ~ERegO.bubble => ERegO.srcA = SrcA(ERegO.instr) /\ ERegO.srcB = SrcB(ERegO.instr)
  BY <1>1 DEF Known, OperandInv
<2>. QED  BY <1>2, <1>3, <2>1 DEF NeedsNoLoad, FromM, LoadUse
<1>9. Alone(WReg, MRegO)' /\ (~WReg.bubble /\ IsEcall(WReg) => PC = Actual(WReg))'
  BY <1>1 DEF Alone, IsEcall
<1>10. (After(EReg, After(DReg, PC))
          = After(MRegO, After(Advance(EReg, ERegO), After(Advance(DReg, DRegO), NextPC))))'
  BY <1>1, <1>2 DEF After
<1>. QED  BY <1>1, <1>5, <1>6, <1>7, <1>8, <1>9, <1>10 DEF InStep

LEMMA InStepMemStageIdle == Known /\ InStep /\ MemStageIdle => InStep'
<1>. SUFFICES ASSUME Known, InStep, MemStageIdle PROVE InStep'
  OBVIOUS
<1>1. /\ WRegO'.bubble /\ MReg.bubble /\ stage = "MemStage" /\ stage' = "Writeback"
      /\ UNCHANGED <<registers, prog, DReg, DRegO, EReg, ERegO, MReg, MRegO, WReg, PC, predPC, FStall>>
  BY DEF Known, MemStageIdle, At, Idle, BubblesAndStalls, TypeOK, PipReg, Bubble
<1>2. /\ BehindBoth(MRegO, MReg, WReg) /\ Computed(MRegO) /\ NeedsNoLoad(ERegO, MRegO)
      /\ Alone(WReg, MRegO) /\ (~WReg.bubble /\ IsEcall(WReg) => PC = Actual(WReg))
      /\ After(EReg, After(DReg, PC))
           = After(MRegO, After(Advance(EReg, ERegO), After(Advance(DReg, DRegO), NextPC)))
  BY <1>1 DEF InStep, EcallDone
<1>3. BehindBoth(MRegO, WRegO, WReg)' /\ SameInstr(WRegO, MReg)'
  BY <1>1, <1>2 DEF BehindBoth, OperandAfter, Value, From, FromM, SameInstr
<1>4. Computed(MRegO)' /\ NeedsNoLoad(ERegO, MRegO)' /\ Alone(WReg, MRegO)' /\ Alone(WReg, WRegO)'
  BY <1>1, <1>2 DEF Computed, NeedsNoLoad, FromM, Alone, IsEcall
<1>5. (~WReg.bubble /\ IsEcall(WReg) => PC = Actual(WReg))'
  BY <1>1, <1>2 DEF IsEcall, Actual, IsBranch
<1>6. (After(EReg, After(DReg, PC))
         = After(MRegO, After(Advance(EReg, ERegO), After(Advance(DReg, DRegO), NextPC))))'
  BY <1>1, <1>2 DEF After, Advance, NextPC
<1>. QED  BY <1>1, <1>3, <1>4, <1>5, <1>6 DEF InStep

LEMMA InStepMemStage == Known /\ InStep /\ MemStage => InStep'
<1>. SUFFICES ASSUME Known, InStep, MemStage PROVE InStep'
  OBVIOUS
<1>1. /\ ~MReg.bubble /\ stage = "MemStage" /\ stage' = "Writeback" /\ ~EReg.stall /\ Alone(WReg, MReg)
      /\ UNCHANGED <<registers, prog, DRegO, MReg, WReg, PC, predPC>>
  BY DEF Known, MemStage, At, Idle, BubblesAndStalls
<1>2. /\ WRegO'.bubble = MReg.bubble /\ WRegO'.addr = MReg.addr /\ WRegO'.instr = MReg.instr
      /\ WRegO'.dstE = MReg.dstE /\ WRegO'.dstM = MReg.dstM /\ WRegO'.valE = MReg.valE
      /\ MRegO'.bubble = (MRegO.bubble \/ IsEcall(MReg))
      /\ MRegO'.addr = MRegO.addr /\ MRegO'.instr = MRegO.instr /\ MRegO'.dstM = MRegO.dstM
      /\ MRegO'.valA = MRegO.valA /\ MRegO'.valB = MRegO.valB /\ MRegO'.valE = MRegO.valE
      /\ ERegO'.bubble = ERegO.bubble /\ ERegO'.instr = ERegO.instr /\ ERegO'.addr = ERegO.addr
      /\ ~IsEcall(MReg) => /\ DReg'.stall = DReg.stall /\ EReg'.stall = EReg.stall
                           /\ FStall' = FStall
      /\ DReg'.bubble = DReg.bubble /\ DReg'.addr = DReg.addr
      /\ EReg'.bubble = EReg.bubble /\ EReg'.addr = EReg.addr
  BY DEF Known, MemStage, TypeOK, PipReg, IsEcall
<1>3. /\ BehindBoth(MRegO, MReg, WReg) /\ Computed(MRegO) /\ NeedsNoLoad(ERegO, MRegO)
      /\ Alone(WReg, MRegO)
      /\ After(EReg, After(DReg, PC))
           = After(MRegO, After(Advance(EReg, ERegO), After(Advance(DReg, DRegO), NextPC)))
  BY <1>1 DEF InStep, EcallDone
<1>4. BehindBoth(MRegO, WRegO, WReg)'
  BY <1>1, <1>2, <1>3 DEF BehindBoth, OperandAfter, Value, From, FromM
<1>5. SameInstr(WRegO, MReg)' /\ Alone(WReg, WRegO)' /\ Alone(WReg, MRegO)'
  BY <1>1, <1>2, <1>3 DEF SameInstr, Alone, IsEcall
<1>6. Computed(MRegO)' /\ NeedsNoLoad(ERegO, MRegO)'
  BY <1>2, <1>3 DEF Computed, NeedsNoLoad, FromM
<1>7. (~WReg.bubble /\ IsEcall(WReg) => PC = Actual(WReg))'
  BY <1>1 DEF Alone, IsEcall
<1>8. (~EcallDone => After(EReg, After(DReg, PC))
         = After(MRegO, After(Advance(EReg, ERegO), After(Advance(DReg, DRegO), NextPC))))'
<2>. SUFFICES ASSUME ~EcallDone'
              PROVE  (After(EReg, After(DReg, PC))
         = After(MRegO, After(Advance(EReg, ERegO), After(Advance(DReg, DRegO), NextPC))))'
  OBVIOUS
<2>1. ~IsEcall(MReg)
  BY <1>1 DEF EcallDone, IsEcall
<2>2. /\ Advance(EReg', ERegO').bubble = Advance(EReg, ERegO).bubble
      /\ Advance(EReg', ERegO').addr = Advance(EReg, ERegO).addr
      /\ Advance(DReg', DRegO').bubble = Advance(DReg, DRegO).bubble
      /\ Advance(DReg', DRegO').addr = Advance(DReg, DRegO).addr
  BY <1>1, <1>2, <2>1 DEF Advance, Known, TypeOK, PipReg, MemStage
<2>3. NextPC' = NextPC
  BY <1>1, <1>2, <2>1 DEF NextPC
<2>4. After(EReg', After(DReg', PC'))
        = After(MRegO', After(Advance(EReg', ERegO'), After(Advance(DReg', DRegO'), NextPC')))
  BY <1>1, <1>2, <1>3, <2>1, <2>2, <2>3 DEF After
<2>. QED  BY <2>4 DEF After, Advance, NextPC
<1>. QED  BY <1>1, <1>4, <1>5, <1>6, <1>7, <1>8 DEF InStep

\* Writing a register back that an instruction in flight reads.
LEMMA WrittenBack ==
  ASSUME TypeOK, ~WReg.bubble, Decoded(WReg), NEW src \in Reg, NEW val, NEW w,
         OperandAfter(src, val, w, WReg)
  PROVE  val = IF From(w, src) THEN w.valE ELSE IF FromM(w, src) THEN w.valM
               ELSE WriteRegisters(registers)[src]
<1>1. WReg.dstM = ZEROREG \/ WReg.dstE = ZEROREG
  BY DEF Decoded, DstM, DstE
<1>2. WriteRegisters(registers)[src]
        = IF src # ZEROREG /\ src = WReg.dstE THEN WReg.valE
          ELSE IF src # ZEROREG /\ src = WReg.dstM THEN WReg.valM ELSE registers[src]
  BY DEF WriteRegisters
<1>. QED  BY <1>1, <1>2 DEF OperandAfter, Value, From, FromM

LEMMA InStepWriteback == Known /\ InStep /\ Writeback => InStep'
<1>. SUFFICES ASSUME Known, InStep, Writeback PROVE InStep'
  OBVIOUS
<1>1. /\ ~WReg.bubble /\ Decoded(WReg) /\ stage = "Writeback" /\ stage' = "Latch" /\ TypeOK
      /\ registers' = WriteRegisters(registers)
      /\ UNCHANGED <<prog, DReg, DRegO, EReg, MReg, MRegO, WReg, WRegO, PC, predPC, FStall>>
  BY DEF Known, Writeback, At, Idle, BubblesAndStalls
<1>2. ERegO'.bubble = ERegO.bubble /\ ERegO'.instr = ERegO.instr /\ ERegO'.addr = ERegO.addr
  BY DEF Known, Writeback, TypeOK, PipReg
<1>3. /\ BehindBoth(MRegO, WRegO, WReg) /\ Computed(MRegO) /\ NeedsNoLoad(ERegO, MRegO)
      /\ SameInstr(WRegO, MReg)
      /\ ~EcallDone => After(EReg, After(DReg, PC))
           = After(MRegO, After(Advance(EReg, ERegO), After(Advance(DReg, DRegO), NextPC)))
  BY <1>1 DEF InStep
<1>4. OperandsBehind(MRegO, WRegO)'
<2>. SUFFICES ASSUME ~MRegO.bubble
              PROVE  /\ OperandBehind(SrcA(MRegO.instr), MRegO.valA, WRegO)'
                     /\ OperandBehind(SrcB(MRegO.instr), MRegO.valB, WRegO)'
  BY <1>1 DEF OperandsBehind
<2>. DEFINE a == SrcA(MRegO.instr)
            b == SrcB(MRegO.instr)
<2>1. a \in Reg /\ b \in Reg
  BY <1>1, DecodedFields DEF TypeOK, PipReg
<2>2. OperandAfter(a, MRegO.valA, WRegO, WReg) /\ OperandAfter(b, MRegO.valB, WRegO, WReg)
  BY <1>3 DEF BehindBoth
<2>. HIDE DEF a, b
<2>3. /\ MRegO.valA = IF From(WRegO, a) THEN WRegO.valE ELSE IF FromM(WRegO, a) THEN WRegO.valM
                      ELSE registers'[a]
      /\ MRegO.valB = IF From(WRegO, b) THEN WRegO.valE ELSE IF FromM(WRegO, b) THEN WRegO.valM
                      ELSE registers'[b]
  BY <1>1, <2>1, <2>2, WrittenBack
<2>. QED  BY <1>1, <2>3 DEF OperandBehind, From, FromM, a, b
<1>5. SameInstr(WRegO, MReg)' /\ Computed(MRegO)' /\ NeedsNoLoad(ERegO, MRegO)'
  BY <1>1, <1>2, <1>3 DEF SameInstr, Computed, NeedsNoLoad, FromM
<1>6. (~EcallDone => After(EReg, After(DReg, PC))
         = After(MRegO, After(Advance(EReg, ERegO), After(Advance(DReg, DRegO), NextPC))))'
<2>1. EcallDone' <=> EcallDone
  BY <1>1 DEF EcallDone, IsEcall
<2>2. /\ Advance(EReg, ERegO').bubble = Advance(EReg, ERegO).bubble
      /\ Advance(EReg, ERegO').addr = Advance(EReg, ERegO).addr
  BY <1>2 DEF Advance
<2>3. ~EcallDone => After(EReg, After(DReg, PC))
         = After(MRegO, After(Advance(EReg, ERegO'), After(Advance(DReg, DRegO), NextPC)))
  BY <1>3, <2>2 DEF After
<2>. QED  BY <1>1, <2>1, <2>3 DEF After, Advance, NextPC
<1>. QED  BY <1>1, <1>4, <1>5, <1>6 DEF InStep

LEMMA InStepWritebackIdle == Known /\ InStep /\ WritebackIdle => InStep'
<1>. SUFFICES ASSUME Known, InStep, WritebackIdle PROVE InStep'
  OBVIOUS
<1>1. /\ WReg.bubble /\ stage = "Writeback" /\ stage' = "Latch"
      /\ UNCHANGED <<prog, registers, DReg, DRegO, EReg, ERegO, MReg, MRegO, WReg, WRegO, PC, predPC, FStall>>
  BY DEF Known, WritebackIdle, At, Idle, BubblesAndStalls, latches
<1>2. /\ BehindBoth(MRegO, WRegO, WReg) /\ Computed(MRegO) /\ NeedsNoLoad(ERegO, MRegO)
      /\ SameInstr(WRegO, MReg)
      /\ ~EcallDone => After(EReg, After(DReg, PC))
           = After(MRegO, After(Advance(EReg, ERegO), After(Advance(DReg, DRegO), NextPC)))
  BY <1>1 DEF InStep
<1>3. OperandsBehind(MRegO, WRegO)'
  BY <1>1, <1>2 DEF BehindBoth, OperandsBehind, OperandAfter, OperandBehind, Value, From, FromM
<1>4. SameInstr(WRegO, MReg)' /\ Computed(MRegO)' /\ NeedsNoLoad(ERegO, MRegO)'
  BY <1>1, <1>2 DEF SameInstr, Computed, NeedsNoLoad, FromM
<1>5. (~EcallDone => After(EReg, After(DReg, PC))
         = After(MRegO, After(Advance(EReg, ERegO), After(Advance(DReg, DRegO), NextPC))))'
  BY <1>1, <1>2 DEF EcallDone, IsEcall, After, Advance, NextPC
<1>. QED  BY <1>1, <1>3, <1>4, <1>5 DEF InStep

\* A system call finds nothing else in flight.
LEMMA SyscallAlone ==
  ASSUME Known, InStep, Syscall
  PROVE  /\ ~WReg.bubble /\ IsEcall(WReg) /\ stage = "Writeback" /\ stage' \in {"Writeback", "Latch"}
         /\ status = "running" /\ UNCHANGED latches /\ UNCHANGED <<prog, PC, predPC, FStall>>
         /\ DReg.bubble /\ EReg.bubble /\ MReg.bubble /\ MRegO.bubble /\ WRegO.bubble
         /\ PC = Actual(WReg)
<1>1. AtSyscall
  BY DEF Syscall, SyscallPrint, SyscallPrintStr, SyscallScanInt, SyscallUnknown, SyscallExit
<1>2. ~WReg.bubble /\ IsEcall(WReg) /\ stage = "Writeback" /\ status = "running"
  BY <1>1 DEF AtSyscall, At, Idle, IsEcall
<1>3. stage' \in {"Writeback", "Latch"} /\ UNCHANGED latches /\ UNCHANGED <<prog, PC, predPC, FStall>>
  BY <1>2 DEF Syscall, SyscallPrint, SyscallPrintStr, SyscallScanInt, SyscallUnknown, SyscallExit,
         SyscallReturns, Abort, latches
<1>4. DReg.bubble /\ EReg.bubble /\ MReg.bubble
  BY <1>2 DEF Known, BubblesAndStalls, Alone
<1>5. MRegO.bubble /\ WRegO.bubble /\ PC = Actual(WReg)
  BY <1>2 DEF InStep, Alone
<1>. QED  BY <1>2, <1>3, <1>4, <1>5

LEMMA InStepSyscall == Known /\ InStep /\ Syscall => InStep'
<1>. SUFFICES ASSUME Known, InStep, Syscall PROVE InStep'
  OBVIOUS
<1>1. /\ stage = "Writeback" /\ stage' \in {"Writeback", "Latch"} /\ IsEcall(WReg)
      /\ UNCHANGED <<DReg, DRegO, EReg, ERegO, MReg, MRegO, WReg, WRegO, prog, PC, predPC, FStall>>
      /\ DReg.bubble /\ EReg.bubble /\ MReg.bubble /\ MRegO.bubble /\ WRegO.bubble
      /\ PC = Actual(WReg)
  BY SyscallAlone DEF latches
<1>2. ~EcallDone
  BY <1>1 DEF EcallDone
<1>3. After(EReg, After(DReg, PC))
        = After(MRegO, After(Advance(EReg, ERegO), After(Advance(DReg, DRegO), NextPC)))
  BY <1>1, <1>2 DEF InStep
<1>4. (After(EReg, After(DReg, PC))
        = After(MRegO, After(Advance(EReg, ERegO), After(Advance(DReg, DRegO), NextPC))))'
  BY <1>1, <1>3 DEF After, Advance, NextPC
<1>5. BehindBoth(MRegO, WRegO, WReg)' /\ OperandsBehind(MRegO, WRegO)' /\ Computed(MRegO)'
      /\ Alone(WReg, WRegO)' /\ Alone(WReg, MRegO)' /\ NeedsNoLoad(ERegO, MRegO)' /\ SameInstr(WRegO, MReg)'
  BY <1>1 DEF BehindBoth, OperandsBehind, Computed, Alone, NeedsNoLoad, FromM, SameInstr
<1>6. (PC = Actual(WReg))'
  BY <1>1 DEF Actual, IsBranch
<1>. QED  BY <1>1, <1>4, <1>5, <1>6 DEF InStep

LEMMA InStepLatch == Known /\ InStep /\ Latch => InStep'
<1>. SUFFICES ASSUME Known, InStep, Latch PROVE InStep'
  OBVIOUS
<1>1. /\ MReg' = MRegO /\ WReg' = WRegO /\ (EReg'.bubble \/ EReg' = ERegO)
      /\ stage = "Latch" /\ stage' = "Fetch"
  BY DEF Known, Latch, At, Advance, BubblesAndStalls, TypeOK, PipReg
<1>2. registers' = registers
  BY ZeroInReg DEF Known, Latch, TypeOK, OperandInv
<1>3. Computed(MRegO) /\ OperandsBehind(MRegO, WRegO) /\ NeedsNoLoad(ERegO, MRegO)
  BY <1>1 DEF InStep
<1>4. BehindBoth(ERegO, MRegO, WRegO)
<2>. SUFFICES ASSUME ~ERegO.bubble PROVE BehindBoth(ERegO, MRegO, WRegO)
  BY DEF BehindBoth
<2>1. /\ ERegO.srcA = SrcA(ERegO.instr) /\ ERegO.srcB = SrcB(ERegO.instr)
      /\ ERegO.valA = Value(registers, MRegO, WRegO, ERegO.srcA)
      /\ ERegO.valB = Value(registers, MRegO, WRegO, ERegO.srcB)
  BY <1>1 DEF Known, OperandInv, Current
<2>. QED  BY <1>3, <2>1 DEF BehindBoth, OperandAfter, NeedsNoLoad
<1>5. BehindBoth(EReg, MReg, WReg)'
  BY <1>1, <1>2, <1>4 DEF BehindBoth, OperandAfter, Value, From, FromM
<1>6. Computed(MReg)' /\ OperandsBehind(MReg, WReg)'
  BY <1>1, <1>2, <1>3 DEF Computed, OperandsBehind, OperandBehind, From, FromM
<1>. QED  BY <1>1, <1>5, <1>6 DEF InStep

\* Every step keeps InStep.
LEMMA InStepNext == Known /\ InStep /\ [Next]_vars => InStep'
<1>1. ASSUME InStep, FetchFault \/ DecodeFault \/ MemFault \/ UNCHANGED vars PROVE InStep'
<2>1. UNCHANGED <<stage, registers, prog, PC, predPC, FStall, DReg, DRegO, EReg, ERegO, MReg, MRegO, WReg, WRegO>>
  BY <1>1 DEF FetchFault, DecodeFault, MemFault, Abort, vars, latches
<2>2. /\ BehindBoth(EReg, MReg, WReg)' <=> BehindBoth(EReg, MReg, WReg)
      /\ BehindBoth(MRegO, MReg, WReg)' <=> BehindBoth(MRegO, MReg, WReg)
      /\ BehindBoth(MRegO, WRegO, WReg)' <=> BehindBoth(MRegO, WRegO, WReg)
  BY <2>1 DEF BehindBoth, OperandAfter, Value, From, FromM
<2>3. /\ OperandsBehind(MReg, WReg)' <=> OperandsBehind(MReg, WReg)
      /\ OperandsBehind(MRegO, WRegO)' <=> OperandsBehind(MRegO, WRegO)
      /\ Computed(MReg)' <=> Computed(MReg)
      /\ Computed(MRegO)' <=> Computed(MRegO)
  BY <2>1 DEF OperandsBehind, OperandBehind, From, FromM, Computed
<2>4. /\ Alone(WReg, MRegO)' <=> Alone(WReg, MRegO)
      /\ Alone(WReg, WRegO)' <=> Alone(WReg, WRegO)
      /\ SameInstr(WRegO, MReg)' <=> SameInstr(WRegO, MReg)
      /\ NeedsNoLoad(ERegO, MRegO)' <=> NeedsNoLoad(ERegO, MRegO)
      /\ EcallDone' <=> EcallDone
      /\ (IsEcall(WReg) /\ ~WReg.bubble)' <=> (IsEcall(WReg) /\ ~WReg.bubble)
      /\ (PC = Actual(WReg))' <=> (PC = Actual(WReg))
  BY <2>1 DEF Alone, IsEcall, SameInstr, NeedsNoLoad, FromM, EcallDone, Actual, IsBranch
<2>5. (After(EReg, After(DReg, PC))
         = After(MRegO, After(Advance(EReg, ERegO), After(Advance(DReg, DRegO), NextPC))))'
      <=> After(EReg, After(DReg, PC))
         = After(MRegO, After(Advance(EReg, ERegO), After(Advance(DReg, DRegO), NextPC)))
  BY <2>1 DEF After, Advance, NextPC
<2>. QED  BY <1>1, <2>1, <2>2, <2>3, <2>4, <2>5 DEF InStep
<1>. QED
  BY <1>1, InStepFront, InStepExecuteIdle, InStepExecute, InStepMemStageIdle, InStepMemStage,
     InStepWriteback, InStepWritebackIdle, InStepSyscall, InStepLatch DEF Next, Ended

-----------------------------------------------------------------------------
(* Most steps are invisible to the program.                                *)

\* What the sequential machine sees of the state.
Seen == <<prog, mem, AbsPC, AbsRegs, SeenStatus, out>>

LEMMA StartsAsISA == Init => Prefix!Init
<1>. SUFFICES ASSUME Init PROVE Prefix!Init
  OBVIOUS
<1>1. ASSUME NEW r \in Bubbles PROVE r.bubble
  BY JunkAssumption DEF Bubbles, Bubble, PipReg
<1>2. /\ WReg.bubble /\ MReg.bubble /\ EReg.bubble /\ DReg.bubble
      /\ stage = "Fetch" /\ status = "running" /\ out = 0 /\ predPC = ENTRY
  BY <1>1 DEF Init
<1>3. AbsPC = ENTRY
  BY <1>2 DEF AbsPC, WRegPending, MRegPending
<1>4. AbsRegs = [r \in Reg |-> IF r = SPREG THEN STACKTOP ELSE 0]
  BY <1>2 DEF AbsRegs, WRegPending, WRegOPending, Init
<1>5. mem \in [DataAddr -> Word]
  BY MemoriesAssumption DEF Init
<1>. QED  BY <1>2, <1>3, <1>4, <1>5 DEF SeenStatus, Prefix!Init, Prefix!Reg, Prefix!Word, Reg, Word

\* A step of an early stage that leaves the latches behind Decode alone.
LEMMA FrontUnseen ==
  ASSUME UNCHANGED <<prog, mem, registers, DReg, EReg, MReg, WReg, out>>,
         stage \in {"Fetch", "Decode", "Execute"}, stage' \in {"Decode", "Execute", "MemStage"},
         (IF stage = "Fetch" THEN predPC ELSE PC) = PC', status' = status, status = "running"
  PROVE  UNCHANGED Seen
<1>1. WRegPending' = WRegPending /\ ~WRegOPending' /\ ~WRegOPending
  BY DEF WRegPending, WRegOPending
<1>2. AbsPC' = AbsPC
  BY DEF AbsPC, WRegPending, MRegPending, IsEcall
<1>3. AbsRegs' = AbsRegs
  BY <1>1 DEF AbsRegs, Result, IsEcall
<1>. QED  BY <1>2, <1>3 DEF Seen, SeenStatus

LEMMA FetchUnseen == Fetch \/ Decode \/ DecodeIdle \/ ExecuteIdle => UNCHANGED Seen
<1>. SUFFICES ASSUME Fetch \/ Decode \/ DecodeIdle \/ ExecuteIdle PROVE UNCHANGED Seen
  OBVIOUS
<1>1. /\ UNCHANGED <<prog, mem, registers, DReg, EReg, MReg, WReg, out>>
      /\ stage \in {"Fetch", "Decode", "Execute"} /\ stage' \in {"Decode", "Execute", "MemStage"}
      /\ (IF stage = "Fetch" THEN predPC ELSE PC) = PC' /\ status' = status /\ status = "running"
  BY DEF Fetch, Decode, DecodeIdle, ExecuteIdle, At
<1>. QED  BY <1>1, FrontUnseen

LEMMA ExecuteUnseen == Known /\ Execute => UNCHANGED Seen
<1>. SUFFICES ASSUME Known, Execute PROVE UNCHANGED Seen
  OBVIOUS
<1>1. /\ UNCHANGED <<prog, mem, registers, EReg, MReg, WReg, status, out>> /\ ~EReg.bubble
      /\ stage = "Execute" /\ stage' = "MemStage" /\ status = "running"
  BY DEF Execute, At, Idle
<1>2. WRegPending' = WRegPending /\ ~WRegOPending' /\ ~WRegOPending
  BY <1>1 DEF WRegPending, WRegOPending
<1>3. AbsPC' = AbsPC
  BY <1>1 DEF AbsPC, WRegPending, MRegPending, IsEcall
<1>4. AbsRegs' = AbsRegs
  BY <1>1, <1>2 DEF AbsRegs, Result, IsEcall
<1>. QED  BY <1>1, <1>3, <1>4 DEF Seen, SeenStatus

LEMMA MemStageIdleUnseen == Known /\ MemStageIdle => UNCHANGED Seen
<1>. SUFFICES ASSUME Known, MemStageIdle PROVE UNCHANGED Seen
  OBVIOUS
<1>1. /\ UNCHANGED <<prog, mem, registers, PC, DReg, EReg, MReg, WReg, status, out>>
      /\ stage = "MemStage" /\ stage' = "Writeback" /\ status = "running"
      /\ MReg.bubble /\ WRegO'.bubble
  BY DEF Known, MemStageIdle, At, Idle, BubblesAndStalls, TypeOK, PipReg, Bubble
<1>2. WRegPending' = WRegPending /\ ~WRegOPending' /\ ~WRegOPending
  BY <1>1 DEF WRegPending, WRegOPending
<1>3. AbsPC' = AbsPC
  BY <1>1 DEF AbsPC, WRegPending, MRegPending, IsEcall
<1>4. AbsRegs' = AbsRegs
  BY <1>1, <1>2 DEF AbsRegs, Result, IsEcall
<1>. QED  BY <1>1, <1>3, <1>4 DEF Seen, SeenStatus

LEMMA WritebackUnseen == Known /\ (Writeback \/ WritebackIdle) => UNCHANGED Seen
<1>. SUFFICES ASSUME Known, Writeback \/ WritebackIdle PROVE UNCHANGED Seen
  OBVIOUS
<1>1. /\ UNCHANGED <<prog, mem, PC, DReg, EReg, MReg, WReg, WRegO, status, out>>
      /\ stage = "Writeback" /\ stage' = "Latch" /\ status = "running"
      /\ WReg.bubble \/ ~IsEcall(WReg)
      /\ registers' = IF WReg.bubble THEN registers ELSE WriteRegisters(registers)
  BY DEF Known, Writeback, WritebackIdle, At, Idle, BubblesAndStalls, IsEcall, latches
<1>2. WRegPending = ~WReg.bubble /\ ~WRegPending' /\ WRegOPending' = WRegOPending
  BY <1>1 DEF WRegPending, WRegOPending, Known, TypeOK, PipReg
<1>3. AbsPC' = AbsPC
  BY <1>1 DEF AbsPC, WRegPending, MRegPending, IsEcall
<1>4. ASSUME NEW r \in Reg
      PROVE  registers'[r] = IF WRegPending THEN Result(WReg, r, registers[r]) ELSE registers[r]
  BY <1>1, <1>2 DEF WriteRegisters, Result
<1>5. AbsRegs' = AbsRegs
  BY <1>1, <1>2, <1>4 DEF AbsRegs, Result, IsEcall
<1>. QED  BY <1>1, <1>3, <1>5 DEF Seen, SeenStatus

\* At the end of a cycle the oldest instruction that has not taken effect is
\* one latch further on.
LEMMA LatchUnseen == Known /\ InStep /\ Latch => UNCHANGED Seen
<1>. SUFFICES ASSUME Known, InStep, Latch PROVE UNCHANGED Seen
  OBVIOUS
<1>1. /\ UNCHANGED <<prog, mem, status, out>> /\ stage = "Latch" /\ stage' = "Fetch"
      /\ MReg' = MRegO /\ WReg' = WRegO /\ predPC' = NextPC /\ status = "running"
      /\ EReg' = Advance(EReg, ERegO) /\ DReg' = Advance(DReg, DRegO)
  BY DEF Known, Latch, At, Advance, BubblesAndStalls, NextPC
<1>2. registers' = registers
  BY ZeroInReg DEF Known, Latch, TypeOK, OperandInv
<1>3. SameInstr(WRegO, MReg)
      /\ (~EcallDone => After(EReg, After(DReg, PC))
            = After(MRegO, After(Advance(EReg, ERegO), After(Advance(DReg, DRegO), NextPC))))
  BY <1>1 DEF InStep
<1>4. AbsPC' = AbsPC
<2>1. CASE EcallDone
  <3>1. ~MReg.bubble /\ IsEcall(MReg) /\ ~WRegO.bubble /\ IsEcall(WRegO) /\ WRegO.addr = MReg.addr
    BY <1>3, <2>1 DEF EcallDone, SameInstr, IsEcall
  <3>2. AbsPC = MReg.addr
    BY <1>1, <3>1 DEF AbsPC, WRegPending, MRegPending
  <3>3. AbsPC' = WRegO.addr
    BY <1>1, <3>1 DEF AbsPC, WRegPending, IsEcall
  <3>. QED  BY <3>1, <3>2, <3>3
<2>2. CASE ~EcallDone
  <3>1. /\ MReg.bubble \/ ~IsEcall(MReg)
        /\ WRegO.bubble \/ ~IsEcall(WRegO)
    BY <1>1, <1>3, <2>2 DEF EcallDone, SameInstr, IsEcall
  <3>2. AbsPC = After(EReg, After(DReg, PC))
    BY <1>1, <3>1 DEF AbsPC, WRegPending, MRegPending, After
  <3>3. AbsPC' = After(MReg', After(EReg', After(DReg', predPC')))
    BY <1>1, <3>1 DEF AbsPC, WRegPending, MRegPending, IsEcall, After
  <3>. QED  BY <1>1, <1>3, <2>2, <3>2, <3>3
<2>. QED  BY <2>1, <2>2
<1>5. AbsRegs' = AbsRegs
<2>1. ~WRegPending /\ WRegOPending = ~WRegO.bubble /\ ~WRegOPending' /\ WRegPending' = ~WRegO.bubble
  BY <1>1 DEF WRegPending, WRegOPending
<2>. QED  BY <1>1, <1>2, <2>1 DEF AbsRegs, Result, IsEcall
<1>. QED  BY <1>1, <1>4, <1>5 DEF Seen, SeenStatus

-----------------------------------------------------------------------------
(* MemStage takes the step of the instruction it handles.                  *)

\* An instruction reaches MemStage as the next one of the sequential machine,
\* with the operands that machine has for it.
LEMMA NextInMemStage ==
  ASSUME Known, InStep, At("MemStage"), ~MReg.bubble
  PROVE  /\ AbsPC = MReg.addr /\ AbsPC \in DOMAIN prog /\ prog[AbsPC] = MReg.instr
         /\ MReg.instr \in Instr /\ Decoded(MReg) /\ (WReg.bubble \/ ~IsEcall(WReg))
         /\ MReg.valA = AbsRegs[SrcA(MReg.instr)] /\ MReg.valB = AbsRegs[SrcB(MReg.instr)]
         /\ MReg.valE = ValE(MReg.instr, AbsPC, AbsRegs[SrcA(MReg.instr)], AbsRegs[SrcB(MReg.instr)])
<1>1. Decoded(MReg) /\ (WReg.bubble \/ ~IsEcall(WReg))
  BY DEF Known, At, BubblesAndStalls, Alone
<1>2. AbsPC = MReg.addr
  BY <1>1 DEF AbsPC, WRegPending, MRegPending, At
<1>3. AbsPC \in DOMAIN prog /\ prog[AbsPC] = MReg.instr
  BY <1>2 DEF Known, OnPath, Held
<1>4. MReg.instr \in Instr
  BY DEF Known, TypeOK, PipReg
<1>. DEFINE a == SrcA(MReg.instr)
            b == SrcB(MReg.instr)
<1>5. a \in Reg /\ b \in Reg
  BY <1>4, DecodedFields
<1>6. OperandBehind(a, MReg.valA, WReg) /\ OperandBehind(b, MReg.valB, WReg)
  BY DEF InStep, At, OperandsBehind
<1>. HIDE DEF a, b
<1>7. ASSUME NEW r \in Reg
      PROVE  AbsRegs[r] = IF From(WReg, r) THEN WReg.valE
                          ELSE IF FromM(WReg, r) THEN WReg.valM ELSE registers[r]
  BY <1>1, <1>7 DEF AbsRegs, Result, WRegPending, WRegOPending, At, From, FromM
<1>8. MReg.valA = AbsRegs[a] /\ MReg.valB = AbsRegs[b]
  BY <1>5, <1>6, <1>7 DEF OperandBehind
<1>9. MReg.valE = ValE(MReg.instr, MReg.addr, MReg.valA, MReg.valB)
  BY DEF InStep, At, Computed
<1>. QED  BY <1>1, <1>2, <1>3, <1>4, <1>8, <1>9 DEF a, b

\* What MemStage makes of the state the program sees.
LEMMA MemStageTakesEffect ==
  ASSUME Known, InStep, MemStage, ~IsEcall(MReg)
  PROVE  /\ AbsPC' = Actual(MReg)
         /\ AbsRegs' = [r \in Reg |-> IF r # ZEROREG /\ r = MReg.dstE THEN MReg.valE
                                      ELSE IF r # ZEROREG /\ r = MReg.dstM THEN MemVal
                                      ELSE AbsRegs[r]]
         /\ SeenStatus = "running" /\ SeenStatus' = "running"
<1>1. /\ ~MReg.bubble /\ stage = "MemStage" /\ stage' = "Writeback" /\ status = "running"
      /\ UNCHANGED <<registers, PC, MReg, WReg, status>>
  BY DEF MemStage, At, Idle
<1>2. /\ WRegO'.bubble = MReg.bubble /\ WRegO'.instr = MReg.instr
      /\ WRegO'.dstE = MReg.dstE /\ WRegO'.dstM = MReg.dstM
      /\ WRegO'.valE = MReg.valE /\ WRegO'.valM = MemVal
      /\ DReg'.bubble = DReg.bubble /\ DReg'.addr = DReg.addr
      /\ EReg'.bubble = EReg.bubble /\ EReg'.addr = EReg.addr
  BY DEF Known, MemStage, TypeOK, PipReg
<1>3. WReg.bubble \/ ~IsEcall(WReg)
  BY <1>1, NextInMemStage DEF At
<1>4. After(EReg, After(DReg, PC)) = Actual(MReg)
  BY <1>1 DEF Known, OnPath
<1>5. AbsPC' = After(EReg', After(DReg', PC'))
  BY <1>1, <1>3 DEF AbsPC, WRegPending, MRegPending, IsEcall, After
<1>6. AbsPC' = Actual(MReg)
  BY <1>1, <1>2, <1>4, <1>5 DEF After
<1>7. WRegPending' = WRegPending /\ ~WRegOPending /\ WRegOPending'
  BY <1>1, <1>2 DEF WRegPending, WRegOPending
<1>8. ASSUME NEW r \in Reg
      PROVE  AbsRegs[r] = IF WRegPending THEN Result(WReg, r, registers[r]) ELSE registers[r]
  BY <1>7, <1>8 DEF AbsRegs
<1>9. AbsRegs' = [r \in Reg |-> Result(WRegO', r, AbsRegs[r])]
<2>1. AbsRegs' = [r \in Reg |-> Result(WRegO', r,
                    IF WRegPending THEN Result(WReg, r, registers[r]) ELSE registers[r])]
  BY <1>1, <1>7 DEF AbsRegs, Result, IsEcall
<2>. QED  BY <1>8, <2>1
<1>10. ASSUME NEW r \in Reg
       PROVE  Result(WRegO', r, AbsRegs[r])
                = IF r # ZEROREG /\ r = MReg.dstE THEN MReg.valE
                  ELSE IF r # ZEROREG /\ r = MReg.dstM THEN MemVal ELSE AbsRegs[r]
  BY <1>2 DEF Result, IsEcall
<1>. QED  BY <1>1, <1>6, <1>9, <1>10 DEF SeenStatus

\* A system call only passes through MemStage.
LEMMA EcallPasses == Known /\ InStep /\ MemStage /\ IsEcall(MReg) => UNCHANGED Seen
<1>. SUFFICES ASSUME Known, InStep, MemStage, IsEcall(MReg) PROVE UNCHANGED Seen
  OBVIOUS
<1>1. /\ ~MReg.bubble /\ stage = "MemStage" /\ stage' = "Writeback" /\ status = "running"
      /\ UNCHANGED <<prog, registers, PC, MReg, WReg, status, out>> /\ mem' = mem
  BY DEF MemStage, At, Idle, IsEcall
<1>2. WRegO'.bubble = MReg.bubble /\ WRegO'.instr = MReg.instr
  BY DEF Known, MemStage, TypeOK, PipReg
<1>3. WReg.bubble \/ ~IsEcall(WReg)
  BY <1>1, NextInMemStage DEF At
<1>4. AbsPC' = AbsPC
  BY <1>1, <1>3 DEF AbsPC, WRegPending, MRegPending, IsEcall
<1>5. WRegPending' = WRegPending /\ ~WRegOPending
  BY <1>1 DEF WRegPending, WRegOPending
<1>6. AbsRegs' = AbsRegs
  BY <1>1, <1>2, <1>5 DEF AbsRegs, Result, IsEcall
<1>. QED  BY <1>1, <1>4, <1>6 DEF Seen, SeenStatus

\* Everything else takes effect there.
LEMMA MemStageSteps == Known /\ InStep /\ MemStage /\ ~IsEcall(MReg) => Prefix!Next
<1>. SUFFICES ASSUME Known, InStep, MemStage, ~IsEcall(MReg) PROVE Prefix!Next
  OBVIOUS
<1>. DEFINE i == MReg.instr
            v == ValE(i, AbsPC, AbsRegs[SrcA(i)], AbsRegs[SrcB(i)])
<1>1. ~MReg.bubble /\ At("MemStage") /\ MemMapped /\ UNCHANGED <<prog, out>>
      /\ mem' = IF i.op = "store" THEN [mem EXCEPT ![v] = AbsRegs[SrcB(i)]] ELSE mem
  BY NextInMemStage DEF MemStage, Idle
<1>2. /\ AbsPC = MReg.addr /\ AbsPC \in DOMAIN prog /\ prog[AbsPC] = i
      /\ i \in Instr /\ Decoded(MReg)
      /\ MReg.valA = AbsRegs[SrcA(i)] /\ MReg.valB = AbsRegs[SrcB(i)]
      /\ MReg.valE = v
  BY <1>1, NextInMemStage
<1>3. /\ AbsPC' = Actual(MReg) /\ SeenStatus = "running" /\ SeenStatus' = "running"
      /\ AbsRegs' = [r \in Reg |-> IF r # ZEROREG /\ r = MReg.dstE THEN MReg.valE
                                   ELSE IF r # ZEROREG /\ r = MReg.dstM THEN MemVal
                                   ELSE AbsRegs[r]]
  BY MemStageTakesEffect
<1>4. i.op \in Legal \ {"ecall"} /\ MReg.dstM = DstM(i) /\ MReg.dstE = DstE(i)
  BY <1>1, <1>2 DEF Decoded, IsEcall
<1>5. /\ AbsPC' = IF i.op = "jalr" THEN Plus(AbsRegs[SrcA(i)], i.imm)
                  ELSE Plus(AbsPC, IF \/ i.op \in SBType /\ AbsRegs[SrcA(i)] = AbsRegs[SrcB(i)]
                                      \/ i.op = "jal" THEN i.imm ELSE 1)
  BY <1>2, <1>3 DEF Actual, IsBranch
<1>6. AbsRegs' = [r \in Reg |-> IF r # ZEROREG /\ r = DstE(i) THEN v
                                ELSE IF r # ZEROREG /\ r = DstM(i) THEN MemVal ELSE AbsRegs[r]]
  BY <1>2, <1>3, <1>4
<1>7. AbsRegs = [r \in Reg |-> AbsRegs[r]]
  BY DEF AbsRegs
<1>8. /\ i.op = "load" => MemVal = mem[v] /\ v \in DataAddr
      /\ i.op = "store" => v \in DataAddr
  BY <1>1, <1>2 DEF MemVal, MemMapped
<1>. HIDE DEF i
<1>9. CASE i.op \in {"alu", "alui", "lui", "nop"}
  <2>1. AbsPC' = Plus(AbsPC, 1) /\ mem' = mem
    BY <1>1, <1>5, <1>9 DEF SBType
  <2>2. DstE(i) = i.rd /\ DstM(i) = ZEROREG
    BY <1>9 DEF DstE, DstM, RType, IType, UType, UJType
  <2>3. AbsRegs' = [r \in Reg |-> IF r = i.rd /\ r # ZEROREG THEN v ELSE AbsRegs[r]]
    BY <1>6, <2>2
  <2>4. /\ i.op = "alu" => v = Plus(AbsRegs[i.rs1], AbsRegs[i.rs2])
        /\ i.op = "alui" => v = Plus(AbsRegs[i.rs1], i.imm)
        /\ i.op = "lui" => v = i.imm
        /\ i.op = "nop" => v = 0
    BY DEF ValE, SrcA, SrcB, RType, IType, SType, SBType
  <2>. HIDE DEF v
  <2>5. Prefix!Compute
    BY <1>1, <1>2, <1>3, <1>9, <2>1, <2>3, <2>4
       DEF Prefix!Compute, Prefix!Runs, Prefix!Current, Prefix!Rs1, Prefix!Rs2, Prefix!SetRd,
           Prefix!FallThrough, Prefix!Jump, Prefix!Plus, Prefix!Reg, Prefix!ZEROREG, SeenStatus,
           Plus, Reg, ZEROREG
  <2>. QED  BY <2>5 DEF Prefix!Next
<1>10. CASE i.op = "load"
  <2>1. AbsPC' = Plus(AbsPC, 1) /\ mem' = mem
    BY <1>1, <1>5, <1>10 DEF SBType
  <2>2. DstM(i) = i.rd /\ DstE(i) = ZEROREG
    BY <1>10 DEF DstE, DstM
  <2>3. AbsRegs' = [r \in Reg |-> IF r = i.rd /\ r # ZEROREG THEN mem[v] ELSE AbsRegs[r]]
    BY <1>6, <1>8, <1>10, <2>2
  <2>4. v = Plus(AbsRegs[i.rs1], i.imm)
    BY <1>10 DEF ValE, SrcA, SrcB, RType, IType, SType, SBType
  <2>. HIDE DEF v
  <2>5. Prefix!Load
    BY <1>1, <1>2, <1>3, <1>8, <1>10, <2>1, <2>3, <2>4
       DEF Prefix!Load, Prefix!Runs, Prefix!Current, Prefix!Rs1, Prefix!EffAddr, Prefix!SetRd,
           Prefix!FallThrough, Prefix!Jump, Prefix!Plus, Prefix!Reg, Prefix!ZEROREG, SeenStatus,
           Plus, Reg, ZEROREG
  <2>. QED  BY <2>5 DEF Prefix!Next
<1>11. CASE i.op = "store"
  <2>1. AbsPC' = Plus(AbsPC, 1) /\ mem' = [mem EXCEPT ![v] = AbsRegs[i.rs2]]
    BY <1>1, <1>5, <1>11 DEF SBType, SrcB, RType, SType
  <2>2. DstM(i) = ZEROREG /\ DstE(i) = ZEROREG
    BY <1>11 DEF DstE, DstM, RType, IType, UType, UJType
  <2>3. AbsRegs' = AbsRegs
    BY <1>6, <1>7, <2>2
  <2>4. v = Plus(AbsRegs[i.rs1], i.imm)
    BY <1>11 DEF ValE, SrcA, SrcB, RType, IType, SType, SBType
  <2>. HIDE DEF v
  <2>5. Prefix!Store
    BY <1>1, <1>2, <1>3, <1>8, <1>11, <2>1, <2>3, <2>4
       DEF Prefix!Store, Prefix!Runs, Prefix!Current, Prefix!Rs1, Prefix!Rs2, Prefix!EffAddr,
           Prefix!FallThrough, Prefix!Jump, Prefix!Plus, SeenStatus, Plus
  <2>. QED  BY <2>5 DEF Prefix!Next
<1>12. CASE i.op = "branch"
  <2>1. mem' = mem
    BY <1>1, <1>12
  <2>2. DstM(i) = ZEROREG /\ DstE(i) = ZEROREG /\ SrcA(i) = i.rs1 /\ SrcB(i) = i.rs2
    BY <1>12 DEF DstE, DstM, SrcA, SrcB, RType, IType, SBType, UType, UJType
  <2>3. AbsRegs' = AbsRegs
    BY <1>6, <1>7, <2>2
  <2>4. AbsPC' = IF AbsRegs[i.rs1] = AbsRegs[i.rs2] THEN Plus(AbsPC, i.imm) ELSE Plus(AbsPC, 1)
    BY <1>5, <1>12, <2>2 DEF SBType
  <2>. HIDE DEF v
  <2>5. Prefix!Branch
    BY <1>1, <1>2, <1>3, <1>12, <2>1, <2>3, <2>4
       DEF Prefix!Branch, Prefix!Runs, Prefix!Current, Prefix!Rs1, Prefix!Rs2,
           Prefix!FallThrough, Prefix!Jump, Prefix!Plus, SeenStatus, Plus
  <2>. QED  BY <2>5 DEF Prefix!Next
<1>13. CASE i.op \in {"jal", "jalr"}
  <2>1. mem' = mem
    BY <1>1, <1>13
  <2>2. DstE(i) = i.rd /\ DstM(i) = ZEROREG /\ (i.op = "jalr" => SrcA(i) = i.rs1)
    BY <1>13 DEF DstE, DstM, SrcA, RType, IType, UType, UJType
  <2>3. AbsPC' = IF i.op = "jal" THEN Plus(AbsPC, i.imm) ELSE Plus(AbsRegs[i.rs1], i.imm)
    BY <1>5, <1>13, <2>2 DEF SBType
  <2>4. v = Plus(AbsPC, 1)
    BY <1>13 DEF ValE
  <2>5. AbsRegs' = [r \in Reg |-> IF r = i.rd /\ r # ZEROREG THEN Plus(AbsPC, 1) ELSE AbsRegs[r]]
    BY <1>6, <2>2, <2>4
  <2>. HIDE DEF v
  <2>6. Prefix!JumpAndLink
    BY <1>1, <1>2, <1>3, <1>13, <2>1, <2>3, <2>5
       DEF Prefix!JumpAndLink, Prefix!Runs, Prefix!Current, Prefix!Rs1, Prefix!EffAddr,
           Prefix!SetRd, Prefix!Jump, Prefix!Plus, Prefix!Reg, Prefix!ZEROREG, SeenStatus,
           Plus, Reg, ZEROREG
  <2>. QED  BY <2>6 DEF Prefix!Next
<1>. QED
  BY <1>4, <1>9, <1>10, <1>11, <1>12, <1>13 DEF Legal, RType, IType, SType, SBType, UType, UJType

\* A fault in MemStage is one of the sequential machine, in the same state.
LEMMA MemFaultSteps == Known /\ InStep /\ MemFault => Prefix!Fault
<1>. SUFFICES ASSUME Known, InStep, MemFault PROVE Prefix!Fault
  OBVIOUS
<1>. DEFINE i == MReg.instr
<1>1. /\ ~MReg.bubble /\ At("MemStage") /\ status = "running" /\ stage = "MemStage"
      /\ i.op \in {"load", "store"} /\ MReg.valE \notin DataAddr
      /\ status' = "aborted" /\ stage' = stage
      /\ UNCHANGED <<prog, mem, registers, PC, predPC, DReg, EReg, MReg, WReg, WRegO, out>>
  BY DEF MemFault, MemMapped, Abort, Idle, At, latches
<1>2. /\ AbsPC = MReg.addr /\ AbsPC \in DOMAIN prog /\ prog[AbsPC] = i
      /\ MReg.valE = ValE(i, AbsPC, AbsRegs[SrcA(i)], AbsRegs[SrcB(i)])
  BY <1>1, NextInMemStage
<1>3. MReg.valE = Plus(AbsRegs[i.rs1], i.imm)
  BY <1>1, <1>2 DEF ValE, SrcA, RType, IType, SType, SBType
<1>4. AbsPC' = AbsPC
  BY <1>1 DEF AbsPC, WRegPending, MRegPending, IsEcall
<1>5. AbsRegs' = AbsRegs
  BY <1>1 DEF AbsRegs, WRegPending, WRegOPending, Result, IsEcall
<1>. HIDE DEF i
<1>. QED
  BY <1>1, <1>2, <1>3, <1>4, <1>5
     DEF Prefix!Fault, Prefix!Faulting, Prefix!Current, Prefix!EffAddr, Prefix!Rs1, Prefix!Plus,
         SeenStatus, Plus

-----------------------------------------------------------------------------
(* Writeback takes the step of a system call.                              *)

\* A system call is the next instruction of the sequential machine.
LEMMA CallIsNext ==
  ASSUME Known, InStep, Syscall
  PROVE  /\ AbsPC \in DOMAIN prog /\ prog[AbsPC].op = "ecall" /\ prog' = prog
         /\ AbsRegs = registers /\ status = "running" /\ SeenStatus = "running"
         /\ SyscallReturns /\ registers' \in [Reg -> Word] =>
              /\ AbsPC' = Plus(AbsPC, 1) /\ AbsRegs' = registers' /\ SeenStatus' = "running"
              /\ mem' = mem
         /\ UNCHANGED <<mem, registers, stage, out>> => UNCHANGED <<mem, AbsPC, AbsRegs, out>>
<1>1. /\ ~WReg.bubble /\ IsEcall(WReg) /\ stage = "Writeback" /\ status = "running"
      /\ UNCHANGED <<prog, PC, DReg, EReg, MReg, WReg, WRegO>>
      /\ DReg.bubble /\ EReg.bubble /\ MReg.bubble /\ WRegO.bubble
      /\ PC = Actual(WReg)
  BY SyscallAlone DEF latches
<1>2. /\ AbsPC = WReg.addr /\ AbsPC \in DOMAIN prog /\ prog[AbsPC].op = "ecall"
      /\ SeenStatus = "running"
  BY <1>1 DEF AbsPC, WRegPending, Known, OnPath, Held, IsEcall, SeenStatus
<1>3. AbsRegs = registers
<2>1. AbsRegs = [r \in Reg |-> registers[r]]
  BY <1>1 DEF AbsRegs, WRegPending, WRegOPending, Result
<2>. QED  BY <2>1 DEF Known, TypeOK
<1>4. PC = Plus(AbsPC, 1)
  BY <1>1, <1>2 DEF Actual, IsEcall, IsBranch, SBType
<1>5. ASSUME SyscallReturns, registers' \in [Reg -> Word]
      PROVE  /\ AbsPC' = Plus(AbsPC, 1) /\ AbsRegs' = registers' /\ SeenStatus' = "running"
             /\ mem' = mem
  <2>1. stage' = "Latch" /\ status' = "running" /\ mem' = mem
    BY <1>1, <1>5 DEF SyscallReturns
  <2>2. AbsPC' = PC
    BY <1>1, <2>1 DEF AbsPC, WRegPending, MRegPending
  <2>3. AbsRegs' = [r \in Reg |-> registers'[r]]
    BY <1>1, <2>1 DEF AbsRegs, WRegPending, WRegOPending
  <2>. QED  BY <1>4, <1>5, <2>1, <2>2, <2>3 DEF SeenStatus
<1>6. ASSUME UNCHANGED <<mem, registers, stage, out>>
       PROVE  UNCHANGED <<mem, AbsPC, AbsRegs, out>>
  <2>1. AbsPC' = AbsPC
    BY <1>1, <1>6 DEF AbsPC, WRegPending, IsEcall
  <2>2. AbsRegs' = [r \in Reg |-> registers'[r]]
    BY <1>1, <1>6 DEF AbsRegs, WRegPending, WRegOPending, Result, IsEcall
  <2>. QED  BY <1>3, <1>6, <2>1, <2>2 DEF Known, TypeOK
<1>. QED  BY <1>1, <1>2, <1>3, <1>5, <1>6

LEMMA PrintStrUnseen == Known /\ InStep /\ SyscallPrintStr => UNCHANGED Seen
<1>. SUFFICES ASSUME Known, InStep, SyscallPrintStr PROVE UNCHANGED Seen
  OBVIOUS
<1>1. UNCHANGED <<mem, registers, stage, out>> /\ stage = "Writeback"
  BY DEF SyscallPrintStr, AtSyscall, At, Abort
<1>2. UNCHANGED <<prog, mem, AbsPC, AbsRegs, out>> /\ SeenStatus = "running"
  BY <1>1, CallIsNext DEF Syscall
<1>3. SeenStatus' = "running"
  BY <1>1 DEF SyscallPrintStr, Abort, SeenStatus
<1>. QED  BY <1>2, <1>3 DEF Seen

LEMMA SyscallSteps == Known /\ InStep /\ Syscall /\ ~SyscallPrintStr => Prefix!Ecall
<1>. SUFFICES ASSUME Known, InStep, Syscall, ~SyscallPrintStr PROVE Prefix!Ecall
  OBVIOUS
<1>1. /\ AbsPC \in DOMAIN prog /\ prog[AbsPC].op = "ecall" /\ prog' = prog
      /\ AbsRegs = registers /\ status = "running" /\ SeenStatus = "running"
      /\ registers \in [Reg -> Word]
  BY CallIsNext DEF Known, TypeOK
<1>2. ASSUME SyscallReturns, registers' \in [Reg -> Word]
      PROVE  /\ AbsPC' = Plus(AbsPC, 1) /\ AbsRegs' = registers' /\ SeenStatus' = "running"
             /\ mem' = mem
  BY <1>2, CallIsNext
<1>3. CASE SyscallPrint
  <2>1. /\ registers[A7] = SYS_PRINT /\ out' = registers[A0] /\ SyscallReturns /\ registers' = registers
    BY <1>3 DEF SyscallPrint
  <2>2. AbsPC' = Plus(AbsPC, 1) /\ AbsRegs' = AbsRegs /\ SeenStatus' = "running" /\ mem' = mem
    BY <1>1, <1>2, <2>1
  <2>. QED
    BY <1>1, <2>1, <2>2
       DEF Prefix!Ecall, Prefix!Runs, Prefix!Current, Prefix!FallThrough, Prefix!Jump, Prefix!Plus, Plus
<1>4. CASE SyscallScanInt
  <2>1. registers[A7] = SYS_SCANINT /\ SyscallReturns /\ out' = out
    BY <1>4 DEF SyscallScanInt
  <2>2. PICK x \in Word : registers' = [registers EXCEPT ![A0] = x]
    BY <1>4 DEF SyscallScanInt
  <2>3. AbsPC' = Plus(AbsPC, 1) /\ AbsRegs' = [AbsRegs EXCEPT ![A0] = x]
        /\ SeenStatus' = "running" /\ mem' = mem
    BY <1>1, <1>2, <2>1, <2>2
  <2>. QED
    BY <1>1, <2>1, <2>3
       DEF Prefix!Ecall, Prefix!Runs, Prefix!Current, Prefix!FallThrough, Prefix!Jump, Prefix!Plus,
           Prefix!Word, Plus, Word
<1>5. CASE SyscallUnknown
  <2>1. /\ registers[A7] \notin {SYS_PRINT, SYS_PRINTSTR, SYS_SCANINT, SYS_EXIT}
        /\ SyscallReturns /\ out' = out /\ registers' = registers
    BY <1>5 DEF SyscallUnknown
  <2>2. AbsPC' = Plus(AbsPC, 1) /\ AbsRegs' = AbsRegs /\ SeenStatus' = "running" /\ mem' = mem
    BY <1>1, <1>2, <2>1
  <2>. QED
    BY <1>1, <2>1, <2>2
       DEF Prefix!Ecall, Prefix!Runs, Prefix!Current, Prefix!FallThrough, Prefix!Jump, Prefix!Plus, Plus
<1>6. CASE SyscallExit
  <2>1. registers[A7] = SYS_EXIT /\ SeenStatus' = "halted" /\ UNCHANGED <<mem, registers, stage, out>>
    BY <1>6 DEF SyscallExit, SeenStatus
  <2>2. UNCHANGED <<mem, AbsPC, AbsRegs, out>>
    BY <2>1, CallIsNext
  <2>. QED
    BY <1>1, <2>1, <2>2 DEF Prefix!Ecall, Prefix!Runs, Prefix!Current
<1>. QED  BY <1>3, <1>4, <1>5, <1>6 DEF Syscall

-----------------------------------------------------------------------------
\* An abort in Fetch or Decode is not seen: what is in front of it may not have
\* taken effect yet.
LEMMA FaultUnseen == FetchFault \/ DecodeFault \/ UNCHANGED vars => UNCHANGED Seen
<1>. SUFFICES ASSUME FetchFault \/ DecodeFault \/ UNCHANGED vars PROVE UNCHANGED Seen
  OBVIOUS
<1>1. UNCHANGED <<prog, mem, registers, stage, PC, predPC, DReg, EReg, MReg, WReg, WRegO, out>>
  BY DEF FetchFault, DecodeFault, Abort, vars, latches
<1>2. SeenStatus' = SeenStatus
  BY DEF FetchFault, DecodeFault, Abort, At, vars, SeenStatus
<1>3. AbsPC' = AbsPC
  BY <1>1 DEF AbsPC, WRegPending, MRegPending, IsEcall
<1>4. AbsRegs' = AbsRegs
  BY <1>1 DEF AbsRegs, WRegPending, WRegOPending, Result, IsEcall
<1>. QED  BY <1>1, <1>2, <1>3, <1>4 DEF Seen

\* Every step of the pipeline is one of the sequential machine or none.
LEMMA StepsAsISA == Known /\ InStep /\ [Next]_vars => [Prefix!Next]_(Prefix!vars)
<1>1. Known /\ InStep /\ [Next]_vars => Prefix!Next \/ UNCHANGED Seen
  BY FetchUnseen, ExecuteUnseen, MemStageIdleUnseen, WritebackUnseen, LatchUnseen, EcallPasses,
     MemStageSteps, MemFaultSteps, PrintStrUnseen, SyscallSteps, FaultUnseen
     DEF Next, Ended, Prefix!Next
<1>2. UNCHANGED Seen => UNCHANGED Prefix!vars
  BY DEF Prefix!vars, Seen, SeenStatus
<1>. QED  BY <1>1, <1>2

\* In a program that clobbers no load all this holds from the start.
LEMMA InStepCorrect == Spec /\ ~Clobbered(prog) => [](Known /\ InStep)
<1>1. Init /\ ~Clobbered(prog) => OperandInv /\ InStep /\ ~Clobbered(prog)
  BY OperandInit, InStepInit
<1>2. /\ TypeOK /\ BubblesAndStalls /\ OnPath
      /\ OperandInv /\ InStep /\ ~Clobbered(prog) /\ [Next]_vars
      => (OperandInv /\ InStep /\ ~Clobbered(prog))'
  <2>1. [Next]_vars => (Clobbered(prog)' <=> Clobbered(prog))
    BY ProgIsConstant DEF Clobbered, Clobbers
  <2>. QED  BY <2>1, OperandNext, InStepNext DEF Known
<1>3. TypeOK /\ BubblesAndStalls /\ OnPath /\ OperandInv => Known
  BY DEF Known
<1>. QED
  BY <1>1, <1>2, <1>3, TypeCorrect, BubblesCorrect, PathCorrect, PTL DEF Spec

(* Whatever is in flight, predicted, forwarded, stalled or squashed, the   *)
(* program sees registers, memory, output and control flow of a machine    *)
(* that executes one instruction after the other, for every program in     *)
(* which no load is overwritten unread by the instruction behind it; and   *)
(* when the simulation aborts it has executed a prefix of what that        *)
(* machine does (all of Machine::Run).                                     *)
THEOREM PrefixCorrect == Spec /\ ~Clobbered(prog) => AbortsInAnISAState
<1>1. Init => Prefix!Init
  BY StartsAsISA
<1>2. Known /\ InStep /\ [Next]_vars => [Prefix!Next]_(Prefix!vars)
  BY StepsAsISA
<1>. QED  BY <1>1, <1>2, InStepCorrect, PTL DEF Spec, AbortsInAnISAState

=============================================================================
