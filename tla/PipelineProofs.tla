---------------------------- MODULE PipelineProofs ----------------------------
(***************************************************************************)
(* Theorems about the pipeline for every program, memory, number of        *)
(* registers and content of the uninitialised latches. Each invariant is   *)
(* proved stage by stage: one lemma for each action or group of actions of *)
(* Next, then the step, then the temporal theorem. TypeOK comes first; the *)
(* inductive invariant BubblesAndStalls and then PredictionCurrent rest on *)
(* it.                                                                     *)
(*                                                                         *)
(* The second half is about which instructions are in flight, and with     *)
(* which operands: the latches hold successive instructions of the         *)
(* program, so a load that has its result overwritten is seen in the       *)
(* program, and an instruction of a program without one enters Execute     *)
(* with current operands.                                                  *)
(***************************************************************************)
EXTENDS PipelineProps, TLAPS

-----------------------------------------------------------------------------
(* Types.                                                                  *)

\* Sums stay in the machine's width.
LEMMA PlusInWord == \A x, y \in Nat : Plus(x, y) \in Word
  BY WORDAssumption, SMT DEF Plus, Word

\* The constants and sums that Execute computes with are words.
LEMMA PlusTyped == 0 \in Word /\ 1 \in Word /\ \A x, y \in Word : Plus(x, y) \in Word
  BY PlusInWord, WORDAssumption DEF Word

\* Making a bubble of a latch keeps its type.
LEMMA BubbleTyped == ASSUME NEW r \in PipReg PROVE Bubble(r) \in PipReg
  BY DEF Bubble, PipReg

\* The zero register is a register.
LEMMA ZeroInReg == ZEROREG \in Reg
  BY NREGAssumption DEF Reg, ZEROREG

\* Decode's source and destination fields name registers.
LEMMA DecodedFields ==
  ASSUME NEW i \in Instr
  PROVE  SrcA(i) \in Reg /\ SrcB(i) \in Reg /\ DstE(i) \in Reg /\ DstM(i) \in Reg
  BY ZeroInReg DEF Instr, SrcA, SrcB, DstE, DstM

\* Execute's switch yields a word.
LEMMA ValETyped ==
  ASSUME NEW i \in Instr, NEW a \in Word, NEW x \in Word, NEW y \in Word
  PROVE  ValE(i, a, x, y) \in Word
<1>1. i.imm \in Word
  BY DEF Instr
<1>2. 0 \in Word /\ 1 \in Word
  BY PlusTyped
<1>3. Plus(x, y) \in Word /\ Plus(x, i.imm) \in Word /\ Plus(a, 1) \in Word
  BY <1>1, PlusTyped
<1>. QED  BY <1>1, <1>2, <1>3 DEF ValE

\* The predictor's constructor yields a predictor state.
LEMMA PredInitTyped == PredInit \in PredState
<1>1. 0 \in Counter /\ 0 \in 0 .. 2*HISTMODES-1
  BY HISTMODESAssumption DEF Counter
<1>. QED  BY <1>1 DEF PredInit, PredState

\* The initial states are well typed, whatever is in the latches.
LEMMA TypeInit == Init => TypeOK
<1>. SUFFICES ASSUME Init PROVE TypeOK
  OBVIOUS
<1>1. IsProgram(prog)
  BY ProgramsAssumption DEF Init
<1>2. mem \in [DataAddr -> Word]
  BY MemoriesAssumption DEF Init
<1>3. 0 \in Word
  BY WORDAssumption DEF Word
<1>4. registers \in [Reg -> Word] /\ PC \in Word /\ predPC \in Word /\ out \in Word
  BY <1>3, EntryAssumption DEF Init
<1>5. \A r \in Bubbles : r \in PipReg
  BY JunkAssumption, BubbleTyped DEF Bubbles
<1>6. /\ DReg \in PipReg /\ DRegO \in PipReg /\ EReg \in PipReg /\ ERegO \in PipReg
      /\ MReg \in PipReg /\ MRegO \in PipReg /\ WReg \in PipReg /\ WRegO \in PipReg
  BY <1>5, JunkAssumption DEF Init
<1>7. predScm \in Scheme /\ MyPred \in PredState
  BY SchemesAssumption, PredInitTyped DEF Init
<1>. QED
  BY <1>1, <1>2, <1>4, <1>6, <1>7 DEF Init, TypeOK, Stage, Status

\* A record stays a latch when a field is replaced by a value of its type.
LEMMA FetchTyped ==
  ASSUME NEW r \in PipReg, NEW a \in Word, NEW i \in Instr, NEW p \in BOOLEAN
  PROVE  [r EXCEPT !.addr = a, !.instr = i, !.predJ = p,
                   !.bubble = FALSE, !.stall = FALSE] \in PipReg
  BY DEF PipReg

\* So it does with the fields Decode replaces.
LEMMA DecodeTyped ==
  ASSUME NEW r \in PipReg, NEW sA \in Reg, NEW vA \in Word, NEW sB \in Reg, NEW vB \in Word,
         NEW dE \in Reg, NEW dM \in Reg
  PROVE  [r EXCEPT !.srcA = sA, !.valA = vA, !.srcB = sB, !.valB = vB,
                   !.dstE = dE, !.dstM = dM] \in PipReg
  BY DEF PipReg

\* And with those Execute, MemStage and Writeback replace.
LEMMA FlagsTyped ==
  ASSUME NEW r \in PipReg, NEW b \in BOOLEAN, NEW st \in BOOLEAN, NEW vA \in Word, NEW vB \in Word
  PROVE  /\ [r EXCEPT !.bubble = b] \in PipReg
         /\ [r EXCEPT !.stall = st] \in PipReg
         /\ [r EXCEPT !.bubble = b, !.stall = st] \in PipReg
         /\ [r EXCEPT !.valA = vA, !.valB = vB] \in PipReg
         /\ [r EXCEPT !.bubble = b, !.valA = vA, !.valB = vB] \in PipReg
         /\ [r EXCEPT !.valE = vA] \in PipReg
         /\ [r EXCEPT !.valM = vA] \in PipReg
  BY DEF PipReg

\* Training keeps a counter within two bits.
LEMMA TrainTyped == \A tb \in Counter, success \in BOOLEAN : Train(tb, success) \in Counter
  BY DEF Train, Counter

\* Every address has an entry of the predictor.
LEMMA BufIDTyped == \A addr \in Nat : BufID(addr) \in Entry
  BY BUFNUMAssumption, SMT DEF BufID, Entry

\* A masked history selects a counter.
LEMMA MaskHisTyped == \A his \in Nat : MaskHis(his) \in Mode
  BY HISTMODESAssumption, SMT DEF MaskHis, Mode

\* A prediction is taken or not taken.
LEMMA PredictTyped ==
  ASSUME NEW scm \in Scheme, NEW p, NEW addr
  PROVE  Predict(scm, p, addr) \in BOOLEAN
<1>1. \A tb : TwoBitChoose(tb) \in BOOLEAN
  BY DEF TwoBitChoose
<1>2. CASE scm = "AlwaysTaken"
  BY <1>2 DEF Predict
<1>3. CASE scm = "AlwaysNotTaken"
  BY <1>3 DEF Predict
<1>4. CASE scm = "Bimodal"
  BY <1>1, <1>4 DEF Predict
<1>5. CASE scm = "SelfAdj"
  BY <1>1, <1>5 DEF Predict
<1>. QED  BY <1>2, <1>3, <1>4, <1>5 DEF Scheme

\* update() keeps the predictor well formed.
LEMMA UpdateTyped ==
  ASSUME NEW scm \in Scheme, NEW p \in PredState, NEW success \in BOOLEAN, NEW addr \in Word
  PROVE  Update(scm, p, success, addr) \in PredState
<1>. DEFINE e    == BufID(addr)
            mode == MaskHis(p.saHis[e])
            jump == LastJump(success, TwoBitChoose(p.saBuf[e][mode]))
<1>1. e \in Entry
  BY BufIDTyped DEF Word
<1>2. p.saHis[e] \in Nat /\ mode \in Mode
  BY <1>1, MaskHisTyped, HISTMODESAssumption DEF PredState
<1>3. Train(p.bitBuf[e], success) \in Counter /\ Train(p.saBuf[e][mode], success) \in Counter
  BY <1>1, <1>2, TrainTyped DEF PredState
<1>4. 2 * mode + (IF jump THEN 1 ELSE 0) \in 0 .. 2*HISTMODES-1
  BY <1>2, HISTMODESAssumption DEF Mode
<1>. HIDE DEF e, mode, jump
<1>5. [p EXCEPT !.bitBuf[e] = Train(@, success)] \in PredState
  BY <1>1, <1>3 DEF PredState
<1>6. [p EXCEPT !.saHis[e] = 2 * mode + (IF jump THEN 1 ELSE 0),
                !.saBuf[e][mode] = Train(@, success)] \in PredState
  BY <1>1, <1>2, <1>3, <1>4 DEF PredState
<1>7. \/ Update(scm, p, success, addr) = [p EXCEPT !.bitBuf[e] = Train(@, success)]
      \/ Update(scm, p, success, addr) = [p EXCEPT !.saHis[e] = 2 * mode + (IF jump THEN 1 ELSE 0),
                                                   !.saBuf[e][mode] = Train(@, success)]
      \/ Update(scm, p, success, addr) = p
  BY DEF Update, e, mode, jump
<1>. QED  BY <1>5, <1>6, <1>7

-----------------------------------------------------------------------------
\* Fetch keeps the types.
LEMMA TypeFetch == TypeOK /\ Fetch => TypeOK'
<1>. SUFFICES ASSUME TypeOK, Fetch PROVE TypeOK'
  OBVIOUS
<1>. DEFINE instr  == prog[predPC]
            branch == instr.op \in SBType
            taken  == branch /\ Predict(predScm, MyPred, predPC)
<1>1. predPC \in Word /\ instr \in Instr /\ instr.imm \in Word /\ DRegO \in PipReg
  BY DEF TypeOK, Fetch, IsProgram, Instr
<1>2. predPC' \in Word
<2>1. predPC' = Plus(predPC, instr.imm) \/ predPC' = Plus(predPC, 1)
  BY DEF Fetch
<2>. QED  BY <2>1, <1>1, PlusTyped
<1>3. taken \in BOOLEAN
  BY PredictTyped DEF TypeOK
<1>4. (IF branch THEN taken ELSE DRegO.predJ) \in BOOLEAN
  BY <1>1, <1>3 DEF PipReg
<1>5. DRegO' = [DRegO EXCEPT !.addr = predPC, !.instr = instr,
                             !.predJ = IF branch THEN taken ELSE DRegO.predJ,
                             !.bubble = FALSE, !.stall = FALSE]
  BY <1>1 DEF Fetch, PipReg
<1>. HIDE DEF instr, branch, taken
<1>6. DRegO' \in PipReg
  BY <1>1, <1>4, <1>5, FetchTyped
<1>. QED  BY <1>1, <1>2, <1>6 DEF TypeOK, Fetch, Stage

\* Decode keeps the types.
LEMMA TypeDecode == TypeOK /\ (Decode \/ DecodeIdle) => TypeOK'
<1>1. ASSUME TypeOK, DecodeIdle PROVE TypeOK'
  BY <1>1, BubbleTyped DEF TypeOK, DecodeIdle, Stage
<1>2. ASSUME TypeOK, Decode PROVE TypeOK'
<2>. DEFINE i == DReg.instr
<2>1. i \in Instr /\ DReg \in PipReg
  BY <1>2 DEF TypeOK, PipReg
<2>2. SrcA(i) \in Reg /\ SrcB(i) \in Reg /\ DstE(i) \in Reg /\ DstM(i) \in Reg
  BY <2>1, DecodedFields
<2>3. registers[SrcA(i)] \in Word /\ registers[SrcB(i)] \in Word
  BY <1>2, <2>2 DEF TypeOK
<2>4. ERegO' = [DReg EXCEPT !.srcA = SrcA(i), !.valA = registers[SrcA(i)],
                            !.srcB = SrcB(i), !.valB = registers[SrcB(i)],
                            !.dstE = DstE(i), !.dstM = DstM(i)]
  BY <1>2 DEF Decode
<2>5. DRegO' = [DRegO EXCEPT !.bubble = DRegO.bubble \/ i.op = "ecall"]
      /\ FStall' = (FStall \/ i.op = "ecall") /\ DRegO.bubble \in BOOLEAN
  BY <1>2 DEF Decode, TypeOK, PipReg
<2>. HIDE DEF i
<2>6. ERegO' \in PipReg
  BY <2>1, <2>2, <2>3, <2>4, DecodeTyped
<2>7. DRegO' \in PipReg /\ FStall' \in BOOLEAN
  BY <1>2, <2>5, FlagsTyped DEF TypeOK
<2>. QED  BY <1>2, <2>6, <2>7 DEF TypeOK, Decode, Stage
<1>. QED  BY <1>1, <1>2

\* Execute of a bubble or a stalled latch keeps the types.
LEMMA TypeExecuteIdle == TypeOK /\ ExecuteIdle => TypeOK'
  BY BubbleTyped DEF TypeOK, ExecuteIdle, Stage

\* Execute keeps the types.
LEMMA TypeExecute == TypeOK /\ Execute => TypeOK'
<1>. SUFFICES ASSUME TypeOK, Execute PROVE TypeOK'
  OBVIOUS
<1>1. EReg \in PipReg /\ ERegO \in PipReg /\ DReg \in PipReg /\ DRegO \in PipReg
  BY DEF TypeOK
<1>2. /\ EReg.instr \in Instr /\ EReg.addr \in Word /\ EReg.valA \in Word /\ EReg.valB \in Word
      /\ ERegO.valA \in Word /\ ERegO.valB \in Word /\ EReg.predJ \in BOOLEAN
      /\ ERegO.bubble \in BOOLEAN /\ DReg.bubble \in BOOLEAN /\ DReg.stall \in BOOLEAN
      /\ DRegO.bubble \in BOOLEAN /\ EReg.instr.imm \in Word
  BY <1>1 DEF PipReg, Instr
<1>3. ExVal \in Word
  BY <1>2, ValETyped DEF ExVal
<1>4. Redirect \in Word
<2>1. ExTarget \in Word
  BY <1>2, PlusTyped DEF ExTarget
<2>2. Plus(EReg.addr, 1) \in Word
  BY <1>2, PlusTyped
<2>. QED  BY <2>1, <2>2 DEF Redirect
<1>5. /\ Flush \in BOOLEAN /\ LoadUse \in BOOLEAN /\ Hold \in BOOLEAN /\ Dropped \in BOOLEAN
      /\ Mispredicted \in BOOLEAN /\ \A src : ExForwards(src) \in BOOLEAN
  BY DEF Flush, LoadUse, Hold, Dropped, Mispredicted, ExForwards
<1>6. predPC' \in Word /\ FStall' \in BOOLEAN
  BY <1>4, <1>5 DEF Execute, TypeOK
<1>7. DRegO' \in PipReg /\ DReg' \in PipReg
  BY <1>1, <1>2, <1>5, FlagsTyped DEF Execute
<1>8. ERegO' \in PipReg
<2>. DEFINE vA == IF ExForwards(ERegO.srcA) THEN ExVal ELSE ERegO.valA
            vB == IF ExForwards(ERegO.srcB) THEN ExVal ELSE ERegO.valB
            b  == ERegO.bubble \/ Dropped
<2>1. vA \in Word /\ vB \in Word /\ b \in BOOLEAN
  BY <1>2, <1>3, <1>5
<2>2. ERegO' = [ERegO EXCEPT !.bubble = b, !.valA = vA, !.valB = vB]
  BY DEF Execute
<2>. HIDE DEF vA, vB, b
<2>. QED  BY <1>1, <2>1, <2>2, FlagsTyped
<1>9. forwardA' \in BOOLEAN /\ forwardB' \in BOOLEAN
  BY <1>5 DEF Execute, TypeOK
<1>10. MyPred' \in PredState
<2>1. MyPred' = Update(predScm, MyPred, ~Mispredicted, EReg.addr) \/ MyPred' = MyPred
  BY DEF Execute
<2>. QED  BY <1>2, <1>5, <2>1, UpdateTyped DEF TypeOK
<1>11. MRegO' \in PipReg
  BY <1>1, <1>3, FlagsTyped DEF Execute
<1>. QED
  BY <1>6, <1>7, <1>8, <1>9, <1>10, <1>11 DEF TypeOK, Execute, Stage

\* MemStage of a bubble or a stalled latch keeps the types.
LEMMA TypeMemStageIdle == TypeOK /\ MemStageIdle => TypeOK'
  BY BubbleTyped DEF TypeOK, MemStageIdle, Stage

\* MemStage keeps the types.
LEMMA TypeMemStage == TypeOK /\ MemStage => TypeOK'
<1>. SUFFICES ASSUME TypeOK, MemStage PROVE TypeOK'
  OBVIOUS
<1>1. /\ MReg \in PipReg /\ ERegO \in PipReg /\ DReg \in PipReg /\ EReg \in PipReg
      /\ MRegO \in PipReg
  BY DEF TypeOK
<1>2. /\ MReg.valE \in Word /\ MReg.valB \in Word /\ ERegO.valA \in Word /\ ERegO.valB \in Word
      /\ DReg.stall \in BOOLEAN /\ EReg.stall \in BOOLEAN /\ MRegO.bubble \in BOOLEAN
  BY <1>1 DEF PipReg
<1>3. MemVal \in Word
<2>1. 0 \in Word
  BY WORDAssumption DEF Word
<2>. QED  BY <2>1 DEF MemVal, MemStage, MemMapped, TypeOK
<1>4. mem' \in [DataAddr -> Word]
  BY <1>2 DEF MemStage, TypeOK
<1>5. ERegO' \in PipReg
<2>. DEFINE vA == MemForwarded(ERegO.srcA, ERegO.valA, forwardA)
            vB == MemForwarded(ERegO.srcB, ERegO.valB, forwardB)
<2>1. vA \in Word /\ vB \in Word
  BY <1>2, <1>3 DEF MemForwarded
<2>2. ERegO' = [ERegO EXCEPT !.valA = vA, !.valB = vB]
  BY DEF MemStage
<2>. HIDE DEF vA, vB
<2>. QED  BY <1>1, <2>1, <2>2, FlagsTyped
<1>6. forwardA' \in BOOLEAN /\ forwardB' \in BOOLEAN
  BY DEF MemStage, TypeOK
<1>7. FStall' \in BOOLEAN /\ DReg' \in PipReg /\ EReg' \in PipReg /\ MRegO' \in PipReg
  BY <1>1, <1>2, FlagsTyped DEF MemStage, TypeOK
<1>8. WRegO' \in PipReg
  BY <1>1, <1>3, FlagsTyped DEF MemStage
<1>. QED
  BY <1>4, <1>5, <1>6, <1>7, <1>8 DEF TypeOK, MemStage, Stage

\* Writeback keeps the types.
LEMMA TypeWriteback == TypeOK /\ Writeback => TypeOK'
<1>. SUFFICES ASSUME TypeOK, Writeback PROVE TypeOK'
  OBVIOUS
<1>1. /\ WReg.valE \in Word /\ WReg.valM \in Word
      /\ ERegO.valA \in Word /\ ERegO.valB \in Word /\ ERegO \in PipReg
  BY DEF TypeOK, PipReg
<1>2. registers' \in [Reg -> Word]
  BY <1>1 DEF Writeback, WriteRegisters, TypeOK
<1>3. ERegO' \in PipReg
<2>. DEFINE vA == WbForwarded(ERegO.srcA, ERegO.valA, forwardA)
            vB == WbForwarded(ERegO.srcB, ERegO.valB, forwardB)
<2>1. vA \in Word /\ vB \in Word
  BY <1>1 DEF WbForwarded
<2>2. ERegO' = [ERegO EXCEPT !.valA = vA, !.valB = vB]
  BY DEF Writeback
<2>. HIDE DEF vA, vB
<2>. QED  BY <1>1, <2>1, <2>2, FlagsTyped
<1>. QED  BY <1>2, <1>3 DEF TypeOK, Writeback, Stage

\* A system call keeps the types.
LEMMA TypeSyscall == TypeOK /\ Syscall => TypeOK'
<1>. SUFFICES ASSUME TypeOK, Syscall PROVE TypeOK'
  OBVIOUS
<1>1. CASE SyscallPrint
<2>1. out' \in Word
  BY <1>1, RegistersAssumption DEF SyscallPrint, TypeOK
<2>. QED  BY <1>1, <2>1 DEF TypeOK, SyscallPrint, SyscallReturns, latches, Stage
<1>2. CASE SyscallPrintStr
  BY <1>2 DEF TypeOK, SyscallPrintStr, Abort, latches, Status
<1>3. CASE SyscallScanInt
<2>1. registers' \in [Reg -> Word]
  BY <1>3, RegistersAssumption DEF SyscallScanInt, TypeOK
<2>. QED  BY <1>3, <2>1 DEF TypeOK, SyscallScanInt, SyscallReturns, latches, Stage
<1>4. CASE SyscallUnknown
  BY <1>4 DEF TypeOK, SyscallUnknown, SyscallReturns, latches, Stage
<1>5. CASE SyscallExit
  BY <1>5 DEF TypeOK, SyscallExit, latches, Status
<1>. QED  BY <1>1, <1>2, <1>3, <1>4, <1>5 DEF Syscall

\* The end of the loop body keeps the types.
LEMMA TypeLatch == TypeOK /\ Latch => TypeOK'
<1>. SUFFICES ASSUME TypeOK, Latch PROVE TypeOK'
  OBVIOUS
<1>1. ASSUME NEW r \in PipReg, NEW o \in PipReg PROVE Advance(r, o) \in PipReg
  BY PlusTyped, FlagsTyped DEF Advance
<1>2. DReg' \in PipReg /\ EReg' \in PipReg /\ MReg' \in PipReg /\ WReg' \in PipReg
  BY <1>1 DEF Latch, TypeOK
<1>3. registers' \in [Reg -> Word]
<2>1. 0 \in Word
  BY WORDAssumption DEF Word
<2>. QED  BY <2>1 DEF Latch, TypeOK
<1>. QED  BY <1>2, <1>3 DEF TypeOK, Latch, Stage

\* An abort keeps the types.
LEMMA TypeAbort == TypeOK /\ Abort => TypeOK'
  BY DEF TypeOK, Abort, latches, Status

\* Every step keeps every latch, register and predictor entry well formed.
LEMMA TypeNext == TypeOK /\ [Next]_vars => TypeOK'
<1>. SUFFICES ASSUME TypeOK, [Next]_vars PROVE TypeOK'
  OBVIOUS
<1>1. CASE UNCHANGED vars
  BY <1>1 DEF TypeOK, vars, latches
<1>2. CASE WritebackIdle
  BY <1>2 DEF TypeOK, WritebackIdle, latches, Stage
<1>3. CASE FetchFault \/ DecodeFault \/ MemFault
  BY <1>3, TypeAbort DEF FetchFault, DecodeFault, MemFault
<1>. QED
  BY <1>1, <1>2, <1>3, TypeFetch, TypeDecode, TypeExecuteIdle, TypeExecute, TypeMemStageIdle,
     TypeMemStage, TypeWriteback, TypeSyscall, TypeLatch DEF Next, Ended

(* The values in the latches, the register file and the predictor keep     *)
(* their types in every reachable state (TypeOK, all stages of Machine).   *)
THEOREM TypeCorrect == Spec => []TypeOK
  BY TypeInit, TypeNext, PTL DEF Spec

-----------------------------------------------------------------------------
(* Bubbles and stalls.                                                     *)

\* Run starts with bubbles everywhere and no stall.
LEMMA InitBubbles == Init => BubblesAndStalls
<1>1. ASSUME NEW r \in Bubbles PROVE r.bubble /\ ~r.stall
  BY JunkAssumption DEF Bubbles, Bubble, PipReg
<1>. QED
  BY <1>1 DEF Init, BubblesAndStalls, Serial, SerialFront, Decoded, Alone

\* Fetch keeps BubblesAndStalls.
LEMMA BubblesFetch == TypeOK /\ BubblesAndStalls /\ Fetch => BubblesAndStalls'
<1>. SUFFICES ASSUME TypeOK, BubblesAndStalls, Fetch PROVE BubblesAndStalls'
  OBVIOUS
<1>1. ~DRegO'.bubble /\ ~DRegO'.stall
  BY DEF Fetch, TypeOK, PipReg
<1>. QED
  BY <1>1 DEF BubblesAndStalls, Fetch, At, SerialFront, Decoded, Alone, IsEcall

\* Decode keeps BubblesAndStalls: it asks for a bubble behind a system call.
LEMMA BubblesDecode == TypeOK /\ BubblesAndStalls /\ (Decode \/ DecodeIdle) => BubblesAndStalls'
<1>1. ASSUME TypeOK, BubblesAndStalls, DecodeIdle PROVE BubblesAndStalls'
<2>1. ERegO'.bubble /\ ~ERegO'.stall /\ DReg.bubble
  BY <1>1 DEF DecodeIdle, Idle, Bubble, TypeOK, PipReg, BubblesAndStalls, At
<2>. QED
  BY <1>1, <2>1 DEF BubblesAndStalls, DecodeIdle, At, SerialFront, Decoded, Alone, IsEcall
<1>2. ASSUME TypeOK, BubblesAndStalls, Decode PROVE BubblesAndStalls'
<2>1. /\ ERegO'.instr = DReg.instr /\ ~ERegO'.bubble /\ ~ERegO'.stall
      /\ ERegO'.dstE = DstE(DReg.instr) /\ ERegO'.dstM = DstM(DReg.instr)
  BY <1>2 DEF Decode, TypeOK, PipReg, Idle
<2>2. ~DReg.bubble /\ DReg.instr.op \in Legal /\ ~DRegO.bubble /\ ~DRegO.stall
  BY <1>2 DEF Decode, Idle, BubblesAndStalls, At
<2>3. (DRegO'.bubble <=> DReg.instr.op = "ecall") /\ ~DRegO'.stall
  BY <1>2, <2>2 DEF Decode, TypeOK, PipReg
<2>. QED
  BY <1>2, <2>1, <2>2, <2>3
     DEF BubblesAndStalls, Decode, At, SerialFront, Decoded, Alone, IsEcall
<1>. QED  BY <1>1, <1>2

\* Execute of a bubble keeps BubblesAndStalls.
LEMMA BubblesExecuteIdle == TypeOK /\ BubblesAndStalls /\ ExecuteIdle => BubblesAndStalls'
<1>. SUFFICES ASSUME TypeOK, BubblesAndStalls, ExecuteIdle PROVE BubblesAndStalls'
  OBVIOUS
<1>1. MRegO'.bubble /\ ~MRegO'.stall /\ EReg.bubble
  BY DEF ExecuteIdle, Idle, Bubble, TypeOK, PipReg, BubblesAndStalls, At
<1>2. Advance(DReg, DRegO) = DRegO
  BY DEF Advance, BubblesAndStalls, ExecuteIdle, At
<1>. QED
  BY <1>1, <1>2 DEF BubblesAndStalls, ExecuteIdle, At, SerialFront, Decoded, Alone, IsEcall

\* A load in Execute has an instruction behind it, and neither a jalr, a branch
\* nor a system call loads.
LEMMA LoadUseFacts ==
  ASSUME TypeOK, BubblesAndStalls, At("Execute"), ~Idle(EReg), LoadUse
  PROVE  ~DReg.bubble /\ ~Flush /\ ~IsEcall(EReg)
<1>1. EReg.instr.op = "load"
  BY DEF LoadUse, BubblesAndStalls, At, Idle, SerialFront, Decoded, DstM, ZEROREG
<1>. QED
  BY <1>1 DEF BubblesAndStalls, At, Idle, SerialFront, IsEcall, Flush, Mispredicted, SBType

\* Execute keeps BubblesAndStalls: a flush, a load-use stall or a system call.
LEMMA BubblesExecute == TypeOK /\ BubblesAndStalls /\ Execute => BubblesAndStalls'
<1>. SUFFICES ASSUME TypeOK, BubblesAndStalls, Execute PROVE BubblesAndStalls'
  OBVIOUS
<1>1. /\ ~EReg.bubble /\ ~DReg.stall /\ ~EReg.stall /\ ~ERegO.stall /\ ~DRegO.stall
      /\ SerialFront(DReg, EReg, MReg) /\ Decoded(ERegO) /\ ERegO.bubble = DReg.bubble
      /\ DRegO.bubble <=> ~ERegO.bubble /\ IsEcall(ERegO)
  BY DEF Execute, At, Idle, BubblesAndStalls
<1>2. /\ DReg'.bubble <=> (DReg.bubble \/ Flush) /\ ~LoadUse
      /\ DReg'.stall <=> Hold
      /\ DReg'.instr = DReg.instr
  BY <1>1 DEF Execute, TypeOK, PipReg
<1>3. (DRegO'.bubble <=> DRegO.bubble \/ Flush) /\ ~DRegO'.stall
  BY <1>1 DEF Execute, TypeOK, PipReg
<1>4. /\ ERegO'.bubble <=> ERegO.bubble \/ Dropped
      /\ ~ERegO'.stall
      /\ ERegO'.instr = ERegO.instr /\ ERegO'.dstE = ERegO.dstE /\ ERegO'.dstM = ERegO.dstM
  BY <1>1 DEF Execute, TypeOK, PipReg
<1>5. /\ ~MRegO'.bubble /\ ~MRegO'.stall /\ MRegO'.instr = EReg.instr
       /\ MRegO'.dstE = EReg.dstE /\ MRegO'.dstM = EReg.dstM
  BY <1>1 DEF Execute, TypeOK, PipReg
<1>6. LoadUse => ~DReg.bubble /\ ~Flush /\ ~IsEcall(EReg)
  BY LoadUseFacts DEF Execute
<1>7. IsEcall(EReg) => DReg.bubble /\ ~Flush
  BY <1>1 DEF SerialFront, Alone, IsEcall, Flush, Mispredicted, SBType
<1>8. Advance(DReg', DRegO').bubble <=> IF Hold THEN DReg'.bubble ELSE DRegO'.bubble
  BY <1>2 DEF Advance, TypeOK, PipReg, Execute
<1>9. SerialFront(Advance(DReg', DRegO'), ERegO', MRegO')
  BY <1>1, <1>2, <1>3, <1>4, <1>5, <1>6, <1>7, <1>8
     DEF SerialFront, Decoded, Alone, IsEcall, Dropped, Hold
<1>10. DReg.bubble => DReg'.bubble
  BY <1>2, <1>6
<1>. QED
  BY <1>1, <1>2, <1>3, <1>4, <1>5, <1>9, <1>10
     DEF BubblesAndStalls, Execute, At, SerialFront, Decoded, Alone

\* MemStage of a bubble keeps BubblesAndStalls.
LEMMA BubblesMemStageIdle == TypeOK /\ BubblesAndStalls /\ MemStageIdle => BubblesAndStalls'
<1>. SUFFICES ASSUME TypeOK, BubblesAndStalls, MemStageIdle PROVE BubblesAndStalls'
  OBVIOUS
<1>1. WRegO'.bubble /\ ~WRegO'.stall /\ MReg.bubble
  BY DEF MemStageIdle, Idle, Bubble, TypeOK, PipReg, BubblesAndStalls, At
<1>2. Advance(EReg, ERegO) = ERegO
  BY DEF Advance, BubblesAndStalls, MemStageIdle, At
<1>. QED
  BY <1>1, <1>2
     DEF BubblesAndStalls, MemStageIdle, At, Serial, SerialFront, Decoded, Alone, IsEcall

\* MemStage keeps BubblesAndStalls: it holds what is behind a system call.
LEMMA BubblesMemStage == TypeOK /\ BubblesAndStalls /\ MemStage => BubblesAndStalls'
<1>. SUFFICES ASSUME TypeOK, BubblesAndStalls, MemStage PROVE BubblesAndStalls'
  OBVIOUS
<1>1. /\ ~MReg.bubble /\ ~MReg.stall /\ ~EReg.stall /\ ~ERegO.stall /\ ~MRegO.stall
      /\ Decoded(MReg) /\ Alone(MReg, DReg) /\ Alone(MReg, EReg) /\ ~DRegO.stall
      /\ SerialFront(Advance(DReg, DRegO), ERegO, MRegO)
  BY DEF MemStage, At, Idle, BubblesAndStalls
<1>2. /\ DReg'.bubble = DReg.bubble /\ DReg'.stall = (DReg.stall \/ IsEcall(MReg))
      /\ EReg'.bubble = EReg.bubble /\ EReg'.stall = IsEcall(MReg)
      /\ EReg'.instr = EReg.instr /\ EReg'.dstE = EReg.dstE /\ EReg'.dstM = EReg.dstM
      /\ ERegO'.bubble = ERegO.bubble /\ ~ERegO'.stall
      /\ ERegO'.instr = ERegO.instr /\ ERegO'.dstE = ERegO.dstE /\ ERegO'.dstM = ERegO.dstM
      /\ MRegO'.bubble = (MRegO.bubble \/ IsEcall(MReg)) /\ ~MRegO'.stall
      /\ MRegO'.instr = MRegO.instr /\ MRegO'.dstE = MRegO.dstE /\ MRegO'.dstM = MRegO.dstM
      /\ ~WRegO'.bubble /\ ~WRegO'.stall /\ WRegO'.instr = MReg.instr
      /\ WRegO'.dstE = MReg.dstE /\ WRegO'.dstM = MReg.dstM
      /\ DRegO' = DRegO
  BY <1>1 DEF MemStage, TypeOK, PipReg, IsEcall
<1>3. CASE IsEcall(MReg)
<2>1. Advance(DReg', DRegO').bubble /\ Advance(EReg', ERegO').bubble
  BY <1>1, <1>2, <1>3 DEF Advance, Alone, TypeOK, PipReg, MemStage
<2>. QED
  BY <1>1, <1>2, <1>3, <2>1
     DEF BubblesAndStalls, MemStage, At, Serial, SerialFront, Decoded, Alone
<1>4. CASE ~IsEcall(MReg)
<2>1. Advance(DReg', DRegO').bubble = Advance(DReg, DRegO).bubble
  BY <1>2, <1>4 DEF Advance, TypeOK, PipReg, MemStage
<2>2. Advance(EReg', ERegO') = ERegO'
  BY <1>2, <1>4 DEF Advance
<2>3. MRegO'.bubble <=> MRegO.bubble
  BY <1>2, <1>4
<2>4. Serial(Advance(DReg', DRegO'), ERegO', MRegO', WRegO')
  BY <1>1, <1>2, <1>4, <2>1, <2>3 DEF Serial, SerialFront, Decoded, Alone, IsEcall
<2>. QED
  BY <1>1, <1>2, <1>4, <2>2, <2>4 DEF BubblesAndStalls, MemStage, At, Alone, Decoded, IsEcall
<1>. QED  BY <1>3, <1>4

\* Writeback keeps BubblesAndStalls.
LEMMA BubblesWriteback == TypeOK /\ BubblesAndStalls /\ Writeback => BubblesAndStalls'
<1>. SUFFICES ASSUME TypeOK, BubblesAndStalls, Writeback PROVE BubblesAndStalls'
  OBVIOUS
<1>1. /\ ERegO'.bubble = ERegO.bubble /\ ERegO'.stall = ERegO.stall
      /\ ERegO'.instr = ERegO.instr /\ ERegO'.dstE = ERegO.dstE /\ ERegO'.dstM = ERegO.dstM
  BY DEF Writeback, TypeOK, PipReg
<1>2. /\ Advance(EReg, ERegO').bubble = Advance(EReg, ERegO).bubble
      /\ Advance(EReg, ERegO').instr = Advance(EReg, ERegO).instr
      /\ Advance(EReg, ERegO').dstE = Advance(EReg, ERegO).dstE
      /\ Advance(EReg, ERegO').dstM = Advance(EReg, ERegO).dstM
  BY <1>1 DEF Advance
<1>. QED
  BY <1>1, <1>2
     DEF BubblesAndStalls, Writeback, At, Serial, SerialFront, Decoded, Alone, IsEcall

\* Latching keeps BubblesAndStalls.
LEMMA BubblesLatch == TypeOK /\ BubblesAndStalls /\ Latch => BubblesAndStalls'
<1>. SUFFICES ASSUME TypeOK, BubblesAndStalls, Latch PROVE BubblesAndStalls'
  OBVIOUS
<1>1. /\ ~MReg.stall /\ ~WReg.stall /\ ~DRegO.stall /\ ~ERegO.stall /\ ~MRegO.stall
      /\ ~WRegO.stall /\ Serial(Advance(DReg, DRegO), Advance(EReg, ERegO), MRegO, WRegO)
  BY DEF BubblesAndStalls, Latch, At
<1>2. /\ DReg' = Advance(DReg, DRegO) /\ EReg' = Advance(EReg, ERegO)
      /\ MReg' = MRegO /\ WReg' = WRegO
  BY <1>1 DEF Latch, Advance
<1>3. ~DReg'.stall /\ ~EReg'.stall
  BY <1>1, <1>2 DEF Advance, TypeOK, PipReg
<1>4. Serial(DReg', EReg', MReg', WReg')
  BY <1>1, <1>2
<1>. QED
  BY <1>1, <1>2, <1>3, <1>4 DEF BubblesAndStalls, Latch, Serial, SerialFront, Alone, Decoded

\* What Writeback does without touching a latch, and the end of the process.
LEMMA BubblesElsewhere ==
  ASSUME BubblesAndStalls, UNCHANGED latches,
         \/ stage' = stage
         \/ At("Writeback") /\ stage' = "Latch"
  PROVE  BubblesAndStalls'
  BY DEF BubblesAndStalls, latches, At, Serial, SerialFront, Decoded, Alone, IsEcall, Advance

\* The actions that touch no latch.
LEMMA LatchesUnchanged ==
  ASSUME \/ WritebackIdle \/ Syscall \/ FetchFault \/ DecodeFault \/ MemFault
         \/ UNCHANGED vars
  PROVE  /\ UNCHANGED latches /\ UNCHANGED <<predScm, MyPred>>
         /\ \/ stage' = stage
            \/ At("Writeback") /\ stage' = "Latch"
<1>1. ASSUME Abort PROVE UNCHANGED latches /\ UNCHANGED <<predScm, MyPred>> /\ stage' = stage
  BY <1>1 DEF Abort
<1>2. CASE Syscall
  BY <1>1, <1>2 DEF Syscall, SyscallPrint, SyscallPrintStr, SyscallScanInt, SyscallUnknown,
                    SyscallExit, SyscallReturns, AtSyscall
<1>. QED
  BY <1>1, <1>2 DEF WritebackIdle, FetchFault, DecodeFault, MemFault, vars

\* Every step keeps BubblesAndStalls.
LEMMA BubblesNext == TypeOK /\ BubblesAndStalls /\ [Next]_vars => BubblesAndStalls'
<1>1. ASSUME BubblesAndStalls,
             \/ WritebackIdle \/ Syscall \/ FetchFault \/ DecodeFault \/ MemFault
             \/ UNCHANGED vars
      PROVE  BubblesAndStalls'
  BY <1>1, LatchesUnchanged, BubblesElsewhere
<1>. QED
  BY <1>1, BubblesFetch, BubblesDecode, BubblesExecuteIdle, BubblesExecute, BubblesMemStageIdle,
     BubblesMemStage, BubblesWriteback, BubblesLatch DEF Next, Ended

(* Whatever the program and the junk in the uninitialised latches, bubbles *)
(* and stalls stand only where the code's stages put them on purpose.      *)
THEOREM BubblesCorrect == Spec => []BubblesAndStalls
  BY TypeInit, TypeNext, InitBubbles, BubblesNext, PTL DEF Spec

(* Execute's load-use test never acts on the junk in a bubble              *)
(* (riscvsim.cpp, Execute).                                                *)
THEOREM LoadUseCorrect == Spec => []LoadUseHoldsAnInstruction
<1>1. TypeOK /\ BubblesAndStalls => LoadUseHoldsAnInstruction
  BY LoadUseFacts DEF LoadUseHoldsAnInstruction
<1>. QED  BY <1>1, TypeCorrect, BubblesCorrect, PTL

(* Writeback performs a system call with nothing else in flight            *)
(* (riscvsim.cpp, Decode, Execute, MemStage and Writeback).                *)
THEOREM EcallCorrect == Spec => []EcallRunsAlone
<1>1. BubblesAndStalls => EcallRunsAlone
  BY DEF EcallRunsAlone, BubblesAndStalls, AtSyscall, At, Idle, Alone, IsEcall
<1>. QED  BY <1>1, BubblesCorrect, PTL

-----------------------------------------------------------------------------
(* Branch prediction.                                                      *)

\* Training on a success turns no prediction of a scheme without history.
LEMMA SuccessKeepsPrediction ==
  ASSUME NEW scm \in Scheme, scm # "SelfAdj", NEW p \in PredState, NEW a \in Word, NEW b \in Word
  PROVE  Predict(scm, Update(scm, p, TRUE, a), b) = Predict(scm, p, b)
<1>1. BufID(a) \in Entry /\ BufID(b) \in Entry
  BY BufIDTyped DEF Word
<1>2. \A tb \in Counter : TwoBitChoose(Train(tb, TRUE)) = TwoBitChoose(tb)
  BY DEF TwoBitChoose, Train, Counter
<1>3. CASE scm = "Bimodal"
<2>1. Update(scm, p, TRUE, a) = [p EXCEPT !.bitBuf[BufID(a)] = Train(@, TRUE)]
  BY <1>3 DEF Update
<2>2. Update(scm, p, TRUE, a).bitBuf[BufID(b)]
        = IF BufID(a) = BufID(b) THEN Train(p.bitBuf[BufID(b)], TRUE) ELSE p.bitBuf[BufID(b)]
  BY <1>1, <2>1 DEF PredState
<2>3. p.bitBuf[BufID(b)] \in Counter
  BY <1>1 DEF PredState
<2>4. \A q : Predict(scm, q, b) = TwoBitChoose(q.bitBuf[BufID(b)])
  BY <1>3 DEF Predict
<2>. QED  BY <1>2, <2>2, <2>3, <2>4
<1>4. CASE scm \in {"AlwaysTaken", "AlwaysNotTaken"}
  BY <1>4 DEF Predict
<1>. QED  BY <1>3, <1>4 DEF Scheme

\* There is no branch in the first cycle.
LEMMA PredictionInit == Init => PredictionCurrent
<1>1. ASSUME NEW r \in Bubbles PROVE r.bubble
  BY JunkAssumption DEF Bubbles, Bubble, PipReg
<1>. QED
  BY <1>1 DEF Init, PredictionCurrent, Unresolved

\* What Agrees and Unresolved depend on.
SameBranch(r, s) == r.addr = s.addr /\ r.instr = s.instr /\ r.predJ = s.predJ

\* Fetch keeps PredictionCurrent: it has just asked the predictor.
LEMMA PredictionFetch == TypeOK /\ PredictionCurrent /\ Fetch => PredictionCurrent'
<1>. SUFFICES ASSUME TypeOK, PredictionCurrent, Fetch, predScm # "SelfAdj" PROVE PredictionCurrent'
  BY DEF PredictionCurrent, Fetch
<1>1. Predict(predScm, MyPred, predPC) \in BOOLEAN
  BY PredictTyped DEF TypeOK
<1>2. Unresolved(DRegO') => DRegO'.addr = predPC /\ DRegO'.predJ = Predict(predScm, MyPred, predPC)
  BY <1>1 DEF Fetch, TypeOK, PipReg, Unresolved, IsBranch
<1>. QED
  BY <1>2 DEF PredictionCurrent, Fetch, At, Agrees, Unresolved, IsBranch

\* Decode keeps PredictionCurrent.
LEMMA PredictionDecode ==
  TypeOK /\ PredictionCurrent /\ (Decode \/ DecodeIdle) => PredictionCurrent'
<1>1. ASSUME TypeOK, PredictionCurrent, Decode PROVE PredictionCurrent'
<2>1. SameBranch(ERegO', DReg) /\ ~DReg.bubble
  BY <1>1 DEF Decode, TypeOK, PipReg, Idle, SameBranch
<2>2. SameBranch(DRegO', DRegO) /\ (DRegO.bubble => DRegO'.bubble)
  BY <1>1 DEF Decode, TypeOK, PipReg, SameBranch
<2>. QED
  BY <1>1, <2>1, <2>2
     DEF PredictionCurrent, Decode, At, Agrees, Unresolved, IsBranch, SameBranch
<1>2. ASSUME TypeOK, PredictionCurrent, DecodeIdle PROVE PredictionCurrent'
<2>1. ERegO'.bubble
  BY <1>2 DEF DecodeIdle, TypeOK, PipReg, Bubble
<2>. QED
  BY <1>2, <2>1 DEF PredictionCurrent, DecodeIdle, At, Agrees, Unresolved, IsBranch
<1>. QED  BY <1>1, <1>2

\* Execute keeps PredictionCurrent: a success turns no prediction round, and a
\* failure leaves no younger branch.
LEMMA PredictionExecute ==
  TypeOK /\ BubblesAndStalls /\ PredictionCurrent /\ Execute => PredictionCurrent'
<1>. SUFFICES ASSUME TypeOK, BubblesAndStalls, PredictionCurrent, Execute, predScm # "SelfAdj"
              PROVE  PredictionCurrent'
  BY DEF PredictionCurrent, Execute
<1>1. LoadUse => ~DReg.bubble /\ ~Flush
  BY LoadUseFacts DEF Execute
<1>2. /\ SameBranch(DReg', DReg) /\ (DReg'.bubble <=> (DReg.bubble \/ Flush) /\ ~LoadUse)
      /\ SameBranch(DRegO', DRegO) /\ (DRegO'.bubble <=> DRegO.bubble \/ Flush)
  BY DEF Execute, TypeOK, PipReg, SameBranch
<1>3. SameBranch(ERegO', ERegO) /\ (ERegO'.bubble <=> ERegO.bubble \/ Dropped)
  BY DEF Execute, TypeOK, PipReg, SameBranch
<1>4. CASE Flush
<2>1. DReg'.bubble /\ DRegO'.bubble /\ ERegO'.bubble
  BY <1>1, <1>2, <1>3, <1>4 DEF Dropped
<2>. QED  BY <2>1 DEF PredictionCurrent, Execute, Unresolved
<1>5. CASE ~Flush
<2>1. MyPred' = MyPred \/ MyPred' = Update(predScm, MyPred, TRUE, EReg.addr)
  BY <1>5 DEF Execute, Flush
<2>2. \A a \in Word : Predict(predScm, MyPred', a) = Predict(predScm, MyPred, a)
<3>1. EReg.addr \in Word /\ predScm \in Scheme /\ MyPred \in PredState
  BY DEF TypeOK, PipReg
<3>2. \A a \in Word :
        Predict(predScm, Update(predScm, MyPred, TRUE, EReg.addr), a) = Predict(predScm, MyPred, a)
  BY <3>1, SuccessKeepsPrediction
<3>. QED  BY <2>1, <3>2
<2>3. DReg.addr \in Word /\ DRegO.addr \in Word /\ ERegO.addr \in Word /\ predScm' = predScm
  BY DEF TypeOK, PipReg, Execute
<2>4. /\ Agrees(DReg) => DReg'.predJ = Predict(predScm', MyPred', DReg'.addr)
      /\ Agrees(DRegO) => DRegO'.predJ = Predict(predScm', MyPred', DRegO'.addr)
      /\ Agrees(ERegO) => ERegO'.predJ = Predict(predScm', MyPred', ERegO'.addr)
  BY <1>2, <1>3, <2>2, <2>3 DEF Agrees, SameBranch
<2>5. /\ Unresolved(DReg') => Unresolved(DReg)
      /\ Unresolved(DRegO') => Unresolved(DRegO)
      /\ Unresolved(ERegO') => Unresolved(ERegO)
  BY <1>1, <1>2, <1>3, <1>5 DEF Unresolved, IsBranch, SameBranch
<2>. QED
  BY <2>4, <2>5 DEF PredictionCurrent, Execute, At, Agrees
<1>. QED  BY <1>4, <1>5

\* Latching keeps PredictionCurrent.
LEMMA PredictionLatch ==
  TypeOK /\ BubblesAndStalls /\ PredictionCurrent /\ Latch => PredictionCurrent'
<1>. SUFFICES ASSUME TypeOK, BubblesAndStalls, PredictionCurrent, Latch PROVE PredictionCurrent'
  OBVIOUS
<1>1. \/ SameBranch(DReg', DReg) /\ DReg'.bubble = DReg.bubble
      \/ DReg' = DRegO
  BY DEF Latch, Advance, TypeOK, PipReg, SameBranch
<1>2. EReg'.bubble \/ EReg' = ERegO
  BY DEF Latch, At, Advance, TypeOK, PipReg, BubblesAndStalls
<1>. QED
  BY <1>1, <1>2 DEF PredictionCurrent, Latch, At, Agrees, Unresolved, IsBranch, SameBranch

\* MemStage and the idle stages keep PredictionCurrent.
LEMMA PredictionMemStage ==
  TypeOK /\ PredictionCurrent /\ (MemStage \/ MemStageIdle \/ Writeback \/ ExecuteIdle)
    => PredictionCurrent'
<1>1. ASSUME TypeOK, MemStage
      PROVE  /\ SameBranch(DReg', DReg) /\ DReg'.bubble = DReg.bubble
             /\ SameBranch(ERegO', ERegO) /\ ERegO'.bubble = ERegO.bubble
  BY <1>1 DEF MemStage, TypeOK, PipReg, SameBranch
<1>2. ASSUME TypeOK, Writeback
      PROVE  SameBranch(ERegO', ERegO) /\ ERegO'.bubble = ERegO.bubble
  BY <1>2 DEF Writeback, TypeOK, PipReg, SameBranch
<1>3. ASSUME TypeOK, PredictionCurrent, MemStage PROVE PredictionCurrent'
  BY <1>1, <1>3 DEF PredictionCurrent, MemStage, At, Agrees, Unresolved, IsBranch, SameBranch
<1>4. ASSUME TypeOK, PredictionCurrent, Writeback PROVE PredictionCurrent'
  BY <1>2, <1>4 DEF PredictionCurrent, Writeback, At, Agrees, Unresolved, IsBranch, SameBranch
<1>5. ASSUME PredictionCurrent, MemStageIdle \/ ExecuteIdle PROVE PredictionCurrent'
  BY <1>5 DEF PredictionCurrent, MemStageIdle, ExecuteIdle, At, Agrees, Unresolved, IsBranch
<1>. QED  BY <1>3, <1>4, <1>5

\* Every step keeps PredictionCurrent.
LEMMA PredictionNext ==
  TypeOK /\ BubblesAndStalls /\ PredictionCurrent /\ [Next]_vars => PredictionCurrent'
<1>1. ASSUME PredictionCurrent, UNCHANGED latches, UNCHANGED <<predScm, MyPred>>,
             stage' = stage \/ (At("Writeback") /\ stage' = "Latch")
      PROVE  PredictionCurrent'
  BY <1>1 DEF PredictionCurrent, latches, At, Agrees, Unresolved, IsBranch
<1>2. ASSUME PredictionCurrent,
             \/ WritebackIdle \/ Syscall \/ FetchFault \/ DecodeFault \/ MemFault
             \/ UNCHANGED vars
      PROVE  PredictionCurrent'
  BY <1>1, <1>2, LatchesUnchanged
<1>. QED
  BY <1>2, PredictionFetch, PredictionDecode, PredictionExecute, PredictionMemStage,
     PredictionLatch DEF Next, Ended

(* When Execute tells a scheme without history whether a prediction was    *)
(* right, the predictor still makes the prediction Fetch followed          *)
(* (pred.cpp, update; riscvsim.cpp, Fetch and Execute).                    *)
THEOREM PredictionCorrect == Spec => []PredictionCurrent
  BY TypeInit, TypeNext, InitBubbles, BubblesNext, PredictionInit, PredictionNext, PTL DEF Spec

\* For the prediction the counter makes, training moves it towards the outcome.
LEMMA TrainsTowards ==
  \A tb \in Counter, taken \in BOOLEAN :
    Train(tb, TwoBitChoose(tb) = taken) = Towards(tb, taken)
  BY DEF Train, TwoBitChoose, Towards, Counter

(* Every branch Bimodal resolves moves the counter of its entry one step   *)
(* towards the outcome, however many branches are in flight and whatever   *)
(* entries they share (pred.cpp, update).                                  *)
THEOREM BimodalCorrect == Spec => BimodalLearnsOutcome
<1>. DEFINE e == BufID(EReg.addr)
            Learns == Resolves /\ predScm = "Bimodal" =>
                        MyPred' = [MyPred EXCEPT !.bitBuf[e] = Towards(@, ExVal = 1)]
<1>1. ASSUME TypeOK, PredictionCurrent, Execute, Resolves, predScm = "Bimodal"
      PROVE  MyPred' = [MyPred EXCEPT !.bitBuf[e] = Towards(@, ExVal = 1)]
<2>1. EReg.predJ = TwoBitChoose(MyPred.bitBuf[e])
  BY <1>1 DEF PredictionCurrent, Resolves, Execute, At, Agrees, Predict
<2>2. e \in Entry /\ MyPred.bitBuf[e] \in Counter
  BY <1>1, BufIDTyped DEF TypeOK, PipReg, PredState, Word
<2>3. MyPred' = [MyPred EXCEPT !.bitBuf[e] = Train(@, ~Mispredicted)]
  BY <1>1 DEF Execute, Resolves, Unresolved, IsBranch, Update
<2>4. ~Mispredicted <=> TwoBitChoose(MyPred.bitBuf[e]) = (ExVal = 1)
  BY <1>1, <2>1 DEF Mispredicted, Resolves, Unresolved, IsBranch
<2>5. Train(MyPred.bitBuf[e], ~Mispredicted) = Towards(MyPred.bitBuf[e], ExVal = 1)
  BY <2>2, <2>4, TrainsTowards
<2>. QED  BY <1>1, <2>2, <2>3, <2>5 DEF TypeOK, PredState
<1>2. ASSUME Resolves, Next, ~ UNCHANGED vars PROVE Execute
  BY <1>2 DEF Resolves, Unresolved, Next, At, Idle, Ended, Fetch, FetchFault, Decode, DecodeIdle,
     DecodeFault, ExecuteIdle, MemStage, MemStageIdle, MemFault, Writeback, WritebackIdle,
     Syscall, SyscallPrint, SyscallPrintStr, SyscallScanInt, SyscallUnknown, SyscallExit,
     AtSyscall, Latch
<1>3. TypeOK /\ PredictionCurrent /\ [Next]_vars => [Learns]_vars
  BY <1>1, <1>2
<1>. QED
  BY <1>3, TypeCorrect, PredictionCorrect, PTL DEF Spec, BimodalLearnsOutcome

-----------------------------------------------------------------------------
(* The way the program takes through the latches.                          *)

\* The latch holds the instruction at its address.
Held(latch) == ~latch.bubble => latch.addr \in DOMAIN prog /\ latch.instr = prog[latch.addr]

\* Where Fetch goes on behind the instruction.
Continues(latch) ==
  Plus(latch.addr, IF (IsBranch(latch) /\ latch.predJ) \/ latch.instr.op = "jal"
                     THEN latch.instr.imm ELSE 1)

\* The latches hold, from the youngest on, what is on the way to address next.
Chain(next, d, e, m, w) ==
  /\ ~d.bubble => next = Continues(d)
  /\ ~e.bubble => After(d, next) = Continues(e)
  /\ ~m.bubble => After(e, After(d, next)) = Actual(m)
  /\ ~w.bubble => After(m, After(e, After(d, next))) = Actual(w)

NextPC == IF FStall THEN PC ELSE predPC

OnPath ==
  /\ Held(DReg) /\ Held(EReg) /\ Held(MReg) /\ Held(WReg)
  /\ stage # "Fetch" => Held(DRegO)
  /\ stage \in {"Execute", "MemStage", "Writeback", "Latch"} => Held(ERegO)
  /\ stage \in {"MemStage", "Writeback", "Latch"} => Held(MRegO)
  /\ stage \in {"Writeback", "Latch"} => Held(WRegO)
  /\ stage = "Fetch" => ~FStall /\ Chain(predPC, DReg, EReg, MReg, WReg)
  /\ stage \in {"Decode", "Execute"} =>
       /\ Chain(PC, DReg, EReg, MReg, WReg)
       /\ DRegO.addr = PC /\ predPC = Continues(DRegO)
  /\ stage = "Decode" => ~FStall
  /\ stage = "Execute" => /\ FStall <=> DRegO.bubble
                          /\ ~ERegO.bubble => SameBranch(ERegO, DReg)
  /\ stage = "MemStage" =>
       /\ Chain(NextPC, Advance(DReg, DRegO), ERegO, MRegO, MReg)
       /\ ~MReg.bubble => After(EReg, After(DReg, PC)) = Actual(MReg)
  /\ stage \in {"Writeback", "Latch"} =>
       Chain(NextPC, Advance(DReg, DRegO), Advance(EReg, ERegO), MRegO, WRegO)

-----------------------------------------------------------------------------
(* Operands.                                                               *)

\* The older instruction does not load what the younger one, already past
\* Decode, overwrites.
KeepsLoad(younger, older) ==
  ~younger.bubble /\ ~older.bubble /\ older.dstM # ZEROREG => younger.dstE # older.dstM

\* What an instruction leaves in a register: the value it computes, or loads.
From(latch, r)  == r # ZEROREG /\ ~latch.bubble /\ latch.dstE = r
FromM(latch, r) == r # ZEROREG /\ ~latch.bubble /\ latch.dstM = r

\* The value of a register behind the instructions in latches w and then m.
Value(regs, m, w, r) ==
  IF From(m, r) THEN m.valE
  ELSE IF From(w, r) THEN w.valE
  ELSE IF FromM(w, r) THEN w.valM
  ELSE regs[r]

\* An operand of the instruction leaving Decode, as the stages so far left it.
Current(src, val, forwarded) ==
  /\ stage = "Execute" => val = registers[src] /\ ~forwarded
  /\ stage = "MemStage" => /\ val = IF From(MRegO, src) THEN MRegO.valE ELSE registers[src]
                           /\ forwarded <=> From(MRegO, src)
                           /\ ~FromM(MRegO, src)
  /\ stage \in {"Writeback", "Latch"} => val = Value(registers, MRegO, WRegO, src)
  /\ stage = "Writeback" =>
       (forwarded <=> From(MRegO, src) \/ From(WRegO, src) \/ FromM(WRegO, src))

OperandInv ==
  /\ registers[ZEROREG] = 0
  /\ stage \in {"Fetch", "Decode"} /\ ~DReg.bubble => ~forwardA /\ ~forwardB
  /\ stage \in {"Fetch", "Decode", "Execute"} => KeepsLoad(EReg, MReg)
  /\ stage = "MemStage" => KeepsLoad(MRegO, MReg) /\ Alone(MReg, ERegO) /\ Alone(WReg, ERegO)
  /\ stage = "Writeback" => Alone(WReg, ERegO)
  /\ stage \in {"MemStage", "Writeback", "Latch"} => KeepsLoad(ERegO, MRegO)
  /\ stage \in {"Execute", "MemStage", "Writeback", "Latch"} /\ ~ERegO.bubble =>
       /\ ERegO.srcA = SrcA(ERegO.instr) /\ ERegO.srcB = SrcB(ERegO.instr)
       /\ Current(ERegO.srcA, ERegO.valA, forwardA)
       /\ Current(ERegO.srcB, ERegO.valB, forwardB)

-----------------------------------------------------------------------------
(* The way the program takes.                                              *)

\* What Chain looks at of an instruction that has not been executed, and of one
\* that has.
Alike(r, s)    == r.bubble = s.bubble /\ SameBranch(r, s)
AlikeRead(r, s) == Alike(r, s) /\ r.valA = s.valA /\ r.valB = s.valB

LEMMA ChainOfAlike ==
  ASSUME NEW n, NEW d1, NEW e1, NEW m1, NEW w1, NEW d2, NEW e2, NEW m2, NEW w2,
         Alike(d1, d2), Alike(e1, e2), AlikeRead(m1, m2), AlikeRead(w1, w2),
         Chain(n, d2, e2, m2, w2)
  PROVE  Chain(n, d1, e1, m1, w1)
<1>1. /\ Continues(d1) = Continues(d2) /\ Continues(e1) = Continues(e2)
      /\ Actual(m1) = Actual(m2) /\ Actual(w1) = Actual(w2)
  BY DEF Alike, AlikeRead, SameBranch, Continues, Actual, IsBranch
<1>2. /\ d1.bubble = d2.bubble /\ d1.addr = d2.addr /\ e1.bubble = e2.bubble /\ e1.addr = e2.addr
      /\ m1.bubble = m2.bubble /\ m1.addr = m2.addr /\ w1.bubble = w2.bubble
  BY DEF Alike, AlikeRead, SameBranch
<1>. QED  BY <1>1, <1>2 DEF Chain, After

\* Where an instruction in Execute goes on is known to Fetch if nothing is flushed.
LEMMA FetchWasRight ==
  ASSUME ~IsBranch(EReg) \/ (EReg.predJ <=> EReg.valA = EReg.valB), EReg.instr.op # "jalr"
  PROVE  Continues(EReg) = Actual(EReg)
  BY DEF Continues, Actual, IsBranch

\* Otherwise Execute redirects it.
LEMMA ExecuteKnows ==
  ASSUME TypeOK
  PROVE  /\ Flush => Redirect = Actual(EReg)
         /\ ~Flush => Continues(EReg) = Actual(EReg)
<1>1. EReg.predJ \in BOOLEAN
  BY DEF TypeOK, PipReg
<1>2. IsBranch(EReg) => (ExVal = 1 <=> EReg.valA = EReg.valB)
  BY DEF ExVal, ValE, IsBranch, SBType
<1>3. ASSUME Flush PROVE Redirect = Actual(EReg)
  <2>1. CASE EReg.instr.op = "jalr"
    BY <2>1 DEF Redirect, ExTarget, Actual
  <2>2. CASE EReg.instr.op # "jalr"
    <3>1. IsBranch(EReg) /\ EReg.instr.op = "branch"
      BY <1>3, <2>2 DEF Flush, Mispredicted, IsBranch, SBType
    <3>. QED  BY <1>2, <2>2, <3>1 DEF Redirect, ExTarget, Actual
  <2>. QED  BY <2>1, <2>2
<1>4. ASSUME ~Flush PROVE Continues(EReg) = Actual(EReg)
  <2>1. EReg.instr.op # "jalr" /\ (IsBranch(EReg) => (EReg.predJ <=> ExVal = 1))
    BY <1>1, <1>4 DEF Flush, Mispredicted, IsBranch
  <2>. QED  BY <1>2, <2>1, FetchWasRight
<1>. QED  BY <1>3, <1>4

\* There is nothing in flight at first.
LEMMA PathInit == Init => OnPath
<1>1. ASSUME NEW r \in Bubbles PROVE r.bubble
  BY JunkAssumption DEF Bubbles, Bubble, PipReg
<1>. QED
  BY <1>1 DEF Init, OnPath, Held, Chain

\* Fetch keeps OnPath.
LEMMA PathFetch == TypeOK /\ OnPath /\ Fetch => OnPath'
<1>. SUFFICES ASSUME TypeOK, OnPath, Fetch PROVE OnPath'
  OBVIOUS
<1>. DEFINE instr  == prog[predPC]
            branch == instr.op \in SBType
            taken  == branch /\ Predict(predScm, MyPred, predPC)
<1>1. /\ DRegO'.addr = predPC /\ DRegO'.instr = instr /\ (branch => DRegO'.predJ = taken)
      /\ predPC' = Plus(predPC, IF taken \/ instr.op = "jal" THEN instr.imm ELSE 1)
      /\ PC' = predPC /\ predPC \in DOMAIN prog
  BY DEF Fetch, TypeOK, PipReg
<1>2. taken \in BOOLEAN
  BY PredictTyped DEF TypeOK
<1>3. predPC' = Continues(DRegO')
  BY <1>1, <1>2 DEF Continues, IsBranch
<1>4. Held(DRegO)'
  BY <1>1 DEF Held, Fetch
<1>5. Chain(predPC, DReg, EReg, MReg, WReg)
  BY DEF OnPath, Fetch, At
<1>6. Chain(PC, DReg, EReg, MReg, WReg)'
  BY <1>1, <1>5 DEF Fetch, Chain, Continues, Actual, After, IsBranch
<1>. QED  BY <1>1, <1>3, <1>4, <1>6 DEF OnPath, Fetch, At, Held

\* Decode keeps OnPath.
LEMMA PathDecode == TypeOK /\ BubblesAndStalls /\ OnPath /\ (Decode \/ DecodeIdle) => OnPath'
<1>1. ASSUME TypeOK, BubblesAndStalls, OnPath, Decode PROVE OnPath'
  <2>1. /\ SameBranch(ERegO', DReg) /\ ~ERegO'.bubble /\ ~DReg.bubble
        /\ SameBranch(DRegO', DRegO) /\ ~DRegO.bubble
        /\ (FStall' <=> DRegO'.bubble)
    BY <1>1 DEF Decode, TypeOK, PipReg, Idle, SameBranch, OnPath, BubblesAndStalls, At
  <2>2. Continues(DRegO') = Continues(DRegO)
    BY <2>1 DEF SameBranch, Continues, IsBranch
  <2>3. Held(ERegO)' /\ Held(DRegO)'
    BY <1>1, <2>1 DEF Held, SameBranch, OnPath, Decode, At
  <2>4. Chain(PC, DReg, EReg, MReg, WReg)'
    BY <1>1 DEF OnPath, Decode, At, Chain, Continues, Actual, After, IsBranch
  <2>. QED  BY <1>1, <2>1, <2>2, <2>3, <2>4 DEF OnPath, Decode, At, Held, SameBranch
<1>2. ASSUME TypeOK, BubblesAndStalls, OnPath, DecodeIdle PROVE OnPath'
  <2>1. ERegO'.bubble /\ ~DRegO.bubble /\ DRegO' = DRegO
    BY <1>2 DEF DecodeIdle, TypeOK, PipReg, Bubble, BubblesAndStalls, At
  <2>2. Chain(PC, DReg, EReg, MReg, WReg)'
    BY <1>2 DEF OnPath, DecodeIdle, At, Chain, Continues, Actual, After, IsBranch
  <2>3. predPC' = Continues(DRegO') /\ Held(DRegO)' /\ Held(ERegO)'
    BY <1>2, <2>1 DEF OnPath, DecodeIdle, At, Continues, IsBranch, Held
  <2>. QED  BY <1>2, <2>1, <2>2, <2>3 DEF OnPath, DecodeIdle, At, Held
<1>. QED  BY <1>1, <1>2

\* At Execute: what Decode and Fetch hold follows what Execute holds.
LEMMA FrontOfExecute ==
  ASSUME TypeOK, BubblesAndStalls, OnPath, At("Execute")
  PROVE  LET n == NextPC
         IN  /\ ~DRegO.bubble => n = Continues(DRegO)
             /\ ~ERegO.bubble => After(DRegO, n) = Continues(ERegO)
             /\ After(ERegO, After(DRegO, n)) = After(DReg, PC)
<1>1. /\ ERegO.bubble = DReg.bubble /\ (DRegO.bubble <=> ~ERegO.bubble /\ IsEcall(ERegO))
  BY DEF BubblesAndStalls, At
<1>2. /\ Chain(PC, DReg, EReg, MReg, WReg) /\ DRegO.addr = PC /\ predPC = Continues(DRegO)
      /\ (FStall <=> DRegO.bubble) /\ (~ERegO.bubble => SameBranch(ERegO, DReg))
  BY DEF OnPath, At
<1>3. ~ERegO.bubble => ERegO.addr = DReg.addr /\ Continues(ERegO) = Continues(DReg)
  BY <1>2 DEF SameBranch, Continues, IsBranch
<1>4. After(DRegO, NextPC) = PC
  BY <1>2 DEF After, NextPC
<1>. QED  BY <1>1, <1>2, <1>3, <1>4 DEF Chain, NextPC, After

\* Execute of a bubble keeps OnPath.
LEMMA PathExecuteIdle == TypeOK /\ BubblesAndStalls /\ OnPath /\ ExecuteIdle => OnPath'
<1>. SUFFICES ASSUME TypeOK, BubblesAndStalls, OnPath, ExecuteIdle PROVE OnPath'
  OBVIOUS
<1>1. /\ MRegO'.bubble /\ EReg.bubble /\ ~DReg.stall
      /\ UNCHANGED <<prog, DReg, DRegO, EReg, ERegO, MReg, WReg, PC, predPC, FStall>>
      /\ stage' = "MemStage" /\ stage = "Execute"
  BY DEF ExecuteIdle, TypeOK, PipReg, Bubble, Idle, At, BubblesAndStalls
<1>2. /\ ~DRegO.bubble => NextPC = Continues(DRegO)
      /\ ~ERegO.bubble => After(DRegO, NextPC) = Continues(ERegO)
      /\ After(ERegO, After(DRegO, NextPC)) = After(DReg, PC)
  BY FrontOfExecute DEF ExecuteIdle
<1>3. ~MReg.bubble => After(EReg, After(DReg, PC)) = Actual(MReg)
  BY <1>1 DEF OnPath, Chain
<1>4. Advance(DReg, DRegO) = DRegO
  BY <1>1 DEF Advance
<1>5. Chain(NextPC, DRegO, ERegO, MRegO', MReg)
  BY <1>1, <1>2, <1>3 DEF Chain, After
<1>6. Chain(NextPC, Advance(DReg, DRegO), ERegO, MRegO, MReg)'
  BY <1>1, <1>4, <1>5 DEF Chain, Continues, Actual, After, IsBranch, NextPC, Advance
<1>7. (~MReg.bubble => After(EReg, After(DReg, PC)) = Actual(MReg))'
  BY <1>1, <1>3 DEF Actual, After, IsBranch
<1>. QED  BY <1>1, <1>6, <1>7 DEF OnPath, Held

\* Execute keeps OnPath: it flushes what is on a wrong path.
LEMMA PathExecute == TypeOK /\ BubblesAndStalls /\ OnPath /\ Execute => OnPath'
<1>. SUFFICES ASSUME TypeOK, BubblesAndStalls, OnPath, Execute PROVE OnPath'
  OBVIOUS
<1>1. /\ ~EReg.bubble /\ ~DReg.stall /\ ~ERegO.stall /\ ~DRegO.stall /\ stage = "Execute"
      /\ ERegO.bubble = DReg.bubble /\ Decoded(EReg) /\ Alone(EReg, DReg)
  BY DEF Execute, At, Idle, BubblesAndStalls, SerialFront
<1>2. /\ DReg'.bubble <=> (DReg.bubble \/ Flush) /\ ~LoadUse
      /\ DReg'.stall <=> Hold
      /\ SameBranch(DReg', DReg)
      /\ DRegO'.bubble <=> DRegO.bubble \/ Flush
      /\ SameBranch(DRegO', DRegO)
      /\ ERegO'.bubble <=> ERegO.bubble \/ Dropped
      /\ SameBranch(ERegO', ERegO)
      /\ AlikeRead(MRegO', EReg) /\ ~MRegO'.bubble
      /\ FStall' = (Hold \/ (FStall /\ ~Flush))
      /\ predPC' = IF Flush THEN Redirect ELSE predPC
      /\ UNCHANGED <<prog, EReg, MReg, WReg, PC>> /\ stage' = "MemStage"
  BY <1>1 DEF Execute, TypeOK, PipReg, SameBranch, AlikeRead, Alike
<1>3. LoadUse => ~DReg.bubble /\ ~Flush /\ ~IsEcall(EReg)
  BY LoadUseFacts DEF Execute
<1>4. IsEcall(EReg) => DReg.bubble /\ ~Flush
  BY <1>1 DEF Alone, IsEcall, Flush, Mispredicted, SBType
<1>5. /\ ~DRegO.bubble => NextPC = Continues(DRegO)
      /\ ~ERegO.bubble => After(DRegO, NextPC) = Continues(ERegO)
      /\ After(ERegO, After(DRegO, NextPC)) = After(DReg, PC)
  BY FrontOfExecute DEF Execute
<1>6. Chain(PC, DReg, EReg, MReg, WReg)
  BY <1>1 DEF OnPath
<1>7. Actual(MRegO') = Actual(EReg) /\ MRegO'.addr = EReg.addr
  BY <1>2 DEF AlikeRead, Alike, SameBranch, Actual, IsBranch
<1>8. /\ Flush => Redirect = Actual(EReg)
      /\ ~Flush => Continues(EReg) = Actual(EReg)
  BY ExecuteKnows
<1>. DEFINE d == Advance(DReg', DRegO')
            n == NextPC'
<1>9. /\ ~d.bubble => n = Continues(d)
      /\ ~ERegO'.bubble => After(d, n) = Continues(ERegO')
      /\ After(ERegO', After(d, n)) = Actual(EReg)
  <2>1. CASE Flush
    <3>1. ~Hold /\ ERegO'.bubble /\ DRegO'.bubble /\ ~DReg'.stall
      BY <1>2, <1>3, <1>4, <2>1 DEF Hold, Dropped, IsEcall
    <3>2. d.bubble
      BY <3>1 DEF Advance
    <3>3. n = Actual(EReg)
      BY <1>2, <1>8, <2>1, <3>1 DEF NextPC
    <3>. QED  BY <3>1, <3>2, <3>3 DEF After
  <2>2. CASE ~Flush /\ Hold
    <3>1. /\ ERegO'.bubble /\ d.bubble = DReg'.bubble /\ SameBranch(d, DReg)
      BY <1>2, <2>2 DEF Dropped, Advance, TypeOK, PipReg, SameBranch, Execute
    <3>2. n = PC
      BY <1>2, <2>2 DEF NextPC
    <3>3. DReg'.bubble <=> DReg.bubble
      BY <1>2, <1>3, <2>2
    <3>4. d.addr = DReg.addr /\ Continues(d) = Continues(DReg)
      BY <3>1 DEF SameBranch, Continues, IsBranch
    <3>5. After(d, n) = Actual(EReg)
      BY <1>1, <1>6, <1>8, <2>2, <3>1, <3>2, <3>3, <3>4 DEF Chain, After
    <3>. QED  BY <1>6, <3>1, <3>2, <3>3, <3>4, <3>5 DEF Chain, After
  <2>3. CASE ~Flush /\ ~Hold
    <3>1. /\ d = DRegO' /\ n = NextPC
          /\ DRegO'.bubble = DRegO.bubble /\ ERegO'.bubble = ERegO.bubble
      BY <1>2, <2>3 DEF Advance, NextPC, Dropped, TypeOK, PipReg, Execute
    <3>2. /\ Continues(DRegO') = Continues(DRegO) /\ DRegO'.addr = DRegO.addr
          /\ Continues(ERegO') = Continues(ERegO) /\ ERegO'.addr = ERegO.addr
      BY <1>2 DEF SameBranch, Continues, IsBranch
    <3>3. After(DReg, PC) = Actual(EReg)
      BY <1>1, <1>6, <1>8, <2>3 DEF Chain
    <3>. QED  BY <1>5, <3>1, <3>2, <3>3 DEF After
  <2>. QED  BY <2>1, <2>2, <2>3
<1>. HIDE DEF d, n
<1>10. ~MReg.bubble => EReg.addr = Actual(MReg)
  BY <1>1, <1>6 DEF Chain, After
<1>11. Chain(n, d, ERegO', MRegO', MReg)
  BY <1>2, <1>7, <1>9, <1>10 DEF Chain, After
<1>12. Chain(NextPC, Advance(DReg, DRegO), ERegO, MRegO, MReg)'
  <2>1. Chain(NextPC', Advance(DReg', DRegO'), ERegO', MRegO', MReg')
    BY <1>2, <1>11 DEF n, d
  <2>. QED  BY <2>1 DEF Chain, Continues, Actual, After, IsBranch, Advance
<1>13. (~MReg.bubble => After(EReg, After(DReg, PC)) = Actual(MReg))'
  BY <1>1, <1>2, <1>10 DEF Actual, After, IsBranch
<1>14. Held(DReg)' /\ Held(DRegO)' /\ Held(ERegO)' /\ Held(MRegO)'
  BY <1>1, <1>2, <1>3 DEF OnPath, Held, SameBranch, AlikeRead, Alike
<1>. QED  BY <1>1, <1>2, <1>12, <1>13, <1>14 DEF OnPath, Held

\* MemStage keeps OnPath: it holds the address behind a system call.
LEMMA PathMemStage ==
  TypeOK /\ BubblesAndStalls /\ OnPath /\ (MemStage \/ MemStageIdle) => OnPath'
<1>1. ASSUME TypeOK, BubblesAndStalls, OnPath, MemStageIdle PROVE OnPath'
  <2>1. /\ WRegO'.bubble /\ Advance(EReg, ERegO) = ERegO
        /\ UNCHANGED <<prog, DReg, DRegO, EReg, ERegO, MReg, MRegO, WReg, PC, predPC, FStall>>
        /\ stage' = "Writeback" /\ stage = "MemStage"
    BY <1>1 DEF MemStageIdle, TypeOK, PipReg, Bubble, At, BubblesAndStalls, Advance
  <2>2. Chain(NextPC, Advance(DReg, DRegO), Advance(EReg, ERegO), MRegO, WRegO')
    BY <1>1, <2>1 DEF OnPath, Chain
  <2>3. Chain(NextPC, Advance(DReg, DRegO), Advance(EReg, ERegO), MRegO, WRegO)'
    BY <2>1, <2>2 DEF Chain, Continues, Actual, After, IsBranch, NextPC, Advance
  <2>. QED  BY <1>1, <2>1, <2>3 DEF OnPath, Held
<1>2. ASSUME TypeOK, BubblesAndStalls, OnPath, MemStage PROVE OnPath'
  <2>1. /\ ~MReg.bubble /\ ~EReg.stall /\ ~ERegO.stall /\ stage = "MemStage"
        /\ Alone(MReg, DReg) /\ Alone(MReg, EReg)
    BY <1>2 DEF MemStage, At, Idle, BubblesAndStalls
  <2>2. /\ Alike(DReg', DReg) /\ DReg'.stall = (DReg.stall \/ IsEcall(MReg)) /\ DRegO' = DRegO
        /\ Alike(EReg', EReg) /\ EReg'.stall = IsEcall(MReg)
        /\ Alike(ERegO', ERegO)
        /\ SameBranch(MRegO', MRegO) /\ MRegO'.bubble = (MRegO.bubble \/ IsEcall(MReg))
        /\ MRegO'.valA = MRegO.valA /\ MRegO'.valB = MRegO.valB
        /\ AlikeRead(WRegO', MReg)
        /\ FStall' = (FStall \/ IsEcall(MReg))
        /\ UNCHANGED <<prog, MReg, WReg, PC, predPC>> /\ stage' = "Writeback"
    BY <1>2, <2>1 DEF MemStage, TypeOK, PipReg, Alike, AlikeRead, SameBranch, IsEcall
  <2>3. Held(DReg)' /\ Held(EReg)' /\ Held(MReg)' /\ Held(WReg)'
        /\ Held(DRegO)' /\ Held(ERegO)' /\ Held(MRegO)' /\ Held(WRegO)'
    BY <1>2, <2>1, <2>2 DEF OnPath, Held, Alike, AlikeRead, SameBranch
  <2>. DEFINE d == Advance(DReg', DRegO')
              e == Advance(EReg', ERegO')
  <2>4. Chain(NextPC', d, e, MRegO', WRegO')
    <3>1. CASE IsEcall(MReg)
      <4>1. d.bubble /\ e.bubble /\ MRegO'.bubble
        BY <1>2, <2>1, <2>2, <3>1 DEF Advance, Alone, TypeOK, PipReg, MemStage, Alike
      <4>2. NextPC' = PC
        BY <2>2, <3>1 DEF NextPC
      <4>3. PC = Actual(MReg)
        BY <1>2, <2>1, <3>1 DEF OnPath, Alone, After
      <4>4. Actual(WRegO') = Actual(MReg)
        BY <2>2 DEF AlikeRead, Alike, SameBranch, Actual, IsBranch
      <4>. QED  BY <4>1, <4>2, <4>3, <4>4 DEF Chain, After
    <3>2. CASE ~IsEcall(MReg)
      <4>1. e = ERegO' /\ NextPC' = NextPC
        BY <2>2, <3>2 DEF Advance, NextPC
      <4>2. Alike(d, Advance(DReg, DRegO))
        BY <1>2, <2>2, <3>2 DEF Advance, Alike, SameBranch, TypeOK, PipReg, MemStage
      <4>3. AlikeRead(MRegO', MRegO)
        BY <1>2, <2>2, <3>2 DEF AlikeRead, Alike, TypeOK, PipReg, MemStage
      <4>4. Chain(NextPC, Advance(DReg, DRegO), ERegO, MRegO, MReg)
        BY <1>2, <2>1 DEF OnPath
      <4>. HIDE DEF d, e
      <4>. QED  BY <2>2, <4>1, <4>2, <4>3, <4>4, ChainOfAlike
    <3>. QED  BY <3>1, <3>2
  <2>5. Chain(NextPC, Advance(DReg, DRegO), Advance(EReg, ERegO), MRegO, WRegO)'
    BY <2>4 DEF Chain, Continues, Actual, After, IsBranch, Advance
  <2>. QED  BY <2>2, <2>3, <2>5 DEF OnPath
<1>. QED  BY <1>1, <1>2

\* Writeback keeps OnPath.
LEMMA PathWriteback == TypeOK /\ OnPath /\ Writeback => OnPath'
<1>. SUFFICES ASSUME TypeOK, OnPath, Writeback PROVE OnPath'
  OBVIOUS
<1>1. /\ UNCHANGED <<prog, DReg, DRegO, EReg, MReg, MRegO, WReg, WRegO, PC, predPC, FStall>>
      /\ Alike(ERegO', ERegO) /\ stage = "Writeback" /\ stage' = "Latch"
      /\ ERegO'.stall = ERegO.stall
  BY DEF Writeback, At, TypeOK, PipReg, Alike, SameBranch
<1>2. Alike(Advance(EReg, ERegO'), Advance(EReg, ERegO))
  BY <1>1 DEF Advance, Alike, SameBranch
<1>3. Chain(NextPC, Advance(DReg, DRegO), Advance(EReg, ERegO), MRegO, WRegO)
  BY <1>1 DEF OnPath
<1>4. \A r : Alike(r, r) /\ AlikeRead(r, r)
  BY DEF Alike, AlikeRead, SameBranch
<1>5. Chain(NextPC, Advance(DReg, DRegO), Advance(EReg, ERegO'), MRegO, WRegO)
  BY <1>2, <1>3, <1>4, ChainOfAlike
<1>6. Chain(NextPC, Advance(DReg, DRegO), Advance(EReg, ERegO), MRegO, WRegO)'
  BY <1>1, <1>5 DEF Chain, Continues, Actual, After, IsBranch, NextPC, Advance
<1>7. Held(ERegO)'
  BY <1>1 DEF OnPath, Held, Alike, SameBranch
<1>. QED  BY <1>1, <1>6, <1>7 DEF OnPath, Held

\* Latching keeps OnPath.
LEMMA PathLatch == TypeOK /\ BubblesAndStalls /\ OnPath /\ Latch => OnPath'
<1>. SUFFICES ASSUME TypeOK, BubblesAndStalls, OnPath, Latch PROVE OnPath'
  OBVIOUS
<1>1. /\ DReg' = Advance(DReg, DRegO) /\ EReg' = Advance(EReg, ERegO)
      /\ MReg' = MRegO /\ WReg' = WRegO
      /\ predPC' = NextPC /\ ~FStall' /\ prog' = prog /\ stage' = "Fetch" /\ stage = "Latch"
  BY DEF Latch, At, Advance, BubblesAndStalls, NextPC
<1>2. Chain(predPC', DReg', EReg', MReg', WReg')
  BY <1>1 DEF OnPath
<1>3. Chain(predPC, DReg, EReg, MReg, WReg)'
  BY <1>2 DEF Chain, Continues, Actual, After, IsBranch
<1>4. Held(DReg)' /\ Held(EReg)' /\ Held(MReg)' /\ Held(WReg)'
  <2>1. /\ Alike(DReg', DReg) \/ DReg' = DRegO
        /\ Alike(EReg', EReg) \/ EReg' = ERegO
    BY <1>1 DEF Advance, Alike, SameBranch, TypeOK, PipReg
  <2>. QED  BY <1>1, <2>1 DEF OnPath, Held, Alike, SameBranch
<1>. QED  BY <1>1, <1>3, <1>4 DEF OnPath

\* Every step keeps OnPath.
LEMMA PathNext == TypeOK /\ BubblesAndStalls /\ OnPath /\ [Next]_vars => OnPath'
<1>1. ASSUME OnPath,
             \/ WritebackIdle \/ Syscall \/ FetchFault \/ DecodeFault \/ MemFault
             \/ UNCHANGED vars
      PROVE  OnPath'
  <2>1. UNCHANGED <<prog, PC, predPC, FStall>>
    BY <1>1 DEF WritebackIdle, Syscall, SyscallPrint, SyscallPrintStr, SyscallScanInt,
                SyscallUnknown, SyscallExit, SyscallReturns, FetchFault, DecodeFault, MemFault,
                Abort, vars
  <2>2. UNCHANGED latches /\ (stage' = stage \/ (stage = "Writeback" /\ stage' = "Latch"))
    BY <1>1, LatchesUnchanged DEF At
  <2>3. UNCHANGED <<DReg, DRegO, EReg, ERegO, MReg, MRegO, WReg, WRegO>>
    BY <2>2 DEF latches
  <2>4. \A n, d, e, m, w : Chain(n, d, e, m, w)' <=> Chain(n, d, e, m, w)
    BY DEF Chain, Continues, Actual, After, IsBranch
  <2>. QED
    BY <1>1, <2>1, <2>2, <2>3
       DEF OnPath, Held, Chain, Continues, Actual, After, IsBranch, NextPC, Advance, SameBranch
<1>. QED
  BY <1>1, PathFetch, PathDecode, PathExecuteIdle, PathExecute, PathMemStage, PathWriteback,
     PathLatch DEF Next, Ended

-----------------------------------------------------------------------------
(* Operands.                                                               *)

\* A register nobody has written since reads as it is in the file.
LEMMA ValueIsNewest ==
  ASSUME registers[ZEROREG] = 0, NEW r
  PROVE  Value(registers, MRegO, WRegO, r) = Newest(r)
  BY DEF Value, From, FromM, Newest

\* The registers start as zeros, but for the stack pointer.
LEMMA OperandInit == Init => OperandInv
<1>. SUFFICES ASSUME Init PROVE OperandInv
  OBVIOUS
<1>1. ASSUME NEW r \in Bubbles PROVE r.bubble
  BY JunkAssumption DEF Bubbles, Bubble, PipReg
<1>2. registers[ZEROREG] = 0
  BY ZeroInReg, RegistersAssumption DEF Init
<1>. QED  BY <1>1, <1>2 DEF Init, OperandInv, KeepsLoad

\* Fetch and Decode keep OperandInv: operands come from the register file.
LEMMA OperandDecode ==
  TypeOK /\ BubblesAndStalls /\ OperandInv /\ (Fetch \/ Decode \/ DecodeIdle) => OperandInv'
<1>1. ASSUME OperandInv, Fetch PROVE OperandInv'
  BY <1>1 DEF Fetch, At, OperandInv, KeepsLoad
<1>2. ASSUME TypeOK, OperandInv, DecodeIdle PROVE OperandInv'
  <2>1. ERegO'.bubble
    BY <1>2 DEF DecodeIdle, TypeOK, PipReg, Bubble
  <2>. QED  BY <1>2, <2>1 DEF DecodeIdle, At, OperandInv, KeepsLoad
<1>3. ASSUME TypeOK, BubblesAndStalls, OperandInv, Decode PROVE OperandInv'
  <2>1. /\ ERegO'.instr = DReg.instr
        /\ ERegO'.srcA = SrcA(DReg.instr) /\ ERegO'.srcB = SrcB(DReg.instr)
        /\ ERegO'.valA = registers[SrcA(DReg.instr)] /\ ERegO'.valB = registers[SrcB(DReg.instr)]
    BY <1>3 DEF Decode, TypeOK, PipReg
  <2>2. ~forwardA /\ ~forwardB /\ ~DReg.bubble
    BY <1>3 DEF Decode, Idle, At, BubblesAndStalls, OperandInv
  <2>3. /\ Current(ERegO.srcA, ERegO.valA, forwardA)'
        /\ Current(ERegO.srcB, ERegO.valB, forwardB)'
    BY <1>3, <2>1, <2>2 DEF Decode, Current
  <2>. QED  BY <1>3, <2>1, <2>3 DEF Decode, At, OperandInv, KeepsLoad
<1>. QED  BY <1>1, <1>2, <1>3

\* The instruction behind a load in Execute does not overwrite it unread.
LEMMA LoadIsKept ==
  ASSUME TypeOK, BubblesAndStalls, OnPath, OperandInv, ~Clobbered(prog),
         At("Execute"), ~EReg.bubble, ~ERegO.bubble, ~LoadUse, EReg.dstM # ZEROREG
  PROVE  ERegO.dstE # EReg.dstM
<1>1. /\ ~DReg.bubble /\ Decoded(EReg) /\ Decoded(ERegO)
  BY DEF BubblesAndStalls, At, SerialFront
<1>2. /\ EReg.instr.op = "load" /\ EReg.dstM = DstM(EReg.instr)
      /\ ERegO.dstE = DstE(ERegO.instr)
      /\ ERegO.srcA = SrcA(ERegO.instr) /\ ERegO.srcB = SrcB(ERegO.instr)
  BY <1>1 DEF Decoded, DstM, ZEROREG, OperandInv, At
<1>3. /\ EReg.addr \in DOMAIN prog /\ EReg.instr = prog[EReg.addr]
      /\ ERegO.addr \in DOMAIN prog /\ ERegO.instr = prog[ERegO.addr]
      /\ ERegO.addr = DReg.addr /\ DReg.addr = Continues(EReg)
  BY <1>1 DEF OnPath, At, Held, SameBranch, Chain, After
<1>4. Continues(EReg) = Plus(EReg.addr, 1)
  BY <1>2 DEF Continues, IsBranch, SBType
<1>5. ~Clobbers(prog, EReg.addr)
  BY <1>3 DEF Clobbered
<1>. QED  BY <1>2, <1>3, <1>4, <1>5 DEF Clobbers, LoadUse

\* Execute forwards what it computes, and holds back what reads a load.
LEMMA OperandExecute ==
  TypeOK /\ BubblesAndStalls /\ OnPath /\ OperandInv /\ ~Clobbered(prog)
    /\ (Execute \/ ExecuteIdle) => OperandInv'
<1>1. ASSUME TypeOK, BubblesAndStalls, OperandInv, ExecuteIdle PROVE OperandInv'
  <2>1. MRegO'.bubble
    BY <1>1 DEF ExecuteIdle, TypeOK, PipReg, Bubble
  <2>2. ~ERegO.bubble => /\ Current(ERegO.srcA, ERegO.valA, forwardA)'
                         /\ Current(ERegO.srcB, ERegO.valB, forwardB)'
    BY <1>1, <2>1 DEF ExecuteIdle, At, OperandInv, Current, From, FromM
  <2>3. Alone(MReg, ERegO) /\ Alone(WReg, ERegO)
    BY <1>1 DEF ExecuteIdle, At, BubblesAndStalls, SerialFront, Alone
  <2>. QED  BY <1>1, <2>1, <2>2, <2>3 DEF ExecuteIdle, At, OperandInv, KeepsLoad, Alone, IsEcall
<1>2. ASSUME TypeOK, BubblesAndStalls, OnPath, OperandInv, ~Clobbered(prog), Execute
      PROVE  OperandInv'
  <2>1. /\ ~EReg.bubble /\ stage = "Execute" /\ stage' = "MemStage"
        /\ UNCHANGED <<registers, MReg, WReg>>
        /\ Alone(MReg, ERegO) /\ Alone(WReg, ERegO)
    BY <1>2 DEF Execute, At, Idle, BubblesAndStalls, SerialFront, Alone
  <2>2. /\ ERegO'.bubble = (ERegO.bubble \/ Dropped) /\ ERegO'.instr = ERegO.instr
        /\ ERegO'.srcA = ERegO.srcA /\ ERegO'.srcB = ERegO.srcB /\ ERegO'.dstE = ERegO.dstE
        /\ ERegO'.valA = IF ExForwards(ERegO.srcA) THEN ExVal ELSE ERegO.valA
        /\ ERegO'.valB = IF ExForwards(ERegO.srcB) THEN ExVal ELSE ERegO.valB
        /\ ~MRegO'.bubble /\ MRegO'.dstE = EReg.dstE /\ MRegO'.dstM = EReg.dstM
        /\ MRegO'.valE = ExVal
        /\ forwardA' = (forwardA \/ ExForwards(ERegO.srcA))
        /\ forwardB' = (forwardB \/ ExForwards(ERegO.srcB))
    BY <1>2, <2>1 DEF Execute, TypeOK, PipReg
  <2>3. KeepsLoad(MRegO, MReg)'
    BY <1>2, <2>1, <2>2 DEF OperandInv, KeepsLoad
  <2>4. ~ERegO'.bubble => ~ERegO.bubble /\ ~LoadUse
    BY <2>2 DEF Dropped, Hold
  <2>5. KeepsLoad(ERegO, MRegO)'
    BY <1>2, <2>1, <2>2, <2>4, LoadIsKept DEF KeepsLoad, Execute
  <2>6. \A src : From(MRegO', src) <=> ExForwards(src)
    BY <2>2 DEF From, ExForwards
  <2>7. ~ERegO'.bubble => ~FromM(MRegO', ERegO.srcA) /\ ~FromM(MRegO', ERegO.srcB)
    BY <2>2, <2>4 DEF FromM, LoadUse
  <2>8. ~ERegO.bubble =>
          /\ ERegO.srcA = SrcA(ERegO.instr) /\ ERegO.srcB = SrcB(ERegO.instr)
          /\ ERegO.valA = registers[ERegO.srcA] /\ ~forwardA
          /\ ERegO.valB = registers[ERegO.srcB] /\ ~forwardB
    BY <1>2, <2>1 DEF OperandInv, Current
  <2>9. ~ERegO'.bubble => /\ Current(ERegO.srcA, ERegO.valA, forwardA)'
                          /\ Current(ERegO.srcB, ERegO.valB, forwardB)'
    <3>. SUFFICES ASSUME ~ERegO'.bubble
                  PROVE  /\ Current(ERegO.srcA, ERegO.valA, forwardA)'
                         /\ Current(ERegO.srcB, ERegO.valB, forwardB)'
      OBVIOUS
    <3>1. /\ ERegO'.valA = IF From(MRegO', ERegO'.srcA) THEN MRegO'.valE
                           ELSE registers'[ERegO'.srcA]
          /\ forwardA' <=> From(MRegO', ERegO'.srcA)
          /\ ~FromM(MRegO', ERegO'.srcA)
      BY <2>1, <2>2, <2>4, <2>6, <2>7, <2>8
    <3>2. /\ ERegO'.valB = IF From(MRegO', ERegO'.srcB) THEN MRegO'.valE
                           ELSE registers'[ERegO'.srcB]
          /\ forwardB' <=> From(MRegO', ERegO'.srcB)
          /\ ~FromM(MRegO', ERegO'.srcB)
      BY <2>1, <2>2, <2>4, <2>6, <2>7, <2>8
    <3>. QED  BY <2>1, <3>1, <3>2 DEF Current, From, FromM
  <2>10. Alone(MReg, ERegO)' /\ Alone(WReg, ERegO)'
    BY <2>1, <2>2 DEF Alone, IsEcall
  <2>. QED
    BY <1>2, <2>1, <2>2, <2>3, <2>4, <2>5, <2>8, <2>9, <2>10 DEF OperandInv
<1>. QED  BY <1>1, <1>2

\* What MemStage makes of an operand: the value behind the instruction it handles.
LEMMA MemStageForwards ==
  ASSUME NEW src, NEW val, NEW forwarded \in BOOLEAN, NEW m,
         registers[ZEROREG] = 0, ~MReg.bubble, Decoded(MReg), KeepsLoad(m, MReg),
         val = IF From(m, src) THEN m.valE ELSE registers[src],
         forwarded <=> From(m, src),
         NEW w, ~w.bubble, w.dstE = MReg.dstE, w.dstM = MReg.dstM, w.valE = MReg.valE,
         w.valM = MemVal
  PROVE  /\ MemForwarded(src, val, forwarded) = Value(registers, m, w, src)
         /\ forwarded \/ MemForwardsM(src) \/ MemForwardsE(src, forwarded)
              <=> From(m, src) \/ From(w, src) \/ FromM(w, src)
<1>1. MReg.dstM = ZEROREG \/ MReg.dstE = ZEROREG
  BY DEF Decoded, DstM, DstE
<1>2. MemForwardsM(src) <=> FromM(w, src)
  BY DEF MemForwardsM, FromM
<1>3. MemForwardsE(src, forwarded) <=> From(w, src) /\ ~From(m, src)
  BY DEF MemForwardsE, From
<1>4. FromM(w, src) => ~From(m, src) /\ ~From(w, src)
  BY <1>1 DEF FromM, From, KeepsLoad
<1>. QED  BY <1>2, <1>3, <1>4 DEF MemForwarded, Value

\* MemStage keeps OperandInv.
LEMMA OperandMemStage ==
  TypeOK /\ BubblesAndStalls /\ OperandInv /\ (MemStage \/ MemStageIdle) => OperandInv'
<1>1. ASSUME TypeOK, BubblesAndStalls, OperandInv, MemStageIdle PROVE OperandInv'
  <2>1. /\ WRegO'.bubble /\ stage = "MemStage" /\ stage' = "Writeback"
        /\ UNCHANGED <<registers, ERegO, MRegO, WReg, forwardA, forwardB>>
    BY <1>1 DEF MemStageIdle, At, TypeOK, PipReg, Bubble
  <2>2. ~ERegO.bubble => /\ Current(ERegO.srcA, ERegO.valA, forwardA)'
                         /\ Current(ERegO.srcB, ERegO.valB, forwardB)'
    BY <1>1, <2>1 DEF OperandInv, Current, Value, From, FromM
  <2>. QED  BY <1>1, <2>1, <2>2 DEF OperandInv, KeepsLoad, Alone, IsEcall
<1>2. ASSUME TypeOK, BubblesAndStalls, OperandInv, MemStage PROVE OperandInv'
  <2>1. /\ ~MReg.bubble /\ Decoded(MReg) /\ stage = "MemStage" /\ stage' = "Writeback"
        /\ UNCHANGED <<registers, WReg>>
    BY <1>2 DEF MemStage, At, Idle, BubblesAndStalls
  <2>2. /\ ERegO'.bubble = ERegO.bubble /\ ERegO'.instr = ERegO.instr
        /\ ERegO'.srcA = ERegO.srcA /\ ERegO'.srcB = ERegO.srcB /\ ERegO'.dstE = ERegO.dstE
        /\ ERegO'.valA = MemForwarded(ERegO.srcA, ERegO.valA, forwardA)
        /\ ERegO'.valB = MemForwarded(ERegO.srcB, ERegO.valB, forwardB)
        /\ forwardA' = (forwardA \/ MemForwardsM(ERegO.srcA) \/ MemForwardsE(ERegO.srcA, forwardA))
        /\ forwardB' = (forwardB \/ MemForwardsM(ERegO.srcB) \/ MemForwardsE(ERegO.srcB, forwardB))
        /\ MRegO'.bubble = (MRegO.bubble \/ IsEcall(MReg))
        /\ MRegO'.dstE = MRegO.dstE /\ MRegO'.dstM = MRegO.dstM /\ MRegO'.valE = MRegO.valE
        /\ ~WRegO'.bubble /\ WRegO'.dstE = MReg.dstE /\ WRegO'.dstM = MReg.dstM
        /\ WRegO'.valE = MReg.valE /\ WRegO'.valM = MemVal
    BY <1>2, <2>1 DEF MemStage, TypeOK, PipReg, IsEcall
  <2>3. ~ERegO.bubble => ~IsEcall(MReg) /\ MRegO'.bubble = MRegO.bubble
    BY <1>2, <2>1, <2>2 DEF OperandInv, Alone, TypeOK, PipReg
  <2>4. ~ERegO.bubble =>
          /\ ERegO.srcA = SrcA(ERegO.instr) /\ ERegO.srcB = SrcB(ERegO.instr)
          /\ ERegO.valA = IF From(MRegO, ERegO.srcA) THEN MRegO.valE ELSE registers[ERegO.srcA]
          /\ forwardA <=> From(MRegO, ERegO.srcA)
          /\ ERegO.valB = IF From(MRegO, ERegO.srcB) THEN MRegO.valE ELSE registers[ERegO.srcB]
          /\ forwardB <=> From(MRegO, ERegO.srcB)
    BY <1>2, <2>1 DEF OperandInv, Current
  <2>5. /\ registers[ZEROREG] = 0 /\ KeepsLoad(MRegO, MReg)
        /\ forwardA \in BOOLEAN /\ forwardB \in BOOLEAN
    BY <1>2, <2>1 DEF OperandInv, TypeOK
  <2>6. ASSUME ~ERegO.bubble
        PROVE  /\ ERegO'.valA = Value(registers, MRegO, WRegO', ERegO.srcA)
               /\ forwardA' <=> \/ From(MRegO, ERegO.srcA) \/ From(WRegO', ERegO.srcA)
                                \/ FromM(WRegO', ERegO.srcA)
    <3>. DEFINE src == ERegO.srcA
                val == ERegO.valA
                w   == WRegO'
    <3>1. /\ val = IF From(MRegO, src) THEN MRegO.valE ELSE registers[src]
          /\ forwardA <=> From(MRegO, src)
          /\ ~w.bubble /\ w.dstE = MReg.dstE /\ w.dstM = MReg.dstM /\ w.valE = MReg.valE
          /\ w.valM = MemVal
      BY <2>2, <2>4, <2>6
    <3>2. /\ ERegO'.valA = MemForwarded(src, val, forwardA)
          /\ forwardA' <=> forwardA \/ MemForwardsM(src) \/ MemForwardsE(src, forwardA)
      BY <2>2
    <3>. HIDE DEF src, val, w
    <3>3. /\ MemForwarded(src, val, forwardA) = Value(registers, MRegO, w, src)
          /\ forwardA \/ MemForwardsM(src) \/ MemForwardsE(src, forwardA)
               <=> From(MRegO, src) \/ From(w, src) \/ FromM(w, src)
      BY <2>1, <2>5, <3>1, MemStageForwards
    <3>. QED  BY <3>2, <3>3 DEF src, val, w
  <2>7. ASSUME ~ERegO.bubble
        PROVE  /\ ERegO'.valB = Value(registers, MRegO, WRegO', ERegO.srcB)
               /\ forwardB' <=> \/ From(MRegO, ERegO.srcB) \/ From(WRegO', ERegO.srcB)
                                \/ FromM(WRegO', ERegO.srcB)
    <3>. DEFINE src == ERegO.srcB
                val == ERegO.valB
                w   == WRegO'
    <3>1. /\ val = IF From(MRegO, src) THEN MRegO.valE ELSE registers[src]
          /\ forwardB <=> From(MRegO, src)
          /\ ~w.bubble /\ w.dstE = MReg.dstE /\ w.dstM = MReg.dstM /\ w.valE = MReg.valE
          /\ w.valM = MemVal
      BY <2>2, <2>4, <2>7
    <3>2. /\ ERegO'.valB = MemForwarded(src, val, forwardB)
          /\ forwardB' <=> forwardB \/ MemForwardsM(src) \/ MemForwardsE(src, forwardB)
      BY <2>2
    <3>. HIDE DEF src, val, w
    <3>3. /\ MemForwarded(src, val, forwardB) = Value(registers, MRegO, w, src)
          /\ forwardB \/ MemForwardsM(src) \/ MemForwardsE(src, forwardB)
               <=> From(MRegO, src) \/ From(w, src) \/ FromM(w, src)
      BY <2>1, <2>5, <3>1, MemStageForwards
    <3>. QED  BY <3>2, <3>3 DEF src, val, w
  <2>8. ASSUME ~ERegO.bubble
        PROVE  /\ Current(ERegO.srcA, ERegO.valA, forwardA)'
               /\ Current(ERegO.srcB, ERegO.valB, forwardB)'
    <3>1. \A r : /\ From(MRegO', r) <=> From(MRegO, r)
                 /\ Value(registers', MRegO', WRegO', r) = Value(registers, MRegO, WRegO', r)
      BY <2>1, <2>2, <2>3, <2>8 DEF Value, From
    <3>2. /\ ERegO'.valA = Value(registers', MRegO', WRegO', ERegO'.srcA)
          /\ forwardA' <=> \/ From(MRegO', ERegO'.srcA) \/ From(WRegO', ERegO'.srcA)
                           \/ FromM(WRegO', ERegO'.srcA)
      BY <2>2, <2>6, <2>8, <3>1
    <3>3. /\ ERegO'.valB = Value(registers', MRegO', WRegO', ERegO'.srcB)
          /\ forwardB' <=> \/ From(MRegO', ERegO'.srcB) \/ From(WRegO', ERegO'.srcB)
                           \/ FromM(WRegO', ERegO'.srcB)
      BY <2>2, <2>7, <2>8, <3>1
    <3>. QED  BY <2>1, <3>2, <3>3 DEF Current, Value, From, FromM
  <2>9. KeepsLoad(ERegO, MRegO)' /\ Alone(WReg, ERegO)'
    BY <1>2, <2>1, <2>2 DEF OperandInv, KeepsLoad, Alone, IsEcall
  <2>. QED  BY <2>1, <2>2, <2>4, <2>5, <2>8, <2>9 DEF OperandInv
<1>. QED  BY <1>1, <1>2

\* What Writeback makes of an operand whose register it writes.
LEMMA WritebackForwards ==
  ASSUME TypeOK, ~WReg.bubble, Decoded(WReg), registers[ZEROREG] = 0,
         NEW src \in Reg, NEW val, NEW forwarded \in BOOLEAN, NEW m, NEW w,
         val = Value(registers, m, w, src),
         forwarded <=> From(m, src) \/ From(w, src) \/ FromM(w, src)
  PROVE  WbForwarded(src, val, forwarded) = Value(WriteRegisters(registers), m, w, src)
<1>1. WReg.dstM = ZEROREG \/ WReg.dstE = ZEROREG
  BY DEF Decoded, DstM, DstE
<1>2. CASE forwarded
  BY <1>2 DEF WbForwarded, Value
<1>3. CASE ~forwarded
  <2>1. val = registers[src] /\ Value(WriteRegisters(registers), m, w, src)
                                  = WriteRegisters(registers)[src]
    BY <1>3 DEF Value
  <2>2. WriteRegisters(registers)[src]
          = IF src # ZEROREG /\ src = WReg.dstE THEN WReg.valE
            ELSE IF src # ZEROREG /\ src = WReg.dstM THEN WReg.valM ELSE registers[src]
    BY DEF WriteRegisters
  <2>. QED  BY <1>1, <1>3, <2>1, <2>2 DEF WbForwarded
<1>. QED  BY <1>2, <1>3

\* Writeback keeps OperandInv.
LEMMA OperandWriteback ==
  TypeOK /\ BubblesAndStalls /\ OperandInv /\ Writeback => OperandInv'
<1>. SUFFICES ASSUME TypeOK, BubblesAndStalls, OperandInv, Writeback PROVE OperandInv'
  OBVIOUS
<1>1. /\ ~WReg.bubble /\ Decoded(WReg) /\ stage = "Writeback" /\ stage' = "Latch"
      /\ registers' = WriteRegisters(registers) /\ UNCHANGED <<MRegO, WRegO>>
      /\ registers[ZEROREG] = 0 /\ forwardA \in BOOLEAN /\ forwardB \in BOOLEAN
      /\ ERegO.srcA \in Reg /\ ERegO.srcB \in Reg
  BY DEF Writeback, At, Idle, BubblesAndStalls, OperandInv, TypeOK, PipReg
<1>2. /\ ERegO'.bubble = ERegO.bubble /\ ERegO'.instr = ERegO.instr
      /\ ERegO'.srcA = ERegO.srcA /\ ERegO'.srcB = ERegO.srcB /\ ERegO'.dstE = ERegO.dstE
      /\ ERegO'.valA = WbForwarded(ERegO.srcA, ERegO.valA, forwardA)
      /\ ERegO'.valB = WbForwarded(ERegO.srcB, ERegO.valB, forwardB)
  BY DEF Writeback, TypeOK, PipReg
<1>3. registers'[ZEROREG] = 0
  BY <1>1, ZeroInReg DEF WriteRegisters
<1>4. ASSUME ~ERegO.bubble
      PROVE  /\ ERegO.srcA = SrcA(ERegO.instr) /\ ERegO.srcB = SrcB(ERegO.instr)
             /\ ERegO.valA = Value(registers, MRegO, WRegO, ERegO.srcA)
             /\ forwardA <=> \/ From(MRegO, ERegO.srcA) \/ From(WRegO, ERegO.srcA)
                             \/ FromM(WRegO, ERegO.srcA)
             /\ ERegO.valB = Value(registers, MRegO, WRegO, ERegO.srcB)
             /\ forwardB <=> \/ From(MRegO, ERegO.srcB) \/ From(WRegO, ERegO.srcB)
                             \/ FromM(WRegO, ERegO.srcB)
  BY <1>1, <1>4 DEF OperandInv, Current
<1>5. ASSUME ~ERegO.bubble
      PROVE  /\ ERegO'.valA = Value(registers', MRegO', WRegO', ERegO'.srcA)
             /\ ERegO'.valB = Value(registers', MRegO', WRegO', ERegO'.srcB)
  <2>1. ERegO'.valA = Value(registers', MRegO, WRegO, ERegO.srcA)
    BY <1>1, <1>2, <1>4, <1>5, WritebackForwards
  <2>2. ERegO'.valB = Value(registers', MRegO, WRegO, ERegO.srcB)
    BY <1>1, <1>2, <1>4, <1>5, WritebackForwards
  <2>. QED  BY <1>1, <1>2, <2>1, <2>2
<1>6. ASSUME ~ERegO.bubble
      PROVE  /\ Current(ERegO.srcA, ERegO.valA, forwardA)'
             /\ Current(ERegO.srcB, ERegO.valB, forwardB)'
  BY <1>1, <1>5, <1>6 DEF Current, Value, From, FromM
<1>7. KeepsLoad(ERegO, MRegO)'
  BY <1>1, <1>2 DEF OperandInv, KeepsLoad
<1>. QED  BY <1>1, <1>2, <1>3, <1>4, <1>6, <1>7 DEF OperandInv

\* A system call has nothing behind it whose operands could be old.
LEMMA OperandSyscall ==
  TypeOK /\ BubblesAndStalls /\ OperandInv /\ Syscall => OperandInv'
<1>. SUFFICES ASSUME TypeOK, BubblesAndStalls, OperandInv, Syscall PROVE OperandInv'
  OBVIOUS
<1>1. ~WReg.bubble /\ IsEcall(WReg) /\ stage = "Writeback"
  BY DEF Syscall, SyscallPrint, SyscallPrintStr, SyscallScanInt, SyscallUnknown, SyscallExit,
         AtSyscall, At, Idle, IsEcall
<1>2. ERegO.bubble
  BY <1>1 DEF OperandInv, Alone
<1>3. UNCHANGED latches /\ stage' \in {"Writeback", "Latch"}
  BY <1>1, LatchesUnchanged DEF At
<1>4. registers'[ZEROREG] = 0
  <2>1. CASE SyscallScanInt
    BY <2>1, RegistersAssumption DEF SyscallScanInt, OperandInv, TypeOK
  <2>2. CASE ~SyscallScanInt
    <3>1. registers' = registers
      BY <2>2 DEF Syscall, SyscallPrint, SyscallPrintStr, SyscallUnknown, SyscallExit, Abort
    <3>. QED  BY <3>1 DEF OperandInv
  <2>. QED  BY <2>1, <2>2
<1>. QED  BY <1>1, <1>2, <1>3, <1>4 DEF latches, OperandInv, KeepsLoad, Alone, IsEcall

\* Latching keeps OperandInv: the next cycle starts with nothing forwarded.
LEMMA OperandLatch ==
  TypeOK /\ BubblesAndStalls /\ OperandInv /\ Latch => OperandInv'
<1>. SUFFICES ASSUME TypeOK, BubblesAndStalls, OperandInv, Latch PROVE OperandInv'
  OBVIOUS
<1>1. /\ MReg' = MRegO /\ (EReg'.bubble \/ EReg' = ERegO)
      /\ stage = "Latch" /\ stage' = "Fetch" /\ ~forwardA' /\ ~forwardB'
  BY DEF Latch, At, Advance, BubblesAndStalls, TypeOK, PipReg
<1>2. registers'[ZEROREG] = 0
  BY ZeroInReg DEF Latch, TypeOK
<1>3. KeepsLoad(EReg, MReg)'
  BY <1>1 DEF OperandInv, KeepsLoad
<1>. QED  BY <1>1, <1>2, <1>3 DEF OperandInv

\* Every step keeps OperandInv, in a program that clobbers no load.
LEMMA OperandNext ==
  TypeOK /\ BubblesAndStalls /\ OnPath /\ OperandInv /\ ~Clobbered(prog) /\ [Next]_vars
    => OperandInv'
<1>1. ASSUME OperandInv,
             WritebackIdle \/ FetchFault \/ DecodeFault \/ MemFault \/ UNCHANGED vars
      PROVE  OperandInv'
  <2>1. /\ UNCHANGED <<registers, forwardA, forwardB>>
        /\ UNCHANGED <<DReg, EReg, ERegO, MReg, MRegO, WReg, WRegO>>
        /\ stage' = stage \/ (stage = "Writeback" /\ stage' = "Latch")
    BY <1>1 DEF WritebackIdle, FetchFault, DecodeFault, MemFault, Abort, vars, latches, At
  <2>. QED
    BY <1>1, <2>1 DEF OperandInv, KeepsLoad, Alone, IsEcall, Current, Value, From, FromM
<1>. QED
  BY <1>1, OperandDecode, OperandExecute, OperandMemStage, OperandWriteback, OperandSyscall,
     OperandLatch DEF Next, Ended

\* No step writes to the program.
LEMMA ProgIsConstant == [Next]_vars => prog' = prog
  BY DEF Next, Fetch, FetchFault, Decode, DecodeIdle, DecodeFault, Execute, ExecuteIdle, MemStage,
     MemStageIdle, MemFault, Writeback, WritebackIdle, Syscall, SyscallPrint, SyscallPrintStr,
     SyscallScanInt, SyscallUnknown, SyscallExit, SyscallReturns, Latch, Ended, Abort, vars

(* Whatever the latches held at first and however branches are predicted,  *)
(* they hold successive instructions on the path the program takes, from   *)
(* the one Execute resolved last, and behind a system call, a flush or a   *)
(* load stall Fetch goes on where the program does (Fetch, Execute,        *)
(* MemStage and Run).                                                      *)
THEOREM PathCorrect == Spec => []OnPath
  BY TypeInit, TypeNext, InitBubbles, BubblesNext, PathInit, PathNext, PTL DEF Spec

(* Only a branch or jalr that Execute has not seen yet lets the pipeline   *)
(* run into a fault beside the path of the program (Fetch, Decode).        *)
THEOREM AbortsCorrect == Spec => AbortsOnThePath
<1>. DEFINE FetchOnThePath ==
              FetchFault /\ ~MayTurn(DReg) /\ ~MayTurn(EReg) =>
                /\ ~DReg.bubble => predPC = Actual(DReg)
                /\ LeadTo(After(DReg, predPC), EReg, MReg, WReg)
            DecodeOnThePath ==
              DecodeFault /\ ~MayTurn(EReg) => LeadTo(DReg.addr, EReg, MReg, WReg)
<1>1. ASSUME NEW latch, ~latch.bubble, ~MayTurn(latch) PROVE Continues(latch) = Actual(latch)
  BY <1>1 DEF MayTurn, Continues, Actual
<1>2. OnPath => FetchOnThePath
  <2>. SUFFICES ASSUME OnPath, FetchFault, ~MayTurn(DReg), ~MayTurn(EReg) PROVE FetchOnThePath
    OBVIOUS
  <2>1. Chain(predPC, DReg, EReg, MReg, WReg)
    BY DEF OnPath, FetchFault, At
  <2>. QED  BY <1>1, <2>1 DEF Chain, LeadTo
<1>3. OnPath => DecodeOnThePath
  <2>. SUFFICES ASSUME OnPath, DecodeFault, ~MayTurn(EReg) PROVE DecodeOnThePath
    OBVIOUS
  <2>1. Chain(PC, DReg, EReg, MReg, WReg) /\ ~DReg.bubble
    BY DEF OnPath, DecodeFault, At, Idle
  <2>2. After(DReg, PC) = DReg.addr
    BY <2>1 DEF After
  <2>. QED  BY <1>1, <2>1, <2>2 DEF Chain, LeadTo
<1>4. OnPath => [FetchOnThePath /\ DecodeOnThePath]_vars
  BY <1>2, <1>3
<1>. QED  BY <1>4, PathCorrect, PTL DEF AbortsOnThePath

(* Every instruction enters Execute with the operands the instructions in  *)
(* front of it leave, whichever of the three stages forwards them, in      *)
(* every program in which no load is overwritten unread by the instruction *)
(* behind it (Decode, Execute, MemStage and Writeback).                    *)
THEOREM OperandsCorrect == Spec => [](~Clobbered(prog) => OperandsAreCurrent)
<1>. DEFINE Kept == ~Clobbered(prog) => OperandInv
<1>1. Init => Kept
  BY OperandInit
<1>2. TypeOK /\ BubblesAndStalls /\ OnPath /\ Kept /\ [Next]_vars => Kept'
  <2>1. [Next]_vars => (Clobbered(prog)' <=> Clobbered(prog))
    BY ProgIsConstant DEF Clobbered, Clobbers
  <2>. QED  BY <2>1, OperandNext
<1>3. Kept => (~Clobbered(prog) => OperandsAreCurrent)
  BY ValueIsNewest DEF OperandInv, OperandsAreCurrent, Current, At
<1>. HIDE DEF Kept
<1>. QED
  BY <1>1, <1>2, <1>3, TypeCorrect, BubblesCorrect, PathCorrect, PTL DEF Spec

=============================================================================
