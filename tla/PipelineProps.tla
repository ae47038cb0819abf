---------------------------- MODULE PipelineProps ----------------------------
(***************************************************************************)
(* What must be true of the pipeline while instructions are in flight. The *)
(* properties look at the latches directly; PipelineISA states what all of *)
(* them are for, that the program cannot tell the pipeline from a machine  *)
(* that executes one instruction at a time.                                *)
(***************************************************************************)
EXTENDS Pipeline

\* Every latch holds a well-formed instruction and operands of the machine's
\* width, and every address the pipeline follows is one of the machine's.
TypeOK ==
  /\ IsProgram(prog)
  /\ mem \in [DataAddr -> Word]
  /\ registers \in [Reg -> Word]
  /\ PC \in Word /\ predPC \in Word
  /\ forwardA \in BOOLEAN /\ forwardB \in BOOLEAN /\ FStall \in BOOLEAN
  /\ DReg \in PipReg /\ DRegO \in PipReg /\ EReg \in PipReg /\ ERegO \in PipReg
  /\ MReg \in PipReg /\ MRegO \in PipReg /\ WReg \in PipReg /\ WRegO \in PipReg
  /\ predScm \in Scheme /\ MyPred \in PredState
  /\ stage \in Stage /\ status \in Status /\ out \in Word

-----------------------------------------------------------------------------
IsEcall(latch)  == latch.instr.op = "ecall"
IsBranch(latch) == latch.instr.op \in SBType

(* Run initialises no more than bubble and stall of the latches, and a     *)
(* bubble keeps whatever fields it had. Execute's load-use test reads the  *)
(* source registers of ERegO without asking whether it is a bubble, and    *)
(* would turn the bubble in DReg into an instruction. It never does: a     *)
(* load in Execute always has a real instruction behind it.                *)
LoadUseHoldsAnInstruction == At("Execute") /\ ~Idle(EReg) /\ LoadUse => ~DReg.bubble

(* A system call reads and writes the register file itself, past all       *)
(* forwarding. The stalls of Decode, Execute and MemStage see to it that   *)
(* when Writeback performs it nothing else is in flight: every older       *)
(* instruction has written its result and no younger one has read any.     *)
EcallRunsAlone == AtSyscall => DReg.bubble /\ EReg.bubble /\ MReg.bubble

\* The fields Decode derives from the instruction belong to it.
Decoded(latch) == ~latch.bubble =>
  latch.instr.op \in Legal /\ latch.dstM = DstM(latch.instr) /\ latch.dstE = DstE(latch.instr)

\* A system call in latch "it" has nothing behind it in latch "behind".
Alone(it, behind) == ~it.bubble /\ IsEcall(it) => behind.bubble

\* How the instructions in three and four successive latches may follow each
\* other at the start of a cycle.
SerialFront(d, e, m) ==
  /\ Decoded(e) /\ Decoded(m)
  /\ d.bubble /\ ~e.bubble => IsEcall(e)
  /\ Alone(e, d) /\ Alone(m, d) /\ Alone(m, e)

Serial(d, e, m, w) ==
  /\ SerialFront(d, e, m) /\ Decoded(w)
  /\ Alone(w, d) /\ Alone(w, e) /\ Alone(w, m)

(* Bubbles and stalls, stage by stage: only a system call is followed by a *)
(* bubble, and it is followed by nothing else until Writeback has done it. *)
(* A latch keeps its instruction past the end of a cycle only for a load   *)
(* or a system call in front of it. This is the inductive invariant behind *)
(* LoadUseHoldsAnInstruction and EcallRunsAlone.                           *)
BubblesAndStalls ==
  /\ ~MReg.stall /\ ~WReg.stall
  /\ stage \in {"Fetch", "Decode", "Execute"} => ~DReg.stall /\ SerialFront(DReg, EReg, MReg)
  /\ stage \in {"Fetch", "Decode", "Execute", "MemStage"} =>
       ~EReg.stall /\ Decoded(MReg) /\ Alone(MReg, DReg) /\ Alone(MReg, EReg)
  /\ stage # "Latch" =>
       Decoded(WReg) /\ Alone(WReg, DReg) /\ Alone(WReg, EReg) /\ Alone(WReg, MReg)
  /\ stage # "Fetch" => ~DRegO.stall
  /\ stage = "Decode" => ~DRegO.bubble
  /\ stage = "Execute" =>
       /\ ~ERegO.stall /\ ERegO.bubble = DReg.bubble /\ Decoded(ERegO)
       /\ DRegO.bubble <=> ~ERegO.bubble /\ IsEcall(ERegO)
  /\ stage = "MemStage" =>
       ~ERegO.stall /\ ~MRegO.stall /\ SerialFront(Advance(DReg, DRegO), ERegO, MRegO)
  /\ stage \in {"Writeback", "Latch"} =>
       /\ ~ERegO.stall /\ ~MRegO.stall /\ ~WRegO.stall
       /\ EReg.stall => EReg.bubble
       /\ Serial(Advance(DReg, DRegO), Advance(EReg, ERegO), MRegO, WRegO)

-----------------------------------------------------------------------------
\* Where the program goes on, which Execute knows.
Actual(latch) ==
  IF latch.instr.op = "jalr" THEN Plus(latch.valA, latch.instr.imm)
  ELSE Plus(latch.addr, IF (IsBranch(latch) /\ latch.valA = latch.valB) \/ latch.instr.op = "jal"
                          THEN latch.instr.imm ELSE 1)

\* The address of the instruction in a latch, or of what is behind a bubble.
After(latch, behind) == IF latch.bubble THEN behind ELSE latch.addr

MayTurn(latch) == ~latch.bubble /\ (IsBranch(latch) \/ latch.instr.op = "jalr")

\* The program goes from each instruction in three latches to that in the next
\* younger one, and from the youngest to this address.
LeadTo(next, e, m, w) ==
  /\ ~e.bubble => next = Actual(e)
  /\ ~m.bubble => After(e, next) = Actual(m)
  /\ ~w.bubble => After(m, After(e, next)) = Actual(w)

(* Fetch and Decode may end the simulation for an address or a word the    *)
(* program never gets to, but only behind a branch or jalr that Execute    *)
(* has not seen yet. Otherwise the instructions in flight lead to it: a    *)
(* flush leaves nothing of a wrong path that could fault, and no stall or  *)
(* repeated fetch loses the way. (One of them may be the call of exit.)    *)
AbortsOnThePath ==
  [][/\ FetchFault /\ ~MayTurn(DReg) /\ ~MayTurn(EReg) =>
          /\ ~DReg.bubble => predPC = Actual(DReg)
          /\ LeadTo(After(DReg, predPC), EReg, MReg, WReg)
     /\ DecodeFault /\ ~MayTurn(EReg) => LeadTo(DReg.addr, EReg, MReg, WReg)]_vars

-----------------------------------------------------------------------------
\* The value register r has once the instructions in front of the one leaving
\* Decode have written back.
Newest(r) ==
  IF r = ZEROREG THEN 0
  ELSE IF ~MRegO.bubble /\ MRegO.dstE = r THEN MRegO.valE
  ELSE IF ~WRegO.bubble /\ WRegO.dstE = r THEN WRegO.valE
  ELSE IF ~WRegO.bubble /\ WRegO.dstM = r THEN WRegO.valM
  ELSE registers[r]

(* A load whose result the next instruction overwrites without reading it. *)
Clobbers(p, a) ==
  LET next == p[Plus(a, 1)]
  IN  /\ Plus(a, 1) \in DOMAIN p
      /\ DstM(p[a]) # ZEROREG /\ DstE(next) = DstM(p[a])
      /\ DstM(p[a]) \notin {SrcA(next), SrcB(next)}

Clobbered(p) == \E a \in DOMAIN p : Clobbers(p, a)

(* An instruction enters Execute with the operands a sequential machine    *)
(* would give it, whichever of Execute, MemStage and Writeback had to      *)
(* forward, in a cycle in which all three may hold a value for the same    *)
(* register. MemStage does not ask, for a loaded value, whether Execute    *)
(* has forwarded already, so this holds only of programs in which no ALU   *)
(* instruction overwrites the result of the load just before it without    *)
(* reading it.                                                             *)
OperandsAreCurrent ==
  At("Latch") /\ ~ERegO.bubble =>
    /\ ERegO.valA = Newest(ERegO.srcA)
    /\ ERegO.valB = Newest(ERegO.srcB)

-----------------------------------------------------------------------------
\* The latch holds a branch that update() has not seen yet.
Unresolved(latch) == ~latch.bubble /\ IsBranch(latch)

Agrees(latch) == latch.predJ = Predict(predScm, MyPred, latch.addr)

(* update() is told whether a prediction was right and looks up, two       *)
(* cycles after Fetch did, which prediction that was. In between another   *)
(* branch may have trained the same entry. For the schemes without history *)
(* the lookup still gives the prediction made: training on a success never *)
(* turns a prediction round, and a failure squashes every younger branch.  *)
PredictionCurrent ==
  predScm # "SelfAdj" =>
    /\ Unresolved(DReg) => Agrees(DReg)
    /\ stage # "Fetch" /\ Unresolved(DRegO) => Agrees(DRegO)
    /\ stage \notin {"Fetch", "Decode"} /\ Unresolved(ERegO) => Agrees(ERegO)
    /\ stage \in {"Fetch", "Decode", "Execute"} /\ Unresolved(EReg) => Agrees(EReg)

Resolves == At("Execute") /\ Unresolved(EReg) /\ ~EReg.stall

\* A two-bit saturating counter moves one step towards the outcome.
Towards(tb, taken) == IF taken THEN (IF tb = 3 THEN 3 ELSE tb + 1)
                               ELSE (IF tb = 0 THEN 0 ELSE tb - 1)

(* What a branch teaches Bimodal is its outcome: the counter of its entry  *)
(* moves towards it, and no other counter changes. update() is not told    *)
(* the outcome, it infers it from the prediction it finds (see above).     *)
BimodalLearnsOutcome ==
  [][Resolves /\ predScm = "Bimodal" =>
       MyPred' = [MyPred EXCEPT !.bitBuf[BufID(EReg.addr)] = Towards(@, ExVal = 1)]]_vars

(* The history SelfAdj keeps of an entry (HISTORYN, "num of bits to save   *)
(* history status") gets the outcome of a branch as its newest bit.        *)
HistoryRecordsOutcome ==
  [][Resolves /\ predScm = "SelfAdj" =>
       LET e == BufID(EReg.addr)
       IN  MyPred'.saHis[e] = 2 * MaskHis(MyPred.saHis[e]) + ExVal]_vars

=============================================================================
