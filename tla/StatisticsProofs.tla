-------------------------- MODULE StatisticsProofs --------------------------
(***************************************************************************)
(* The statistics add up for every program, every prediction scheme, every *)
(* table of ticks and every content of the uninitialised latches. The      *)
(* account of the cycles is inductive once it is known, from               *)
(* PipelineProofs, where bubbles and stalls can be; "Balance" carries it   *)
(* from stage to stage while the latches of one cycle turn into the next.  *)
(***************************************************************************)
EXTENDS StatisticsISA, ISAProofs

NextD == Advance(DReg, DRegO)
NextE == Advance(EReg, ERegO)

\* What the counters say the cycles went into, but for what is in flight.
Counted == machineStats.instrCnt + 4 * machineStats.ecallNum + 4
             + machineStats.loadUseHazard + 2 * machineStats.controlHazard

\* The fetches repeated, but for the call in flight.
Repeated == machineStats.loadUseHazard + 3 * machineStats.ecallNum

\* Four latches that carry "bubbles" bubbles, of which "behind" were put behind
\* a system call, when "cycles" cycles are spent and Fetch repeated "fetches".
Holds(cycles, bubbles, retired, behind, fetches) ==
  /\ cycles + bubbles = Counted + retired + behind
  /\ fetches = Repeated + behind

(* The account while a cycle is under way: up to Execute it is that of the  *)
(* start of the cycle, then latch by latch that of its end.                 *)
Balance ==
  /\ stage \in {"Fetch", "Decode", "Execute"} =>
       Holds(machineStats.machineCycle, BubblesInFlight, 0,
             Behind(EReg, 1) + Behind(MReg, 2) + Behind(WReg, 3), machineStats.FSTALL)
  /\ stage \in {"Fetch", "Decode"} => ~FStall
  /\ stage = "Execute" => FStall = DRegO.bubble
  /\ stage = "MemStage" =>
       Holds(machineStats.machineCycle + 1,
             One(NextD.bubble) + One(ERegO.bubble) + One(MRegO.bubble) + One(MReg.bubble),
             One(~WReg.bubble),
             Behind(ERegO, 1) + Behind(MRegO, 2) + Behind(MReg, 2) + Behind(WReg, 3),
             machineStats.FSTALL + One(FStall))
  /\ stage = "MemStage" /\ ~MReg.bubble /\ IsEcall(MReg) =>
       ~NextD.bubble /\ ERegO.bubble /\ MRegO.bubble /\ ~FStall
  /\ stage = "Writeback" =>
       Holds(machineStats.machineCycle + 1,
             One(NextD.bubble) + One(NextE.bubble) + One(MRegO.bubble) + One(WRegO.bubble),
             One(~WReg.bubble),
             Behind(NextE, 1) + Behind(MRegO, 2) + Behind(WRegO, 3) + Behind(WReg, 3),
             machineStats.FSTALL + One(FStall))
  /\ stage = "Latch" =>
       Holds(machineStats.machineCycle + 1,
             One(NextD.bubble) + One(NextE.bubble) + One(MRegO.bubble) + One(WRegO.bubble),
             0, Behind(NextE, 1) + Behind(MRegO, 2) + Behind(WRegO, 3),
             machineStats.FSTALL + One(FStall))

\* While a system call is in Writeback, nothing else is in flight to be counted.
BeforeCall ==
  stage # "Latch" /\ ~WReg.bubble /\ IsEcall(WReg) =>
    machineStats.machineCycle = Counted /\ machineStats.FSTALL = Repeated + 3

StatTypeOK == machineStats \in [StatField -> Nat]

Accounts == StatTypeOK /\ (status = "running" => Balance /\ BeforeCall) /\ ReportAddsUp

-----------------------------------------------------------------------------
\* The process starts with four bubbles and nothing counted.
LEMMA AccountsInit == StatInit => Accounts
<1>. SUFFICES ASSUME StatInit PROVE Accounts
  OBVIOUS
<1>1. DReg.bubble /\ EReg.bubble /\ MReg.bubble /\ WReg.bubble
<2>1. \A r \in Bubbles : r.bubble
  BY JunkAssumption DEF Bubbles, Bubble, PipReg
<2>. QED  BY <2>1 DEF StatInit, Init
<1>2. stage = "Fetch" /\ ~FStall /\ status = "running" /\ StatTypeOK
  BY DEF StatInit, Init, StatTypeOK
<1>3. /\ machineStats.machineCycle = 0 /\ machineStats.FSTALL = 0 /\ machineStats.instrCnt = 0
      /\ machineStats.ecallNum = 0 /\ machineStats.loadUseHazard = 0
      /\ machineStats.controlHazard = 0
  BY DEF StatInit, StatField
<1>. QED
  BY <1>1, <1>2, <1>3
     DEF Accounts, Balance, BeforeCall, ReportAddsUp, Holds, Counted, Repeated, BubblesInFlight,
         Behind, One

\* Neither Fetch nor Decode moves an instruction, and a call asks for a bubble.
LEMMA AccountsFetch ==
  TypeOK /\ BubblesAndStalls /\ Accounts /\ (CountFetch \/ CountDecode) => Accounts'
<1>1. ASSUME TypeOK, BubblesAndStalls, Accounts, CountFetch PROVE Accounts'
  BY <1>1 DEF CountFetch, Fetch, At, Accounts, StatTypeOK, Balance, BeforeCall, ReportAddsUp,
              Holds, Counted, Repeated, BubblesInFlight, Behind, IsEcall, One
<1>2. ASSUME TypeOK, BubblesAndStalls, Accounts, CountDecode PROVE Accounts'
<2>1. At("Decode") /\ ~FStall /\ ~DRegO.bubble
  BY <1>2 DEF CountDecode, Decode, DecodeIdle, At, Accounts, Balance, BubblesAndStalls
<2>2. FStall' = DRegO'.bubble
<3>1. CASE DecodeIdle
  BY <3>1, <2>1, <1>2 DEF DecodeIdle, TypeOK, PipReg
<3>2. CASE Decode
  BY <3>2, <2>1, <1>2 DEF Decode, TypeOK, PipReg
<3>. QED  BY <1>2, <3>1, <3>2 DEF CountDecode
<2>3. /\ UNCHANGED <<DReg, EReg, MReg, WReg, status, machineStats>>
      /\ stage' = "Execute"
  BY <1>2 DEF CountDecode, Decode, DecodeIdle, statistics
<2>. QED
  BY <1>2, <2>1, <2>2, <2>3
     DEF At, Accounts, StatTypeOK, Balance, BeforeCall, ReportAddsUp, Holds, Counted, Repeated,
         BubblesInFlight, Behind, IsEcall, One
<1>. QED  BY <1>1, <1>2

-----------------------------------------------------------------------------
\* Counting keeps counters natural numbers.
LEMMA CountTyped ==
  ASSUME NEW s \in [StatField -> Nat], NEW c \in StatField, NEW n \in Nat
  PROVE  [s EXCEPT ![c] = s[c] + n] \in [StatField -> Nat]
  OBVIOUS

\* What the counters say after Execute.
LEMMA ExecuteCounts ==
  ASSUME StatTypeOK, CountExecute
  PROVE  /\ StatTypeOK'
         /\ machineStats'.loadUseHazard = machineStats.loadUseHazard + LoadUses
         /\ machineStats'.controlHazard = machineStats.controlHazard + One(ControlHazard)
         /\ machineStats'.machineCycle = machineStats.machineCycle
         /\ machineStats'.FSTALL = machineStats.FSTALL
         /\ machineStats'.instrCnt = machineStats.instrCnt
         /\ machineStats'.ecallNum = machineStats.ecallNum
<1>. DEFINE mis  == One(Mispredicted)
            suc  == One(Predicted)
            ctl  == One(ControlHazard)
            data == Forwards(ExForwards(ERegO.srcA), ExForwards(ERegO.srcB))
            lu   == LoadUses
<1>1. mis \in Nat /\ suc \in Nat /\ ctl \in Nat /\ data \in Nat /\ lu \in Nat
  BY DEF One, Forwards, LoadUses
<1>2. machineStats' = [machineStats EXCEPT !.controlHazard = @ + ctl, !.misPrediction = @ + mis,
                                           !.sucPrediction = @ + suc, !.dataHazard = @ + data,
                                           !.loadUseHazard = @ + lu]
  BY DEF CountExecute
<1>. HIDE DEF mis, suc, ctl, data, lu
<1>3. /\ machineStats' \in [StatField -> Nat]
      /\ machineStats'.loadUseHazard = machineStats.loadUseHazard + lu
      /\ machineStats'.controlHazard = machineStats.controlHazard + ctl
      /\ machineStats'.machineCycle = machineStats.machineCycle
      /\ machineStats'.FSTALL = machineStats.FSTALL
      /\ machineStats'.instrCnt = machineStats.instrCnt
      /\ machineStats'.ecallNum = machineStats.ecallNum
<2>1. {"machineCycle", "instrCnt", "ecallNum", "loadUseHazard", "controlHazard",
        "misPrediction", "sucPrediction", "dataHazard", "FSTALL"} \subseteq StatField
  BY DEF StatField
<2>2. machineStats \in [StatField -> Nat]
  BY DEF StatTypeOK
<2>3. machineStats' \in [StatField -> Nat]
<3>. DEFINE s1 == [machineStats EXCEPT !.controlHazard = machineStats.controlHazard + ctl]
            s2 == [s1 EXCEPT !.misPrediction = s1.misPrediction + mis]
            s3 == [s2 EXCEPT !.sucPrediction = s2.sucPrediction + suc]
            s4 == [s3 EXCEPT !.dataHazard = s3.dataHazard + data]
            s5 == [s4 EXCEPT !.loadUseHazard = s4.loadUseHazard + lu]
<3>1. s1 \in [StatField -> Nat]
  BY <1>1, <2>1, <2>2, CountTyped
<3>. HIDE DEF s1
<3>2. s2 \in [StatField -> Nat]
  BY <1>1, <2>1, <3>1, CountTyped
<3>. HIDE DEF s2
<3>3. s3 \in [StatField -> Nat]
  BY <1>1, <2>1, <3>2, CountTyped
<3>. HIDE DEF s3
<3>4. s4 \in [StatField -> Nat]
  BY <1>1, <2>1, <3>3, CountTyped
<3>. HIDE DEF s4
<3>5. s5 \in [StatField -> Nat]
  BY <1>1, <2>1, <3>4, CountTyped
<3>6. machineStats' = s5
  BY <1>2, <2>1, <2>2 DEF s1, s2, s3, s4
<3>. QED  BY <3>5, <3>6
<2>. QED  BY <1>1, <1>2, <2>1, <2>2, <2>3
<1>. QED  BY <1>3 DEF StatTypeOK, lu, ctl

\* Execute squashes two for a control hazard, one for a load-use hazard, and holds
\* what is behind a call.
LEMMA AccountsExecute ==
  TypeOK /\ BubblesAndStalls /\ Accounts /\ CountExecute => Accounts'
<1>. SUFFICES ASSUME TypeOK, BubblesAndStalls, Accounts, CountExecute PROVE Accounts'
  OBVIOUS
<1>1. Execute /\ At("Execute") /\ ~Idle(EReg) /\ stage' = "MemStage" /\ status' = "running"
  BY DEF CountExecute, Execute, At
<1>2. /\ Holds(machineStats.machineCycle, BubblesInFlight, 0,
               Behind(EReg, 1) + Behind(MReg, 2) + Behind(WReg, 3), machineStats.FSTALL)
      /\ FStall = DRegO.bubble /\ BeforeCall
  BY <1>1 DEF Accounts, Balance, At
<1>3. /\ ~EReg.bubble /\ ~DReg.stall /\ ERegO.bubble = DReg.bubble
      /\ (DReg.bubble => IsEcall(EReg)) /\ (IsEcall(EReg) => DReg.bubble)
      /\ Alone(MReg, EReg) /\ Alone(WReg, EReg)
      /\ (DRegO.bubble <=> ~ERegO.bubble /\ IsEcall(ERegO))
  BY <1>1 DEF At, Idle, BubblesAndStalls, SerialFront, Alone
<1>4. LoadUse => ~DReg.bubble /\ ~Flush /\ ~IsEcall(EReg)
  BY <1>1, LoadUseFacts
<1>5. IsEcall(EReg) => ~Flush
  BY DEF IsEcall, Flush, Mispredicted, SBType
<1>6. /\ DReg'.bubble <=> ((DReg.bubble \/ Flush) /\ ~LoadUse)
      /\ DReg'.stall <=> Hold
      /\ DRegO'.bubble <=> DRegO.bubble \/ Flush
      /\ ERegO'.bubble <=> ERegO.bubble \/ Dropped
      /\ ERegO'.instr = ERegO.instr
      /\ ~MRegO'.bubble /\ MRegO'.instr = EReg.instr
      /\ FStall' <=> Hold \/ (FStall /\ ~Flush)
      /\ UNCHANGED <<MReg, WReg>>
  BY <1>1, <1>3 DEF Execute, TypeOK, PipReg
<1>7. NextD'.bubble <=> IF Hold THEN DReg'.bubble ELSE DRegO'.bubble
  BY <1>1, <1>6 DEF NextD, Advance, TypeOK, PipReg, Execute
<1>8. Hold <=> LoadUse \/ IsEcall(EReg)
  BY DEF Hold, IsEcall
<1>9. ~(~MReg.bubble /\ IsEcall(MReg)) /\ ~(~WReg.bubble /\ IsEcall(WReg))
  BY <1>3 DEF Alone
<1>10. LoadUses = One(LoadUse) /\ One(ControlHazard) = One(Flush)
  BY DEF LoadUses, ControlHazard
<1>11. StatTypeOK
  BY DEF Accounts
<1>12. Holds(machineStats.machineCycle + 1,
             One(NextD.bubble) + One(ERegO.bubble) + One(MRegO.bubble) + One(MReg.bubble),
             One(~WReg.bubble),
             Behind(ERegO, 1) + Behind(MRegO, 2) + Behind(MReg, 2) + Behind(WReg, 3),
             machineStats.FSTALL + One(FStall))'
<2>. USE <1>11, <1>2, <1>3, <1>6, <1>7, <1>8, <1>9, <1>10, ExecuteCounts
     DEF Holds, Counted, Repeated, BubblesInFlight, Behind, One, IsEcall, StatTypeOK, StatField, Dropped
<2>1. CASE Flush
  BY <2>1, <1>4, <1>5
<2>2. CASE LoadUse
  BY <2>2, <1>4
<2>3. CASE IsEcall(EReg)
  BY <2>3, <1>4, <1>5
<2>4. CASE ~Flush /\ ~LoadUse /\ ~IsEcall(EReg)
  BY <2>4
<2>. QED  BY <2>1, <2>2, <2>3, <2>4
<1>13. MReg'.bubble \/ ~IsEcall(MReg')
  BY <1>6, <1>9
<1>. QED
  BY <1>1, <1>6, <1>9, <1>11, <1>12, <1>13, ExecuteCounts
     DEF At, Accounts, Balance, BeforeCall, ReportAddsUp, IsEcall

\* A bubble in Execute becomes one in MemStage; nothing is counted.
LEMMA AccountsExecuteIdle ==
  TypeOK /\ BubblesAndStalls /\ Accounts /\ CountIdle /\ ExecuteIdle => Accounts'
<1>. SUFFICES ASSUME TypeOK, BubblesAndStalls, Accounts, CountIdle, ExecuteIdle PROVE Accounts'
  OBVIOUS
<1>1. /\ EReg.bubble /\ ~DReg.stall /\ ERegO.bubble = DReg.bubble
      /\ (DRegO.bubble <=> ~ERegO.bubble /\ IsEcall(ERegO)) /\ FStall = DRegO.bubble
      /\ Holds(machineStats.machineCycle, BubblesInFlight, 0,
               Behind(EReg, 1) + Behind(MReg, 2) + Behind(WReg, 3), machineStats.FSTALL)
  BY DEF ExecuteIdle, Idle, At, BubblesAndStalls, Accounts, Balance
<1>2. MRegO'.bubble
  BY DEF ExecuteIdle, Bubble, TypeOK, PipReg
<1>3. NextD' = DRegO
  BY <1>1 DEF NextD, Advance, ExecuteIdle
<1>4. UNCHANGED <<machineStats, DReg, ERegO, MReg, WReg, FStall>> /\ StatTypeOK
  BY DEF CountIdle, statistics, ExecuteIdle, Accounts
<1>5. Holds(machineStats.machineCycle + 1,
            One(NextD.bubble) + One(ERegO.bubble) + One(MRegO.bubble) + One(MReg.bubble),
            One(~WReg.bubble),
            Behind(ERegO, 1) + Behind(MRegO, 2) + Behind(MReg, 2) + Behind(WReg, 3),
            machineStats.FSTALL + One(FStall))'
  BY <1>1, <1>2, <1>3, <1>4
     DEF Holds, Counted, Repeated, BubblesInFlight, Behind, One, IsEcall, StatTypeOK, StatField
<1>6. ~MReg.bubble /\ IsEcall(MReg) =>
        ~NextD'.bubble /\ ERegO.bubble /\ MRegO'.bubble /\ ~FStall
  BY <1>1, <1>2, <1>3 DEF ExecuteIdle, At, BubblesAndStalls, Alone
<1>. QED
  BY <1>4, <1>5, <1>6
     DEF ExecuteIdle, At, Accounts, StatTypeOK, Balance, BeforeCall, ReportAddsUp, IsEcall,
         Counted, Repeated

\* A bubble in MemStage becomes one in Writeback.
LEMMA AccountsMemStageIdle ==
  TypeOK /\ BubblesAndStalls /\ Accounts /\ CountIdle /\ MemStageIdle => Accounts'
<1>. SUFFICES ASSUME TypeOK, BubblesAndStalls, Accounts, CountIdle, MemStageIdle PROVE Accounts'
  OBVIOUS
<1>1. MReg.bubble /\ ~EReg.stall /\ UNCHANGED machineStats
  BY DEF MemStageIdle, Idle, At, BubblesAndStalls, CountIdle, statistics
<1>2. WRegO'.bubble /\ NextD' = NextD /\ NextE' = ERegO
  BY <1>1 DEF MemStageIdle, Bubble, TypeOK, PipReg, NextD, NextE, Advance
<1>. QED
  BY <1>1, <1>2
     DEF MemStageIdle, At, Accounts, StatTypeOK, Balance, BeforeCall, ReportAddsUp, Holds,
         Counted, Repeated, Behind, One, IsEcall

\* MemStage puts the last of the three bubbles behind a call.
LEMMA AccountsMemStage ==
  TypeOK /\ BubblesAndStalls /\ Accounts /\ CountMemStage => Accounts'
<1>. SUFFICES ASSUME TypeOK, BubblesAndStalls, Accounts, CountMemStage PROVE Accounts'
  OBVIOUS
<1>1. /\ MemStage /\ stage = "MemStage" /\ status = "running"
      /\ stage' = "Writeback" /\ status' = "running"
      /\ UNCHANGED WReg
  BY DEF CountMemStage, MemStage, At
<1>2. /\ StatTypeOK'
      /\ machineStats'.loadUseHazard = machineStats.loadUseHazard
      /\ machineStats'.controlHazard = machineStats.controlHazard
      /\ machineStats'.machineCycle = machineStats.machineCycle
      /\ machineStats'.FSTALL = machineStats.FSTALL
      /\ machineStats'.instrCnt = machineStats.instrCnt
      /\ machineStats'.ecallNum = machineStats.ecallNum
<2>. DEFINE data == Forwards(MemForwardsE(ERegO.srcA, forwardA), MemForwardsE(ERegO.srcB, forwardB))
                      + Forwards(MemForwardsM(ERegO.srcA), MemForwardsM(ERegO.srcB))
<2>1. data \in Nat
  BY DEF Forwards, One
<2>2. machineStats' = [machineStats EXCEPT !.dataHazard = machineStats.dataHazard + data]
<3>1. "dataHazard" \in StatField /\ machineStats.dataHazard \in Nat
  BY DEF StatField, Accounts, StatTypeOK
<3>2. machineStats.dataHazard + data =
        machineStats.dataHazard
          + Forwards(MemForwardsE(ERegO.srcA, forwardA), MemForwardsE(ERegO.srcB, forwardB))
          + Forwards(MemForwardsM(ERegO.srcA), MemForwardsM(ERegO.srcB))
  BY <3>1 DEF Forwards, One
<3>. HIDE DEF data
<3>. QED  BY <3>2 DEF CountMemStage
<2>. HIDE DEF data
<2>. QED  BY <2>1, <2>2, CountTyped DEF Accounts, StatTypeOK, StatField
<1>3. /\ ~MReg.bubble /\ ~EReg.stall
      /\ Alone(MReg, DReg) /\ Alone(MReg, EReg) /\ Alone(WReg, MReg)
      /\ SerialFront(NextD, ERegO, MRegO)
  BY <1>1 DEF MemStage, At, Idle, BubblesAndStalls, NextD
<1>4. /\ DReg'.bubble = DReg.bubble /\ DReg'.stall = (DReg.stall \/ IsEcall(MReg))
      /\ EReg'.bubble = EReg.bubble /\ EReg'.stall = IsEcall(MReg)
      /\ ERegO'.bubble = ERegO.bubble /\ ERegO'.instr = ERegO.instr
      /\ MRegO'.bubble = (MRegO.bubble \/ IsEcall(MReg)) /\ MRegO'.instr = MRegO.instr
      /\ ~WRegO'.bubble /\ WRegO'.instr = MReg.instr
      /\ DRegO' = DRegO
      /\ FStall' = (FStall \/ IsEcall(MReg))
  BY <1>1, <1>3 DEF MemStage, TypeOK, PipReg, IsEcall
<1>5. /\ Holds(machineStats.machineCycle + 1,
               One(NextD.bubble) + One(ERegO.bubble) + One(MRegO.bubble) + One(MReg.bubble),
               One(~WReg.bubble),
               Behind(ERegO, 1) + Behind(MRegO, 2) + Behind(MReg, 2) + Behind(WReg, 3),
               machineStats.FSTALL + One(FStall))
      /\ (IsEcall(MReg) => ~NextD.bubble /\ ERegO.bubble /\ MRegO.bubble /\ ~FStall)
      /\ BeforeCall /\ StatTypeOK /\ ReportAddsUp
  BY <1>1, <1>3 DEF Accounts, Balance
<1>6. Holds(machineStats.machineCycle + 1,
            One(NextD.bubble) + One(NextE.bubble) + One(MRegO.bubble) + One(WRegO.bubble),
            One(~WReg.bubble),
            Behind(NextE, 1) + Behind(MRegO, 2) + Behind(WRegO, 3) + Behind(WReg, 3),
            machineStats.FSTALL + One(FStall))'
<2>1. CASE IsEcall(MReg)
<3>1. NextD'.bubble /\ NextE'.bubble
  BY <1>1, <1>3, <1>4, <2>1 DEF NextD, NextE, Advance, Alone, TypeOK, PipReg, MemStage
<3>2. MRegO'.bubble /\ ~WRegO'.bubble /\ IsEcall(WRegO') /\ FStall'
  BY <1>4, <2>1 DEF IsEcall
<3>3. /\ Behind(ERegO, 1) = 0 /\ Behind(MRegO, 2) = 0 /\ Behind(MReg, 2) = 2
      /\ Behind(WReg, 3) = 0
  BY <1>3, <1>5, <2>1 DEF Behind, Alone
<3>4. /\ Behind(NextE', 1) = 0 /\ Behind(MRegO', 2) = 0 /\ Behind(WRegO', 3) = 3
      /\ Behind(WReg', 3) = 0
  BY <1>1, <3>1, <3>2, <3>3 DEF Behind
<3>. QED
  BY <1>1, <1>2, <1>3, <1>5, <2>1, <3>1, <3>2, <3>3, <3>4
     DEF Holds, Counted, Repeated, One, StatTypeOK, StatField
<2>2. CASE ~IsEcall(MReg)
<3>1. NextD'.bubble = NextD.bubble /\ NextE' = ERegO'
  BY <1>3, <1>4, <2>2 DEF NextD, NextE, Advance, TypeOK, PipReg, MemStage
<3>2. /\ MRegO'.bubble <=> MRegO.bubble
      /\ FStall' <=> FStall
  BY <1>4, <2>2
<3>. QED
  BY <1>1, <1>2, <1>3, <1>4, <1>5, <2>2, <3>1, <3>2
     DEF Holds, Counted, Repeated, Behind, One, IsEcall, StatTypeOK, StatField
<2>. QED  BY <2>1, <2>2
<1>7. BeforeCall'
  BY <1>1, <1>2, <1>5 DEF BeforeCall, IsEcall, Counted, Repeated
<1>. QED
  BY <1>1, <1>2, <1>6, <1>7 DEF Accounts, Balance, ReportAddsUp

\* Writeback retires what was in flight.
LEMMA AccountsWriteback ==
  TypeOK /\ BubblesAndStalls /\ Accounts /\ CountWriteback => Accounts'
<1>. SUFFICES ASSUME TypeOK, BubblesAndStalls, Accounts, CountWriteback PROVE Accounts'
  OBVIOUS
<1>1. /\ Writeback /\ stage = "Writeback" /\ status = "running"
      /\ stage' = "Latch" /\ status' = "running" /\ ~WReg.bubble /\ ~IsEcall(WReg)
      /\ UNCHANGED <<DReg, DRegO, EReg, MRegO, WReg, WRegO, FStall>>
  BY DEF CountWriteback, Writeback, At, Idle, IsEcall
<1>2. /\ StatTypeOK'
      /\ machineStats'.loadUseHazard = machineStats.loadUseHazard
      /\ machineStats'.controlHazard = machineStats.controlHazard
      /\ machineStats'.machineCycle = machineStats.machineCycle
      /\ machineStats'.FSTALL = machineStats.FSTALL
      /\ machineStats'.instrCnt = machineStats.instrCnt + 1
      /\ machineStats'.ecallNum = machineStats.ecallNum
<2>. DEFINE data == machineStats.dataHazard + WbForwards(WReg.dstE) + WbForwards(WReg.dstM)
            s    == [machineStats EXCEPT !.dataHazard = data]
<2>1. machineStats \in [StatField -> Nat]
  BY DEF Accounts, StatTypeOK
<2>2. machineStats.dataHazard \in Nat
  BY <2>1 DEF StatField
<2>3. WbForwards(WReg.dstE) \in Nat /\ WbForwards(WReg.dstM) \in Nat
  BY DEF WbForwards, Forwards, One
<2>4. data \in Nat
  BY <2>2, <2>3
<2>5. machineStats' = [s EXCEPT !.instrCnt = s.instrCnt + 1]
  BY <2>1 DEF CountWriteback, StatField
<2>. HIDE DEF data
<2>6. s \in [StatField -> Nat]
  BY <2>1, <2>4
<2>7. machineStats' \in [StatField -> Nat]
  BY <2>5, <2>6, CountTyped DEF StatField
<2>. QED  BY <2>1, <2>5, <2>7 DEF StatTypeOK, StatField
<1>3. NextD' = NextD /\ NextE'.bubble = NextE.bubble /\ IsEcall(NextE') = IsEcall(NextE)
<2>1. ERegO'.bubble = ERegO.bubble /\ ERegO'.instr = ERegO.instr
  BY <1>1 DEF Writeback, TypeOK, PipReg
<2>. QED  BY <1>1, <2>1 DEF NextD, NextE, Advance, IsEcall
<1>4. Behind(NextE', 1) = Behind(NextE, 1)
  BY <1>3 DEF Behind
<1>. QED
  BY <1>1, <1>2, <1>3, <1>4
     DEF Accounts, Balance, BeforeCall, ReportAddsUp, Holds, Counted, Repeated, Behind, One,
         IsEcall, StatTypeOK, StatField

\* There was nothing in Writeback to retire.
LEMMA AccountsWritebackIdle ==
  BubblesAndStalls /\ Accounts /\ CountIdle /\ WritebackIdle => Accounts'
<1>. SUFFICES ASSUME BubblesAndStalls, Accounts, CountIdle, WritebackIdle PROVE Accounts'
  OBVIOUS
<1>1. /\ WReg.bubble /\ stage = "Writeback" /\ stage' = "Latch" /\ status = "running"
      /\ UNCHANGED <<machineStats, latches, FStall, status>>
  BY DEF WritebackIdle, Idle, At, BubblesAndStalls, CountIdle, statistics
<1>2. UNCHANGED <<NextD, NextE>>
  BY <1>1 DEF NextD, NextE, latches, Advance
<1>. QED
  BY <1>1, <1>2
     DEF Accounts, StatTypeOK, StatField, Balance, BeforeCall, ReportAddsUp, Holds, Counted,
         Repeated, Behind, One, IsEcall, latches

\* A system call accounts for the bubbles behind it, and exit for the report.
LEMMA AccountsSyscall ==
  BubblesAndStalls /\ Accounts /\ CountSyscall => Accounts'
<1>. SUFFICES ASSUME BubblesAndStalls, Accounts, CountSyscall PROVE Accounts'
  OBVIOUS
<1>1. /\ stage = "Writeback" /\ status = "running" /\ ~WReg.bubble /\ IsEcall(WReg)
      /\ UNCHANGED <<latches, FStall>>
      /\ \/ stage' = "Latch" /\ status' = "running"
         \/ status' \in {"halted", "aborted"}
  BY DEF CountSyscall, Syscall, SyscallPrint, SyscallPrintStr, SyscallScanInt, SyscallUnknown,
         SyscallExit, SyscallReturns, AtSyscall, At, Abort, Idle, IsEcall
<1>2. StatTypeOK /\ Balance /\ BeforeCall
  BY <1>1 DEF Accounts
<1>3. /\ StatTypeOK'
      /\ machineStats'.loadUseHazard = machineStats.loadUseHazard
      /\ machineStats'.controlHazard = machineStats.controlHazard
      /\ machineStats'.machineCycle = machineStats.machineCycle
      /\ machineStats'.FSTALL = machineStats.FSTALL
      /\ machineStats'.instrCnt = machineStats.instrCnt
      /\ machineStats'.ecallNum = machineStats.ecallNum + 1
  BY <1>2, CountTyped DEF CountSyscall, StatTypeOK, StatField
<1>4. UNCHANGED <<NextD, NextE>>
  BY <1>1 DEF NextD, NextE, latches, Advance
<1>5. ReportAddsUp'
  BY <1>1, <1>2, <1>3 DEF ReportAddsUp, BeforeCall, Counted, Repeated, StatTypeOK, StatField
<1>6. CASE stage' = "Latch" /\ status' = "running"
<2>1. UNCHANGED <<MRegO, WRegO>>
  BY <1>1 DEF latches
<2>2. Balance'
  BY <1>1, <1>2, <1>3, <1>4, <1>6, <2>1
     DEF Balance, Holds, Counted, Repeated, Behind, One, IsEcall, StatTypeOK, StatField
<2>. QED  BY <1>3, <1>5, <1>6, <2>2 DEF Accounts, BeforeCall
<1>. QED  BY <1>1, <1>3, <1>5, <1>6 DEF Accounts

\* Latching ends the cycle.
LEMMA AccountsLatch ==
  TypeOK /\ BubblesAndStalls /\ Accounts /\ TicksPerCycle \in Nat /\ CountLatch => Accounts'
<1>. SUFFICES ASSUME TypeOK, BubblesAndStalls, Accounts, TicksPerCycle \in Nat, CountLatch PROVE Accounts'
  OBVIOUS
<1>1. /\ stage = "Latch" /\ status = "running" /\ stage' = "Fetch" /\ status' = "running"
      /\ ~FStall' /\ DReg' = NextD /\ EReg' = NextE /\ MReg' = MRegO /\ WReg' = WRegO
  BY DEF CountLatch, Latch, At, NextD, NextE, Advance, BubblesAndStalls
<1>2. /\ StatTypeOK'
      /\ machineStats'.loadUseHazard = machineStats.loadUseHazard
      /\ machineStats'.controlHazard = machineStats.controlHazard
      /\ machineStats'.machineCycle = machineStats.machineCycle + 1
      /\ machineStats'.FSTALL = machineStats.FSTALL + One(FStall)
      /\ machineStats'.instrCnt = machineStats.instrCnt
      /\ machineStats'.ecallNum = machineStats.ecallNum
<2>. DEFINE s1 == [machineStats EXCEPT !.FSTALL = machineStats.FSTALL + One(FStall)]
            s2 == [s1 EXCEPT !.machineCycle = s1.machineCycle + 1]
            s3 == [s2 EXCEPT !.cycle = s2.cycle + TicksPerCycle]
<2>1. machineStats \in [StatField -> Nat] /\ One(FStall) \in Nat /\ TicksPerCycle \in Nat
  BY DEF Accounts, StatTypeOK, One
<2>2. {"FSTALL", "machineCycle", "cycle", "loadUseHazard", "controlHazard", "instrCnt", "ecallNum"}
        \subseteq StatField
  BY DEF StatField
<2>3. s1 \in [StatField -> Nat]
  BY <2>1, <2>2, CountTyped
<2>4. machineStats' = s3
  BY <2>1, <2>2 DEF CountLatch
<2>5. s2 \in [StatField -> Nat]
<3>. HIDE DEF s1
<3>. QED  BY <2>2, <2>3, CountTyped
<2>6. s3 \in [StatField -> Nat]
<3>. HIDE DEF s2
<3>. QED  BY <2>1, <2>2, <2>5, CountTyped
<2>. QED  BY <2>1, <2>2, <2>4, <2>6 DEF StatTypeOK
<1>3. Alone(WRegO, NextD) /\ Alone(WRegO, NextE) /\ Alone(WRegO, MRegO)
  BY <1>1 DEF BubblesAndStalls, Serial, NextD, NextE
<1>4. Balance'
  BY <1>1, <1>2
     DEF Accounts, Balance, Holds, Counted, Repeated, BubblesInFlight, Behind, One, IsEcall,
         StatTypeOK, StatField
<1>5. BeforeCall'
<2>. SUFFICES ASSUME ~WReg'.bubble, IsEcall(WReg')
              PROVE  (machineStats.machineCycle = Counted /\ machineStats.FSTALL = Repeated + 3)'
  BY DEF BeforeCall
<2>1. DReg'.bubble /\ EReg'.bubble /\ MReg'.bubble
  BY <1>1, <1>3 DEF Alone, IsEcall
<2>2. Holds(machineStats.machineCycle, BubblesInFlight, 0,
            Behind(EReg, 1) + Behind(MReg, 2) + Behind(WReg, 3), machineStats.FSTALL)'
  BY <1>1, <1>4 DEF Balance
<2>3. /\ Behind(EReg', 1) = 0 /\ Behind(MReg', 2) = 0 /\ Behind(WReg', 3) = 3
      /\ BubblesInFlight' = 3
  BY <2>1 DEF Behind, BubblesInFlight, One
<2>. QED
  BY <1>2, <2>2, <2>3 DEF Holds, Counted, Repeated, StatTypeOK, StatField
<1>. QED  BY <1>1, <1>2, <1>4, <1>5 DEF Accounts, ReportAddsUp

-----------------------------------------------------------------------------
(* The ticks of a cycle.                                                   *)

Executed == IF Idle(EReg) THEN {} ELSE {instrPfm[EReg.instr.op]}
Accessed == IF ~WRegO.bubble /\ WRegO.instr.op \in {"load", "store"} THEN {DATA_TICKS} ELSE {}

Slowest(ticks) == TicksPerCycle \in ticks /\ \A t \in ticks : t <= TicksPerCycle

\* What has taken time so far in this cycle.
SlowestSoFar ==
  /\ TicksPerCycle \in Nat
  /\ stage = "Fetch" => TicksPerCycle = 1
  /\ stage \in {"Decode", "Execute"} => Slowest({1, FETCH_TICKS})
  /\ stage = "MemStage" => Executed \subseteq Nat /\ Slowest({1, FETCH_TICKS} \cup Executed)
  /\ stage \in {"Writeback", "Latch"} => Slowest({1, FETCH_TICKS} \cup Executed \cup Accessed)

\* One more thing that takes time.
LEMMA LongerIsSlowest ==
  ASSUME TicksPerCycle \in Nat, NEW n \in Nat, NEW ticks, Slowest(ticks),
         ticks \subseteq Nat, TicksPerCycle' = Longer(n)
  PROVE  TicksPerCycle' \in Nat /\ Slowest(ticks \cup {n})'
  BY DEF Slowest, Longer

\* The stages that take no time.
LEMMA TicksKept ==
  ASSUME BubblesAndStalls, SlowestSoFar, UNCHANGED TicksPerCycle,
         \/ (stage' = stage \/ (stage = "Writeback" /\ stage' = "Latch"))
              /\ UNCHANGED <<EReg, WRegO>>
         \/ stage = "Decode" /\ stage' = "Execute"
         \/ stage = "Execute" /\ stage' = "MemStage" /\ EReg.bubble /\ UNCHANGED EReg
         \/ stage = "MemStage" /\ stage' = "Writeback" /\ WRegO'.bubble /\ UNCHANGED EReg
  PROVE  SlowestSoFar'
  BY DEF SlowestSoFar, Slowest, Executed, Accessed, Idle

\* Every step keeps SlowestSoFar.
LEMMA TicksNext ==
  TypeOK /\ BubblesAndStalls /\ SlowestSoFar /\ [StatNext]_<<vars, statistics>> => SlowestSoFar'
<1>. SUFFICES ASSUME TypeOK, BubblesAndStalls, SlowestSoFar, [StatNext]_<<vars, statistics>>
              PROVE  SlowestSoFar'
  OBVIOUS
<1>1. CASE CountFetch
<2>1. stage = "Fetch" /\ stage' = "Decode" /\ TicksPerCycle' = Longer(FETCH_TICKS)
  BY <1>1 DEF CountFetch, Fetch, At
<2>2. Slowest({1})
  BY <2>1 DEF SlowestSoFar, Slowest
<2>3. TicksPerCycle' \in Nat /\ Slowest({1} \cup {FETCH_TICKS})'
  BY <2>1, <2>2, LongerIsSlowest, TicksAssumption DEF SlowestSoFar
<2>4. {1} \cup {FETCH_TICKS} = {1, FETCH_TICKS}
  OBVIOUS
<2>. QED  BY <2>1, <2>3, <2>4 DEF SlowestSoFar, Slowest
<1>2. CASE CountDecode
  BY <1>2, TicksKept DEF CountDecode, Decode, DecodeIdle, At, statistics
<1>3. CASE CountExecute
<2>1. /\ stage = "Execute" /\ stage' = "MemStage" /\ UNCHANGED EReg /\ ~Idle(EReg)
      /\ TicksPerCycle' = Longer(instrPfm[EReg.instr.op])
  BY <1>3 DEF CountExecute, Execute, At
<2>2. EReg.instr.op \in Legal
  BY <2>1 DEF BubblesAndStalls, SerialFront, Decoded, Idle
<2>3. instrPfm[EReg.instr.op] \in Nat
  BY <2>2, TicksAssumption
<2>4. TicksPerCycle' \in Nat /\ Slowest({1, FETCH_TICKS} \cup {instrPfm[EReg.instr.op]})'
  BY <2>1, <2>3, LongerIsSlowest, TicksAssumption DEF SlowestSoFar
<2>. QED  BY <2>1, <2>3, <2>4 DEF SlowestSoFar, Slowest, Executed, Idle
<1>4. CASE CountMemStage
<2>1. /\ stage = "MemStage" /\ stage' = "Writeback" /\ ~MReg.bubble /\ MemStage
      /\ TicksPerCycle' = IF MReg.instr.op \in {"load", "store"} THEN Longer(DATA_TICKS)
                           ELSE TicksPerCycle
  BY <1>4 DEF CountMemStage, MemStage, At, Idle
<2>2. ~WRegO'.bubble /\ WRegO'.instr = MReg.instr
  BY <2>1 DEF MemStage, TypeOK, PipReg
<2>3. EReg'.instr = EReg.instr /\ (Idle(EReg') <=> Idle(EReg))
<3>1. /\ EReg'.instr = EReg.instr /\ (EReg'.bubble <=> EReg.bubble)
      /\ (EReg'.stall <=> EReg.stall \/ MReg.instr.op = "ecall")
  BY <2>1 DEF MemStage, TypeOK, PipReg
<3>2. MReg.instr.op = "ecall" => EReg.bubble
  BY <2>1 DEF BubblesAndStalls, Alone, IsEcall
<3>. QED  BY <3>1, <3>2 DEF Idle
<2>4. Executed' = Executed /\ Executed \subseteq Nat
  BY <2>1, <2>3 DEF Executed, SlowestSoFar
<2>5. CASE MReg.instr.op \in {"load", "store"}
<3>1. Slowest({1, FETCH_TICKS} \cup Executed) /\ {1, FETCH_TICKS} \cup Executed \subseteq Nat
  BY <2>1, <2>4, TicksAssumption DEF SlowestSoFar
<3>2. TicksPerCycle' \in Nat
      /\ TicksPerCycle' \in {1, FETCH_TICKS} \cup Executed \cup {DATA_TICKS}
      /\ \A t \in {1, FETCH_TICKS} \cup Executed \cup {DATA_TICKS} : t <= TicksPerCycle'
  BY <2>1, <2>5, <3>1, TicksAssumption DEF SlowestSoFar, Longer, Slowest
<3>3. Accessed' = {DATA_TICKS}
  BY <2>2, <2>5 DEF Accessed
<3>. QED  BY <2>1, <2>4, <3>2, <3>3 DEF SlowestSoFar, Slowest
<2>6. CASE MReg.instr.op \notin {"load", "store"}
<3>1. Accessed' = {} /\ UNCHANGED TicksPerCycle
  BY <2>1, <2>2, <2>6 DEF Accessed
<3>. QED  BY <2>1, <2>4, <3>1 DEF SlowestSoFar, Slowest
<2>. QED  BY <2>5, <2>6
<1>5. CASE CountWriteback
  BY <1>5, TicksKept DEF CountWriteback, Writeback, At
<1>6. CASE CountSyscall \/ CountAbort \/ UNCHANGED <<vars, statistics>>
<2>1. /\ UNCHANGED <<latches, TicksPerCycle>>
      /\ \/ stage' = stage
         \/ At("Writeback") /\ stage' = "Latch"
<3>1. CASE CountSyscall
  BY <3>1, LatchesUnchanged DEF CountSyscall
<3>2. CASE CountAbort
  BY <3>2, LatchesUnchanged DEF CountAbort, Ended, statistics
<3>3. CASE UNCHANGED <<vars, statistics>>
  BY <3>3, LatchesUnchanged DEF statistics
<3>. QED  BY <1>6, <3>1, <3>2, <3>3
<2>2. UNCHANGED <<EReg, WRegO>>
  BY <2>1 DEF latches
<2>3. stage' = stage \/ (stage = "Writeback" /\ stage' = "Latch")
  BY <2>1 DEF At
<2>. QED  BY <2>1, <2>2, <2>3, TicksKept
<1>7. CASE CountIdle
<2>1. CASE ExecuteIdle
  BY <1>7, <2>1, TicksKept DEF CountIdle, statistics, ExecuteIdle, At, Idle, BubblesAndStalls
<2>2. CASE MemStageIdle
<3>1. WRegO'.bubble
  BY <2>2 DEF MemStageIdle, Bubble, TypeOK, PipReg
<3>. QED  BY <1>7, <2>2, <3>1, TicksKept DEF CountIdle, statistics, MemStageIdle, At
<2>3. CASE WritebackIdle
  BY <1>7, <2>3, TicksKept DEF CountIdle, statistics, WritebackIdle, At, latches
<2>. QED  BY <1>7, <2>1, <2>2, <2>3 DEF CountIdle
<1>8. CASE CountLatch
  BY <1>8 DEF CountLatch, Latch, At, SlowestSoFar, Slowest, FirstTicks
<1>. QED
  BY <1>1, <1>2, <1>3, <1>4, <1>5, <1>6, <1>7, <1>8 DEF StatNext

-----------------------------------------------------------------------------
\* A step of the statistics is a step of the pipeline.
LEMMA StatStepIsStep == [StatNext]_<<vars, statistics>> => [Next]_vars
  BY DEF StatNext, CountFetch, CountDecode, CountExecute, CountMemStage, CountWriteback,
         CountSyscall, CountIdle, CountLatch, CountAbort, Next, Ended

StatInv == TypeOK /\ BubblesAndStalls /\ Accounts /\ SlowestSoFar

\* Every step keeps the account.
LEMMA StatInvNext == StatInv /\ [StatNext]_<<vars, statistics>> => StatInv'
<1>. SUFFICES ASSUME StatInv, [StatNext]_<<vars, statistics>> PROVE StatInv'
  OBVIOUS
<1>1. TypeOK /\ BubblesAndStalls /\ Accounts /\ TicksPerCycle \in Nat
  BY DEF StatInv, SlowestSoFar
<1>2. TypeOK' /\ BubblesAndStalls' /\ SlowestSoFar'
  BY StatStepIsStep, TypeNext, BubblesNext, TicksNext DEF StatInv
<1>3. ASSUME CountAbort PROVE Accounts'
<2>1. CASE Ended
  BY <1>1, <1>3, <2>1 DEF CountAbort, Ended, vars, statistics, latches, Accounts, StatTypeOK, ReportAddsUp
<2>2. CASE FetchFault \/ DecodeFault \/ MemFault
  BY <1>1, <1>3, <2>2 DEF CountAbort, FetchFault, DecodeFault, MemFault, Abort, statistics,
                          Accounts, StatTypeOK, ReportAddsUp
<2>. QED  BY <1>3, <2>1, <2>2 DEF CountAbort
<1>4. ASSUME UNCHANGED <<vars, statistics>> PROVE Accounts'
  BY <1>1, <1>4
     DEF vars, statistics, latches, Accounts, StatTypeOK, Balance, BeforeCall, ReportAddsUp, Holds,
         Counted, Repeated, BubblesInFlight, Behind, One, IsEcall, NextD, NextE, Advance
<1>5. Accounts'
  BY <1>1, <1>3, <1>4, AccountsFetch, AccountsExecute, AccountsExecuteIdle, AccountsMemStage,
     AccountsMemStageIdle, AccountsWriteback, AccountsWritebackIdle, AccountsSyscall, AccountsLatch
     DEF StatNext, CountIdle
<1>. QED  BY <1>2, <1>5 DEF StatInv

\* The account holds throughout.
LEMMA StatInvCorrect == StatSpec => []StatInv
<1>1. StatInit => StatInv
<2>1. StatInit => Init /\ SlowestSoFar
  BY DEF StatInit, Init, SlowestSoFar
<2>. QED  BY <2>1, TypeInit, InitBubbles, AccountsInit DEF StatInit, StatInv
<1>. QED  BY <1>1, StatInvNext, PTL DEF StatSpec

(* Every cycle of every run is accounted for: it retired an instruction,   *)
(* made a call or carried one of the bubbles the hazards counted put into  *)
(* the pipeline (the counters of Run, Execute, MemStage and Writeback).    *)
THEOREM CyclesCorrect == StatSpec => []CyclesAreAccounted
<1>1. StatInv => CyclesAreAccounted
<2>. SUFFICES ASSUME StatInv, At("Fetch") PROVE CyclesAreAccounted
  BY DEF CyclesAreAccounted
<2>1. Holds(machineStats.machineCycle, BubblesInFlight, 0,
            Behind(EReg, 1) + Behind(MReg, 2) + Behind(WReg, 3), machineStats.FSTALL)
  BY DEF StatInv, Accounts, Balance, At
<2>2. StatTypeOK
  BY DEF StatInv, Accounts
<2>. QED
  BY <2>1, <2>2 DEF CyclesAreAccounted, Holds, Counted, Repeated, EcallBubbles, Behind,
                    BubblesInFlight, One, StatTypeOK, StatField
<1>. QED  BY <1>1, StatInvCorrect, PTL

\* What Halt prints at a call of exit adds up.
THEOREM ReportCorrect == StatSpec => []ReportAddsUp
<1>1. StatInv => ReportAddsUp
  BY DEF StatInv, Accounts
<1>. QED  BY <1>1, StatInvCorrect, PTL

\* TicksPerCycle is that of the slowest stage, whatever the ticks are.
THEOREM TicksCorrect == StatSpec => []CycleOfTheSlowest
<1>1. StatInv => CycleOfTheSlowest
  BY DEF StatInv, SlowestSoFar, CycleOfTheSlowest, Slowest, Executed, Accessed, At
<1>. QED  BY <1>1, StatInvCorrect, PTL

-----------------------------------------------------------------------------
(* The statistics count what the sequential machine executes.              *)

\* What the sequential machine has counted.
CountedSeen == <<Instrs, Ecalls, Branches, Jumps, Waits>>

LEMMA CountsFromZero == StatInit => Counting!CountingInit
<1>. SUFFICES ASSUME StatInit PROVE Counting!CountingInit
  OBVIOUS
<1>1. Prefix!Init
  BY StartsAsISA DEF StatInit
<1>2. Counting!Init
  BY <1>1 DEF Prefix!Init, Counting!Init, Prefix!Reg, Counting!Reg, Prefix!Word, Counting!Word
<1>3. ASSUME NEW r \in Bubbles PROVE r.bubble
  BY JunkAssumption DEF Bubbles, Bubble, PipReg
<1>4. /\ ~WRegPending /\ ~WRegOPending /\ ~PendingM /\ ~PendingO /\ ~CallFailed
  BY <1>3 DEF StatInit, Init, WRegPending, WRegOPending, PendingM, PendingO, CallFailed
<1>5. /\ machineStats.instrCnt = 0 /\ machineStats.ecallNum = 0 /\ machineStats.misPrediction = 0
      /\ machineStats.sucPrediction = 0 /\ machineStats.controlHazard = 0
      /\ machineStats.loadUseHazard = 0
  BY DEF StatInit, StatField
<1>6. /\ One(WRegPending /\ ~IsEcall(WReg)) = 0 /\ One(WRegOPending /\ ~IsEcall(WRegO)) = 0
      /\ One(CallFailed) = 0
      /\ One(PendingM /\ IsBranch(MReg)) = 0 /\ One(PendingO /\ IsBranch(MRegO)) = 0
      /\ One(PendingM /\ IsJalr(MReg)) = 0 /\ One(PendingO /\ IsJalr(MRegO)) = 0
      /\ One(PendingM /\ UsedByNext(MReg)) = 0 /\ One(PendingO /\ UsedByNext(MRegO)) = 0
  BY <1>4 DEF One
<1>7. Instrs = 0 /\ Ecalls = 0 /\ Branches = 0 /\ Jumps = 0 /\ Waits = 0
  BY <1>5, <1>6 DEF Instrs, Ecalls, Branches, Jumps, Waits
<1>. QED  BY <1>2, <1>7 DEF Counting!CountingInit

\* A step of an early stage counts nothing.
LEMMA FrontCountsNothing ==
  Known /\ (CountFetch \/ CountDecode \/ (ExecuteIdle /\ UNCHANGED statistics))
    => UNCHANGED CountedSeen
<1>. SUFFICES ASSUME Known /\ (CountFetch \/ CountDecode \/ (ExecuteIdle /\ UNCHANGED statistics))
              PROVE  UNCHANGED CountedSeen
  OBVIOUS
<1>1. /\ UNCHANGED <<prog, machineStats, MReg, WReg>> /\ status = "running" /\ status' = "running"
      /\ stage \in {"Fetch", "Decode", "Execute"} /\ stage' \in {"Decode", "Execute", "MemStage"}
  BY DEF CountFetch, CountDecode, Fetch, Decode, DecodeIdle, ExecuteIdle, At, statistics
<1>2. stage' = "MemStage" => MRegO'.bubble
  BY DEF Known, TypeOK, PipReg, CountFetch, CountDecode, Fetch, Decode, DecodeIdle, ExecuteIdle, Bubble
<1>3. /\ WRegPending' = WRegPending /\ ~WRegOPending /\ ~WRegOPending'
      /\ PendingM' = PendingM /\ ~PendingO /\ ~PendingO' /\ ~CallFailed /\ ~CallFailed'
  BY <1>1, <1>2 DEF WRegPending, WRegOPending, PendingM, PendingO, CallFailed
<1>4. /\ IsEcall(WReg)' = IsEcall(WReg) /\ IsBranch(MReg)' = IsBranch(MReg)
      /\ IsJalr(MReg)' = IsJalr(MReg) /\ UsedByNext(MReg)' = UsedByNext(MReg)
  BY <1>1 DEF IsEcall, IsBranch, IsJalr, UsedByNext
<1>5. /\ Instrs' = Instrs /\ Ecalls' = Ecalls
  BY <1>1, <1>3, <1>4 DEF Instrs, Ecalls, One
<1>6. Branches' = Branches /\ Jumps' = Jumps /\ Waits' = Waits
  BY <1>1, <1>3, <1>4 DEF Branches, Jumps, Waits, One
<1>. QED  BY <1>5, <1>6 DEF CountedSeen

\* Execute counts a load-use hazard exactly if the next instruction of the
\* program reads what is loaded.
LEMMA LoadUseIsUsedByNext ==
  ASSUME Known, Execute
  PROVE  LoadUse <=> UsedByNext(EReg)
<1>1. ~EReg.bubble /\ stage = "Execute" /\ Decoded(EReg)
  BY DEF Known, Execute, At, Idle, BubblesAndStalls, SerialFront
<1>2. CASE EReg.dstM = ZEROREG
  BY <1>2 DEF LoadUse, UsedByNext
<1>3. CASE EReg.dstM # ZEROREG
  <2>1. EReg.instr.op = "load"
    BY <1>1, <1>3 DEF Decoded, DstM
  <2>2. ~DReg.bubble /\ ~ERegO.bubble
    BY <1>1, <2>1 DEF Known, BubblesAndStalls, SerialFront, IsEcall
  <2>3. DReg.addr = Continues(EReg)
    BY <1>1, <2>2 DEF Known, OnPath, Chain, After
  <2>4. DReg.addr = Plus(EReg.addr, 1)
    BY <2>1, <2>3 DEF Continues, IsBranch, SBType
  <2>5. DReg.addr \in DOMAIN prog /\ DReg.instr = prog[DReg.addr]
    BY <2>2 DEF Known, OnPath, Held
  <2>6. ERegO.instr = DReg.instr
    BY <1>1, <2>2 DEF Known, OnPath, SameBranch
  <2>7. ERegO.srcA = SrcA(ERegO.instr) /\ ERegO.srcB = SrcB(ERegO.instr)
    BY <1>1, <2>2 DEF Known, OperandInv
  <2>8. UsedByNext(EReg) <=> EReg.dstM \in {SrcA(DReg.instr), SrcB(DReg.instr)}
    BY <1>3, <2>4, <2>5 DEF UsedByNext
  <2>. QED  BY <1>3, <2>6, <2>7, <2>8 DEF LoadUse
<1>. QED  BY <1>2, <1>3

LEMMA ExecuteCountsAhead ==
  ASSUME Known, StatTypeOK, CountExecute
  PROVE  UNCHANGED CountedSeen
<1>1. /\ Execute /\ UNCHANGED <<prog, MReg, WReg>> /\ status = "running" /\ status' = "running"
      /\ stage = "Execute" /\ stage' = "MemStage" /\ ~EReg.bubble
  BY DEF CountExecute, Execute, At, Idle
<1>2. /\ MRegO'.bubble = EReg.bubble /\ MRegO'.addr = EReg.addr /\ MRegO'.instr = EReg.instr
      /\ MRegO'.dstM = EReg.dstM
  BY <1>1 DEF Known, Execute, TypeOK, PipReg
<1>3. /\ WRegPending' = WRegPending /\ ~WRegOPending /\ ~WRegOPending'
      /\ PendingM' = PendingM /\ ~PendingO /\ PendingO' /\ ~CallFailed /\ ~CallFailed'
  BY <1>1, <1>2 DEF WRegPending, WRegOPending, PendingM, PendingO, CallFailed
<1>4. /\ IsEcall(WReg)' = IsEcall(WReg) /\ IsBranch(MReg)' = IsBranch(MReg)
      /\ IsJalr(MReg)' = IsJalr(MReg) /\ UsedByNext(MReg)' = UsedByNext(MReg)
      /\ IsBranch(MRegO)' = IsBranch(EReg) /\ IsJalr(MRegO)' = IsJalr(EReg)
      /\ UsedByNext(MRegO)' = UsedByNext(EReg)
  BY <1>1, <1>2 DEF IsEcall, IsBranch, IsJalr, UsedByNext
<1>. DEFINE s == machineStats
            data == Forwards(ExForwards(ERegO.srcA), ExForwards(ERegO.srcB))
<1>5. /\ s \in [StatField -> Nat]
      /\ s' = [s EXCEPT !.controlHazard = @ + One(ControlHazard), !.misPrediction = @ + One(Mispredicted),
                        !.sucPrediction = @ + One(Predicted), !.dataHazard = @ + data,
                        !.loadUseHazard = @ + LoadUses]
  BY DEF StatTypeOK, CountExecute
<1>. HIDE DEF s, data
<1>6. /\ s'.controlHazard = s.controlHazard + One(ControlHazard)
      /\ s'.misPrediction = s.misPrediction + One(Mispredicted)
      /\ s'.sucPrediction = s.sucPrediction + One(Predicted)
      /\ s'.loadUseHazard = s.loadUseHazard + LoadUses
      /\ s'.instrCnt = s.instrCnt /\ s'.ecallNum = s.ecallNum
  BY <1>5 DEF StatField
<1>7. /\ s.controlHazard \in Nat /\ s.misPrediction \in Nat /\ s.sucPrediction \in Nat
      /\ s.loadUseHazard \in Nat
  BY <1>5 DEF StatField
<1>8. Instrs' = Instrs /\ Ecalls' = Ecalls
  BY <1>3, <1>4, <1>6 DEF Instrs, Ecalls, One, s
<1>9. One(IsBranch(EReg)) = One(Mispredicted) + One(Predicted)
  BY DEF One, IsBranch, Mispredicted, Predicted
<1>10. Branches' = Branches
  BY <1>3, <1>4, <1>6, <1>7, <1>9 DEF Branches, One, s
<1>11. One(ControlHazard) = One(Mispredicted) + One(IsJalr(EReg))
  BY DEF One, ControlHazard, Flush, IsJalr, Mispredicted, SBType
<1>12. Jumps' = Jumps
  BY <1>3, <1>4, <1>6, <1>7, <1>11 DEF Jumps, One, s
<1>13. LoadUses = One(UsedByNext(EReg))
  BY <1>1, LoadUseIsUsedByNext DEF LoadUses, One
<1>14. Waits' = Waits
  BY <1>3, <1>4, <1>6, <1>7, <1>13 DEF Waits, One, s
<1>. QED  BY <1>8, <1>10, <1>12, <1>14 DEF CountedSeen

LEMMA MemStageIdleCountsNothing ==
  ASSUME Known, MemStageIdle, UNCHANGED statistics
  PROVE  UNCHANGED CountedSeen
<1>1. /\ UNCHANGED <<prog, machineStats, MReg, MRegO, WReg>> /\ status = "running" /\ status' = "running"
      /\ stage = "MemStage" /\ stage' = "Writeback" /\ MReg.bubble /\ WRegO'.bubble
  BY DEF Known, MemStageIdle, At, Idle, BubblesAndStalls, TypeOK, PipReg, Bubble, statistics
<1>2. /\ WRegPending' = WRegPending /\ ~WRegOPending /\ ~WRegOPending'
      /\ ~PendingM' /\ ~PendingM /\ PendingO' = PendingO /\ ~CallFailed /\ ~CallFailed'
  BY <1>1 DEF WRegPending, WRegOPending, PendingM, PendingO, CallFailed
<1>3. /\ IsEcall(WReg)' = IsEcall(WReg) /\ IsBranch(MRegO)' = IsBranch(MRegO)
      /\ IsJalr(MRegO)' = IsJalr(MRegO) /\ UsedByNext(MRegO)' = UsedByNext(MRegO)
  BY <1>1 DEF IsEcall, IsBranch, IsJalr, UsedByNext
<1>4. Instrs' = Instrs /\ Ecalls' = Ecalls
  BY <1>1, <1>2, <1>3 DEF Instrs, Ecalls, One
<1>5. Branches' = Branches /\ Jumps' = Jumps /\ Waits' = Waits
  BY <1>1, <1>2, <1>3 DEF Branches, Jumps, Waits, One
<1>. QED  BY <1>4, <1>5 DEF CountedSeen

\* MemStage executes what Execute has counted; of a system call it has counted
\* nothing.
LEMMA MemStageCounted ==
  ASSUME Known, CountMemStage, StatTypeOK
  PROVE  /\ UNCHANGED <<prog, MReg, WReg>> /\ ~MReg.bubble /\ Decoded(MReg)
         /\ WRegPending' = WRegPending /\ ~WRegOPending /\ WRegOPending'
         /\ IsEcall(WReg)' = IsEcall(WReg) /\ IsEcall(WRegO)' = IsEcall(MReg)
         /\ PendingM /\ ~PendingM' /\ ~CallFailed /\ ~CallFailed'
         /\ PendingO' = (PendingO /\ ~IsEcall(MReg))
         /\ IsBranch(MRegO)' = IsBranch(MRegO)
         /\ IsJalr(MRegO)' = IsJalr(MRegO) /\ UsedByNext(MRegO)' = UsedByNext(MRegO)
         /\ machineStats \in [StatField -> Nat]
         /\ \A c \in StatField \ {"dataHazard"} : machineStats'[c] = machineStats[c]
<1>1. /\ UNCHANGED <<prog, MReg, WReg>> /\ status = "running" /\ status' = "running"
      /\ stage = "MemStage" /\ stage' = "Writeback" /\ ~MReg.bubble
  BY DEF CountMemStage, MemStage, At, Idle
<1>2. /\ WRegO'.bubble = MReg.bubble /\ WRegO'.instr = MReg.instr
      /\ MRegO'.bubble = (MRegO.bubble \/ IsEcall(MReg)) /\ MRegO'.addr = MRegO.addr
      /\ MRegO'.instr = MRegO.instr /\ MRegO'.dstM = MRegO.dstM
  BY DEF Known, CountMemStage, MemStage, TypeOK, PipReg, IsEcall
<1>3. Decoded(MReg)
  BY <1>1 DEF Known, BubblesAndStalls
<1>4. /\ WRegPending' = WRegPending /\ ~WRegOPending /\ WRegOPending'
      /\ PendingM /\ ~PendingM' /\ ~CallFailed /\ ~CallFailed'
      /\ PendingO' = (PendingO /\ ~IsEcall(MReg))
  BY <1>1, <1>2 DEF WRegPending, WRegOPending, PendingM, PendingO, CallFailed
<1>5. /\ IsEcall(WReg)' = IsEcall(WReg) /\ IsEcall(WRegO)' = IsEcall(MReg)
      /\ IsBranch(MRegO)' = IsBranch(MRegO) /\ IsJalr(MRegO)' = IsJalr(MRegO)
      /\ UsedByNext(MRegO)' = UsedByNext(MRegO)
  BY <1>1, <1>2 DEF IsEcall, IsBranch, IsJalr, UsedByNext
<1>6. \A c \in StatField \ {"dataHazard"} : machineStats'[c] = machineStats[c]
  BY DEF CountMemStage, StatTypeOK
<1>. QED  BY <1>1, <1>3, <1>4, <1>5, <1>6 DEF StatTypeOK

LEMMA EcallPassesUncounted ==
  ASSUME Known, StatInv, CountMemStage, IsEcall(MReg)
  PROVE  UNCHANGED CountedSeen
<1>1. StatTypeOK /\ Balance
  BY DEF StatInv, Accounts, CountMemStage, MemStage, At
<1>2. MRegO.bubble
  BY <1>1, MemStageCounted DEF Balance, CountMemStage, MemStage, At
<1>3. ~PendingO /\ ~PendingO'
  BY <1>1, <1>2, MemStageCounted DEF PendingO
<1>4. ~IsBranch(MReg) /\ ~IsJalr(MReg) /\ ~UsedByNext(MReg)
  BY <1>1, MemStageCounted DEF IsEcall, IsBranch, SBType, IsJalr, UsedByNext, Decoded, DstM
<1>5. /\ \A c \in {"instrCnt", "ecallNum", "misPrediction", "sucPrediction", "controlHazard", "loadUseHazard"} :
           machineStats[c] \in Nat /\ machineStats'[c] = machineStats[c]
  BY <1>1, MemStageCounted DEF StatField
<1>6. Instrs' = Instrs /\ Ecalls' = Ecalls
  BY <1>1, <1>5, MemStageCounted DEF Instrs, Ecalls, One
<1>7. Branches' = Branches /\ Jumps' = Jumps /\ Waits' = Waits
  BY <1>1, <1>3, <1>4, <1>5, MemStageCounted DEF Branches, Jumps, Waits, One
<1>. QED  BY <1>6, <1>7 DEF CountedSeen

\* An instruction that MemStage executes leaves the counters of those ahead of it.
LEMMA MemStageCounts ==
  ASSUME Known, InStep, StatInv, CountMemStage, ~IsEcall(MReg)
  PROVE  Counting!Count
<1>. DEFINE i == MReg.instr
<1>1. StatTypeOK /\ At("MemStage") /\ ~MReg.bubble
  BY DEF StatInv, Accounts, CountMemStage, MemStage, Idle
<1>2. /\ AbsPC = MReg.addr /\ AbsPC \in DOMAIN prog /\ prog[AbsPC] = i
  BY <1>1, NextInMemStage
<1>3. /\ \A c \in {"instrCnt", "ecallNum", "misPrediction", "sucPrediction", "controlHazard", "loadUseHazard"} :
           machineStats[c] \in Nat /\ machineStats'[c] = machineStats[c]
  BY <1>1, MemStageCounted DEF StatField
<1>4. PendingO' = PendingO
  BY <1>1, MemStageCounted DEF PendingO
<1>5. Counting!Current = i
  BY <1>2 DEF Counting!Current
<1>6. Instrs' = Instrs + 1 /\ Ecalls' = Ecalls
  BY <1>1, <1>3, MemStageCounted DEF Instrs, Ecalls, One
<1>7. Branches' = Branches + One(IsBranch(MReg))
  BY <1>1, <1>3, <1>4, MemStageCounted DEF Branches, One
<1>8. Jumps' = Jumps + One(IsJalr(MReg))
  BY <1>1, <1>3, <1>4, MemStageCounted DEF Jumps, One
<1>9. Waits' = Waits + One(UsedByNext(MReg))
  BY <1>1, <1>3, <1>4, MemStageCounted DEF Waits, One
<1>10. MReg.dstM = IF i.op = "load" THEN i.rd ELSE ZEROREG
  BY <1>1, MemStageCounted DEF Decoded, DstM
<1>11. /\ \A r \in Instr : Counting!SrcA(r) = SrcA(r) /\ Counting!SrcB(r) = SrcB(r)
  BY DEF Counting!SrcA, Counting!SrcB, SrcA, SrcB, Counting!RType, Counting!IType, Counting!SType,
         Counting!SBType, RType, IType, SType, SBType, Counting!ZEROREG, ZEROREG
<1>12. \A a \in DOMAIN prog : prog[a] \in Instr
  BY DEF Known, TypeOK, IsProgram
<1>13. Counting!IsLoadUse <=> UsedByNext(MReg)
  BY <1>2, <1>5, <1>10, <1>11, <1>12
     DEF Counting!IsLoadUse, UsedByNext, Counting!ZEROREG, ZEROREG, Counting!Plus, Plus
<1>14. (i.op = "branch" <=> IsBranch(MReg)) /\ (i.op = "jalr" <=> IsJalr(MReg)) /\ i.op # "ecall"
  BY DEF IsBranch, SBType, IsJalr, IsEcall
<1>15. Ecalls + 0 = Ecalls
  BY <1>1, <1>3, MemStageCounted DEF Ecalls, One
<1>. HIDE DEF i
<1>. QED
  BY <1>5, <1>6, <1>7, <1>8, <1>9, <1>13, <1>14, <1>15 DEF Counting!Count, Counting!One, One

\* A step of the sequential machine that is no fault, counted.
LEMMA StepIsCounted ==
  ASSUME Prefix!Next, SeenStatus' # "aborted", Counting!Count
  PROVE  Counting!CountingNext
<1>1. ~Prefix!Fault
  BY DEF Prefix!Fault
<1>2. Prefix!Compute => Counting!Compute
  BY DEF Prefix!Compute, Prefix!Runs, Prefix!Current, Prefix!Rs1, Prefix!Rs2, Prefix!SetRd,
         Prefix!FallThrough, Prefix!Jump, Prefix!Plus, Prefix!Reg, Prefix!ZEROREG,
         Counting!Compute, Counting!Runs, Counting!Current, Counting!Rs1, Counting!Rs2, Counting!SetRd,
         Counting!FallThrough, Counting!Jump, Counting!Plus, Counting!Reg, Counting!ZEROREG
<1>3. Prefix!Load => Counting!Load
  BY DEF Prefix!Load, Prefix!Runs, Prefix!Current, Prefix!Rs1, Prefix!EffAddr, Prefix!SetRd,
         Prefix!FallThrough, Prefix!Jump, Prefix!Plus, Prefix!Reg, Prefix!ZEROREG,
         Counting!Load, Counting!Runs, Counting!Current, Counting!Rs1, Counting!EffAddr, Counting!SetRd,
         Counting!FallThrough, Counting!Jump, Counting!Plus, Counting!Reg, Counting!ZEROREG
<1>4. Prefix!Store => Counting!Store
  BY DEF Prefix!Store, Prefix!Runs, Prefix!Current, Prefix!Rs1, Prefix!Rs2, Prefix!EffAddr,
         Prefix!FallThrough, Prefix!Jump, Prefix!Plus,
         Counting!Store, Counting!Runs, Counting!Current, Counting!Rs1, Counting!Rs2, Counting!EffAddr,
         Counting!FallThrough, Counting!Jump, Counting!Plus
<1>5. Prefix!Branch => Counting!Branch
  BY DEF Prefix!Branch, Prefix!Runs, Prefix!Current, Prefix!Rs1, Prefix!Rs2, Prefix!FallThrough,
         Prefix!Jump, Prefix!Plus,
         Counting!Branch, Counting!Runs, Counting!Current, Counting!Rs1, Counting!Rs2,
         Counting!FallThrough, Counting!Jump, Counting!Plus
<1>6. Prefix!JumpAndLink => Counting!JumpAndLink
  BY DEF Prefix!JumpAndLink, Prefix!Runs, Prefix!Current, Prefix!Rs1, Prefix!EffAddr, Prefix!SetRd,
         Prefix!Jump, Prefix!Plus, Prefix!Reg, Prefix!ZEROREG,
         Counting!JumpAndLink, Counting!Runs, Counting!Current, Counting!Rs1, Counting!EffAddr,
         Counting!SetRd, Counting!Jump, Counting!Plus, Counting!Reg, Counting!ZEROREG
<1>7. Prefix!Ecall => Counting!Ecall
  BY DEF Prefix!Ecall, Prefix!Runs, Prefix!Current, Prefix!FallThrough, Prefix!Jump, Prefix!Plus,
         Prefix!Word, Counting!Ecall, Counting!Runs, Counting!Current, Counting!FallThrough,
         Counting!Jump, Counting!Plus, Counting!Word
<1>. QED
  BY <1>1, <1>2, <1>3, <1>4, <1>5, <1>6, <1>7 DEF Prefix!Next, Counting!CountingNext

LEMMA MemStageIsCounted ==
  ASSUME Known, InStep, StatInv, CountMemStage, ~IsEcall(MReg)
  PROVE  Counting!CountingNext
<1>1. MemStage
  BY DEF CountMemStage
<1>2. Prefix!Next /\ SeenStatus' = "running"
  BY <1>1, MemStageSteps, MemStageTakesEffect
<1>. QED  BY <1>2, MemStageCounts, StepIsCounted

\* Writeback counts an instruction MemStage has executed.
LEMMA WritebackCountsLate ==
  ASSUME Known, StatTypeOK,
         CountWriteback \/ (WritebackIdle /\ UNCHANGED statistics)
  PROVE  UNCHANGED CountedSeen
<1>1. /\ UNCHANGED <<prog, MReg, MRegO, WReg, WRegO>> /\ status = "running" /\ status' = "running"
      /\ stage = "Writeback" /\ stage' = "Latch" /\ (WReg.bubble \/ ~IsEcall(WReg))
      /\ machineStats'.instrCnt = machineStats.instrCnt + One(~WReg.bubble)
      /\ \A c \in {"ecallNum", "misPrediction", "sucPrediction", "controlHazard", "loadUseHazard"} :
           machineStats'[c] = machineStats[c]
  <2>1. CASE CountWriteback
    BY <2>1 DEF CountWriteback, Writeback, At, Idle, IsEcall, One, StatTypeOK, StatField
  <2>2. CASE WritebackIdle /\ UNCHANGED statistics
    <3>1. WReg.bubble
      BY <2>2 DEF Known, WritebackIdle, At, Idle, BubblesAndStalls
    <3>2. machineStats.instrCnt \in Nat
      BY DEF StatTypeOK, StatField
    <3>. QED  BY <2>2, <3>1, <3>2 DEF WritebackIdle, At, latches, statistics, One
  <2>. QED  BY <2>1, <2>2
<1>2. machineStats.instrCnt \in Nat
  BY DEF StatTypeOK, StatField
<1>3. /\ WRegPending = ~WReg.bubble /\ ~WRegPending' /\ WRegOPending' = WRegOPending
      /\ ~PendingM /\ ~PendingM' /\ PendingO' = PendingO /\ ~CallFailed /\ ~CallFailed'
  BY <1>1 DEF WRegPending, WRegOPending, PendingM, PendingO, CallFailed
<1>4. /\ IsEcall(WRegO)' = IsEcall(WRegO) /\ IsBranch(MRegO)' = IsBranch(MRegO)
      /\ IsJalr(MRegO)' = IsJalr(MRegO) /\ UsedByNext(MRegO)' = UsedByNext(MRegO)
  BY <1>1 DEF IsEcall, IsBranch, IsJalr, UsedByNext
<1>5. /\ One(WRegPending /\ ~IsEcall(WReg)) = One(~WReg.bubble)
      /\ One((WRegPending /\ ~IsEcall(WReg))') = 0
      /\ One((WRegOPending /\ ~IsEcall(WRegO))') = One(WRegOPending /\ ~IsEcall(WRegO))
      /\ One(~WReg.bubble) \in Nat /\ One(WRegOPending /\ ~IsEcall(WRegO)) \in Nat
  BY <1>1, <1>3, <1>4 DEF One
<1>6. Instrs' = Instrs
  <2>1. Instrs' = machineStats'.instrCnt + One((WRegPending /\ ~IsEcall(WReg))')
                    + One((WRegOPending /\ ~IsEcall(WRegO))')
    BY DEF Instrs, One
  <2>. QED  BY <1>1, <1>2, <1>5, <2>1 DEF Instrs
<1>7. Ecalls' = Ecalls
  BY <1>1, <1>3 DEF Ecalls, One
<1>8. Branches' = Branches /\ Jumps' = Jumps /\ Waits' = Waits
  BY <1>1, <1>3, <1>4 DEF Branches, Jumps, Waits, One
<1>. QED  BY <1>6, <1>7, <1>8 DEF CountedSeen

\* At the end of a cycle what is counted and what is executed moves on with it.
LEMMA LatchCountsNothing ==
  ASSUME Known, StatTypeOK, CountLatch
  PROVE  UNCHANGED CountedSeen
<1>1. /\ stage = "Latch" /\ stage' = "Fetch" /\ status = "running" /\ status' = "running"
      /\ MReg' = MRegO /\ WReg' = WRegO /\ prog' = prog
  BY DEF Known, CountLatch, Latch, At, Advance, BubblesAndStalls
<1>2. \A c \in {"instrCnt", "ecallNum", "misPrediction", "sucPrediction", "controlHazard", "loadUseHazard"} :
        machineStats'[c] = machineStats[c] /\ machineStats[c] \in Nat
  BY DEF CountLatch, StatTypeOK, StatField
<1>3. /\ ~WRegPending /\ WRegPending' = WRegOPending /\ ~WRegOPending'
      /\ ~PendingM /\ PendingM' = PendingO /\ ~PendingO' /\ ~CallFailed /\ ~CallFailed'
  BY <1>1 DEF WRegPending, WRegOPending, PendingM, PendingO, CallFailed
<1>4. /\ IsEcall(WReg)' = IsEcall(WRegO) /\ IsBranch(MReg)' = IsBranch(MRegO)
      /\ IsJalr(MReg)' = IsJalr(MRegO) /\ UsedByNext(MReg)' = UsedByNext(MRegO)
  BY <1>1 DEF IsEcall, IsBranch, IsJalr, UsedByNext
<1>5. Instrs' = Instrs /\ Ecalls' = Ecalls
  BY <1>2, <1>3, <1>4 DEF Instrs, Ecalls, One
<1>6. Branches' = Branches /\ Jumps' = Jumps /\ Waits' = Waits
  BY <1>2, <1>3, <1>4 DEF Branches, Jumps, Waits, One
<1>. QED  BY <1>5, <1>6 DEF CountedSeen

\* A call is counted when it is made, with nothing else on its way.
LEMMA SyscallIsCounted ==
  ASSUME Known, InStep, StatInv, CountSyscall
  PROVE  Counting!CountingNext \/ UNCHANGED <<Seen, CountedSeen>>
<1>1. StatTypeOK /\ Syscall
  BY DEF StatInv, Accounts, CountSyscall
<1>2. /\ ~WReg.bubble /\ IsEcall(WReg) /\ stage = "Writeback" /\ status = "running"
      /\ UNCHANGED <<prog, MReg, MRegO, WReg, WRegO>> /\ stage' \in {"Writeback", "Latch"}
      /\ MReg.bubble /\ MRegO.bubble /\ WRegO.bubble
  BY <1>1, SyscallAlone DEF latches
<1>3. /\ \A c \in {"instrCnt", "misPrediction", "sucPrediction", "controlHazard", "loadUseHazard"} :
           machineStats'[c] = machineStats[c] /\ machineStats[c] \in Nat
      /\ machineStats'.ecallNum = machineStats.ecallNum + 1 /\ machineStats.ecallNum \in Nat
  BY <1>1 DEF CountSyscall, StatTypeOK, StatField
<1>4. /\ ~(WRegPending /\ ~IsEcall(WReg)) /\ ~(WRegPending' /\ ~IsEcall(WReg)')
      /\ ~WRegOPending /\ ~WRegOPending' /\ ~PendingM /\ ~PendingM' /\ ~PendingO /\ ~PendingO'
      /\ ~CallFailed
  BY <1>2 DEF WRegPending, WRegOPending, PendingM, PendingO, CallFailed, IsEcall
<1>5. /\ Instrs' = machineStats.instrCnt /\ Instrs = machineStats.instrCnt
  BY <1>3, <1>4 DEF Instrs, One
<1>6. /\ Branches' = Branches /\ Jumps' = Jumps /\ Waits' = Waits
      /\ Branches \in Int /\ Jumps \in Int /\ Waits \in Int
  BY <1>3, <1>4 DEF Branches, Jumps, Waits, One
<1>7. CASE SyscallPrintStr
  <2>1. CallFailed'
    BY <1>2, <1>7 DEF SyscallPrintStr, Abort, CallFailed
  <2>2. Ecalls' = Ecalls
    BY <1>3, <1>4, <2>1 DEF Ecalls, One
  <2>3. UNCHANGED Seen
    BY <1>1, <1>2, <1>7, PrintStrUnseen
  <2>. QED  BY <1>5, <1>6, <2>2, <2>3 DEF CountedSeen
<1>8. CASE ~SyscallPrintStr
  <2>1. Prefix!Ecall
    BY <1>1, <1>8, SyscallSteps
  <2>2. status' # "aborted"
    BY <1>1, <1>2, <1>8 DEF Syscall, SyscallPrint, SyscallScanInt, SyscallUnknown, SyscallExit, SyscallReturns
  <2>3. ~CallFailed' /\ SeenStatus' # "aborted"
    BY <2>2 DEF CallFailed, SeenStatus
  <2>4. Ecalls' = Ecalls + 1
    BY <1>3, <1>4, <2>3 DEF Ecalls, One
  <2>5. Counting!Current.op = "ecall"
    BY <2>1 DEF Prefix!Ecall, Prefix!Runs, Prefix!Current, Counting!Current
  <2>6. Counting!Count
    BY <1>3, <1>5, <1>6, <2>4, <2>5 DEF Counting!Count, Counting!One, Counting!IsLoadUse
  <2>. QED  BY <2>1, <2>3, <2>6, StepIsCounted DEF Prefix!Next
<1>. QED  BY <1>7, <1>8

\* An abort counts nothing.
LEMMA AbortCountsNothing ==
  ASSUME CountAbort \/ UNCHANGED <<vars, statistics>>
  PROVE  UNCHANGED CountedSeen
<1>1. /\ UNCHANGED <<prog, machineStats, MReg, MRegO, WReg, WRegO, stage>>
      /\ status' = status \/ stage # "Writeback"
  BY DEF CountAbort, FetchFault, DecodeFault, MemFault, Abort, At, Ended, vars, latches, statistics
<1>2. /\ WRegPending' = WRegPending /\ WRegOPending' = WRegOPending
      /\ PendingM' = PendingM /\ PendingO' = PendingO /\ CallFailed' = CallFailed
  BY <1>1 DEF WRegPending, WRegOPending, PendingM, PendingO, CallFailed
<1>3. /\ IsEcall(WReg)' = IsEcall(WReg) /\ IsEcall(WRegO)' = IsEcall(WRegO)
      /\ IsBranch(MReg)' = IsBranch(MReg) /\ IsBranch(MRegO)' = IsBranch(MRegO)
      /\ IsJalr(MReg)' = IsJalr(MReg) /\ IsJalr(MRegO)' = IsJalr(MRegO)
      /\ UsedByNext(MReg)' = UsedByNext(MReg) /\ UsedByNext(MRegO)' = UsedByNext(MRegO)
  BY <1>1 DEF IsEcall, IsBranch, IsJalr, UsedByNext
<1>4. Instrs' = Instrs /\ Ecalls' = Ecalls
  BY <1>1, <1>2, <1>3 DEF Instrs, Ecalls, One
<1>5. Branches' = Branches /\ Jumps' = Jumps /\ Waits' = Waits
  BY <1>1, <1>2, <1>3 DEF Branches, Jumps, Waits, One
<1>. QED  BY <1>4, <1>5 DEF CountedSeen

LEMMA MemFaultIsCounted ==
  ASSUME Known, InStep, CountAbort, MemFault
  PROVE  Counting!CountingNext
<1>1. Prefix!Fault
  BY MemFaultSteps
<1>2. Counting!Fault
  BY <1>1 DEF Prefix!Fault, Prefix!Faulting, Prefix!Current, Prefix!EffAddr, Prefix!Rs1, Prefix!Plus,
              Counting!Fault, Counting!Faulting, Counting!Current, Counting!EffAddr, Counting!Rs1,
              Counting!Plus
<1>3. UNCHANGED Counting!counters
  BY AbortCountsNothing DEF CountedSeen, Counting!counters
<1>. QED  BY <1>2, <1>3 DEF Counting!CountingNext

\* Every step is one of the counting machine or none.
LEMMA StepsAsCounted ==
  ASSUME Known, InStep, StatInv, [StatNext]_<<vars, statistics>>
  PROVE  [Counting!CountingNext]_<<Counting!vars, Counting!counters>>
<1>1. StatTypeOK
  BY DEF StatInv, Accounts
<1>2. Counting!CountingNext \/ UNCHANGED <<Seen, CountedSeen>>
  <2>1. CASE CountFetch \/ CountDecode
    BY <2>1, FetchUnseen, FrontCountsNothing DEF CountFetch, CountDecode
  <2>2. CASE CountExecute
    BY <1>1, <2>2, ExecuteUnseen, ExecuteCountsAhead DEF CountExecute
  <2>3. CASE CountMemStage
    BY <2>3, EcallPasses, EcallPassesUncounted, MemStageIsCounted DEF CountMemStage
  <2>4. CASE CountWriteback
    BY <1>1, <2>4, WritebackUnseen, WritebackCountsLate DEF CountWriteback
  <2>5. CASE CountSyscall
    BY <2>5, SyscallIsCounted
  <2>6. CASE CountIdle
    BY <1>1, <2>6, FetchUnseen, FrontCountsNothing, MemStageIdleUnseen, MemStageIdleCountsNothing,
       WritebackUnseen, WritebackCountsLate DEF CountIdle
  <2>7. CASE CountLatch
    BY <1>1, <2>7, LatchUnseen, LatchCountsNothing DEF CountLatch
  <2>8. CASE CountAbort /\ ~MemFault
    BY <2>8, FaultUnseen, AbortCountsNothing DEF CountAbort, Ended
  <2>9. CASE CountAbort /\ MemFault
    BY <2>9, MemFaultIsCounted
  <2>10. CASE UNCHANGED <<vars, statistics>>
    BY <2>10, FaultUnseen, AbortCountsNothing
  <2>. QED  BY <2>1, <2>2, <2>3, <2>4, <2>5, <2>6, <2>7, <2>8, <2>9, <2>10 DEF StatNext
<1>3. UNCHANGED <<Seen, CountedSeen>> => UNCHANGED <<Counting!vars, Counting!counters>>
  BY DEF Seen, CountedSeen, Counting!vars, Counting!counters
<1>. QED  BY <1>2, <1>3

(* In every program in which no load is overwritten unread by the          *)
(* instruction behind it, the statistics count what the sequential machine *)
(* executes: every instruction, call, branch and jalr once, and a load-use *)
(* hazard for each load whose result the next instruction reads, whatever  *)
(* is squashed, held, repeated or cut off by an abort on the way (Execute, *)
(* MemStage, Writeback and Run together).                                  *)
THEOREM CountsCorrect == StatSpec /\ ~Clobbered(prog) => CountsTheProgram
<1>1. StatInit => Init
  BY DEF StatInit
<1>2. [StatNext]_<<vars, statistics>> => [Next]_vars
  BY StatStepIsStep
<1>3. StatSpec => Spec
  BY <1>1, <1>2, PTL DEF StatSpec, Spec
<1>4. StatInit => Counting!CountingInit
  BY CountsFromZero
<1>5. Known /\ InStep /\ StatInv /\ [StatNext]_<<vars, statistics>>
        => [Counting!CountingNext]_<<Counting!vars, Counting!counters>>
  BY StepsAsCounted
<1>. QED
  BY <1>3, <1>4, <1>5, InStepCorrect, StatInvCorrect, PTL
     DEF StatSpec, CountsTheProgram, Counting!CountingSpec

=============================================================================
