----------------------------- MODULE CountingISA -----------------------------
(***************************************************************************)
(* What the statistics of a run are about: the sequential machine of ISA   *)
(* counting the instructions it executes, by kind. Nothing here depends on *)
(* what a pipeline fetched, held, repeated or squashed in between.         *)
(***************************************************************************)
EXTENDS ISA

VARIABLES
  instrs,      \* instructions executed, system calls not included
  ecalls,      \* system calls made
  branches,    \* conditional branches executed
  jumps,       \* jalr executed
  loadUses     \* loads whose result the next instruction reads

counters == <<instrs, ecalls, branches, jumps, loadUses>>

CountingInit == Init /\ instrs = 0 /\ ecalls = 0 /\ branches = 0 /\ jumps = 0 /\ loadUses = 0

One(condition) == IF condition THEN 1 ELSE 0

\* The instruction behind a load reads its result. The word behind it need not
\* be an instruction, or mapped: then the load is the last one executed.
IsLoadUse ==
  LET next == Plus(pc, 1)
  IN  /\ Current.op = "load" /\ Current.rd # ZEROREG /\ next \in DOMAIN prog
      /\ Current.rd \in {SrcA(prog[next]), SrcB(prog[next])}

Count ==
  /\ instrs'   = instrs   + One(Current.op # "ecall")
  /\ ecalls'   = ecalls   + One(Current.op = "ecall")
  /\ branches' = branches + One(Current.op = "branch")
  /\ jumps'    = jumps    + One(Current.op = "jalr")
  /\ loadUses' = loadUses + One(IsLoadUse)

CountingNext ==
  \/ (Compute \/ Load \/ Store \/ Branch \/ JumpAndLink \/ Ecall) /\ Count
  \/ Fault /\ UNCHANGED counters

CountingSpec == CountingInit /\ [][CountingNext]_<<vars, counters>>

=============================================================================
