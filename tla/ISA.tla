-------------------------------- MODULE ISA --------------------------------
(***************************************************************************)
(* What the simulator promises a user program: its instructions execute    *)
(* one at a time, in program order, each seeing the effects of all earlier *)
(* ones. There is no pipeline, no prediction and no forwarding here.       *)
(*                                                                         *)
(* The semantics of an instruction is stated again, on its own terms; only *)
(* the instruction format and modular arithmetic are shared with the model *)
(* of the simulator. A program that leaves its mapped addresses, or runs   *)
(* into an undecodable word, faults.                                       *)
(***************************************************************************)
EXTENDS Instructions

CONSTANTS
  DataAddr,        \* mapped data addresses
  ENTRY, A0, A7, SPREG, STACKTOP,
  SYS_PRINT, SYS_PRINTSTR, SYS_SCANINT, SYS_EXIT

VARIABLES
  prog,            \* the program, a function from addresses to Instr
  mem,             \* data memory
  pc,              \* address of the next instruction to execute
  regs,
  status,          \* "running", "halted" (exit called) or "aborted" (faulted)
  out              \* the last value printed

vars == <<prog, mem, pc, regs, status, out>>

Init ==
  /\ mem \in [DataAddr -> Word]
  /\ pc = ENTRY
  /\ regs = [r \in Reg |-> IF r = SPREG THEN STACKTOP ELSE 0]
  /\ status = "running" /\ out = 0

-----------------------------------------------------------------------------
Current == prog[pc]
Rs1     == regs[Current.rs1]
Rs2     == regs[Current.rs2]
EffAddr == Plus(Rs1, Current.imm)

Runs(ops) == status = "running" /\ pc \in DOMAIN prog /\ Current.op \in ops

SetRd(v) == regs' = [r \in Reg |-> IF r = Current.rd /\ r # ZEROREG THEN v ELSE regs[r]]
Jump(target) == pc' = target
FallThrough == Jump(Plus(pc, 1))

Compute ==
  /\ Runs({"alu", "alui", "lui", "nop"})
  /\ \/ Current.op = "alu"  /\ SetRd(Plus(Rs1, Rs2))
     \/ Current.op = "alui" /\ SetRd(Plus(Rs1, Current.imm))
     \/ Current.op = "lui"  /\ SetRd(Current.imm)
     \/ Current.op = "nop"  /\ SetRd(0)
  /\ FallThrough /\ UNCHANGED <<prog, mem, status, out>>

Load ==
  /\ Runs({"load"}) /\ EffAddr \in DataAddr
  /\ SetRd(mem[EffAddr])
  /\ FallThrough /\ UNCHANGED <<prog, mem, status, out>>

Store ==
  /\ Runs({"store"}) /\ EffAddr \in DataAddr
  /\ mem' = [mem EXCEPT ![EffAddr] = Rs2]
  /\ FallThrough /\ UNCHANGED <<prog, regs, status, out>>

Branch ==
  /\ Runs({"branch"})
  /\ IF Rs1 = Rs2 THEN Jump(Plus(pc, Current.imm)) ELSE FallThrough
  /\ UNCHANGED <<prog, mem, regs, status, out>>

JumpAndLink ==
  /\ Runs({"jal", "jalr"})
  /\ SetRd(Plus(pc, 1))
  /\ Jump(IF Current.op = "jal" THEN Plus(pc, Current.imm) ELSE EffAddr)
  /\ UNCHANGED <<prog, mem, status, out>>

\* syscall.h: print an int, print a string, scan an int, exit.
Ecall ==
  /\ Runs({"ecall"})
  /\ \/ /\ regs[A7] = SYS_SCANINT
        /\ \E x \in Word : regs' = [regs EXCEPT ![A0] = x]
        /\ FallThrough /\ UNCHANGED <<status, out>>
     \/ /\ regs[A7] \in {SYS_PRINT, SYS_PRINTSTR}
        /\ out' = regs[A0]
        /\ FallThrough /\ UNCHANGED <<regs, status>>
     \/ /\ regs[A7] = SYS_EXIT
        /\ status' = "halted" /\ UNCHANGED <<pc, regs, out>>
     \/ /\ regs[A7] \notin {SYS_PRINT, SYS_PRINTSTR, SYS_SCANINT, SYS_EXIT}
        /\ FallThrough /\ UNCHANGED <<regs, status, out>>
  /\ UNCHANGED <<prog, mem>>

Faulting == \/ pc \notin DOMAIN prog
            \/ Current.op = "illegal"
            \/ Current.op \in {"load", "store"} /\ EffAddr \notin DataAddr

Fault == /\ status = "running" /\ Faulting
         /\ status' = "aborted"
         /\ UNCHANGED <<prog, mem, pc, regs, out>>

Next == \/ Compute \/ Load \/ Store \/ Branch \/ JumpAndLink \/ Ecall \/ Fault

Spec == Init /\ [][Next]_vars /\ WF_vars(Next)

=============================================================================
