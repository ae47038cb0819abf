------------------------------ MODULE Predictor ------------------------------
(***************************************************************************)
(* class Predictor (pred.h, pred.cpp): the four branch prediction schemes. *)
(* The predictor is a plain object that Fetch and Execute call, so it is   *)
(* modelled by operators on its state; the module that owns such a state   *)
(* (Pipeline) applies them.                                                *)
(*                                                                         *)
(* A prediction and a branch outcome are booleans, TRUE for "taken".       *)
(***************************************************************************)
EXTENDS Naturals

CONSTANTS
  BUFNUM,    \* number of predictor entries; branches share them by address
  HISTMODES  \* 1 << HISTORYN, the number of distinct branch histories

ASSUME BUFNUMAssumption    == BUFNUM \in Nat \ {0}
ASSUME HISTMODESAssumption == HISTMODES \in Nat \ {0}

Scheme  == {"AlwaysTaken", "AlwaysNotTaken", "Bimodal", "SelfAdj"}
Entry   == 0 .. BUFNUM-1
Mode    == 0 .. HISTMODES-1
Counter == 0 .. 3

PredState == [bitBuf : [Entry -> Counter],
              saBuf  : [Entry -> [Mode -> Counter]],
              saHis  : [Entry -> 0 .. 2*HISTMODES-1]]

\* The constructor.
PredInit == [bitBuf |-> [e \in Entry |-> 0],
             saBuf  |-> [e \in Entry |-> [m \in Mode |-> 0]],
             saHis  |-> [e \in Entry |-> 0]]

BufID(addr) == addr % BUFNUM

\* A history keeps one bit more than maskHis lets through.
MaskHis(his) == his % HISTMODES

TwoBitChoose(tb) == tb \in {2, 3}

Predict(scm, p, addr) ==
  LET e == BufID(addr)
  IN  CASE scm = "AlwaysTaken"    -> TRUE
        [] scm = "AlwaysNotTaken" -> FALSE
        [] scm = "Bimodal"        -> TwoBitChoose(p.bitBuf[e])
        [] scm = "SelfAdj"        -> TwoBitChoose(p.saBuf[e][MaskHis(p.saHis[e])])

\* Mutants of Train. A success in state 1 moves the wrong way; a success in
\* state 2 does not count.
TrainOnSuccess(tb, success) ==
  CASE tb = 0 -> IF success THEN 0 ELSE 1
    [] tb = 1 -> 2
    [] tb = 2 -> IF success THEN 3 ELSE 1
    [] tb = 3 -> IF success THEN 3 ELSE 2

TrainReluctantly(tb, success) ==
  CASE tb = 0 -> IF success THEN 0 ELSE 1
    [] tb = 1 -> IF success THEN 0 ELSE 2
    [] tb = 2 -> IF success THEN 2 ELSE 1
    [] tb = 3 -> IF success THEN 3 ELSE 2

\* The switch shared by both learning schemes. It is told only whether the
\* prediction was right, and takes the counter for the prediction made.
Train(tb, success) ==
  CASE tb = 0 -> IF success THEN 0 ELSE 1
    [] tb = 1 -> IF success THEN 0 ELSE 2
    [] tb = 2 -> IF success THEN 3 ELSE 1
    [] tb = 3 -> IF success THEN 3 ELSE 2

\* The outcome that update() reconstructs for the history: (!success) ^ lastPred.
LastJump(success, lastPred) == ~success # lastPred

Update(scm, p, success, addr) ==
  LET e    == BufID(addr)
      mode == MaskHis(p.saHis[e])
      jump == LastJump(success, TwoBitChoose(p.saBuf[e][mode]))
  IN  CASE scm = "Bimodal" ->
             [p EXCEPT !.bitBuf[e] = Train(@, success)]
        [] scm = "SelfAdj" ->
             [p EXCEPT !.saHis[e] = 2 * mode + (IF jump THEN 1 ELSE 0),
                       !.saBuf[e][mode] = Train(@, success)]
        [] OTHER -> p

=============================================================================
