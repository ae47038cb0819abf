------------------------------ MODULE FlatMemory ------------------------------
(***************************************************************************)
(* What class Storage promises whoever calls HandleRequest: a memory of    *)
(* blocks in which a read returns the bytes written last, or an abort.     *)
(* A span is the set of offsets in its block that a request covers.        *)
(***************************************************************************)
EXTENDS Naturals, Functions

CONSTANTS Block, Offset, Value

VARIABLES store, content, status
vars == <<store, content, status>>

Data == [Offset -> Value]

Init == /\ store \in [Block -> Data]
        /\ content = << >> /\ status = "running"

Read(block, span) ==
  /\ status = "running"
  /\ content' = Restrict(store[block], span)
  /\ UNCHANGED <<store, status>>

\* content is the bytes transferred, in either direction.
Write(block, span) ==
  /\ status = "running"
  /\ content' \in [span -> Value]
  /\ store' = [store EXCEPT ![block] =
                 [o \in Offset |-> IF o \in span THEN content'[o] ELSE @[o]]]
  /\ UNCHANGED status

Abort == /\ status = "running" /\ status' = "aborted"
         /\ UNCHANGED <<store, content>>

Next == \/ \E block \in Block, span \in SUBSET Offset :
             \/ Read(block, span)
             \/ Write(block, span)
        \/ Abort

Spec == Init /\ [][Next]_vars

=============================================================================
