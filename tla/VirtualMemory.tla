---------------------------- MODULE VirtualMemory ----------------------------
(***************************************************************************)
(* What the simulated program sees of its address space: pages come into   *)
(* being filled with zeros, and a byte keeps the value written last.       *)
(***************************************************************************)
EXTENDS Naturals

CONSTANTS VPage, PAGE_SIZE, Byte, MAXBYTES

VARIABLES
  image,     \* the bytes of the mapped addresses
  content,   \* the bytes the last access of the program transferred
  status
vars == <<image, content, status>>

PageOf(v) == v \div PAGE_SIZE
Bytes(n)  == [0 .. n-1 -> Byte]

Init == image = << >> /\ content = << >> /\ status = "running"

MapPage(page) ==
  /\ \A v \in DOMAIN image : PageOf(v) # page
  /\ image' = [v \in DOMAIN image \cup (page * PAGE_SIZE .. (page+1) * PAGE_SIZE - 1) |->
                 IF v \in DOMAIN image THEN image[v] ELSE 0]
  /\ UNCHANGED <<content, status>>

Put(v, bytes) == [w \in DOMAIN image |-> IF w - v \in DOMAIN bytes THEN bytes[w - v] ELSE image[w]]

\* The loader places a byte of the program.
Load(v, byte) == /\ v \in DOMAIN image
                 /\ image' = [image EXCEPT ![v] = byte]
                 /\ UNCHANGED <<content, status>>

Read(v, n) == /\ v .. v+n-1 \subseteq DOMAIN image
              /\ content' = [o \in 0 .. n-1 |-> image[v + o]]
              /\ UNCHANGED <<image, status>>

Write(v, n) == /\ v .. v+n-1 \subseteq DOMAIN image
               /\ content' \in Bytes(n)
               /\ image' = Put(v, content')
               /\ UNCHANGED status

Abort == status' = "aborted" /\ UNCHANGED <<image, content>>

Next == /\ status = "running"
        /\ \/ \E page \in VPage : MapPage(page)
           \/ \E v \in DOMAIN image :
                \/ \E byte \in Byte : Load(v, byte)
                \/ \E n \in 1 .. MAXBYTES : Read(v, n) \/ Write(v, n)
           \/ Abort

Spec == Init /\ [][Next]_vars

=============================================================================
