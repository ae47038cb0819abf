-------------------------------- MODULE Paging --------------------------------
(***************************************************************************)
(* Address translation of class Machine and the loading of a program:      *)
(* ReadUserProg and StackAllocate fill the page table with physical pages  *)
(* from the bitmap, then the program accesses memory through               *)
(* translateAddr.                                                          *)
(*                                                                         *)
(* Loading is one sequential computation; it is cut into a step for each   *)
(* page and each byte, since each may abort. Physical memory is flat here: *)
(* Cache shows that it is, whatever is cached. A page table entry is valid *)
(* whenever it can be looked at, so the table maps straight to the page.   *)
(***************************************************************************)
EXTENDS Integers, Sequences

CONSTANTS
  PAGE_SIZE, BLOCK_SIZE,
  PYS_PAGE_NUM,    \* pages of physical memory
  STACK_PAGES,
  StackVpn,        \* stackTop / PAGE_SIZE in StackAllocate
  VPage,           \* pages of virtual addresses in play, all below 2^31
  Byte,
  Programs,        \* what ELFIO may deliver: a sequence of segments each
  MAXBYTES         \* largest access of the program

MEM_SIZE == PAGE_SIZE * PYS_PAGE_NUM
pageNum  == MEM_SIZE \div PAGE_SIZE + 1

VAddr == {page * PAGE_SIZE + offset : page \in VPage, offset \in 0 .. PAGE_SIZE-1}

\* data is what the file holds of the memSize bytes of a segment.
Segment == [vaddr : Nat, memSize : Nat, data : Seq(Byte)]

ASSUME SizesAssumption ==
  /\ {PAGE_SIZE, BLOCK_SIZE, PYS_PAGE_NUM, MAXBYTES} \subseteq Nat \ {0}
  /\ STACK_PAGES \in Nat /\ StackVpn \in Nat /\ StackVpn >= STACK_PAGES
  /\ PAGE_SIZE % BLOCK_SIZE = 0

ASSUME ValuesAssumption == VPage \subseteq Nat /\ 0 \in Byte

ASSUME ProgramsAssumption == Programs \subseteq Seq(Segment)

VARIABLES
  program,
  phase,     \* "alloc" and "copy" of ReadUserProg, "stack", "run" or "aborted"
  seg,       \* the segment being read
  k,         \* loop variable of the phase
  bmp,       \* innerMap: the pages whose bit is set
  ptb,       \* page table: virtual page -> physical page
  mainMem,
  content    \* bytes the last access of the program transferred

vars == <<program, phase, seg, k, bmp, ptb, mainMem, content>>

-----------------------------------------------------------------------------
(* BitMap and the page table.                                              *)

\* A bug: FindSet looks at one bit too many.
FreeBeyond == (0 .. pageNum) \ bmp

Free    == (0 .. pageNum-1) \ bmp
FindSet == CHOOSE n \in Free : \A m \in Free : n <= m

Vpn(v) == v \div PAGE_SIZE

OutOfMemory(vpn) == vpn \notin DOMAIN ptb /\ Free = {}

\* A bug: FindSet does not set the bit of the page it returns.
AllocPageUnset(vpn) ==
  \/ vpn \in DOMAIN ptb /\ UNCHANGED <<bmp, ptb>>
  \/ /\ vpn \notin DOMAIN ptb /\ Free # {}
     /\ bmp' = bmp
     /\ ptb' = [v \in DOMAIN ptb \cup {vpn} |-> IF v = vpn THEN FindSet ELSE ptb[v]]

\* A bug: a page with an entry gets a new physical page, in place of the old one.
AllocPageAnew(vpn) ==
  /\ Free # {}
  /\ bmp' = bmp \cup {FindSet}
  /\ ptb' = [v \in DOMAIN ptb \cup {vpn} |-> IF v = vpn THEN FindSet ELSE ptb[v]]

\* AllocPageEntry followed by AllocPysPage.
AllocPage(vpn) ==
  \/ vpn \in DOMAIN ptb /\ UNCHANGED <<bmp, ptb>>
  \/ /\ vpn \notin DOMAIN ptb /\ Free # {}
     /\ bmp' = bmp \cup {FindSet}
     /\ ptb' = [v \in DOMAIN ptb \cup {vpn} |-> IF v = vpn THEN FindSet ELSE ptb[v]]

PhysAddr(v) == ptb[Vpn(v)] * PAGE_SIZE + (v % PAGE_SIZE)

\* translateAddr does not abort.
Translates(v) == Vpn(v) \in DOMAIN ptb /\ PhysAddr(v) < MEM_SIZE

-----------------------------------------------------------------------------
(* Loading.                                                                *)

Seg == program[seg]

\* Pages of a segment: memSize / PAGE_SIZE, and one more until they reach its end.
Reaches(s, n) == (Vpn(s.vaddr) + n) * PAGE_SIZE >= s.vaddr + s.memSize

\* A bug: the size is rounded up, wherever in its page the segment starts.
SegPageNumBySize(s) == (s.memSize + PAGE_SIZE - 1) \div PAGE_SIZE

SegPageNum(s) ==
  LET fewest == s.memSize \div PAGE_SIZE
  IN  CHOOSE n \in fewest .. fewest + 2 : /\ Reaches(s, n)
                                          /\ \A m \in fewest .. n-1 : ~Reaches(s, m)

Init ==
  /\ program \in Programs
  /\ phase = "alloc" /\ seg = 1 /\ k = 0
  /\ bmp = {} /\ ptb = << >>
  /\ mainMem = [a \in 0 .. MEM_SIZE-1 |-> 0]
  /\ content = << >>

LoadPage ==
  /\ phase = "alloc" /\ seg <= Len(program) /\ k < SegPageNum(Seg)
  /\ AllocPage(Vpn(Seg.vaddr) + k)
  /\ k' = k + 1
  /\ UNCHANGED <<program, phase, seg, mainMem, content>>

PagesLoaded ==
  /\ phase = "alloc" /\ seg <= Len(program) /\ k = SegPageNum(Seg)
  /\ phase' = "copy" /\ k' = 0
  /\ UNCHANGED <<program, seg, bmp, ptb, mainMem, content>>

CopyByte ==
  /\ phase = "copy" /\ k < Len(Seg.data) /\ Translates(Seg.vaddr + k)
  /\ mainMem' = [mainMem EXCEPT ![PhysAddr(Seg.vaddr + k)] = Seg.data[k + 1]]
  /\ k' = k + 1
  /\ UNCHANGED <<program, phase, seg, bmp, ptb, content>>

SegmentLoaded ==
  /\ phase = "copy" /\ k = Len(Seg.data)
  /\ phase' = "alloc" /\ seg' = seg + 1 /\ k' = 0
  /\ UNCHANGED <<program, bmp, ptb, mainMem, content>>

Loaded ==
  /\ phase = "alloc" /\ seg > Len(program)
  /\ phase' = "stack" /\ k' = -1
  /\ UNCHANGED <<program, seg, bmp, ptb, mainMem, content>>

StackPage ==
  /\ phase = "stack" /\ k < STACK_PAGES
  /\ AllocPage(StackVpn - k)
  /\ k' = k + 1
  /\ UNCHANGED <<program, phase, seg, mainMem, content>>

Started ==
  /\ phase = "stack" /\ k = STACK_PAGES
  /\ phase' = "run"
  /\ UNCHANGED <<program, seg, k, bmp, ptb, mainMem, content>>

LoadAborts ==
  /\ \/ phase = "alloc" /\ seg <= Len(program) /\ k < SegPageNum(Seg)
        /\ OutOfMemory(Vpn(Seg.vaddr) + k)
     \/ phase = "copy" /\ k < Len(Seg.data) /\ ~Translates(Seg.vaddr + k)
     \/ phase = "stack" /\ k < STACK_PAGES /\ OutOfMemory(StackVpn - k)
  /\ phase' = "aborted"
  /\ UNCHANGED <<program, seg, k, bmp, ptb, mainMem, content>>

-----------------------------------------------------------------------------
(* The program runs. Only the first byte of an access is translated; the   *)
(* first level of cache refuses one that leaves its block.                 *)

\* A bug: no check that the access ends in its block.
AccessibleAcross(v, n) == Translates(v) /\ PhysAddr(v) + n < MEM_SIZE + 1

Accessible(v, n) ==
  /\ Translates(v)
  /\ PhysAddr(v) + n < MEM_SIZE + 1
  /\ (PhysAddr(v) % BLOCK_SIZE) + n <= BLOCK_SIZE

Access(v, n) ==
  /\ phase = "run" /\ Accessible(v, n)
  /\ UNCHANGED <<program, phase, seg, k, bmp, ptb>>

readBytes(v, n) ==
  /\ Access(v, n)
  /\ content' = [o \in 0 .. n-1 |-> mainMem[PhysAddr(v) + o]]
  /\ UNCHANGED mainMem

writeBytes(v, n) ==
  /\ Access(v, n)
  /\ content' \in [0 .. n-1 -> Byte]
  /\ mainMem' = [a \in DOMAIN mainMem |-> IF a - PhysAddr(v) \in 0 .. n-1
                                            THEN content'[a - PhysAddr(v)] ELSE mainMem[a]]

AccessAborts(v, n) ==
  /\ phase = "run" /\ ~Accessible(v, n)
  /\ phase' = "aborted"
  /\ UNCHANGED <<program, seg, k, bmp, ptb, mainMem, content>>

Ended == phase = "aborted" /\ UNCHANGED vars

ReadUserProg  == LoadPage \/ PagesLoaded \/ CopyByte \/ SegmentLoaded
StackAllocate == Loaded \/ StackPage \/ Started
Run == \E v \in VAddr, n \in 1 .. MAXBYTES :
          readBytes(v, n) \/ writeBytes(v, n) \/ AccessAborts(v, n)

Next == ReadUserProg \/ StackAllocate \/ LoadAborts \/ Run \/ Ended

Spec == Init /\ [][Next]_vars

-----------------------------------------------------------------------------
(* Properties.                                                             *)

\* Types: the table maps pages to bits of the bitmap, memory keeps its size.
TypeOK ==
  /\ program \in Programs
  /\ phase \in {"alloc", "copy", "stack", "run", "aborted"}
  /\ seg \in 1 .. Len(program) + 1
  /\ phase = "copy" => seg <= Len(program)
  /\ k \in Nat \cup {-1}
  /\ phase \in {"alloc", "copy"} => k \in Nat
  /\ bmp \subseteq 0 .. pageNum-1
  /\ DOMAIN ptb \subseteq Nat /\ ptb \in [DOMAIN ptb -> 0 .. pageNum-1]
  /\ mainMem \in [0 .. MEM_SIZE-1 -> Byte]

(* The bitmap has a bit set for each page of the table, and no physical    *)
(* page backs two virtual ones, however segments and the stack share       *)
(* pages.                                                                  *)
PagesAreDistinct ==
  /\ bmp = {ptb[v] : v \in DOMAIN ptb}
  /\ \A v, w \in DOMAIN ptb : ptb[v] = ptb[w] => v = w

(* Before a segment is copied every page that one of its bytes in memory   *)
(* lies in, bss included, has an entry: segPageNum is never too small.     *)
SegmentIsMapped ==
  phase = "copy" => \A v \in Seg.vaddr .. Seg.vaddr + Seg.memSize - 1 : Vpn(v) \in DOMAIN ptb

\* The byte the segments give an address: the last one in the file, or 0.
InFile(i, v) == v - program[i].vaddr \in 0 .. Len(program[i].data) - 1
FileByte(v)  ==
  IF \E i \in DOMAIN program : InFile(i, v)
    THEN LET i == CHOOSE i \in DOMAIN program :
                    InFile(i, v) /\ \A j \in DOMAIN program : InFile(j, v) => j <= i
         IN  program[i].data[v - program[i].vaddr + 1]
  ELSE 0

(* The program starts with what its file says: every byte of a page is the *)
(* one of the file or 0, even where segments share pages with each other   *)
(* and with the stack, and bss is clear although nothing clears it.        *)
LoadedAsTheFileSays ==
  phase = "stack" => \A v \in VAddr : Translates(v) => mainMem[PhysAddr(v)] = FileByte(v)

image == [v \in {v \in VAddr : Translates(v)} |-> mainMem[PhysAddr(v)]]
VM    == INSTANCE VirtualMemory WITH status <- IF phase = "aborted" THEN "aborted" ELSE "running"

(* Through the table the program has a memory of its own: no access        *)
(* changes or shows a byte of an address it does not name, also when it    *)
(* ends in another page than it starts in.                                 *)
ImplementsVirtualMemory == VM!Spec

(* "physical page number" (machine.h): pages handed out exist.             *)
AllocatedPagesExist == \A v \in DOMAIN ptb : ptb[v] < PYS_PAGE_NUM

=============================================================================
