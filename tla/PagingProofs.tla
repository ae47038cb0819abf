----------------------------- MODULE PagingProofs -----------------------------
(***************************************************************************)
(* For every size of pages and memory and every program: the page table    *)
(* and the bitmap agree, no physical page backs two virtual ones, the      *)
(* loader maps every page of a segment before it copies, memory then holds *)
(* what the file says, and the program sees a virtual memory of its own.   *)
(***************************************************************************)
EXTENDS Paging, FiniteSetTheorems, TLAPS

-----------------------------------------------------------------------------
(* The sizes are numbers.                                                  *)
LEMMA Sizes == /\ PAGE_SIZE \in Nat \ {0} /\ PYS_PAGE_NUM \in Nat \ {0}
               /\ MEM_SIZE \in Nat /\ pageNum \in Nat
<1>1. MEM_SIZE \in Nat
  BY SizesAssumption DEF MEM_SIZE
<1> QED BY <1>1, SizesAssumption DEF pageNum

(* A nonempty set of numbers has a least element: its initial segments are *)
(* well-ordered by inclusion.                                              *)
LEMMA LeastExists ==
  ASSUME NEW S \in SUBSET Nat, S # {}
  PROVE  \E n \in S : \A m \in S : n <= m
<1> DEFINE Below == {0 .. n-1 : n \in S}
<1>1. Below \subseteq FiniteSubsetsOf(Nat) /\ Below # {}
  <2>1. ASSUME NEW n \in S PROVE 0 .. n-1 \in FiniteSubsetsOf(Nat)
    <3>1. IsFiniteSet(0 .. n-1)
      BY FS_Interval
    <3> QED BY <3>1 DEF FiniteSubsetsOf
  <2> QED BY <2>1
<1>2. PICK T \in Below : \A U \in Below : <<U, T>> \notin StrictSubsetOrdering(Nat)
  <2> HIDE DEF Below
  <2> QED BY <1>1, FS_StrictSubsetOrderingWellFounded, WFMin
<1>3. PICK n \in S : T = 0 .. n-1
  BY <1>2
<1>4. ASSUME NEW m \in S, m < n PROVE FALSE
  <2>1. 0 .. m-1 \in Below /\ 0 .. m-1 \subseteq T /\ m \in T /\ m \notin 0 .. m-1
    BY <1>3, <1>4
  <2>2. T \subseteq Nat
    BY <1>3
  <2> QED BY <1>2, <2>1, <2>2 DEF StrictSubsetOrdering
<1> QED BY <1>4

(* What FindSet returns is a free page.                                    *)
LEMMA FindSetIsFree ==
  ASSUME Free # {}
  PROVE  FindSet \in 0 .. pageNum-1 /\ FindSet \notin bmp
<1>1. Free \in SUBSET Nat
  BY Sizes DEF Free
<1>2. \E n \in Free : \A m \in Free : n <= m
  BY <1>1, LeastExists
<1>3. FindSet \in Free
  BY <1>2 DEF FindSet
<1> QED BY <1>3 DEF Free

(* The segment being read is one.                                          *)
LEMMA SegIsSegment ==
  ASSUME TypeOK, seg <= Len(program)
  PROVE  /\ Seg.vaddr \in Nat /\ Seg.memSize \in Nat
         /\ Seg.data \in Seq(Byte) /\ Vpn(Seg.vaddr) \in Nat
<1>1. program \in Seq(Segment) /\ seg \in 1 .. Len(program)
  BY ProgramsAssumption DEF TypeOK
<1>2. Seg \in Segment
  BY <1>1 DEF Seg
<1>3. Seg.vaddr \in Nat /\ Seg.memSize \in Nat /\ Seg.data \in Seq(Byte)
  BY <1>2 DEF Segment
<1> QED BY <1>3, Sizes DEF Vpn

-----------------------------------------------------------------------------
(* Quotient and remainder.                                                 *)
LEMMA DivMod ==
  ASSUME NEW x \in Nat, NEW p \in Nat \ {0}
  PROVE  /\ x = (x \div p) * p + (x % p) /\ (x % p) < p
         /\ x \div p \in Nat /\ x % p \in Nat
OBVIOUS

(* The pages of a segment reach its end: SegPageNum finds the number that  *)
(* the loop of ReadUserProg stops at.                                      *)
LEMMA TwoMorePagesReach ==
  ASSUME NEW s \in Segment
  PROVE  Reaches(s, s.memSize \div PAGE_SIZE + 2)
<1> DEFINE a == s.vaddr
           m == s.memSize
<1>0. a \in Nat /\ m \in Nat /\ PAGE_SIZE \in Nat \ {0}
  BY Sizes DEF Segment
<1>1. /\ a = (a \div PAGE_SIZE) * PAGE_SIZE + (a % PAGE_SIZE) /\ (a % PAGE_SIZE) < PAGE_SIZE
      /\ a \div PAGE_SIZE \in Nat /\ a % PAGE_SIZE \in Nat
  BY <1>0, DivMod
<1>2. /\ m = (m \div PAGE_SIZE) * PAGE_SIZE + (m % PAGE_SIZE) /\ (m % PAGE_SIZE) < PAGE_SIZE
      /\ m \div PAGE_SIZE \in Nat /\ m % PAGE_SIZE \in Nat
  BY <1>0, DivMod
<1>3. ASSUME NEW x \in Nat, NEW y \in Nat, NEW p \in Nat
      PROVE  (x + (y + 2)) * p = x * p + y * p + p + p
  OBVIOUS
<1>4. (a \div PAGE_SIZE + (m \div PAGE_SIZE + 2)) * PAGE_SIZE
        = (a \div PAGE_SIZE) * PAGE_SIZE + (m \div PAGE_SIZE) * PAGE_SIZE + PAGE_SIZE + PAGE_SIZE
  BY <1>0, <1>1, <1>2, <1>3
<1>5. (a \div PAGE_SIZE) * PAGE_SIZE \in Nat /\ (m \div PAGE_SIZE) * PAGE_SIZE \in Nat
  BY <1>0, <1>1, <1>2
<1>6. (a \div PAGE_SIZE + (m \div PAGE_SIZE + 2)) * PAGE_SIZE >= a + m
  <2> DEFINE A == (a \div PAGE_SIZE) * PAGE_SIZE
             M == (m \div PAGE_SIZE) * PAGE_SIZE
             ra == a % PAGE_SIZE
             rm == m % PAGE_SIZE
  <2>1. A \in Nat /\ M \in Nat /\ ra \in Nat /\ rm \in Nat /\ ra < PAGE_SIZE /\ rm < PAGE_SIZE
        /\ a = A + ra /\ m = M + rm
    BY <1>1, <1>2, <1>5
  <2>2. A + M + PAGE_SIZE + PAGE_SIZE >= a + m
    <3> HIDE DEF A, M, ra, rm, a, m
    <3> QED BY <2>1, <1>0
  <2> QED BY <2>2, <1>4
<1> QED BY <1>6 DEF Reaches, Vpn

(* The while loop of ReadUserProg ends within two rounds, at a number of   *)
(* pages that reaches the end of the segment.                              *)
LEMMA SegPageNumReaches ==
  ASSUME NEW s \in Segment
  PROVE  SegPageNum(s) \in Nat /\ Reaches(s, SegPageNum(s))
<1> DEFINE fewest == s.memSize \div PAGE_SIZE
           First(n) == Reaches(s, n) /\ \A m \in fewest .. n-1 : ~Reaches(s, m)
<1>1. fewest \in Nat
  BY Sizes DEF Segment
<1>2. \E n \in fewest .. fewest + 2 : First(n)
  <2>1. CASE Reaches(s, fewest)
    BY <2>1, <1>1
  <2>2. CASE ~Reaches(s, fewest) /\ Reaches(s, fewest + 1)
    <3>1. \A m \in fewest .. (fewest + 1) - 1 : m = fewest
      BY <1>1
    <3> QED BY <2>2, <3>1, <1>1
  <2>3. CASE ~Reaches(s, fewest) /\ ~Reaches(s, fewest + 1)
    <3>1. \A m \in fewest .. (fewest + 2) - 1 : m = fewest \/ m = fewest + 1
      BY <1>1
    <3> QED BY <2>3, <3>1, <1>1, TwoMorePagesReach
  <2> QED BY <2>1, <2>2, <2>3
<1>3. SegPageNum(s) \in fewest .. fewest + 2 /\ First(SegPageNum(s))
  <2>1. SegPageNum(s) = CHOOSE n \in fewest .. fewest + 2 : First(n)
    BY DEF SegPageNum
  <2> QED BY <1>2, <2>1
<1> QED BY <1>1, <1>3

(* An address of a segment lies in one of its pages.                       *)
LEMMA AddressInPages ==
  ASSUME NEW s \in Segment, NEW n \in Nat, Reaches(s, n),
         NEW v \in s.vaddr .. s.vaddr + s.memSize - 1
  PROVE  \E j \in 0 .. n-1 : Vpn(v) = Vpn(s.vaddr) + j
<1>0. s.vaddr \in Nat /\ s.memSize \in Nat /\ PAGE_SIZE \in Nat \ {0} /\ v \in Nat
  BY Sizes DEF Segment
<1>1. Vpn(v) \in Nat /\ Vpn(s.vaddr) \in Nat
  BY <1>0 DEF Vpn
<1>2. Vpn(v) * PAGE_SIZE <= v /\ v < (Vpn(v) + 1) * PAGE_SIZE
  BY <1>0 DEF Vpn
<1>3. Vpn(s.vaddr) * PAGE_SIZE <= s.vaddr
  BY <1>0 DEF Vpn
<1>4. v < (Vpn(s.vaddr) + n) * PAGE_SIZE
  BY <1>0, <1>1 DEF Reaches
<1>5. ASSUME NEW x \in Nat, NEW y \in Nat, NEW p \in Nat \ {0}, x * p < y * p PROVE x < y
  BY <1>5
<1>6. Vpn(v) < Vpn(s.vaddr) + n
  <2>1. Vpn(v) * PAGE_SIZE < (Vpn(s.vaddr) + n) * PAGE_SIZE
    BY <1>0, <1>1, <1>2, <1>4
  <2> QED BY <2>1, <1>0, <1>1, <1>5
<1>7. Vpn(s.vaddr) < Vpn(v) + 1
  <2>1. Vpn(s.vaddr) * PAGE_SIZE < (Vpn(v) + 1) * PAGE_SIZE
    BY <1>0, <1>1, <1>2, <1>3
  <2> QED BY <2>1, <1>0, <1>1, <1>5
<1> QED
  <2>1. Vpn(v) - Vpn(s.vaddr) \in 0 .. n-1 /\ Vpn(v) = Vpn(s.vaddr) + (Vpn(v) - Vpn(s.vaddr))
    BY <1>1, <1>6, <1>7
  <2> QED BY <2>1

-----------------------------------------------------------------------------
(* AllocPage maps its page, and keeps the table and the bitmap together.   *)
LEMMA AllocPageMaps ==
  ASSUME TypeOK, PagesAreDistinct, NEW vpn \in Nat, AllocPage(vpn)
  PROVE  /\ bmp' \subseteq 0 .. pageNum-1
         /\ DOMAIN ptb' = DOMAIN ptb \cup {vpn}
         /\ ptb' \in [DOMAIN ptb' -> 0 .. pageNum-1]
         /\ PagesAreDistinct'
<1>1. CASE vpn \in DOMAIN ptb /\ UNCHANGED <<bmp, ptb>>
  BY <1>1 DEF TypeOK, PagesAreDistinct
<1>2. CASE /\ vpn \notin DOMAIN ptb /\ Free # {}
           /\ bmp' = bmp \cup {FindSet}
           /\ ptb' = [v \in DOMAIN ptb \cup {vpn} |-> IF v = vpn THEN FindSet ELSE ptb[v]]
  <2>1. FindSet \in 0 .. pageNum-1 /\ FindSet \notin bmp
    BY <1>2, FindSetIsFree
  <2>2. /\ ptb \in [DOMAIN ptb -> 0 .. pageNum-1] /\ bmp \subseteq 0 .. pageNum-1
        /\ bmp = {ptb[v] : v \in DOMAIN ptb}
        /\ \A v, w \in DOMAIN ptb : ptb[v] = ptb[w] => v = w
    BY DEF TypeOK, PagesAreDistinct
  <2>3. /\ DOMAIN ptb' = DOMAIN ptb \cup {vpn} /\ ptb'[vpn] = FindSet
        /\ \A v \in DOMAIN ptb : ptb'[v] = ptb[v]
    BY <1>2
  <2>4. ptb' \in [DOMAIN ptb' -> 0 .. pageNum-1] /\ bmp' \subseteq 0 .. pageNum-1
    BY <1>2, <2>1, <2>2, <2>3
  <2>5. \A v, w \in DOMAIN ptb' : ptb'[v] = ptb'[w] => v = w
    BY <2>1, <2>2, <2>3
  <2>6. bmp' = {ptb'[v] : v \in DOMAIN ptb'}
    BY <1>2, <2>2, <2>3
  <2> QED BY <2>3, <2>4, <2>5, <2>6 DEF PagesAreDistinct
<1> QED BY <1>1, <1>2 DEF AllocPage

-----------------------------------------------------------------------------
(* The pages counted so far have entries; so have all once copying starts. *)
PagesCounted ==
  /\ phase = "alloc" /\ seg <= Len(program) =>
       \A j \in 0 .. k-1 : Vpn(Seg.vaddr) + j \in DOMAIN ptb
  /\ phase = "copy" =>
       \A j \in 0 .. SegPageNum(Seg) - 1 : Vpn(Seg.vaddr) + j \in DOMAIN ptb

Inv == TypeOK /\ PagesAreDistinct /\ PagesCounted

(* What the loader has done so far.                                        *)
Loading == phase \in {"alloc", "copy", "stack"}

(* A page that was not handed out is as the machine started with it.       *)
FreePagesAreZero ==
  Loading => \A p \in (0 .. PYS_PAGE_NUM-1) \ bmp, o \in 0 .. PAGE_SIZE-1 :
               mainMem[p * PAGE_SIZE + o] = 0

(* The bytes of the file that were copied; the last copy of a byte stays.  *)
Copied(i, v) ==
  /\ InFile(i, v)
  /\ \/ i < seg
     \/ i = seg /\ phase = "copy" /\ v - program[i].vaddr < k

CopiedAs(v, byte) ==
  \/ byte = 0 /\ \A i \in DOMAIN program : ~Copied(i, v)
  \/ \E i \in DOMAIN program :
       /\ Copied(i, v) /\ byte = program[i].data[v - program[i].vaddr + 1]
       /\ \A j \in DOMAIN program : Copied(j, v) => j <= i

CopiedSoFar ==
  Loading =>
    \A v \in VAddr : /\ (\E i \in DOMAIN program : Copied(i, v)) => Vpn(v) \in DOMAIN ptb
                     /\ Translates(v) => CopiedAs(v, mainMem[PhysAddr(v)])

LoadInv == /\ FreePagesAreZero /\ CopiedSoFar
           /\ phase = "stack" => seg > Len(program)

(* The invariant holds initially.                                          *)
LEMMA InvInit == Init => Inv
<1> SUFFICES ASSUME Init PROVE Inv
  OBVIOUS
<1>1. program \in Seq(Segment) /\ Len(program) \in Nat
  BY ProgramsAssumption DEF Init
<1>2. DOMAIN ptb = {}
  BY DEF Init
<1>3. TypeOK
  BY <1>1, <1>2, ValuesAssumption, Sizes DEF Init, TypeOK
<1> QED BY <1>2, <1>3 DEF Init, Inv, PagesAreDistinct, PagesCounted

(* Every step keeps it.                                                    *)
LEMMA InvNext == Inv /\ [Next]_vars => Inv'
<1> SUFFICES ASSUME Inv, [Next]_vars PROVE Inv'
  OBVIOUS
<1> USE DEF Inv
<1>0. /\ program \in Seq(Segment) /\ Len(program) \in Nat /\ seg \in Nat
      /\ program \in Programs
  BY ProgramsAssumption DEF TypeOK
<1>1. CASE LoadPage
  <2>1. Vpn(Seg.vaddr) + k \in Nat
    BY <1>1, SegIsSegment DEF LoadPage, TypeOK
  <2>2. /\ bmp' \subseteq 0 .. pageNum-1 /\ ptb' \in [DOMAIN ptb' -> 0 .. pageNum-1]
        /\ DOMAIN ptb' = DOMAIN ptb \cup {Vpn(Seg.vaddr) + k} /\ PagesAreDistinct'
    BY <1>1, <2>1, AllocPageMaps DEF LoadPage
  <2>3. TypeOK'
    BY <1>1, <2>1, <2>2 DEF LoadPage, TypeOK
  <2>4. Vpn(Seg.vaddr)' = Vpn(Seg.vaddr)
    BY <1>1 DEF LoadPage, Seg, Vpn
  <2>5. \A j \in 0 .. k : Vpn(Seg.vaddr) + j \in DOMAIN ptb'
    BY <1>1, <2>2 DEF LoadPage, PagesCounted, TypeOK
  <2>6. PagesCounted'
    <3>1. k' - 1 = k /\ phase' = "alloc"
      BY <1>1 DEF LoadPage, TypeOK
    <3> QED BY <2>4, <2>5, <3>1 DEF PagesCounted
  <2> QED BY <2>2, <2>3, <2>6
<1>2. CASE PagesLoaded
  <2>1. TypeOK' /\ PagesAreDistinct'
    BY <1>2 DEF PagesLoaded, TypeOK, PagesAreDistinct
  <2>2. SegPageNum(Seg)' = k /\ Vpn(Seg.vaddr)' = Vpn(Seg.vaddr)
    BY <1>2 DEF PagesLoaded, Seg, SegPageNum, Reaches, Vpn
  <2> QED BY <1>2, <2>1, <2>2 DEF PagesLoaded, PagesCounted
<1>3. CASE CopyByte
  <2>1. seg <= Len(program) /\ k \in Nat /\ Seg.data \in Seq(Byte) /\ k + 1 \in 1 .. Len(Seg.data)
    BY <1>3, SegIsSegment DEF CopyByte, TypeOK
  <2>2. Seg.data[k + 1] \in Byte
    BY <2>1
  <2>3. mainMem' \in [0 .. MEM_SIZE-1 -> Byte]
    BY <1>3, <2>2 DEF CopyByte, TypeOK
  <2>4. TypeOK' /\ PagesAreDistinct'
    BY <1>3, <2>1, <2>3 DEF CopyByte, TypeOK, PagesAreDistinct
  <2>5. SegPageNum(Seg)' = SegPageNum(Seg) /\ Vpn(Seg.vaddr)' = Vpn(Seg.vaddr)
    BY <1>3 DEF CopyByte, Seg, SegPageNum, Reaches, Vpn
  <2> QED BY <1>3, <2>4, <2>5 DEF CopyByte, PagesCounted
<1>4. CASE SegmentLoaded
  <2>1. TypeOK' /\ PagesAreDistinct'
    BY <1>0, <1>4 DEF SegmentLoaded, TypeOK, PagesAreDistinct
  <2> QED BY <1>4, <2>1 DEF SegmentLoaded, PagesCounted
<1>5. CASE Loaded
  <2>1. TypeOK' /\ PagesAreDistinct'
    BY <1>5 DEF Loaded, TypeOK, PagesAreDistinct
  <2> QED BY <1>5, <2>1 DEF Loaded, PagesCounted
<1>6. CASE StackPage
  <2>1. StackVpn - k \in Nat /\ k + 1 \in Nat
    BY <1>6, SizesAssumption DEF StackPage, TypeOK
  <2>2. /\ bmp' \subseteq 0 .. pageNum-1 /\ ptb' \in [DOMAIN ptb' -> 0 .. pageNum-1]
        /\ DOMAIN ptb' = DOMAIN ptb \cup {StackVpn - k} /\ PagesAreDistinct'
    BY <1>6, <2>1, AllocPageMaps DEF StackPage
  <2>3. TypeOK'
    BY <1>6, <2>1, <2>2 DEF StackPage, TypeOK
  <2> QED BY <1>6, <2>2, <2>3 DEF StackPage, PagesCounted
<1>7. CASE Started
  <2>1. TypeOK' /\ PagesAreDistinct'
    BY <1>7 DEF Started, TypeOK, PagesAreDistinct
  <2> QED BY <1>7, <2>1 DEF Started, PagesCounted
<1>8. CASE LoadAborts
  <2>1. TypeOK' /\ PagesAreDistinct'
    BY <1>8 DEF LoadAborts, TypeOK, PagesAreDistinct
  <2> QED BY <1>8, <2>1 DEF LoadAborts, PagesCounted
<1>9. CASE Run
  <2> SUFFICES ASSUME NEW v \in VAddr, NEW n \in 1 .. MAXBYTES,
                      readBytes(v, n) \/ writeBytes(v, n) \/ AccessAborts(v, n)
               PROVE  Inv'
    BY <1>9 DEF Run
  <2>1. mainMem' \in [0 .. MEM_SIZE-1 -> Byte]
    BY DEF readBytes, writeBytes, AccessAborts, TypeOK
  <2>2. phase = "run" /\ phase' \in {"run", "aborted"} /\ UNCHANGED <<program, seg, k, bmp, ptb>>
    BY DEF readBytes, writeBytes, AccessAborts, Access
  <2>3. TypeOK' /\ PagesAreDistinct'
    BY <2>1, <2>2 DEF TypeOK, PagesAreDistinct
  <2> QED BY <2>2, <2>3 DEF PagesCounted
<1>10. CASE Ended \/ UNCHANGED vars
  <2>1. UNCHANGED vars
    BY <1>10 DEF Ended
  <2>2. TypeOK' /\ PagesAreDistinct'
    BY <2>1 DEF vars, TypeOK, PagesAreDistinct
  <2>3. SegPageNum(Seg)' = SegPageNum(Seg) /\ Vpn(Seg.vaddr)' = Vpn(Seg.vaddr)
    BY <2>1 DEF vars, Seg, SegPageNum, Reaches, Vpn
  <2> QED BY <2>1, <2>2, <2>3 DEF vars, PagesCounted
<1> QED BY <1>1, <1>2, <1>3, <1>4, <1>5, <1>6, <1>7, <1>8, <1>9, <1>10
        DEF Next, ReadUserProg, StackAllocate

(* The invariant holds in every reachable state.                           *)
LEMMA InvCorrect == Spec => []Inv
<1> QED BY InvInit, InvNext, PTL DEF Spec

-----------------------------------------------------------------------------
(* The loader stays within the lists of segments and pages, the table maps *)
(* to bits of the bitmap, and memory keeps its size and its bytes          *)
(* (ReadUserProg, StackAllocate, readBytes and writeBytes of machine.cpp). *)
THEOREM TypeCorrect == Spec => []TypeOK
<1>1. Inv => TypeOK
  BY DEF Inv
<1> QED BY <1>1, InvCorrect, PTL

(* No physical page is given to two virtual ones, and the bitmap has a bit *)
(* for each page of the table, whatever the sizes, the overlaps of segments*)
(* and the place of the stack (AllocPageEntry, AllocPysPage, FindSet).     *)
THEOREM PagesCorrect == Spec => []PagesAreDistinct
<1>1. Inv => PagesAreDistinct
  BY DEF Inv
<1> QED BY <1>1, InvCorrect, PTL

(* The pages AllocPageEntry is called for cover the segment, wherever in a *)
(* page it starts and ends (ReadUserProg).                                 *)
THEOREM LoaderCorrect == Spec => []SegmentIsMapped
<1>1. Inv => SegmentIsMapped
  <2> SUFFICES ASSUME Inv, phase = "copy",
                      NEW v \in Seg.vaddr .. Seg.vaddr + Seg.memSize - 1
               PROVE  Vpn(v) \in DOMAIN ptb
    BY DEF SegmentIsMapped
  <2>1. Seg \in Segment
    BY ProgramsAssumption DEF Inv, TypeOK, Seg
  <2>2. PICK j \in 0 .. SegPageNum(Seg) - 1 : Vpn(v) = Vpn(Seg.vaddr) + j
    BY <2>1, SegPageNumReaches, AddressInPages
  <2> QED BY <2>2 DEF Inv, PagesCounted
<1> QED BY <1>1, InvCorrect, PTL

-----------------------------------------------------------------------------
(* Addresses.                                                              *)

(* A number is put together from a quotient and a remainder in one way.    *)
LEMMA OneWay ==
  ASSUME NEW d \in Nat \ {0}, NEW t \in Nat, NEW q \in Nat, NEW x \in Nat, NEW y \in Nat,
         x < d, y < d, t * d + x = q * d + y
  PROVE  t = q /\ x = y
<1>1. \A a, b \in Nat : a < b => a * d + d <= b * d
  BY SMT
<1>2. t * d \in Nat /\ q * d \in Nat
  BY SMT
<1>3. t = q
  BY <1>1, <1>2
<1> QED BY <1>2, <1>3

(* So they are found again.                                                *)
LEMMA PartsOf ==
  ASSUME NEW d \in Nat \ {0}, NEW t \in Nat, NEW x \in Nat, x < d
  PROVE  t * d + x \in Nat /\ (t * d + x) \div d = t /\ (t * d + x) % d = x
<1> DEFINE z == t * d + x
<1>1. z \in Nat
  BY SMT
<1>2. z = (z \div d) * d + (z % d) /\ (z % d) < d /\ z \div d \in Nat /\ z % d \in Nat
  BY <1>1, DivMod
<1>3. t * d + x = (z \div d) * d + (z % d)
  BY <1>2
<1> HIDE DEF z
<1>4. t = z \div d /\ x = z % d
  BY <1>2, <1>3, OneWay
<1> QED BY <1>1, <1>4 DEF z

(* An address is its page and its offset in the page.                      *)
LEMMA AddressParts ==
  ASSUME NEW v \in Nat
  PROVE  /\ v = Vpn(v) * PAGE_SIZE + (v % PAGE_SIZE)
         /\ Vpn(v) \in Nat /\ v % PAGE_SIZE \in Nat /\ v % PAGE_SIZE < PAGE_SIZE
<1>1. \A x \in Nat, p \in Nat \ {0} :
        x = (x \div p) * p + (x % p) /\ (x % p) < p /\ x \div p \in Nat /\ x % p \in Nat
  BY DivMod
<1> QED BY <1>1, Sizes DEF Vpn

(* The addresses in play are those of the pages in play.                   *)
LEMMA AddressOf ==
  ASSUME NEW page \in VPage, NEW v
  PROVE  v \in VAddr /\ Vpn(v) = page <=> v \in page * PAGE_SIZE .. (page+1) * PAGE_SIZE - 1
<1>1. page \in Nat /\ PAGE_SIZE \in Nat \ {0} /\ page * PAGE_SIZE \in Nat
      /\ (page+1) * PAGE_SIZE = page * PAGE_SIZE + PAGE_SIZE
  BY ValuesAssumption, Sizes
<1>2. ASSUME v \in VAddr, Vpn(v) = page
      PROVE  v \in page * PAGE_SIZE .. (page+1) * PAGE_SIZE - 1
  <2>1. PICK q \in VPage, x \in 0 .. PAGE_SIZE-1 : v = q * PAGE_SIZE + x
    BY <1>2 DEF VAddr
  <2>2. v \in Nat
    BY <2>1, Sizes, ValuesAssumption, PartsOf
  <2>3. v = page * PAGE_SIZE + (v % PAGE_SIZE) /\ v % PAGE_SIZE \in Nat /\ v % PAGE_SIZE < PAGE_SIZE
    BY <1>2, <2>2, AddressParts
  <2> QED BY <1>1, <2>2, <2>3
<1>3. ASSUME v \in page * PAGE_SIZE .. (page+1) * PAGE_SIZE - 1
      PROVE  v \in VAddr /\ Vpn(v) = page
  <2> DEFINE x == v - page * PAGE_SIZE
  <2>1. x \in Nat /\ x < PAGE_SIZE /\ v = page * PAGE_SIZE + x
    BY <1>1, <1>3
  <2> HIDE DEF x
  <2>2. v \div PAGE_SIZE = page
    BY <1>1, <2>1, PartsOf
  <2>3. x \in 0 .. PAGE_SIZE-1
    BY <1>1, <2>1
  <2> QED BY <2>1, <2>2, <2>3 DEF VAddr, Vpn
<1> QED BY <1>2, <1>3

LEMMA AddressInPlay ==
  ASSUME NEW v \in VAddr
  PROVE  v \in Nat /\ Vpn(v) \in VPage
<1>1. PICK q \in VPage, x \in 0 .. PAGE_SIZE-1 : v = q * PAGE_SIZE + x
  BY DEF VAddr
<1>2. q \in Nat /\ x \in Nat /\ x < PAGE_SIZE /\ PAGE_SIZE \in Nat \ {0}
  BY Sizes, ValuesAssumption
<1>3. v \in Nat /\ v \div PAGE_SIZE = q
  BY <1>1, <1>2, PartsOf
<1> QED BY <1>3 DEF Vpn

(* A physical address is in memory if its page is.                         *)
LEMMA InMemory ==
  ASSUME NEW p \in Nat, NEW x \in Nat, x < PAGE_SIZE
  PROVE  p * PAGE_SIZE + x \in Nat /\ (p * PAGE_SIZE + x < MEM_SIZE <=> p < PYS_PAGE_NUM)
<1>1. \A a, b \in Nat : a < b => a * PAGE_SIZE + PAGE_SIZE <= b * PAGE_SIZE
  BY Sizes
<1>2. \A a, b \in Nat : b <= a => b * PAGE_SIZE <= a * PAGE_SIZE
  BY Sizes
<1>3. p * PAGE_SIZE \in Nat /\ PYS_PAGE_NUM * PAGE_SIZE = MEM_SIZE /\ MEM_SIZE \in Nat
  BY Sizes DEF MEM_SIZE
<1>4. p * PAGE_SIZE + x \in Nat
  BY <1>3
<1>5. CASE p < PYS_PAGE_NUM
  <2>1. p * PAGE_SIZE + PAGE_SIZE <= MEM_SIZE
    BY <1>1, <1>3, <1>5, Sizes
  <2> QED BY <1>3, <1>5, <2>1, Sizes
<1>6. CASE ~(p < PYS_PAGE_NUM)
  <2>1. MEM_SIZE <= p * PAGE_SIZE
    BY <1>2, <1>3, <1>6, Sizes
  <2> QED BY <1>3, <1>6, <2>1, Sizes
<1> QED BY <1>4, <1>5, <1>6

(* Where a page that has an entry is.                                      *)
LEMMA PhysParts ==
  ASSUME TypeOK, NEW v \in Nat, Vpn(v) \in DOMAIN ptb
  PROVE  /\ PhysAddr(v) \in Nat /\ ptb[Vpn(v)] \in Nat
         /\ PhysAddr(v) \div PAGE_SIZE = ptb[Vpn(v)] /\ PhysAddr(v) % PAGE_SIZE = v % PAGE_SIZE
         /\ Translates(v) <=> ptb[Vpn(v)] < PYS_PAGE_NUM
<1>1. ptb[Vpn(v)] \in Nat
  BY Sizes DEF TypeOK
<1>2. v % PAGE_SIZE \in Nat /\ v % PAGE_SIZE < PAGE_SIZE
  BY AddressParts
<1> QED BY <1>1, <1>2, PartsOf, InMemory, Sizes DEF PhysAddr, Translates

(* Different addresses are in different places.                            *)
LEMMA PhysDiffer ==
  ASSUME TypeOK, PagesAreDistinct, NEW v \in Nat, NEW w \in Nat,
         Vpn(v) \in DOMAIN ptb, Vpn(w) \in DOMAIN ptb, PhysAddr(v) = PhysAddr(w)
  PROVE  v = w
<1>1. ptb[Vpn(v)] = ptb[Vpn(w)] /\ v % PAGE_SIZE = w % PAGE_SIZE
  BY PhysParts
<1>2. Vpn(v) = Vpn(w)
  BY <1>1 DEF PagesAreDistinct
<1>3. v = Vpn(v) * PAGE_SIZE + (v % PAGE_SIZE) /\ w = Vpn(w) * PAGE_SIZE + (w % PAGE_SIZE)
  BY AddressParts
<1> QED BY <1>1, <1>2, <1>3

(* An access within a block is within a page.                              *)
LEMMA AccessInPage ==
  ASSUME TypeOK, NEW v \in Nat, Vpn(v) \in DOMAIN ptb, NEW n \in Nat, NEW i \in 0 .. n-1,
         (PhysAddr(v) % BLOCK_SIZE) + n <= BLOCK_SIZE
  PROVE  /\ Vpn(v + i) = Vpn(v) /\ (v + i) % PAGE_SIZE = (v % PAGE_SIZE) + i
         /\ PhysAddr(v + i) = PhysAddr(v) + i
<1> DEFINE p == ptb[Vpn(v)]
           x == v % PAGE_SIZE
           s == x \div BLOCK_SIZE
           y == x % BLOCK_SIZE
           q == PAGE_SIZE \div BLOCK_SIZE
<1>1. /\ p \in Nat /\ x \in Nat /\ x < PAGE_SIZE /\ PhysAddr(v) = p * PAGE_SIZE + x
      /\ v = Vpn(v) * PAGE_SIZE + x /\ Vpn(v) \in Nat
  BY PhysParts, AddressParts DEF PhysAddr
<1>2. BLOCK_SIZE \in Nat \ {0} /\ PAGE_SIZE \in Nat \ {0} /\ PAGE_SIZE % BLOCK_SIZE = 0
  BY SizesAssumption
<1> HIDE DEF p, x
<1>3. /\ x = s * BLOCK_SIZE + y /\ y < BLOCK_SIZE /\ s \in Nat /\ y \in Nat
      /\ PAGE_SIZE = q * BLOCK_SIZE /\ q \in Nat
  <2>1. \A a \in Nat, d \in Nat \ {0} :
          a = (a \div d) * d + (a % d) /\ (a % d) < d /\ a \div d \in Nat /\ a % d \in Nat
    BY DivMod
  <2>2. PAGE_SIZE = q * BLOCK_SIZE + 0 /\ q \in Nat
    BY <1>2, <2>1, Zenon
  <2>3. q * BLOCK_SIZE \in Nat
    BY <1>2, <2>2
  <2>4. x = s * BLOCK_SIZE + y /\ y < BLOCK_SIZE /\ s \in Nat /\ y \in Nat
    BY <1>1, <1>2, <2>1
  <2> QED BY <2>2, <2>3, <2>4
<1> HIDE DEF s, y, q
<1>4. PhysAddr(v) % BLOCK_SIZE = y
  <2>1. \A a, b, c, d \in Nat : a * (b * d) + (c * d + y) = (a * b + c) * d + y
    BY <1>3, SMT
  <2>2. p * PAGE_SIZE + x = (p * q + s) * BLOCK_SIZE + y
    BY <1>1, <1>2, <1>3, <2>1
  <2>3. p * q + s \in Nat
    BY <1>1, <1>3
  <2> DEFINE t == p * q + s
  <2>4. t \in Nat
    BY <2>3
  <2> HIDE DEF t
  <2>5. (t * BLOCK_SIZE + y) % BLOCK_SIZE = y
    BY <1>2, <1>3, <2>4, PartsOf
  <2> QED BY <1>1, <2>2, <2>5 DEF t
<1>5. s * BLOCK_SIZE + BLOCK_SIZE <= q * BLOCK_SIZE
  <2>1. \A a, b \in Nat, d \in Nat \ {0} : b <= a => b * d <= a * d
    BY SMT
  <2>2. \A a, b \in Nat, d \in Nat \ {0} : a < b => a * d + d <= b * d
    BY SMT
  <2>3. s * BLOCK_SIZE \in Nat /\ q * BLOCK_SIZE \in Nat /\ s * BLOCK_SIZE < q * BLOCK_SIZE
    BY <1>1, <1>2, <1>3
  <2>4. s < q
    BY <1>2, <1>3, <2>1, <2>3
  <2> QED BY <1>2, <1>3, <2>2, <2>4
<1>6. x + i < PAGE_SIZE /\ x + i \in Nat
  <2>1. y + n <= BLOCK_SIZE
    BY <1>4
  <2>2. s * BLOCK_SIZE \in Nat
    BY <1>2, <1>3
  <2> QED BY <1>2, <1>3, <1>5, <2>1, <2>2
<1>7. v + i = Vpn(v) * PAGE_SIZE + (x + i)
  <2>1. Vpn(v) * PAGE_SIZE \in Nat
    BY <1>1, <1>2
  <2> QED BY <1>1, <2>1
<1>8. Vpn(v + i) = Vpn(v) /\ (v + i) % PAGE_SIZE = x + i
  <2> DEFINE z == x + i
             r == Vpn(v)
  <2>1. z \in Nat /\ z < PAGE_SIZE /\ r \in Nat
    BY <1>1, <1>6
  <2> HIDE DEF z, r
  <2>2. (r * PAGE_SIZE + z) \div PAGE_SIZE = r /\ (r * PAGE_SIZE + z) % PAGE_SIZE = z
    BY <1>2, <2>1, PartsOf
  <2>3. v + i = r * PAGE_SIZE + z
    BY <1>7 DEF z, r
  <2>4. (v + i) \div PAGE_SIZE = r /\ (v + i) % PAGE_SIZE = z
    BY <2>2, <2>3
  <2> QED BY <2>4 DEF z, r, Vpn
<1>9. p * PAGE_SIZE \in Nat
  BY <1>1, <1>2
<1>10. PhysAddr(v + i) = p * PAGE_SIZE + (x + i)
  BY <1>8 DEF PhysAddr, p
<1> QED BY <1>1, <1>8, <1>9, <1>10 DEF x

-----------------------------------------------------------------------------
(* What the steps of the loader do to the program's memory.                *)

(* Translation and image in the next state.                                *)
LEMMA NextImage ==
  /\ \A v : PhysAddr(v)' = ptb'[Vpn(v)] * PAGE_SIZE + (v % PAGE_SIZE)
  /\ \A v : Translates(v)' <=> Vpn(v) \in DOMAIN ptb' /\ PhysAddr(v)' < MEM_SIZE
  /\ image' = [v \in {v \in VAddr : Translates(v)'} |-> mainMem'[PhysAddr(v)']]
  BY DEF PhysAddr, Translates, image, Vpn, MEM_SIZE, VAddr

(* A step that leaves the table and the memory alone shows the same image. *)
LEMMA SameImage ==
  ASSUME UNCHANGED <<ptb, mainMem>>
  PROVE  image' = image
  BY DEF image, Translates, PhysAddr

(* A new page is one of memory that was not handed out, or none of memory; *)
(* what was mapped stays where it is.                                      *)
LEMMA AllocPageImage ==
  ASSUME TypeOK, NEW vpn \in Nat, AllocPage(vpn), UNCHANGED mainMem, Loading, FreePagesAreZero
  PROVE  /\ \A v \in VAddr : Vpn(v) \in DOMAIN ptb =>
              /\ Vpn(v) \in DOMAIN ptb' /\ PhysAddr(v)' = PhysAddr(v)
              /\ Translates(v)' <=> Translates(v)
         /\ \A v \in VAddr : Vpn(v) \notin DOMAIN ptb /\ Translates(v)' =>
              Vpn(v) = vpn /\ mainMem'[PhysAddr(v)'] = 0
         /\ \/ \A v \in VAddr : Translates(v)' <=> Translates(v)
            \/ /\ vpn \notin DOMAIN ptb
               /\ \A v \in VAddr : Vpn(v) = vpn => Translates(v)'
<1>1. CASE vpn \in DOMAIN ptb /\ UNCHANGED <<bmp, ptb>>
  BY <1>1, NextImage DEF PhysAddr, Translates
<1>2. CASE /\ vpn \notin DOMAIN ptb /\ Free # {}
           /\ bmp' = bmp \cup {FindSet}
           /\ ptb' = [v \in DOMAIN ptb \cup {vpn} |-> IF v = vpn THEN FindSet ELSE ptb[v]]
  <2>1. FindSet \in Nat /\ FindSet \notin bmp
    BY <1>2, FindSetIsFree, Sizes
  <2>2. /\ DOMAIN ptb' = DOMAIN ptb \cup {vpn} /\ ptb'[vpn] = FindSet
        /\ \A v \in DOMAIN ptb : ptb'[v] = ptb[v]
    BY <1>2
  <2>3. ASSUME NEW v \in VAddr, Vpn(v) \in DOMAIN ptb
        PROVE  /\ Vpn(v) \in DOMAIN ptb' /\ PhysAddr(v)' = PhysAddr(v)
               /\ Translates(v)' <=> Translates(v)
    BY <2>2, <2>3, NextImage DEF PhysAddr, Translates
  <2>4. ASSUME NEW v \in VAddr, Vpn(v) \notin DOMAIN ptb
        PROVE  /\ ~Translates(v) /\ (Translates(v)' => Vpn(v) = vpn)
               /\ Vpn(v) = vpn => (Translates(v)' <=> FindSet < PYS_PAGE_NUM)
               /\ Translates(v)' => mainMem'[PhysAddr(v)'] = 0
    <3>1. ~Translates(v) /\ (Translates(v)' => Vpn(v) = vpn)
      BY <2>2, <2>4, NextImage DEF Translates
    <3>2. v % PAGE_SIZE \in Nat /\ v % PAGE_SIZE < PAGE_SIZE
      BY AddressInPlay, AddressParts
    <3>3. Vpn(v) = vpn => PhysAddr(v)' = FindSet * PAGE_SIZE + (v % PAGE_SIZE)
      BY <2>2, NextImage
    <3>4. Vpn(v) = vpn => (Translates(v)' <=> FindSet < PYS_PAGE_NUM)
      BY <2>1, <2>2, <3>2, <3>3, NextImage, InMemory
    <3>5. ASSUME Translates(v)' PROVE mainMem'[PhysAddr(v)'] = 0
      <4>1. FindSet \in 0 .. PYS_PAGE_NUM-1 /\ v % PAGE_SIZE \in 0 .. PAGE_SIZE-1
        BY <2>1, <3>1, <3>2, <3>4, <3>5, Sizes
      <4>2. mainMem[FindSet * PAGE_SIZE + (v % PAGE_SIZE)] = 0
        BY <2>1, <4>1 DEF FreePagesAreZero
      <4> QED BY <3>1, <3>3, <3>5, <4>2
    <3> QED BY <3>1, <3>4, <3>5
  <2>5. \A v \in VAddr : Vpn(v) \in DOMAIN ptb =>
          /\ Vpn(v) \in DOMAIN ptb' /\ PhysAddr(v)' = PhysAddr(v)
          /\ Translates(v)' <=> Translates(v)
    BY <2>3
  <2>6. \A v \in VAddr : Vpn(v) \notin DOMAIN ptb /\ Translates(v)' =>
          Vpn(v) = vpn /\ mainMem'[PhysAddr(v)'] = 0
    BY <2>4
  <2>7. CASE FindSet < PYS_PAGE_NUM
    <3>1. \A v \in VAddr : Vpn(v) = vpn => Translates(v)'
      BY <1>2, <2>4, <2>7
    <3> QED BY <1>2, <2>5, <2>6, <3>1
  <2>8. CASE ~(FindSet < PYS_PAGE_NUM)
    <3>1. ASSUME NEW v \in VAddr PROVE Translates(v)' <=> Translates(v)
      <4>1. CASE Vpn(v) \in DOMAIN ptb
        BY <2>3, <4>1
      <4>2. CASE Vpn(v) \notin DOMAIN ptb
        BY <2>4, <2>8, <4>2
      <4> QED BY <4>1, <4>2
    <3> QED BY <2>5, <2>6, <3>1
  <2> QED BY <2>7, <2>8
<1> QED BY <1>1, <1>2 DEF AllocPage

(* So AllocPage maps a page of zeros, or nothing that is in memory.        *)
LEMMA AllocPageMapsZeros ==
  ASSUME TypeOK, NEW vpn \in Nat, AllocPage(vpn), Loading, FreePagesAreZero,
         phase' = phase, UNCHANGED <<mainMem, content>>
  PROVE  [VM!Next]_(VM!vars)
<1>1. phase # "aborted" /\ phase' # "aborted"
  BY DEF Loading
<1>2. \A v \in VAddr : Translates(v) =>
        Translates(v)' /\ mainMem'[PhysAddr(v)'] = mainMem[PhysAddr(v)]
  BY AllocPageImage DEF Translates
<1>3. \A v \in VAddr : Translates(v)' /\ ~Translates(v) =>
        Vpn(v) = vpn /\ mainMem'[PhysAddr(v)'] = 0
  BY AllocPageImage
<1>4. image' = [v \in {v \in VAddr : Translates(v)'} |-> mainMem'[PhysAddr(v)']]
  BY NextImage
<1>5. CASE \A v \in VAddr : Translates(v)' <=> Translates(v)
  <2>1. image' = image
    BY <1>2, <1>4, <1>5 DEF image
  <2> QED BY <1>1, <2>1 DEF VM!vars
<1>6. CASE /\ vpn \notin DOMAIN ptb /\ vpn \in VPage
           /\ \A v \in VAddr : Vpn(v) = vpn => Translates(v)'
  <2> DEFINE new == vpn * PAGE_SIZE .. (vpn+1) * PAGE_SIZE - 1
  <2>1. \A v : v \in new <=> v \in VAddr /\ Vpn(v) = vpn
    BY <1>6, AddressOf
  <2>2. DOMAIN image = {v \in VAddr : Translates(v)}
    BY DEF image
  <2>3. \A v \in DOMAIN image : Vpn(v) # vpn
    BY <1>6, <2>2 DEF Translates
  <2> HIDE DEF new
  <2>4. {v \in VAddr : Translates(v)'} = DOMAIN image \cup new
    BY <1>2, <1>3, <1>6, <2>1, <2>2
  <2>5. \A v \in DOMAIN image \cup new :
          mainMem'[PhysAddr(v)'] = IF v \in DOMAIN image THEN image[v] ELSE 0
    <3> TAKE v \in DOMAIN image \cup new
    <3>1. CASE v \in DOMAIN image
      BY <1>2, <2>2, <3>1 DEF image
    <3>2. CASE v \notin DOMAIN image
      BY <1>3, <2>2, <2>4, <3>2
    <3> QED BY <3>1, <3>2
  <2>6. image' = [v \in DOMAIN image \cup new |-> IF v \in DOMAIN image THEN image[v] ELSE 0]
    BY <1>4, <2>4, <2>5
  <2>7. VM!MapPage(vpn)
    BY <1>1, <2>3, <2>6 DEF VM!MapPage, VM!PageOf, Vpn, new
  <2> QED BY <1>1, <1>6, <2>7 DEF VM!Next
<1>7. CASE vpn \notin VPage
  <2>1. \A v \in VAddr : Vpn(v) # vpn
    BY <1>7, AddressInPlay
  <2>2. \A v \in VAddr : Translates(v)' <=> Translates(v)
    BY <1>2, <1>3, <2>1
  <2> QED BY <1>5, <2>2
<1> QED BY <1>5, <1>6, <1>7, AllocPageImage

(* Nor does it touch what was copied.                                      *)
LEMMA AllocPageKeeps ==
  ASSUME TypeOK, PagesAreDistinct, LoadInv, NEW vpn \in Nat, AllocPage(vpn), Loading,
         phase \in {"alloc", "stack"}, UNCHANGED <<program, phase, seg, mainMem>>
  PROVE  LoadInv'
<1>1. \A i, v : Copied(i, v)' <=> Copied(i, v)
  BY DEF Copied, InFile
<1>2. FreePagesAreZero'
  <2>1. bmp \subseteq bmp'
    BY DEF AllocPage
  <2> QED BY <2>1 DEF LoadInv, FreePagesAreZero, Loading
<1>3. CopiedSoFar'
  <2> SUFFICES ASSUME NEW v \in VAddr
               PROVE  /\ (\E i \in DOMAIN program' : Copied(i, v)') => Vpn(v) \in DOMAIN ptb'
                      /\ Translates(v)' => CopiedAs(v, mainMem[PhysAddr(v)])'
    BY DEF CopiedSoFar, Vpn, VAddr
  <2>1. \A byte : CopiedAs(v, byte)' <=> CopiedAs(v, byte)
    BY <1>1 DEF CopiedAs
  <2>2. /\ (\E i \in DOMAIN program : Copied(i, v)) => Vpn(v) \in DOMAIN ptb
        /\ Translates(v) => CopiedAs(v, mainMem[PhysAddr(v)])
    BY DEF LoadInv, CopiedSoFar
  <2>3. CASE Vpn(v) \in DOMAIN ptb
    <3>1. /\ Vpn(v) \in DOMAIN ptb' /\ PhysAddr(v)' = PhysAddr(v)
          /\ Translates(v)' <=> Translates(v)
      BY <2>3, AllocPageImage DEF LoadInv
    <3> QED BY <1>1, <2>1, <2>2, <3>1
  <2>4. CASE Vpn(v) \notin DOMAIN ptb
    <3>1. \A i \in DOMAIN program : ~Copied(i, v)
      BY <2>2, <2>4
    <3>2. CopiedAs(v, 0)
      BY <3>1 DEF CopiedAs
    <3>3. Translates(v)' => mainMem'[PhysAddr(v)'] = 0
      BY <2>4, AllocPageImage DEF LoadInv
    <3> QED BY <1>1, <2>1, <3>1, <3>2, <3>3
  <2> QED BY <2>3, <2>4
<1> QED BY <1>2, <1>3 DEF LoadInv

(* A byte is copied to its own place, and to the program's memory.         *)
LEMMA CopyByteLoads ==
  ASSUME Inv, LoadInv, CopyByte
  PROVE  LoadInv' /\ [VM!Next]_(VM!vars)
<1> DEFINE a == Seg.vaddr + k
           byte == Seg.data[k + 1]
<1>1. /\ seg \in DOMAIN program /\ program \in Seq(Segment) /\ DOMAIN program = 1 .. Len(program)
      /\ Len(program) \in Nat /\ Seg = program[seg]
      /\ k \in Nat /\ Seg.vaddr \in Nat /\ a \in Nat /\ byte \in Byte
      /\ k < Len(Seg.data) /\ Len(Seg.data) \in Nat
  <2>1. program \in Seq(Segment) /\ seg \in 1 .. Len(program) /\ k \in Nat
    BY ProgramsAssumption DEF Inv, TypeOK, CopyByte
  <2>2. Seg.vaddr \in Nat /\ Seg.data \in Seq(Byte) /\ k < Len(Seg.data)
    BY <2>1, SegIsSegment DEF Inv, CopyByte
  <2>3. k + 1 \in 1 .. Len(Seg.data)
    BY <2>1, <2>2
  <2>4. Seg.data[k + 1] \in Byte
    BY <2>2, <2>3
  <2> QED BY <2>1, <2>2, <2>4 DEF Seg
<1>2. /\ phase = "copy" /\ Translates(a) /\ mainMem' = [mainMem EXCEPT ![PhysAddr(a)] = byte]
      /\ k' = k + 1 /\ UNCHANGED <<program, phase, seg, bmp, ptb, content>>
  BY DEF CopyByte
<1>3. /\ Vpn(a) \in DOMAIN ptb /\ PhysAddr(a) \in DOMAIN mainMem
      /\ PhysAddr(a) \div PAGE_SIZE = ptb[Vpn(a)]
  <2> HIDE DEF a
  <2>1. Vpn(a) \in DOMAIN ptb /\ PhysAddr(a) < MEM_SIZE
    BY <1>2 DEF Translates
  <2>2. PhysAddr(a) \in Nat /\ PhysAddr(a) \div PAGE_SIZE = ptb[Vpn(a)]
    BY <1>1, <2>1, PhysParts DEF Inv
  <2>3. DOMAIN mainMem = 0 .. MEM_SIZE-1
    BY DEF Inv, TypeOK
  <2> QED BY <2>1, <2>2, <2>3, Sizes
<1> HIDE DEF a, byte
<1>4. \A v \in VAddr : /\ PhysAddr(v)' = PhysAddr(v) /\ (Translates(v)' <=> Translates(v))
                       /\ Translates(v) =>
                            mainMem'[PhysAddr(v)] = IF v = a THEN byte ELSE mainMem[PhysAddr(v)]
  <2> TAKE v \in VAddr
  <2>1. PhysAddr(v)' = PhysAddr(v) /\ (Translates(v)' <=> Translates(v))
    BY <1>2 DEF PhysAddr, Translates
  <2>2. ASSUME Translates(v), v # a PROVE PhysAddr(v) # PhysAddr(a)
    BY <1>1, <1>3, <2>2, AddressInPlay, PhysDiffer DEF Inv, Translates
  <2> QED BY <1>2, <1>3, <2>1, <2>2
<1>5. FreePagesAreZero'
  <2> SUFFICES ASSUME NEW p \in (0 .. PYS_PAGE_NUM-1) \ bmp, NEW o \in 0 .. PAGE_SIZE-1
               PROVE  mainMem'[p * PAGE_SIZE + o] = 0
    BY <1>2 DEF FreePagesAreZero
  <2>1. (p * PAGE_SIZE + o) \div PAGE_SIZE = p
    BY PartsOf, Sizes
  <2>2. ptb[Vpn(a)] \in bmp
    BY <1>3 DEF Inv, PagesAreDistinct
  <2>3. p * PAGE_SIZE + o # PhysAddr(a)
    BY <1>3, <2>1, <2>2
  <2>4. mainMem[p * PAGE_SIZE + o] = 0
    BY <1>2 DEF LoadInv, FreePagesAreZero, Loading
  <2> QED BY <1>2, <2>3, <2>4 DEF Inv, TypeOK
<1>6. \A v \in VAddr, i \in DOMAIN program :
        Copied(i, v)' <=> Copied(i, v) \/ (i = seg /\ v = a)
  <2> TAKE v \in VAddr, i \in DOMAIN program
  <2>1. program[i].vaddr \in Nat /\ v \in Nat /\ i \in Nat /\ seg \in Nat
    <3>1. i \in 1 .. Len(program)
      BY <1>1
    <3>2. program[i] \in Segment
      BY <1>1, <3>1
    <3> QED BY <1>1, <3>1, <3>2, AddressInPlay DEF Segment
  <2>2. InFile(i, v)' <=> InFile(i, v)
    BY <1>2 DEF InFile
  <2>3. CASE i # seg
    BY <1>2, <2>2, <2>3 DEF Copied
  <2>4. CASE i = seg
    <3>1. program[i].vaddr = Seg.vaddr /\ program[i].data = Seg.data
      BY <1>1, <2>4
    <3>2. v = a <=> v - Seg.vaddr = k
      BY <1>1, <2>1, <3>1 DEF a
    <3>3. v - Seg.vaddr < k + 1 <=> v - Seg.vaddr < k \/ v - Seg.vaddr = k
      BY <1>1, <2>1
    <3>4. v - Seg.vaddr = k => InFile(i, v)
      BY <1>1, <3>1 DEF InFile
    <3>5. /\ Copied(i, v) <=> InFile(i, v) /\ v - Seg.vaddr < k
          /\ Copied(i, v)' <=> InFile(i, v) /\ v - Seg.vaddr < k + 1
      BY <1>2, <2>1, <2>2, <2>4, <3>1 DEF Copied
    <3> QED BY <2>4, <3>2, <3>3, <3>4, <3>5
  <2> QED BY <2>3, <2>4
<1>7. CopiedSoFar'
  <2> SUFFICES ASSUME NEW v \in VAddr
               PROVE  /\ (\E i \in DOMAIN program' : Copied(i, v)') => Vpn(v) \in DOMAIN ptb'
                      /\ Translates(v)' => CopiedAs(v, mainMem[PhysAddr(v)])'
    BY DEF CopiedSoFar, Vpn, VAddr
  <2>1. /\ (\E i \in DOMAIN program : Copied(i, v)) => Vpn(v) \in DOMAIN ptb
        /\ Translates(v) => CopiedAs(v, mainMem[PhysAddr(v)])
    BY <1>2 DEF LoadInv, CopiedSoFar, Loading
  <2>2. CASE v = a
    <3>1. \A j \in DOMAIN program : Copied(j, v)' => j <= seg
      BY <1>1, <1>2 DEF Copied
    <3> DEFINE C(j) == Copied(j, v)'
    <3>2. \A j \in DOMAIN program : j = seg => C(j)
      BY <1>6, <2>2
    <3>3. byte = program[seg].data[v - program[seg].vaddr + 1]
      <4>1. v - program[seg].vaddr + 1 = k + 1
        BY <1>1, <2>2 DEF a
      <4> QED BY <1>1, <4>1 DEF byte
    <3>4. \A b : CopiedAs(v, b)' <=>
            \/ b = 0 /\ \A i \in DOMAIN program : ~C(i)
            \/ \E i \in DOMAIN program :
                 /\ C(i) /\ b = program[i].data[v - program[i].vaddr + 1]
                 /\ \A j \in DOMAIN program : C(j) => j <= i
      BY <1>2 DEF CopiedAs
    <3> HIDE DEF C
    <3>5. \A b : b = byte => CopiedAs(v, b)'
      <4>1. \A j \in DOMAIN program : C(j) => j <= seg
        BY <3>1 DEF C
      <4> QED BY <1>1, <3>2, <3>3, <3>4, <4>1
    <3>6. Translates(v)' => mainMem'[PhysAddr(v)'] = byte
      BY <1>4, <2>2
    <3>7. Vpn(v) \in DOMAIN ptb'
      BY <1>2, <1>3, <2>2
    <3> QED BY <3>5, <3>6, <3>7
  <2>3. CASE v # a
    <3>1. \A i \in DOMAIN program : Copied(i, v)' <=> Copied(i, v)
      BY <1>6, <2>3
    <3>2. \A b : CopiedAs(v, b)' <=> CopiedAs(v, b)
      BY <1>2, <3>1 DEF CopiedAs
    <3>3. Translates(v)' => mainMem'[PhysAddr(v)'] = mainMem[PhysAddr(v)] /\ Translates(v)
      BY <1>4, <2>3
    <3> QED BY <1>2, <2>1, <3>1, <3>2, <3>3
  <2> QED BY <2>2, <2>3
<1>8. LoadInv'
  BY <1>2, <1>5, <1>7 DEF LoadInv
<1>9. image' = [v \in {v \in VAddr : Translates(v)} |-> IF v = a THEN byte ELSE mainMem[PhysAddr(v)]]
  BY <1>4, NextImage
<1>10. CASE a \in VAddr
  <2>1. a \in DOMAIN image /\ image' = [image EXCEPT ![a] = byte]
    BY <1>2, <1>9, <1>10 DEF image
  <2>2. VM!Load(a, byte)
    BY <1>2, <2>1 DEF VM!Load
  <2> QED BY <1>1, <1>2, <1>8, <2>1, <2>2 DEF VM!Next
<1>11. CASE a \notin VAddr
  <2>1. image' = image
    BY <1>9, <1>11 DEF image
  <2> QED BY <1>2, <1>8, <2>1 DEF VM!vars
<1> QED BY <1>10, <1>11

-----------------------------------------------------------------------------
(* What the accesses of the program do to its memory.                      *)

(* An access that is let through stays in the page that was translated.    *)
LEMMA AccessShown ==
  ASSUME TypeOK, NEW v \in VAddr, NEW n \in 1 .. MAXBYTES, Accessible(v, n), NEW o \in 0 .. n-1
  PROVE  v + o \in DOMAIN image /\ PhysAddr(v + o) = PhysAddr(v) + o
<1>1. v \in Nat /\ Vpn(v) \in VPage /\ Vpn(v) \in DOMAIN ptb /\ MAXBYTES \in Nat
  BY AddressInPlay, SizesAssumption DEF Accessible, Translates
<1>2. /\ Vpn(v + o) = Vpn(v) /\ PhysAddr(v + o) = PhysAddr(v) + o /\ v + o \in Nat
      /\ Translates(v + o)
  <2>1. n \in Nat /\ v + o \in Nat /\ (PhysAddr(v) % BLOCK_SIZE) + n <= BLOCK_SIZE
    BY <1>1 DEF Accessible
  <2>2. Vpn(v + o) = Vpn(v) /\ PhysAddr(v + o) = PhysAddr(v) + o
    BY <1>1, <2>1, AccessInPage
  <2>3. Translates(v) <=> ptb[Vpn(v)] < PYS_PAGE_NUM
    BY <1>1, PhysParts
  <2> DEFINE w == v + o
  <2> HIDE DEF w
  <2>4. Vpn(w) \in DOMAIN ptb /\ w \in Nat => (Translates(w) <=> ptb[Vpn(w)] < PYS_PAGE_NUM)
    BY PhysParts
  <2> QED BY <1>1, <2>1, <2>2, <2>3, <2>4 DEF w, Accessible
<1>3. v + o \in VAddr
  <2> DEFINE w == v + o
  <2>1. w \in Nat /\ Vpn(w) = Vpn(v)
    BY <1>2
  <2> HIDE DEF w
  <2>2. /\ w = Vpn(v) * PAGE_SIZE + (w % PAGE_SIZE)
        /\ w % PAGE_SIZE \in Nat /\ w % PAGE_SIZE < PAGE_SIZE
    BY <2>1, AddressParts
  <2>3. w % PAGE_SIZE \in 0 .. PAGE_SIZE-1
    BY <2>2, Sizes
  <2>4. w \in VAddr
    BY <1>1, <2>2, <2>3 DEF VAddr
  <2> QED BY <2>4 DEF w
<1> QED BY <1>2, <1>3 DEF image

LEMMA ReadShows ==
  ASSUME TypeOK, NEW v \in VAddr, NEW n \in 1 .. MAXBYTES, readBytes(v, n)
  PROVE  VM!Next
<1>1. Accessible(v, n) /\ n \in Nat /\ n > 0 /\ v \in Nat
  BY AddressInPlay, SizesAssumption DEF readBytes, Access
<1>2. \A o \in 0 .. n-1 : v + o \in DOMAIN image /\ PhysAddr(v + o) = PhysAddr(v) + o
  BY <1>1, AccessShown
<1>3. \A w \in v .. v+n-1 : w \in DOMAIN image
  <2> TAKE w \in v .. v+n-1
  <2>1. w - v \in 0 .. n-1 /\ v + (w - v) = w
    BY <1>1
  <2>2. v + (w - v) \in DOMAIN image
    BY <1>2, <2>1
  <2> QED BY <2>1, <2>2
<1>4. \A o \in 0 .. n-1 : image[v + o] = mainMem[PhysAddr(v) + o]
  BY <1>2 DEF image
<1>5. content' = [o \in 0 .. n-1 |-> image[v + o]]
  BY <1>4 DEF readBytes
<1>6. image' = image /\ phase = "run" /\ phase' = "run"
  BY SameImage DEF readBytes, Access
<1>7. VM!Read(v, n)
  BY <1>3, <1>5, <1>6 DEF VM!Read
<1>8. v \in DOMAIN image
  BY <1>1, <1>3
<1> QED BY <1>6, <1>7, <1>8 DEF VM!Next

LEMMA WriteShows ==
  ASSUME TypeOK, PagesAreDistinct, NEW v \in VAddr, NEW n \in 1 .. MAXBYTES, writeBytes(v, n)
  PROVE  VM!Next
<1>1. Accessible(v, n) /\ n \in Nat /\ n > 0 /\ v \in Nat
  BY AddressInPlay, SizesAssumption DEF writeBytes, Access
<1>2. \A o \in 0 .. n-1 : v + o \in DOMAIN image /\ PhysAddr(v + o) = PhysAddr(v) + o
  BY <1>1, AccessShown
<1>3. \A w \in v .. v+n-1 : w \in DOMAIN image
  <2> TAKE w \in v .. v+n-1
  <2>1. w - v \in 0 .. n-1 /\ v + (w - v) = w
    BY <1>1
  <2>2. v + (w - v) \in DOMAIN image
    BY <1>2, <2>1
  <2> QED BY <2>1, <2>2
<1>4. phase = "run" /\ phase' = "run" /\ content' \in [0 .. n-1 -> Byte] /\ UNCHANGED ptb
  BY DEF writeBytes, Access
<1>5. \A w \in VAddr : /\ PhysAddr(w)' = PhysAddr(w)
                       /\ Translates(w)' <=> Translates(w)
  BY <1>4 DEF PhysAddr, Translates
<1>6. ASSUME NEW w \in DOMAIN image
      PROVE  mainMem'[PhysAddr(w)] = IF w - v \in 0 .. n-1 THEN content'[w - v] ELSE image[w]
  <2>1. w \in VAddr /\ w \in Nat /\ Translates(w) /\ image[w] = mainMem[PhysAddr(w)]
    BY AddressInPlay DEF image
  <2>2. PhysAddr(w) \in Nat /\ PhysAddr(w) < MEM_SIZE /\ Vpn(w) \in DOMAIN ptb
    BY <2>1, PhysParts DEF Translates
  <2>3. PhysAddr(v) \in Nat
    BY <1>1, PhysParts DEF Accessible, Translates
  <2>4. PhysAddr(w) \in DOMAIN mainMem
    BY <2>2, Sizes DEF TypeOK
  <2>5. mainMem'[PhysAddr(w)] = IF PhysAddr(w) - PhysAddr(v) \in 0 .. n-1
                                  THEN content'[PhysAddr(w) - PhysAddr(v)] ELSE mainMem[PhysAddr(w)]
    BY <2>4 DEF writeBytes
  <2>6. CASE w - v \in 0 .. n-1
    <3>1. v + (w - v) = w
      BY <1>1, <2>1
    <3>2. PhysAddr(w) = PhysAddr(v) + (w - v)
      BY <1>2, <2>6, <3>1
    <3>3. PhysAddr(w) - PhysAddr(v) = w - v
      BY <1>1, <2>1, <2>2, <2>3, <3>2
    <3> QED BY <2>5, <2>6, <3>3
  <2>7. CASE w - v \notin 0 .. n-1
    <3>1. ASSUME PhysAddr(w) - PhysAddr(v) \in 0 .. n-1 PROVE FALSE
      <4> DEFINE o == PhysAddr(w) - PhysAddr(v)
      <4>1. o \in 0 .. n-1 /\ PhysAddr(v) + o = PhysAddr(w)
        BY <2>2, <2>3, <3>1
      <4> HIDE DEF o
      <4>2. v + o \in DOMAIN image /\ PhysAddr(v + o) = PhysAddr(w) /\ v + o \in Nat
        BY <1>1, <1>2, <4>1
      <4>3. Vpn(v + o) \in DOMAIN ptb
        BY <4>2 DEF image, Translates
      <4>4. w = v + o
        BY <2>1, <2>2, <4>2, <4>3, PhysDiffer
      <4> QED BY <1>1, <2>7, <4>1, <4>4
    <3> QED BY <2>1, <2>5, <2>7, <3>1
  <2> QED BY <2>6, <2>7
<1>7. DOMAIN content' = 0 .. n-1
  BY <1>4
<1>8. image' = [w \in DOMAIN image |-> mainMem'[PhysAddr(w)]]
  <2>1. {w \in VAddr : Translates(w)'} = DOMAIN image
    BY <1>5 DEF image
  <2>2. image' = [w \in {w \in VAddr : Translates(w)'} |-> mainMem'[PhysAddr(w)']]
    BY NextImage
  <2>3. \A w \in DOMAIN image : PhysAddr(w)' = PhysAddr(w)
    BY <1>5 DEF image
  <2> QED BY <2>1, <2>2, <2>3
<1>9. image' = VM!Put(v, content')
  BY <1>6, <1>7, <1>8 DEF VM!Put
<1>10. VM!Write(v, n)
  BY <1>3, <1>4, <1>9 DEF VM!Write, VM!Bytes
<1>11. v \in DOMAIN image
  BY <1>1, <1>3
<1> QED BY <1>4, <1>10, <1>11 DEF VM!Next

-----------------------------------------------------------------------------
(* The loader's invariant, and the refinement.                             *)
LEMMA LoadInvInit == Init => LoadInv /\ VM!Init
<1> SUFFICES ASSUME Init PROVE LoadInv /\ VM!Init
  OBVIOUS
<1>1. /\ phase = "alloc" /\ seg = 1 /\ ptb = << >> /\ content = << >>
      /\ mainMem = [a \in 0 .. MEM_SIZE-1 |-> 0]
      /\ program \in Seq(Segment) /\ DOMAIN program = 1 .. Len(program) /\ Len(program) \in Nat
  BY ProgramsAssumption DEF Init
<1>2. DOMAIN ptb = {}
  BY <1>1
<1>3. FreePagesAreZero
  <2> SUFFICES ASSUME NEW p \in (0 .. PYS_PAGE_NUM-1) \ bmp, NEW o \in 0 .. PAGE_SIZE-1
               PROVE  mainMem[p * PAGE_SIZE + o] = 0
    BY DEF FreePagesAreZero
  <2>1. p * PAGE_SIZE + o \in 0 .. MEM_SIZE-1
    BY InMemory, Sizes
  <2> QED BY <1>1, <2>1
<1>4. CopiedSoFar
  <2>1. \A i \in DOMAIN program : \A v : ~Copied(i, v)
    BY <1>1 DEF Copied
  <2>2. \A v : ~Translates(v)
    BY <1>2 DEF Translates
  <2> QED BY <2>1, <2>2 DEF CopiedSoFar
<1>5. image = << >>
  <2>1. {v \in VAddr : Translates(v)} = {}
    BY <1>2 DEF Translates
  <2> QED BY <2>1 DEF image
<1> QED BY <1>1, <1>3, <1>4, <1>5 DEF LoadInv, VM!Init

(* A step of the loader that neither maps nor copies.                      *)
LEMMA SameCopies ==
  ASSUME LoadInv, Loading, UNCHANGED <<program, bmp, ptb, mainMem>>,
         \A v \in VAddr : \A i \in DOMAIN program : Copied(i, v)' <=> Copied(i, v),
         phase' = "stack" => seg' > Len(program)
  PROVE  LoadInv'
<1>1. FreePagesAreZero'
  BY DEF LoadInv, FreePagesAreZero
<1>2. CopiedSoFar'
  <2> SUFFICES ASSUME NEW v \in VAddr
               PROVE  /\ (\E i \in DOMAIN program' : Copied(i, v)') => Vpn(v) \in DOMAIN ptb'
                      /\ Translates(v)' => CopiedAs(v, mainMem[PhysAddr(v)])'
    BY DEF CopiedSoFar, Vpn, VAddr
  <2>1. \A b : CopiedAs(v, b)' <=> CopiedAs(v, b)
    BY DEF CopiedAs
  <2>2. mainMem'[PhysAddr(v)'] = mainMem[PhysAddr(v)] /\ (Translates(v)' <=> Translates(v))
    BY DEF PhysAddr, Translates
  <2>3. /\ (\E i \in DOMAIN program : Copied(i, v)) => Vpn(v) \in DOMAIN ptb
        /\ Translates(v) => CopiedAs(v, mainMem[PhysAddr(v)])
    BY DEF LoadInv, CopiedSoFar
  <2> QED BY <2>1, <2>2, <2>3
<1> QED BY <1>1, <1>2 DEF LoadInv

LEMMA LoadInvNext == Inv /\ LoadInv /\ [Next]_vars => LoadInv' /\ [VM!Next]_(VM!vars)
<1> SUFFICES ASSUME Inv, LoadInv, [Next]_vars PROVE LoadInv' /\ [VM!Next]_(VM!vars)
  OBVIOUS
<1>0. /\ program \in Seq(Segment) /\ Len(program) \in Nat /\ seg \in Nat /\ TypeOK
      /\ DOMAIN program = 1 .. Len(program) /\ PagesAreDistinct
  BY ProgramsAssumption DEF Inv, TypeOK
<1>1. CASE LoadPage
  <2>1. Vpn(Seg.vaddr) + k \in Nat
    BY <1>0, <1>1, SegIsSegment DEF LoadPage, TypeOK
  <2>2. /\ AllocPage(Vpn(Seg.vaddr) + k) /\ phase = "alloc" /\ Loading
        /\ UNCHANGED <<program, phase, seg, mainMem, content>>
    BY <1>1 DEF LoadPage, Loading
  <2>3. LoadInv'
    BY <1>0, <2>1, <2>2, AllocPageKeeps
  <2>4. FreePagesAreZero
    BY DEF LoadInv
  <2> QED BY <1>0, <2>1, <2>2, <2>3, <2>4, AllocPageMapsZeros
<1>2. CASE PagesLoaded
  <2>1. /\ phase = "alloc" /\ phase' = "copy" /\ k' = 0 /\ Loading
        /\ UNCHANGED <<program, seg, bmp, ptb, mainMem, content>>
    BY <1>2 DEF PagesLoaded, Loading
  <2>2. ASSUME NEW v \in VAddr, NEW i \in DOMAIN program PROVE Copied(i, v)' <=> Copied(i, v)
    <3>1. InFile(i, v)' <=> InFile(i, v)
      BY <2>1 DEF InFile
    <3>2. InFile(i, v) => ~(v - program[i].vaddr < 0)
      BY DEF InFile
    <3> QED BY <2>1, <3>1, <3>2 DEF Copied
  <2>3. LoadInv'
    BY <2>1, <2>2, SameCopies
  <2> QED BY <2>1, <2>3, SameImage DEF VM!vars
<1>3. CASE CopyByte
  BY <1>3, CopyByteLoads
<1>4. CASE SegmentLoaded
  <2>1. /\ phase = "copy" /\ phase' = "alloc" /\ seg' = seg + 1 /\ k = Len(Seg.data) /\ Loading
        /\ UNCHANGED <<program, bmp, ptb, mainMem, content>>
    BY <1>4 DEF SegmentLoaded, Loading
  <2>2. ASSUME NEW v \in VAddr, NEW i \in DOMAIN program PROVE Copied(i, v)' <=> Copied(i, v)
    <3>1. InFile(i, v)' <=> InFile(i, v)
      BY <2>1 DEF InFile
    <3>2. i \in Nat
      BY <1>0
    <3>3. i = seg /\ InFile(i, v) => v - program[i].vaddr < k
      <4> SUFFICES ASSUME i = seg, InFile(i, v) PROVE v - program[i].vaddr < k
        OBVIOUS
      <4>1. Len(program[i].data) \in Nat
        <5>1. seg <= Len(program)
          BY <1>0, <2>1 DEF TypeOK
        <5> QED BY <1>0, <5>1, SegIsSegment DEF Seg
      <4> QED BY <2>1, <4>1 DEF InFile, Seg
    <3>4. i < seg + 1 <=> i < seg \/ i = seg
      BY <1>0, <3>2
    <3> QED BY <2>1, <3>1, <3>3, <3>4 DEF Copied
  <2>3. LoadInv'
    BY <2>1, <2>2, SameCopies
  <2> QED BY <2>1, <2>3, SameImage DEF VM!vars
<1>5. CASE Loaded
  <2>1. /\ phase = "alloc" /\ phase' = "stack" /\ seg > Len(program) /\ Loading
        /\ UNCHANGED <<program, seg, bmp, ptb, mainMem, content>>
    BY <1>5 DEF Loaded, Loading
  <2>2. \A v \in VAddr : \A i \in DOMAIN program : Copied(i, v)' <=> Copied(i, v)
    BY <2>1 DEF Copied, InFile
  <2>3. LoadInv'
    BY <2>1, <2>2, SameCopies
  <2> QED BY <2>1, <2>3, SameImage DEF VM!vars
<1>6. CASE StackPage
  <2>1. StackVpn - k \in Nat
    BY <1>0, <1>6, SizesAssumption DEF StackPage, TypeOK
  <2>2. /\ AllocPage(StackVpn - k) /\ phase = "stack" /\ Loading
        /\ UNCHANGED <<program, phase, seg, mainMem, content>>
    BY <1>6 DEF StackPage, Loading
  <2>3. LoadInv'
    BY <1>0, <2>1, <2>2, AllocPageKeeps
  <2>4. FreePagesAreZero
    BY DEF LoadInv
  <2> QED BY <1>0, <2>1, <2>2, <2>3, <2>4, AllocPageMapsZeros
<1>7. CASE Started
  <2>1. phase = "stack" /\ phase' = "run" /\ UNCHANGED <<ptb, mainMem, content>>
    BY <1>7 DEF Started
  <2>2. LoadInv'
    BY <2>1 DEF LoadInv, FreePagesAreZero, CopiedSoFar, Loading
  <2> QED BY <2>1, <2>2, SameImage DEF VM!vars
<1>8. CASE LoadAborts
  <2>1. phase # "aborted" /\ phase' = "aborted" /\ UNCHANGED <<ptb, mainMem, content>>
    BY <1>8 DEF LoadAborts
  <2>2. LoadInv'
    BY <2>1 DEF LoadInv, FreePagesAreZero, CopiedSoFar, Loading
  <2>3. VM!Abort
    BY <2>1, SameImage DEF VM!Abort
  <2> QED BY <2>1, <2>2, <2>3 DEF VM!Next
<1>9. CASE Run
  <2>0. PICK v \in VAddr, n \in 1 .. MAXBYTES :
          readBytes(v, n) \/ writeBytes(v, n) \/ AccessAborts(v, n)
    BY <1>9 DEF Run
  <2>1. phase = "run" /\ phase' \in {"run", "aborted"}
    BY <2>0 DEF readBytes, writeBytes, AccessAborts, Access
  <2>2. LoadInv'
    BY <2>1 DEF LoadInv, FreePagesAreZero, CopiedSoFar, Loading
  <2>3. CASE readBytes(v, n)
    BY <1>0, <2>2, <2>3, ReadShows
  <2>4. CASE writeBytes(v, n)
    BY <1>0, <2>2, <2>4, WriteShows
  <2>5. CASE AccessAborts(v, n)
    <3>1. phase' = "aborted" /\ UNCHANGED <<ptb, mainMem, content>>
      BY <2>5 DEF AccessAborts
    <3>2. VM!Abort
      BY <3>1, SameImage DEF VM!Abort
    <3> QED BY <2>1, <2>2, <3>2 DEF VM!Next
  <2> QED BY <2>0, <2>3, <2>4, <2>5
<1>10. CASE Ended \/ UNCHANGED vars
  <2>1. UNCHANGED vars
    BY <1>10 DEF Ended
  <2>2. image' = image
    BY <2>1, SameImage DEF vars
  <2>3. CASE Loading
    <3>1. \A v \in VAddr : \A i \in DOMAIN program : Copied(i, v)' <=> Copied(i, v)
      BY <2>1 DEF vars, Copied, InFile
    <3>2. LoadInv'
      BY <2>1, <2>3, <3>1, SameCopies DEF vars, LoadInv
    <3> QED BY <2>1, <2>2, <3>2 DEF vars, VM!vars
  <2>4. CASE ~Loading
    <3>1. ~Loading'
      BY <2>1, <2>4 DEF vars, Loading
    <3>2. LoadInv'
      BY <3>1 DEF LoadInv, FreePagesAreZero, CopiedSoFar, Loading
    <3> QED BY <2>1, <2>2, <3>2 DEF vars, VM!vars
  <2> QED BY <2>3, <2>4
<1> QED BY <1>1, <1>2, <1>3, <1>4, <1>5, <1>6, <1>7, <1>8, <1>9, <1>10
        DEF Next, ReadUserProg, StackAllocate

(* The program starts with the bytes of its file and zeros elsewhere, for  *)
(* every file: however segments overlap or share pages, and wherever the   *)
(* physical pages are (ReadUserProg, AllocPageEntry, StackAllocate).       *)
THEOREM LoadedCorrect == Spec => []LoadedAsTheFileSays
<1>1. Inv /\ LoadInv => LoadedAsTheFileSays
  <2> SUFFICES ASSUME Inv, LoadInv, phase = "stack", NEW v \in VAddr, Translates(v)
               PROVE  mainMem[PhysAddr(v)] = FileByte(v)
    BY DEF LoadedAsTheFileSays
  <2>1. /\ DOMAIN program = 1 .. Len(program) /\ Len(program) \in Nat /\ seg \in Nat
        /\ seg > Len(program)
    BY ProgramsAssumption DEF Inv, TypeOK, LoadInv
  <2>2. \A i \in DOMAIN program : Copied(i, v) <=> InFile(i, v)
    BY <2>1 DEF Copied
  <2>3. CopiedAs(v, mainMem[PhysAddr(v)])
    BY DEF LoadInv, CopiedSoFar, Loading
  <2>4. CASE \A i \in DOMAIN program : ~InFile(i, v)
    <3>1. mainMem[PhysAddr(v)] = 0
      BY <2>2, <2>3, <2>4 DEF CopiedAs
    <3> QED BY <2>4, <3>1 DEF FileByte
  <2>5. CASE \E i \in DOMAIN program : InFile(i, v)
    <3> DEFINE Last(i) == InFile(i, v) /\ \A j \in DOMAIN program : InFile(j, v) => j <= i
    <3>1. PICK i \in DOMAIN program :
            Last(i) /\ mainMem[PhysAddr(v)] = program[i].data[v - program[i].vaddr + 1]
      BY <2>2, <2>3, <2>5 DEF CopiedAs
    <3>2. \A j \in DOMAIN program : Last(j) => j = i
      <4>1. \A j, l \in DOMAIN program : j <= l /\ l <= j => j = l
        BY <2>1
      <4> QED BY <3>1, <4>1
    <3>3. i = CHOOSE j \in DOMAIN program : Last(j)
      BY <3>1, <3>2
    <3> QED BY <2>5, <3>1, <3>3 DEF FileByte
  <2> QED BY <2>4, <2>5
<1> QED BY <1>1, InvCorrect, InvInit, InvNext, LoadInvInit, LoadInvNext, PTL DEF Spec

(* Through the page table the program has a memory of its own, whatever    *)
(* the sizes of pages, blocks and accesses: no access changes or shows a   *)
(* byte of an address it does not name (translateAddr, readBytes and       *)
(* writeBytes of machine.cpp).                                             *)
THEOREM VirtualMemoryCorrect == Spec => ImplementsVirtualMemory
<1>1. Init => VM!Init
  BY LoadInvInit
<1>2. Spec => []LoadInv
  BY InvInit, InvNext, LoadInvInit, LoadInvNext, PTL DEF Spec
<1> QED BY <1>1, <1>2, InvCorrect, LoadInvNext, PTL DEF Spec, ImplementsVirtualMemory, VM!Spec

=============================================================================
