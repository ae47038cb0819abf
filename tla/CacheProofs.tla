----------------------------- MODULE CacheProofs -----------------------------
(***************************************************************************)
(* The hierarchy, level by level: memory is a memory for LLC, LLC for L2,  *)
(* L2 for L1 (LevelRepresents of CacheLevelProofs), for every geometry and *)
(* every mix of policies. So L1 is one for the machine.                    *)
(***************************************************************************)
EXTENDS Cache, FiniteSetTheorems, TLAPS

\* The states of memory and of each level over what is below it, and what they show.
Mem == [Block -> Data]
V4  == [mem \in Mem |-> mem]
S3  == LLC!BackedStates(Value, Mem, V4)
V3  == LLC!Shown(Value, Mem, V4)
S2  == L2!BackedStates(Value, S3, V3)
V2  == L2!Shown(Value, S3, V3)
S1  == L1!BackedStates(Value, S2, V2)
V1  == L1!Shown(Value, S2, V2)

\* The hierarchy as a state of L1.
Hierarchy == L1!State(caches[1], L2!State(caches[2], LLC!State(caches[3], mainMem)))

\* Serving a request relies on nothing but this, CleanIsBacked included: an entry
\* that is not dirty is dropped.
Inv ==
  /\ setup \in Setups /\ status \in {"running", "aborted"}
  /\ caches[1] \in L1!GoodEntries(Value) /\ caches[2] \in L2!GoodEntries(Value)
  /\ caches[3] \in LLC!GoodEntries(Value)
  /\ mainMem \in Mem
  /\ CleanIsBacked

\* What is assumed of the configurations is what the levels need.
LEMMA Geometries ==
  ASSUME setup \in Setups
  PROVE  LLC!Geometry /\ L2!Geometry /\ L1!Geometry
<1>1. /\ BLOCKNUM \in Nat /\ MAXAGE \in Nat
      /\ \E n \in Nat : Block = 0 .. n-1
  BY SizesAssumption DEF Block
<1>2. ASSUME NEW i \in Level
      PROVE  /\ setup.levels[i].set_num \in Nat \ {0} /\ setup.levels[i].entry_num \in Nat \ {0}
             /\ setup.levels[i].write_through \in BOOLEAN
             /\ setup.levels[i].set_num <= setup.levels[i].entry_num
             /\ 2^LLC!log2(setup.levels[i].set_num) \in 1 .. setup.levels[i].set_num
<2>1. /\ setup.levels[i].set_num \in Nat \ {0} /\ setup.levels[i].entry_num \in Nat \ {0}
      /\ setup.levels[i].write_through \in BOOLEAN
      /\ setup.levels[i].entry_num % setup.levels[i].set_num = 0
  BY <1>2, ConfigAssumption DEF Setup, CacheConfig
<2>2. \A n, d \in Nat \ {0} : n % d = 0 => d <= n
  BY SMT
<2>. QED  BY <1>2, <2>1, <2>2, Log2Assumption
<1>3. 1 \in Level /\ 2 \in Level /\ 3 \in Level
  BY DEF Level
<1>4. LLC!Sets = 2^LLC!log2(setup.levels[3].set_num)
  BY DEF LLC!Sets
<1>5. L2!Sets = 2^LLC!log2(setup.levels[2].set_num)
  BY DEF L2!Sets, L2!log2, LLC!log2
<1>6. L1!Sets = 2^LLC!log2(setup.levels[1].set_num)
  BY DEF L1!Sets, L1!log2, LLC!log2
<1>. QED
  BY <1>1, <1>2, <1>3, <1>4, <1>5, <1>6 DEF LLC!Geometry, L2!Geometry, L1!Geometry

\* Requests are the same at every level.
LEMMA SameRequests ==
  /\ L1!Requests(Value) = LLC!Requests(Value) /\ L2!Requests(Value) = LLC!Requests(Value)
  BY DEF L1!Requests, L2!Requests, LLC!Requests, L1!ReadReq, L2!ReadReq, LLC!ReadReq,
         L1!WriteReq, L2!WriteReq, LLC!WriteReq

\* So is what the levels ask and answer.
LEMMA SameAnswers ==
  ASSUME NEW r, NEW before, NEW after, NEW bytes
  PROVE  /\ L1!Answers(r, before, after, bytes) <=> LLC!Answers(r, before, after, bytes)
         /\ L2!Answers(r, before, after, bytes) <=> LLC!Answers(r, before, after, bytes)
         /\ L1!Contents(Value) = LLC!Contents(Value) /\ L2!Contents(Value) = LLC!Contents(Value)
  BY DEF L1!Answers, L2!Answers, LLC!Answers, L1!Overlay, L2!Overlay, LLC!Overlay,
         L1!Restrict, L2!Restrict, LLC!Restrict, L1!Contents, L2!Contents, LLC!Contents

\* Memory is a memory for the last level.
LEMMA MemoryRepresents == LLC!Represents(Value, Mem, V4)
<1>. SUFFICES ASSUME NEW mem \in Mem, NEW r \in LLC!Requests(Value)
              PROVE  /\ MemoryServes(mem, r).st \in Mem
                     /\ LLC!Answers(r, mem, MemoryServes(mem, r).st, MemoryServes(mem, r).bytes)
  BY DEF LLC!Represents, LLC!Contents, V4, Mem, Data
<1>1. CASE \E b \in Block, span \in SUBSET Offset : r = LLC!ReadReq(b, span)
  BY <1>1 DEF LLC!ReadReq, MemoryServes, LLC!Answers, Restrict, LLC!Restrict
<1>2. ASSUME NEW b \in Block, NEW span \in SUBSET Offset, NEW bytes \in [span -> Value],
             r = LLC!WriteReq(b, bytes)
      PROVE  /\ MemoryServes(mem, r).st \in Mem
             /\ LLC!Answers(r, mem, MemoryServes(mem, r).st, MemoryServes(mem, r).bytes)
<2>1. ~r.read /\ r.block = b /\ r.span = span /\ r.bytes = bytes
  BY <1>2 DEF LLC!WriteReq
<2>. DEFINE new == [o \in Offset |-> IF o \in span THEN bytes[o] ELSE mem[b][o]]
<2>2. new \in Data /\ new = LLC!Overlay(bytes, mem[b])
  BY DEF Mem, Data, LLC!Overlay
<2>3. MemoryServes(mem, r).st = [mem EXCEPT ![b] = new]
  BY <2>1 DEF MemoryServes, Mem
<2>. HIDE DEF new
<2>. QED  BY <2>1, <2>2, <2>3 DEF Mem, LLC!Answers
<1>. QED  BY <1>1, <1>2 DEF LLC!Requests

\* Each level is a memory for the one above.
LEMMA AllRepresent ==
  ASSUME setup \in Setups
  PROVE  L2!Represents(Value, S3, V3) /\ L1!Represents(Value, S2, V2)
<1>1. L2!Represents(Value, S3, V3)
<2>1. ASSUME NEW l \in S3, NEW r \in LLC!Requests(Value)
      PROVE  /\ LLC!HandleRequest(l, r).st \in S3
             /\ LLC!Answers(r, V3[l], V3[LLC!HandleRequest(l, r).st], LLC!HandleRequest(l, r).bytes)
  BY Geometries, MemoryRepresents, LLC!LevelRepresents DEF S3, V3
<2>2. V3 \in [S3 -> LLC!Contents(Value)]
  BY Geometries, MemoryRepresents, LLC!ShownIs DEF S3, V3
<2>. QED  BY <2>1, <2>2, SameRequests, SameAnswers DEF L2!Represents
<1>2. L1!Represents(Value, S2, V2)
<2>1. ASSUME NEW l \in S2, NEW r \in L2!Requests(Value)
      PROVE  /\ L2!HandleRequest(l, r).st \in S2
             /\ L2!Answers(r, V2[l], V2[L2!HandleRequest(l, r).st], L2!HandleRequest(l, r).bytes)
  BY Geometries, <1>1, L2!LevelRepresents DEF S2, V2
<2>2. V2 \in [S2 -> L2!Contents(Value)]
  BY Geometries, <1>1, L2!ShownIs DEF S2, V2
<2>. QED  BY <2>1, <2>2, SameRequests, SameAnswers DEF L1!Represents
<1>. QED  BY <1>1, <1>2

\* A level starts with entries that are not valid.
LEMMA InitialEntries ==
  ASSUME setup \in Setups, NEW d \in Data
  PROVE  /\ L1!buildContent(d) \in L1!GoodEntries(Value)
         /\ L2!buildContent(d) \in L2!GoodEntries(Value)
         /\ LLC!buildContent(d) \in LLC!GoodEntries(Value)
<1>1. 0 \in Block /\ 0 \in 0 .. MAXAGE
  BY SizesAssumption DEF Block
<1>2. L1!buildContent(d) \in L1!GoodEntries(Value)
  BY <1>1 DEF L1!buildContent, L1!GoodEntries, L1!EntryOf, L1!Distinct, L1!Placed, L1!Clean, Data
<1>3. L2!buildContent(d) \in L2!GoodEntries(Value)
  BY <1>1 DEF L2!buildContent, L2!GoodEntries, L2!EntryOf, L2!Distinct, L2!Placed, L2!Clean, Data
<1>4. LLC!buildContent(d) \in LLC!GoodEntries(Value)
  BY <1>1 DEF LLC!buildContent, LLC!GoodEntries, LLC!EntryOf, LLC!Distinct, LLC!Placed, LLC!Clean, Data
<1>. QED  BY <1>2, <1>3, <1>4

\* The properties of the levels in the next state, of the same configuration.
LEMMA SameBacked ==
  ASSUME setup' = setup
  PROVE  /\ L1View' = L1!View(caches'[1], L2!View(caches'[2], LLC!View(caches'[3], mainMem')))
         /\ CleanIsBacked' <=>
              /\ L1!Backed(caches'[1], L2!View(caches'[2], LLC!View(caches'[3], mainMem')))
              /\ L2!Backed(caches'[2], LLC!View(caches'[3], mainMem'))
              /\ LLC!Backed(caches'[3], mainMem')
<1>1. LLCView' = LLC!View(caches'[3], mainMem')
  BY DEF LLCView, LLC!View, LLC!Holding, LLC!EntriesOf, LLC!Entries, LLC!SetID, LLC!AddrTag, LLC!Sets
<1>2. L2View' = L2!View(caches'[2], LLCView')
  BY DEF L2View, L2!View, L2!Holding, L2!EntriesOf, L2!Entries, L2!SetID, L2!AddrTag, L2!Sets
<1>3. L1View' = L1!View(caches'[1], L2View')
  BY DEF L1View, L1!View, L1!Holding, L1!EntriesOf, L1!Entries, L1!SetID, L1!AddrTag, L1!Sets
<1>4. L1!Backed(caches[1], L2View)' <=> L1!Backed(caches'[1], L2View')
  BY DEF L1!Backed, L1!Entries, L1!BlockAt, L1!Sets
<1>5. L2!Backed(caches[2], LLCView)' <=> L2!Backed(caches'[2], LLCView')
  BY DEF L2!Backed, L2!Entries, L2!BlockAt, L2!Sets
<1>6. LLC!Backed(caches[3], mainMem)' <=> LLC!Backed(caches'[3], mainMem')
  BY DEF LLC!Backed, LLC!Entries, LLC!BlockAt, LLC!Sets
<1>. QED  BY <1>1, <1>2, <1>3, <1>4, <1>5, <1>6 DEF CleanIsBacked

\* Three levels over a memory are a state of L1 if they are well formed and backed, and
\* it shows their view.
LEMMA Stacked ==
  ASSUME setup \in Setups, NEW e1 \in L1!GoodEntries(Value), NEW e2 \in L2!GoodEntries(Value),
         NEW e3 \in LLC!GoodEntries(Value), NEW mem \in Mem,
         NEW st, st = L1!State(e1, L2!State(e2, LLC!State(e3, mem)))
  PROVE  /\ st \in S1 <=> /\ L1!Backed(e1, L2!View(e2, LLC!View(e3, mem)))
                         /\ L2!Backed(e2, LLC!View(e3, mem))
                         /\ LLC!Backed(e3, mem)
         /\ st \in S1 => V1[st] = L1!View(e1, L2!View(e2, LLC!View(e3, mem)))
<1>. DEFINE s3 == LLC!State(e3, mem)
            s2 == L2!State(e2, s3)
            B3 == LLC!View(e3, mem)
            B2 == L2!View(e2, B3)
<1>1. /\ s3 \in S3 <=> LLC!Backed(e3, mem)
      /\ s3 \in S3 => V3[s3] = B3
<2>1. s3 \in LLC!States(Value, Mem) /\ s3.entries = e3 /\ s3.lower = mem /\ V4[mem] = mem
  BY DEF LLC!States, LLC!State, V4
<2>. HIDE DEF s3
<2>. QED  BY <2>1 DEF S3, V3, LLC!BackedStates, LLC!Shown
<1>2. /\ s2 \in S2 <=> s3 \in S3 /\ L2!Backed(e2, B3)
      /\ s2 \in S2 => V2[s2] = B2
<2>1. /\ s2 \in L2!States(Value, S3) <=> s3 \in S3
      /\ s2.entries = e2 /\ s2.lower = s3
<3>. HIDE DEF s3
<3>1. s2.entries = e2 /\ s2.lower = s3
  BY DEF L2!State
<3>2. ASSUME s2 \in L2!States(Value, S3) PROVE s3 \in S3
<4>1. PICK e \in L2!GoodEntries(Value), l \in S3 : s2 = L2!State(e, l)
  BY <3>2 DEF L2!States
<4>2. s2.lower = l
  BY <4>1 DEF L2!State
<4>. QED  BY <3>1, <4>2
<3>3. ASSUME s3 \in S3 PROVE s2 \in L2!States(Value, S3)
  BY <3>3 DEF L2!States
<3>. QED  BY <3>1, <3>2, <3>3
<2>. HIDE DEF s2, s3, B3
<2>. QED  BY <1>1, <2>1 DEF S2, V2, B2, L2!BackedStates, L2!Shown
<1>3. /\ st \in S1 <=> s2 \in S2 /\ L1!Backed(e1, B2)
      /\ st \in S1 => V1[st] = L1!View(e1, B2)
<2>1. /\ st \in L1!States(Value, S2) <=> s2 \in S2
      /\ st.entries = e1 /\ st.lower = s2
<3>. HIDE DEF s2
<3>1. st = L1!State(e1, s2)
  BY DEF s2
<3>2. st.entries = e1 /\ st.lower = s2
  BY <3>1 DEF L1!State
<3>3. ASSUME st \in L1!States(Value, S2) PROVE s2 \in S2
<4>1. PICK e \in L1!GoodEntries(Value), l \in S2 : st = L1!State(e, l)
  BY <3>3 DEF L1!States
<4>2. st.lower = l
  BY <4>1 DEF L1!State
<4>. QED  BY <3>2, <4>2
<3>4. ASSUME s2 \in S2 PROVE st \in L1!States(Value, S2)
  BY <3>1, <3>4 DEF L1!States
<3>. QED  BY <3>2, <3>3, <3>4
<2>. HIDE DEF s2, s3, B2
<2>. QED  BY <1>2, <2>1 DEF S1, V1, L1!BackedStates, L1!Shown
<1>. QED  BY <1>1, <1>2, <1>3

\* And every state of L1 is that.
LEMMA Unstacked ==
  ASSUME NEW st \in S1
  PROVE  \E e1 \in L1!GoodEntries(Value), e2 \in L2!GoodEntries(Value),
            e3 \in LLC!GoodEntries(Value), mem \in Mem :
           st = L1!State(e1, L2!State(e2, LLC!State(e3, mem)))
  BY DEF S1, S2, S3, L1!BackedStates, L2!BackedStates, LLC!BackedStates,
         L1!States, L2!States, LLC!States

\* At first the hierarchy is well formed, and backs nothing yet.
LEMMA InvInit == Init => Inv
<1>. SUFFICES ASSUME Init PROVE Inv
  OBVIOUS
<1>1. mainMem \in Mem /\ mainMem[0] \in Data /\ setup \in Setups
  BY SizesAssumption DEF Init, Mem, Block
<1>2. /\ caches[1] = L1!buildContent(mainMem[0]) /\ caches[2] = L2!buildContent(mainMem[0])
      /\ caches[3] = LLC!buildContent(mainMem[0]) /\ DOMAIN caches = Level
  BY DEF Init, Level
<1>3. /\ caches[1] \in L1!GoodEntries(Value) /\ caches[2] \in L2!GoodEntries(Value)
      /\ caches[3] \in LLC!GoodEntries(Value)
  BY <1>1, <1>2, InitialEntries
<1>4. CleanIsBacked
  BY <1>2 DEF CleanIsBacked, L1!Backed, L2!Backed, LLC!Backed,
              L1!buildContent, L2!buildContent, LLC!buildContent
<1>. QED  BY <1>1, <1>3, <1>4 DEF Inv, Init

\* The configuration of the levels is that of the setup.
LEMMA SameEntries ==
  ASSUME setup' = setup
  PROVE  /\ L1!GoodEntries(Value)' = L1!GoodEntries(Value)
         /\ L2!GoodEntries(Value)' = L2!GoodEntries(Value)
         /\ LLC!GoodEntries(Value)' = LLC!GoodEntries(Value)
<1>1. L1!GoodEntries(Value)' = L1!GoodEntries(Value)
  BY DEF L1!GoodEntries, L1!Entries, L1!Distinct, L1!Placed, L1!BlockOf, L1!Clean, L1!BlockAt, L1!Sets
<1>2. L2!GoodEntries(Value)' = L2!GoodEntries(Value)
  BY DEF L2!GoodEntries, L2!Entries, L2!Distinct, L2!Placed, L2!BlockOf, L2!Clean, L2!BlockAt, L2!Sets
<1>3. LLC!GoodEntries(Value)' = LLC!GoodEntries(Value)
  BY DEF LLC!GoodEntries, LLC!Entries, LLC!Distinct, LLC!Placed, LLC!BlockOf, LLC!Clean, LLC!BlockAt, LLC!Sets
<1>. QED  BY <1>1, <1>2, <1>3

\* A request of the machine leaves a hierarchy, and is answered from what L1 shows.
LEMMA RequestAnswered ==
  ASSUME Inv, NEW r \in L1!Requests(Value), Request(r)
  PROVE  /\ Inv'
         /\ L1!Answers(r, L1View, L1View', L1!HandleRequest(Hierarchy, r).bytes)
<1>. DEFINE after == L1!HandleRequest(Hierarchy, r).st
<1>1. setup \in Setups /\ setup' = setup /\ status' = status
  BY DEF Inv, Request
<1>2. Hierarchy \in S1 /\ V1[Hierarchy] = L1View
  BY Stacked DEF Inv, Hierarchy, CleanIsBacked, L1View, L2View, LLCView
<1>3. /\ after \in S1
      /\ L1!Answers(r, V1[Hierarchy], V1[after], L1!HandleRequest(Hierarchy, r).bytes)
  BY <1>1, <1>2, Geometries, AllRepresent, L1!LevelRepresents DEF S1, V1
<1>4. /\ caches' = <<after.entries, after.lower.entries, after.lower.lower.entries>>
      /\ mainMem' = after.lower.lower.lower
  BY DEF Request, Hierarchy
<1>. HIDE DEF after
<1>5. PICK e1 \in L1!GoodEntries(Value), e2 \in L2!GoodEntries(Value),
           e3 \in LLC!GoodEntries(Value), mem \in Mem :
        after = L1!State(e1, L2!State(e2, LLC!State(e3, mem)))
  BY <1>3, Unstacked
<1>6. caches'[1] = e1 /\ caches'[2] = e2 /\ caches'[3] = e3 /\ mainMem' = mem
  BY <1>4, <1>5 DEF L1!State, L2!State, LLC!State
<1>7. CleanIsBacked' /\ V1[after] = L1View'
  BY <1>1, <1>3, <1>5, <1>6, SameBacked, Stacked
<1>8. Inv'
  BY <1>1, <1>6, <1>7, SameEntries DEF Inv, Mem
<1>. QED  BY <1>2, <1>3, <1>7, <1>8

\* A step that touches nothing that is stored.
LEMMA InvUntouched ==
  ASSUME Inv, UNCHANGED <<setup, caches, mainMem>>, status' \in {status, "aborted"}
  PROVE  Inv' /\ L1View' = L1View
<1>1. CleanIsBacked' /\ L1View' = L1View
  BY SameBacked DEF Inv, CleanIsBacked, L1View, L2View, LLCView
<1>. QED  BY <1>1, SameEntries DEF Inv, Mem

\* What the program uses is there.
LEMMA UsedIsThere ==
  ASSUME Inv, NEW b \in setup.blocks, NEW access \in setup.accesses
  PROVE  b \in Block /\ access[1] \in Offset /\ access[2] \in 1 .. MAXBYTES
<1>1. setup \in Setup
  BY ConfigAssumption DEF Inv
<1>2. setup.blocks \in SUBSET Block /\ setup.accesses \in SUBSET Accesses
  BY <1>1 DEF Setup
<1>. QED  BY <1>2 DEF Accesses

\* A read leaves a hierarchy, and reads what L1 shows.
LEMMA ReadStep ==
  ASSUME Inv, NEW b \in Block, NEW offset \in Offset, NEW bytes \in 1 .. MAXBYTES,
         readBytes(b, offset, bytes)
  PROVE  Inv' /\ Flat!Read(b, Span(offset, bytes)) /\ Span(offset, bytes) \in SUBSET Offset
<1>. DEFINE r == L1!ReadReq(b, Span(offset, bytes))
<1>1. /\ status = "running" /\ Span(offset, bytes) \in SUBSET Offset
      /\ Request(r)
  BY DEF readBytes
<1>2. r \in L1!Requests(Value) /\ r.read /\ r.block = b /\ r.span = Span(offset, bytes)
<2>1. r \in L1!Requests(Value)
  BY <1>1 DEF L1!Requests
<2>. QED  BY <2>1 DEF L1!ReadReq
<1>. HIDE DEF r
<1>3. Inv' /\ L1!Answers(r, L1View, L1View', L1!HandleRequest(Hierarchy, r).bytes)
  BY <1>1, <1>2, RequestAnswered
<1>4. content' = L1!HandleRequest(Hierarchy, r).bytes /\ status' = status
  BY <1>1, <1>2 DEF Request, Hierarchy
<1>5. content' = Flat!Restrict(L1View[b], Span(offset, bytes)) /\ L1View' = L1View
  BY <1>2, <1>3, <1>4 DEF L1!Answers, L1!Restrict, Flat!Restrict
<1>. QED  BY <1>1, <1>3, <1>4, <1>5 DEF Flat!Read

\* A write leaves a hierarchy, and changes what L1 shows by the bytes written.
LEMMA WriteStep ==
  ASSUME Inv, NEW b \in Block, NEW offset \in Offset, NEW bytes \in 1 .. MAXBYTES,
         writeBytes(b, offset, bytes)
  PROVE  Inv' /\ Flat!Write(b, Span(offset, bytes)) /\ Span(offset, bytes) \in SUBSET Offset
<1>1. status = "running" /\ Span(offset, bytes) \in SUBSET Offset
  BY DEF writeBytes
<1>2. PICK val \in [Span(offset, bytes) -> Value] : Request(L1!WriteReq(b, val))
  BY DEF writeBytes
<1>. DEFINE r == L1!WriteReq(b, val)
<1>3. r \in L1!Requests(Value) /\ ~r.read /\ r.block = b /\ r.bytes = val
<2>1. r \in L1!Requests(Value)
  BY <1>1 DEF L1!Requests
<2>. QED  BY <2>1 DEF L1!WriteReq
<1>4. Request(r)
  BY <1>2
<1>. HIDE DEF r
<1>5. Inv' /\ L1!Answers(r, L1View, L1View', L1!HandleRequest(Hierarchy, r).bytes)
  BY <1>3, <1>4, RequestAnswered
<1>6. content' = val /\ status' = status
  BY <1>3, <1>4 DEF Request
<1>7. L1View' = [L1View EXCEPT ![b] =
                   [o \in Offset |-> IF o \in Span(offset, bytes) THEN content'[o] ELSE @[o]]]
  BY <1>3, <1>5, <1>6 DEF L1!Answers, L1!Overlay
<1>. QED  BY <1>1, <1>2, <1>5, <1>6, <1>7 DEF Flat!Write

\* Every step leaves a hierarchy, and is one of the memory that L1 shows.
LEMMA InvNext == Inv /\ [Next]_vars => Inv' /\ [Flat!Next]_(Flat!vars)
<1>. SUFFICES ASSUME Inv, [Next]_vars PROVE Inv' /\ [Flat!Next]_(Flat!vars)
  OBVIOUS
<1>1. ASSUME NEW b \in setup.blocks, NEW access \in setup.accesses, readBytes(b, access[1], access[2])
      PROVE  Inv' /\ [Flat!Next]_(Flat!vars)
  BY <1>1, UsedIsThere, ReadStep DEF Flat!Next
<1>2. ASSUME NEW b \in setup.blocks, NEW access \in setup.accesses, writeBytes(b, access[1], access[2])
      PROVE  Inv' /\ [Flat!Next]_(Flat!vars)
  BY <1>2, UsedIsThere, WriteStep DEF Flat!Next
<1>3. ASSUME NEW b, NEW offset, NEW bytes, Misaligned(b, offset, bytes)
      PROVE  Inv' /\ [Flat!Next]_(Flat!vars)
<2>1. Inv' /\ L1View' = L1View
  BY <1>3, InvUntouched DEF Misaligned
<2>. QED  BY <1>3, <2>1 DEF Misaligned, Flat!Next, Flat!Abort
<1>4. CASE Ended \/ UNCHANGED vars
<2>1. UNCHANGED <<setup, caches, mainMem, content, status>>
  BY <1>4 DEF Ended, vars
<2>2. Inv' /\ L1View' = L1View
  BY <2>1, InvUntouched
<2>. QED  BY <2>1, <2>2 DEF Flat!vars
<1>. QED  BY <1>1, <1>2, <1>3, <1>4 DEF Next

\* The hierarchy is one throughout.
LEMMA InvCorrect == Spec => []Inv
<1>1. Inv /\ [Next]_vars => Inv'
  BY InvNext
<1>. QED  BY <1>1, InvInit, PTL DEF Spec

(* Entries and memory stay well formed in every hierarchy of caches.       *)
THEOREM TypeCorrect == Spec => []TypeOK
<1>1. Inv => TypeOK
<2>. SUFFICES ASSUME Inv PROVE TypeOK
  OBVIOUS
<2>1. /\ caches[1] \in [0 .. setup.levels[1].entry_num-1 -> CacheEntry]
      /\ caches[2] \in [0 .. setup.levels[2].entry_num-1 -> CacheEntry]
      /\ caches[3] \in [0 .. setup.levels[3].entry_num-1 -> CacheEntry]
  BY DEF Inv, L1!GoodEntries, L2!GoodEntries, LLC!GoodEntries, L1!EntryOf, L2!EntryOf,
         LLC!EntryOf, L1!Entries, L2!Entries, LLC!Entries, CacheEntry, Data
<2>. QED  BY <2>1 DEF Inv, TypeOK, Level, Mem
<1>. QED  BY <1>1, InvCorrect, PTL

(* A block is in at most one entry of each level, so the first entry that  *)
(* the search loops of HandleRequest find is the only one.                 *)
THEOREM HeldOnceCorrect == Spec => []HeldOnce
<1>1. Inv => HeldOnce
  BY L1!DistinctIsOnce, L2!DistinctIsOnce, LLC!DistinctIsOnce DEF Inv, HeldOnce
<1>. QED  BY <1>1, InvCorrect, PTL

(* A level that writes through has nothing to flush, whatever the policies *)
(* of its neighbours (HandleRequest, hit and miss).                        *)
THEOREM WriteThroughCorrect == Spec => []WriteThroughIsClean
<1>1. Inv => WriteThroughIsClean
  BY DEF Inv, WriteThroughIsClean, L1!GoodEntries, L2!GoodEntries, LLC!GoodEntries
<1>. QED  BY <1>1, InvCorrect, PTL

(* An entry that is not dirty holds what the level below would deliver,    *)
(* whatever was evicted, refilled or overwritten there since: dropping it  *)
(* loses nothing (ReplaceAlgorithm).                                       *)
THEOREM CleanIsBackedCorrect == Spec => []CleanIsBacked
<1>1. Inv => CleanIsBacked
  BY DEF Inv
<1>. QED  BY <1>1, InvCorrect, PTL

(* Three levels of any geometry and any policies over memory are a memory: *)
(* the machine reads the bytes it wrote last.                              *)
THEOREM FlatMemoryCorrect == Spec => ImplementsFlatMemory
<1>1. Init => Flat!Init
<2>. SUFFICES ASSUME Init PROVE Flat!Init
  OBVIOUS
<2>1. Inv
  BY InvInit
<2>2. Hierarchy \in S1 /\ V1[Hierarchy] = L1View
  BY <2>1, Stacked DEF Inv, Hierarchy, CleanIsBacked, L1View, L2View, LLCView
<2>3. V1 \in [S1 -> L1!Contents(Value)]
  BY <2>1, Geometries, AllRepresent, L1!ShownIs DEF Inv, S1, V1
<2>. QED  BY <2>2, <2>3 DEF Init, Flat!Init, L1!Contents, Flat!Data
<1>2. Inv /\ [Next]_vars => [Flat!Next]_(Flat!vars)
  BY InvNext
<1>. QED  BY <1>1, <1>2, InvCorrect, PTL DEF Spec, ImplementsFlatMemory, Flat!Spec
=============================================================================
