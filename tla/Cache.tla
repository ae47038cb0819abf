-------------------------------- MODULE Cache --------------------------------
(***************************************************************************)
(* The storage hierarchy of class Machine: the caches L1, L2 and LLC over  *)
(* physical memory (memory.cc), each a Storage that calls HandleRequest of *)
(* the next lower one (CacheLevel). Calls are synchronous and there is one *)
(* caller, so a request to L1 with everything it causes below is one step. *)
(***************************************************************************)
EXTENDS Integers, Functions

CONSTANTS
  BLOCKNUM,    \* blocks of physical memory (memSize / BLOCK_SIZE)
  BLOCK_SIZE,
  Value,       \* values of a byte
  Setups,      \* what to run: a hierarchy, and the requests the machine makes of it
  MAXAGE,
  MAXBYTES     \* largest request of the machine

Block  == 0 .. BLOCKNUM-1
Offset == 0 .. BLOCK_SIZE-1
Data   == [Offset -> Value]
Level  == 1 .. 3

\* size and associativity determine entry_num and set_num.
CacheConfig == [entry_num : Nat \ {0}, set_num : Nat \ {0},
                write_through : BOOLEAN, write_allocate : BOOLEAN]

CacheEntry == [tag : Block, timeStamp : 0 .. MAXAGE, data : Data, valid : BOOLEAN, dirty : BOOLEAN]

ASSUME SizesAssumption == /\ {BLOCKNUM, BLOCK_SIZE, MAXAGE, MAXBYTES} \subseteq Nat \ {0}
                          /\ MAXBYTES <= BLOCK_SIZE /\ 0 \in Value

\* bytes consecutive bytes from an offset.
Span(offset, bytes) == offset .. offset+bytes-1

\* A program uses some of the blocks, and some of the accesses <<offset, bytes>>.
Accesses == Offset \X (1 .. MAXBYTES)
Setup    == [levels : [Level -> CacheConfig], blocks : SUBSET Block, accesses : SUBSET Accesses]

\* What PfmConfig and SetConfig accept.
ASSUME ConfigAssumption ==
  \A s \in Setups : /\ s \in Setup
                    /\ \A i \in Level : s.levels[i].entry_num % s.levels[i].set_num = 0

VARIABLES
  setup,     \* never changes; setup.levels[i] is config_ of level i, L1 first
  caches,    \* caches[i]: cache_content of level i
  mainMem,
  content,   \* bytes the last request of the machine transferred
  status

vars == <<setup, caches, mainMem, content, status>>

-----------------------------------------------------------------------------
\* Memory::HandleRequest.
MemoryServes(mem, r) ==
  IF r.read
    THEN [st |-> mem, bytes |-> Restrict(mem[r.block], r.span)]
  ELSE [st |-> [mem EXCEPT ![r.block] =
                  [o \in Offset |-> IF o \in r.span THEN r.bytes[o] ELSE @[o]]],
        bytes |-> << >>]

\* SetCacheConfig chains the levels: CacheLevel, with what is proved of it.
LLC == INSTANCE CacheLevelProofs WITH config <- setup.levels[3], Lower <- MemoryServes
L2  == INSTANCE CacheLevelProofs WITH config <- setup.levels[2], Lower <- LLC!HandleRequest
L1  == INSTANCE CacheLevelProofs WITH config <- setup.levels[1], Lower <- L2!HandleRequest

\* The power of two that log2 finds is a number of sets the level has.
ASSUME Log2Assumption ==
  \A s \in Setups, i \in Level : 2^LLC!log2(s.levels[i].set_num) \in 1 .. s.levels[i].set_num

-----------------------------------------------------------------------------
\* A byte the program looks at.
Used(b, o) == b \in setup.blocks /\ \E access \in setup.accesses : o \in Span(access[1], access[2])

\* The loader writes the program to physical memory before any cache is used.
Init ==
  /\ setup \in Setups
  /\ mainMem \in {mem \in [Block -> Data] :
                   \A b \in Block, o \in Offset : ~Used(b, o) => mem[b][o] = 0}
  /\ caches = <<L1!buildContent(mainMem[0]), L2!buildContent(mainMem[0]),
                LLC!buildContent(mainMem[0])>>
  /\ content = << >> /\ status = "running"

Request(r) ==
  LET before == L1!State(caches[1], L2!State(caches[2], LLC!State(caches[3], mainMem)))
      served == L1!HandleRequest(before, r)
      after  == served.st
  IN  /\ caches' = <<after.entries, after.lower.entries, after.lower.lower.entries>>
      /\ mainMem' = after.lower.lower.lower
      /\ content' = IF r.read THEN served.bytes ELSE r.bytes
      /\ UNCHANGED <<setup, status>>

\* HandleRequest asserts that a request ends in its block.
readBytes(b, offset, bytes) ==
  /\ status = "running" /\ Span(offset, bytes) \subseteq Offset
  /\ Request(L1!ReadReq(b, Span(offset, bytes)))

writeBytes(b, offset, bytes) ==
  /\ status = "running" /\ Span(offset, bytes) \subseteq Offset
  /\ \E val \in [Span(offset, bytes) -> Value] : Request(L1!WriteReq(b, val))

Misaligned(b, offset, bytes) ==
  /\ status = "running" /\ ~(Span(offset, bytes) \subseteq Offset)
  /\ status' = "aborted"
  /\ UNCHANGED <<setup, caches, mainMem, content>>

Ended == status = "aborted" /\ UNCHANGED vars

Next == \/ \E b \in setup.blocks, access \in setup.accesses :
             \/ readBytes(b, access[1], access[2])
             \/ writeBytes(b, access[1], access[2])
             \/ Misaligned(b, access[1], access[2])
        \/ Ended

Spec == Init /\ [][Next]_vars

-----------------------------------------------------------------------------
(* Properties.                                                             *)

\* Every level holds well-formed entries, and memory is of its size.
TypeOK ==
  /\ setup \in Setups
  /\ \A i \in Level : caches[i] \in [0 .. setup.levels[i].entry_num-1 -> CacheEntry]
  /\ mainMem \in [Block -> Data]
  /\ status \in {"running", "aborted"}

(* A block is in at most one entry of a level: HandleRequest and           *)
(* ReplaceDecision stop at the first they find, and Aging spares one.      *)
HeldOnce == L1!Once(caches[1]) /\ L2!Once(caches[2]) /\ LLC!Once(caches[3])

\* What reading from each level yields.
LLCView == LLC!View(caches[3], mainMem)
L2View  == L2!View(caches[2], LLCView)
L1View  == L1!View(caches[1], L2View)

(* An entry that is not dirty may be dropped: what it holds is what the    *)
(* level below would deliver, even if the block was evicted, refilled or   *)
(* overwritten there since. ReplaceAlgorithm relies on it.                 *)
CleanIsBacked ==
  /\ L1!Backed(caches[1], L2View)
  /\ L2!Backed(caches[2], LLCView)
  /\ LLC!Backed(caches[3], mainMem)

(* A level that writes through never has anything to flush, whichever of   *)
(* hits and misses brought its blocks in (HandleRequest).                  *)
WriteThroughIsClean == L1!Clean(caches[1]) /\ L2!Clean(caches[2]) /\ LLC!Clean(caches[3])

Flat == INSTANCE FlatMemory WITH store <- L1View

(* Whatever is cached where, written back, written through, allocated or   *)
(* evicted, the machine reads from the hierarchy the bytes it wrote last   *)
(* (cache.cc HandleRequest and memory.cc HandleRequest together).          *)
ImplementsFlatMemory == Flat!Spec

(* timeStamp: "0 is the newest" (cache.h). The entry that served the last  *)
(* request is the newest of its set.                                       *)
AccessedIsNewest ==
  [][\A b \in Block, offset \in Offset, bytes \in 1 .. MAXBYTES :
       readBytes(b, offset, bytes) =>
         \A k \in L1!Holding(caches'[1], b), j \in L1!EntriesOf(L1!SetID(b)) :
            caches'[1][j].valid => caches'[1][k].timeStamp <= caches'[1][j].timeStamp]_vars

=============================================================================
