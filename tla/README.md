# A TLA+ model of RISCVlab

RISCVlab (`src/`) simulates a RISC-V processor: it reads a configuration and an ELF program,
loads the program into a paged memory behind three levels of cache and runs it through a
five-stage pipeline with branch prediction, counting cycles and what they went into. This
directory specifies the simulator's logic in TLA+, model-checks it with TLC and proves its
invariants, and that its parts implement their abstract specifications, with TLAPS.

## The system: inventory

| component | code | state it keeps | operations | talks to |
|---|---|---|---|---|
| pipeline | `machine.cpp` `Run`; `riscvsim.cpp` `Fetch` `Decode` `Execute` `MemStage` `Writeback` | `PC`, `predPC`, `registers`, four input latches `DReg`..`WReg` and four output latches `DRegO`..`WRegO`, `forwardA/B` | one call of each stage per cycle, then latching | predictor (call), memory (through `translateAddr`, `readBytes`, `writeBytes`), `syscall` |
| branch predictor | `pred.cpp`, `pred.h` | counters `bitBuf`, `saBuf`, histories `saHis` | `Predict` (from Fetch), `update` (from Execute) | - |
| decoder and ALU | `riscvsim.cpp` `maskInstr`, `sig64ext`, the switches of `Decode`, `Execute` and `MemStage` | none | pure | pipeline |
| system calls | `riscvsim.cpp` `syscall`, `mylib/` | none (reads and writes registers) | 88..93 | register file, memory, console |
| cache level | `cache.cc`, `cache.h` | entries with tag, age, data, valid, dirty | `HandleRequest` and what it calls | next lower `Storage` |
| physical memory | `memory.cc` | bytes | `HandleRequest` | - |
| paging and loading | `machine.cpp` `AllocPageEntry` `AllocPysPage` `translateAddr` `ReadUserProg` `StackAllocate`, `bitmap.cpp` | page table, bitmap of physical pages | allocation, translation | physical memory |
| statistics | counters all over `riscvsim.cpp` and in `Run`, `Halt` | `machineStats`, `machineCycle`, `TicksPerCycle` | increments, report | pipeline (reads its latches) |
| configuration and command line | `main.cpp`, the constructor of `Machine`, `PfmConfig`, `SetCacheConfig`, `Cache::SetConfig` | cache and latency parameters, ticks of instructions, prediction scheme | parsing | caches, statistics, predictor |
| ELF reader | `elfio/` | stream, header, sections, segments | `load`, getters of segments | loader |
| single-stepping console | `machine.cpp` `print*` | none of its own | commands of the user | reads everything |

There is one thread and nothing persists. What is hard is order.

* **Pipeline.** Five instructions are in flight, and each stage of a cycle edits what an earlier
  stage of the *same* cycle left in the output latches: forwarding, bubbles, stalls and
  redirection all happen by overwriting, so the order of the calls and of the statements in them
  carries the correctness of the design. `Run` initialises only the flags of the latches; the
  rest is junk that a test must not act on. *Correct* means that the program cannot tell the
  pipeline from a machine that executes one instruction at a time, and that it keeps going.
* **Predictor.** It is trained two cycles after it predicted, by other branches in the meantime,
  and is told only whether it was right. *Correct* means that it learns outcomes.
* **Aborts.** A page fault or an undecodable word ends the process in the middle of a cycle.
  *Correct* means that what happened until then is a prefix of the program, and that only the
  program's own path ends it.
* **Caches.** Three levels keep copies of a block, each with its own policy, and call one another
  while they replace, flush and fetch. *Correct* means that together they are a memory.
* **Loading.** Segments and the stack share pages, memory may run out at any of them. *Correct*
  means that the file is in memory as it says and that virtual addresses never alias.
* **Instructions.** Immediates are scattered over the word, registers are signed or not, words are
  extended. *Correct* means the RISC-V manual.
* **Statistics.** They are the purpose of the simulator, and are counted by stages that do not know
  yet whether what they see will be squashed, or repeat it. *Correct* means that they count the
  program and that the cycles add up.
* **Starting.** The ELF reader ignores failures of the stream it reads, `PfmConfig` repeats the same
  code seven times and checks less than the caches need later. *Correct* means that parameters
  reach what they are for, and that what starts can run.

## Modules

| module | what it is | how it corresponds to the code |
|---|---|---|
| `Instructions` | words, registers, instructions | one operation for each group the pipeline treats alike; `SrcA` `SrcB` `DstE` `DstM` are the fields Decode computes, `ValE` is Execute's switch |
| `Predictor` | `class Predictor` as operators | `Predict`, `Update`; `Train` is the switch both learning schemes share |
| `Pipeline` | `class Machine`, running | latches are variables, a call of a stage is an action (`...Idle`: its early return on a bubble or a stall, `...Fault`: its abort), `Latch` is the end of the loop body, `stage` the position in it |
| `PipelineProps` | properties stated on the latches | |
| `ISA` | abstract: one instruction at a time | states the semantics again, on registers and memory |
| `PipelineISA` | refinement mapping `Pipeline` -> `ISA` | an instruction takes effect when MemStage is done with it, a system call in Writeback; the program counter is the address of the oldest instruction that has not taken effect. `Prefix` also maps simulations that abort: an abort in Fetch, Decode or Writeback is a machine that just stops there (`SeenStatus`), one in MemStage is a fault of the sequential machine |
| `CacheLevel` | `class Cache` as operators on a level's entries and the state below | `OnHit`, `ReplaceAlgorithm`, `OnMiss` are the parts of `HandleRequest`, in its order; the constant operator `Lower` is the `HandleRequest` it reaches through `lower_` |
| `Cache` | the hierarchy, and `Machine::readBytes`/`writeBytes` that call it | three instances of `CacheLevel`, each the `Lower` of the one above, as `SetCacheConfig` chains them, over `Memory::HandleRequest`. One request, with all it causes below, is one step: calls are synchronous |
| `FlatMemory` | abstract: blocks that keep what was written last | `store` is what reading through L1 would yield (`L1View`) |
| `Paging` | loader, stack, bitmap, page table, translation | a step for each page and each byte of `ReadUserProg` and `StackAllocate`, since each may abort; then the program's accesses |
| `VirtualMemory` | abstract: a memory for each mapped address | `image` is what the page table makes of physical memory |
| `Statistics` | the counters, superposed on `Pipeline` | each action is the one of `Pipeline` and what the code of that call counts; `CountLatch` is the end of `Run`'s loop; the report is the state in which `Halt` ends it |
| `CountingISA` | abstract: `ISA`, counting what it executes | |
| `StatisticsISA` | refinement mapping `Statistics` -> `CountingISA` | what Execute has counted and MemStage not executed yet is taken off, what MemStage has executed and Writeback not counted yet is added; so is a call taken off that Writeback counted and that failed |
| `Words`, `Decoder`, `Alu` | words as sets of bits; `maskInstr` and the switches of Decode; those of Execute and MemStage | the fields of a word, the name and immediate Decode makes of them, the values Execute and MemStage compute; the width of registers is a parameter. `Pow2` and the number a word stands for are recursive functions, which the proofs are about |
| `Manual` | reference: the base instruction set | formats, encoder and semantics, written from the definition of the instruction set on sets of bits; `Encodable` is what an assembler accepts |
| `Datapath` | one instruction alone in the pipeline | Fetch's target and prediction (`predJ`), Decode, Execute and MemStage with what `Pipeline` leaves out of them; Execute redirects a branch only if Fetch did not follow its outcome |
| `ElfReader` | `elfio::load` | a step for the identification, the header, each section and each segment; the stream fails at the first read beyond the end, and stays so |
| `Config` | `PfmConfig`, the defaults of the constructor, the geometry of a level | a step for each line |
| `Startup` | `main` up to the first cycle | the phases in `main`'s order, each of which may end the process |
| `MCPipeline`, `MCStatistics`, `MCCache`, `MCPaging`, `MCDatapath`, `MCStartup` | instances for TLC | |
| `PipelineProofs`, `ISAProofs`, `StatisticsProofs`, `DatapathProofs`, `CacheLevelProofs`, `CacheProofs`, `PagingProofs`, `StartupProofs` | theorems, checked by TLAPS | each of the first three extends the one before it |

The parts are joined where the code joins them. `Startup` ends where `Paging` copies the segments
`ElfReader` found, with the caches `Config` describes. The pipeline's data memory is the
`VirtualMemory` that `Paging` implements, reduced to its mapped addresses; the physical memory of
`Paging` is the `FlatMemory` that `Cache` implements. What an instruction of `Pipeline` computes
is `Datapath`'s subject, and `HazardFieldsAsModelled` says that the registers the two see are the
same. `CacheLevel` is composed with itself three times. Each part is checked against the abstract
specification that the part above it assumes.

### What the models leave out

* `Pipeline` keeps the program apart from data memory, so self-modifying code is outside it: none
  of the repository's programs writes its text. Addresses count instructions and data words;
  the sizes of loads and stores, and what each ALU operation computes, are one operation.
  Sums wrap at `WORD`. `FReg.bubble` is only ever cleared and is not a variable.
* `Statistics` gives an access to memory one time for instructions and one for data: which level of
  cache serves it, and what the caches count (`StorageStats`), is left out. The counters of
  `Cache` influence nothing else. New cache entries have indeterminate fields; only valid ones
  are looked at.
* `Alu` and `Manual` share the width of a register: 8 bits in the run, with words of 4, and any
  in the theorems (`WidthAssumption`). The encodings are those of 32-bit words. Undefined behaviour in the code, shifts by the width or
  more, is a choice between the outcomes the build can produce: `sig64ext(31, x)` of a negative
  word yields the word or -1.
* `ElfReader` has the fields the reader or `ReadUserProg` look at, as cells of two digits; a file is
  cut between fields. Names of sections and the assignment of sections to segments have no
  effect on the program loaded. `Config` takes lines as `sscanf` splits them; words longer than the
  buffers are left out. What boost made of the command line is an input of `Startup`.
* `Paging` starts with an ELF file that could be read. An entry of the page table is valid
  whenever it can be looked up, so the table maps straight to pages. Virtual pages are below 2^31,
  where the `pair<int, pageEntry>` of `AllocPageEntry` keeps them.

## Runs

| run | question | size |
|---|---|---|
| `programs` | Are operands, results, stores, branches and system calls those of the sequential machine, whatever is forwarded, stalled or squashed? Does a system call see all that is older and hide from nothing younger? Do the statistics count the program, and the cycles add up? | all programs of 4 out of 8 data and branch instructions over two registers in which no load is clobbered (below), and of 4 out of 7 around calls that print and read |
| `control` | Do jumps and branches squash exactly the wrong path, under every scheme? Does Bimodal learn outcomes? | all programs of 3 out of 10, four schemes, one shared predictor entry |
| `faults` | Does an abort leave a state of the sequential machine? Do Fetch and Decode abort only where the program goes, or behind a branch or `jalr` that Execute has not seen? | all programs of 4 out of 10 in a partly mapped memory, with the tail behind them and with nothing |
| `alu` | Does Decode recover what the assembler encoded, do the stages compute what the manual says, does the pipeline's model see the same registers? | every instruction, immediates with a bit in each slice of each format, 14 by 12 operands of 8 bits |
| `cache` | Is the hierarchy a memory, under mixed policies, with a number of sets that is no power of two, for whole blocks, parts and accesses that leave a block? May a clean entry be dropped? | 3 blocks; 2 hierarchies of 2+1+1 entries, L2 with the policies opposite to its neighbours', and one of 2+3+1 entries in 2, 3 and 1 sets; 2 blocks of 2 bytes and 2 hierarchies of single entries |
| `paging` | Is the program loaded as its file says, wherever memory runs out, and does it have a memory of its own? | programs of one and of two segments, 3 pages of 2 bytes |
| `startup` | Does each line of a configuration reach its parameter and no other? Can what starts run? What does a file that is cut anywhere yield? | all files of up to 2 out of 50 lines and of 3 and 4 out of 7; ELF files of both encodings, 1 or 2 segments and sections, cut at every cell |

Every property of these runs has a mutant, an operator in the module that is the code with a
plausible bug; with the mutant in place TLC finds the property violated.

Five runs check something the code, a comment or a document says and find it violated:

| run | what the code does |
|---|---|
| `clobber` | MemStage forwards a loaded value without asking whether Execute has forwarded a newer one. In `ld x1; addi x1,x2,0; use x1` the use gets the loaded value. |
| `history` | Under SelfAdj `update` looks up its prediction under a history that has moved on since Fetch and records the opposite of the outcome. |
| `alu_words` | `subw` adds, `srlw` and `sraw` shift to the left, and the word of a `mul`, which `default.cfg` gives a time, is executed as another instruction. |
| `cache_lru` | A hit ages all other entries but leaves its own age: the victim is not the least recently used. |
| `paging_full` | The bitmap has a bit more than memory has pages; the last page handed out does not exist. |

The passing runs therefore check `OperandsAreCurrent` and `ImplementsISA` for programs without a
clobbered load (an ALU instruction that overwrites the result of the load
just before it without reading it; `Clobbers` in `PipelineProps`). `ISA` prints strings, and faults
only on the program's path; `programs` and `control` use programs that make no such call and
stay within mapped, decodable addresses, and `faults` asks only for a prefix. `alu` leaves out the
cases of `Diverges` in `Datapath`, which lists all that the comparison with the manual found; what
Decode gets wrong among them is `Misdecoded`. The theorems about `Datapath` have these conditions
and no others, so the lists are complete.

Other divergences met on the way, without a run of their own:

* What stands behind a `jalr` or a wrongly predicted branch ends the simulation, if it is unmapped or
  undecodable, before Execute washes it away (`riscvsim.cpp:123`, `:418`, `:616`).
  `AbortsOnThePath` says that this is all: what Execute has seen leads to where an abort happens.
  One behind the call of exit, which is on the program's path, is premature too.
* System call 91 stores through an uninitialised `char` used as a pointer (`riscvsim.cpp:1030`).
* `srli` by 32 or more is decoded as `srai` (`riscvsim.cpp:302`); `lui` and `auipc` of a negative
  immediate lose or change their sign, as do negative results of the remaining word operations.
* `elfio::load` returns true for a file that is cut off (`elfio.hpp`), which is what
  `SegmentsUpToTheFirstGap` describes.
* `main.cpp:85` offers the scheme `Bi`; `main.cpp:77` accepts `BI`. `machine.cpp:296` says `h` stops
  the console.
* A negative associativity is accepted, with a negative number of sets, and so is one whose product with
  the block size overflows, with the number of sets the wrapped product gives (`machine.cpp:456`,
  `SetSize`).

### Bounds, and why they are enough

* An instruction interacts with those up to three places away: Execute, MemStage and Writeback
  forward to Decode in one cycle. Three or four free instructions, followed by a tail that calls
  exit, put every pair and triple of kinds at every distance; branches and jumps back into the
  body make longer chains and loops. Two working registers and x0 are enough for two operands to
  agree, to differ, and to be the same as a result.
* `WORD` = 8 is the number of addresses as well as of values: a jump can reach every instruction,
  and sums wrap. One predictor entry makes all branches collide; `HISTMODES` = 2 lets a
  history overflow its mask.
* `OneJunk` holds register names, values and flags that a test might take for real.
* Levels of one or two entries evict at almost every miss; three blocks are more than any level
  holds. `MAXAGE` = 2 is reached at once. Values are bits: the properties compare bytes for
  equality only.
* The 8-bit operands are the extremes of both signs, the values around 0 and around a word of 4 bits,
  and amounts of shifts beyond the width; every immediate format has a value with a bit in each of
  its slices, and negative ones. `Datapath` runs each instruction once: it has no state between two.
* `MAXLINES` = 3 is exceeded by files of 4 lines. `Garbage` is what an uninitialised number may hold:
  0, 1 and -1. Geometries include a capacity and an associativity of 0, negative ones, too few
  numbers and ones that do not divide. An int has 6 bits (`INT` = 32), so that an associativity of 32 or
  33 times a block of 2 wraps to 0, which is refused, or to 2, which is not. `BASE` = 8 makes swapped fields differ.
* Pages of two bytes have a first and a last byte for a segment to start and end at; the programs
  include empty segments and segments that lie in one another, share a page, or reach the stack.

### Fairness

`FairSpec` of `Pipeline` has weak fairness of the whole next-state relation: `Run` is a plain
`while(true)` in the only thread, so some next statement is always executed. Nothing is assumed
about particular stages. `ISA` has the same fairness, so `ImplementsISA` includes that the
pipeline never stalls for ever: every instruction of the sequential machine is eventually
executed. `StatSpec` has the same fairness over `Statistics`' steps, which are `Pipeline`'s. The
other specifications are safety only: the loader's and reader's loops end because they count.

## Proofs

### The pipeline, for every program, memory, width, number of registers and predictor entries, and every content of the latches at the start

`PipelineProofs`:

* `TypeCorrect`: `TypeOK` is inductive; a lemma per action.
* `BubblesCorrect`: `BubblesAndStalls` is inductive on top of it. It describes, for every value of
  `stage`, which latches may be bubbles or stalled and that a system call has nothing behind it;
  the two properties that matter are not inductive by themselves, since a latch is safe only
  because of what Decode, Execute and MemStage did in earlier stages and cycles.
* `LoadUseCorrect`, `EcallCorrect` follow from it: Execute never acts on junk, and a system call is
  alone in the pipeline when it is performed.
* `PredictionCorrect`: training on a success never turns a prediction round, and a failure leaves
  no younger branch in flight; so `PredictionCurrent`, which follows a branch through the latches,
  is inductive. `BimodalCorrect`, an action property, follows.
* `PathCorrect`: `OnPath` says that the latches hold successive instructions of the program. Behind an
  instruction Execute has not seen, successive means where Fetch went on (`Continues`); behind one it
  has seen, where the program goes on (`Actual`): MemStage and Writeback never meet a wrong path.
  From stage to stage the same chain is described on output latches as far as the stages have run.
* `AbortsCorrect`: an abort in Fetch or Decode happens where the instructions in flight lead, unless one
  of them is a branch or `jalr` that Execute has not seen: of every other one `Continues` is `Actual`.
* `OperandsCorrect`: `OperandInv` adds what each operand in `ERegO` is worth after each stage, in terms of
  the results still in front of it and of `forwardA`, `forwardB`. It is inductive only while no load
  has its result overwritten unread by the instruction behind it: there MemStage's forwarding is
  wrong (run `clobber`), and the theorem has that condition, `~Clobbered(prog)`, and no other.
  `OnPath` carries it over from the program to the latches (`KeepsLoad`).

`ISAProofs`, under the same condition:

* `PrefixCorrect`: every step of the pipeline is a step of `ISA` or changes nothing it can see. Fetch,
  Decode, Execute and Latch are invisible (lemmas `...Unseen`); MemStage takes the step of the
  instruction it handles (`MemStageSteps`, `MemFaultSteps`), Writeback that of a system call
  (`SyscallSteps`).
  The invariant `InStep` follows an instruction on from Decode: its operands are the registers behind
  what is in front of it, until MemStage handles it, and the oldest instruction that has not taken
  effect stays the same while latches are advanced.

`StatisticsProofs`, on top of these, for every table of ticks:

* `CyclesCorrect`: "cycles + bubbles in flight = instructions + 4 a call + hazards" holds at the start
  of a cycle only; the inductive invariant `Balance` carries the account from stage to stage,
  latch by latch, while one cycle's latches become the next one's. It needs `BubblesAndStalls` to
  know what each stage can meet.
* `ReportCorrect`: what Halt reports, from `BeforeCall`, which says that a call in Writeback has
  nothing else in flight that is still to be counted.
* `TicksCorrect`: `TicksPerCycle` is that of the slowest stage, from `SlowestSoFar`, stage by stage.
* `CountsCorrect`: the counters implement those of `CountingISA`. What Execute counts ahead of MemStage
  (`ExecuteCountsAhead`) and Writeback behind it (`WritebackCountsLate`) is what the mapping takes off and
  adds; that a load-use hazard is counted for the next instruction *executed* needs `OnPath`.

### The caches, for every size, number of sets, policy and block

`CacheLevelProofs` is about one level over *any* storage:

* `LevelServes`: if the storage below stays in a set of states G and delivers the bytes asked for, then
  so does the level with `States(V, G)`, its entries well formed, each block in one of them, clean if
  it writes through. Hit and miss are separate lemmas; `RoomIsMade` is the replacement, where the
  victim is flushed below.
* `LevelRepresents`: if, moreover, each state g of the storage stands for a memory F[g] and requests
  answer from it (`Represents`), then the level stands for the memory `View` shows: its own entries,
  and behind them F. The invariant is `Backed`, that what is not dirty agrees with F: a replacement
  then changes what is stored where and never what is shown (`RoomShowsTheSame`), whatever the policy.

`CacheProofs` puts three of them on a memory:

* `MemoryServesLLC` is the base, and the three instances of the level give the hierarchy
  (`AllServe`, `AllRepresent`): the inductive invariant `Inv` says each level is good over the one below.
* `TypeCorrect`, `HeldOnceCorrect`, `WriteThroughCorrect`, `CleanIsBackedCorrect` are parts of it. That
  a victim's address is put together again from set and tag (`AddressParts`) is part of it: a flush
  goes where its block is.
* `FlatMemoryCorrect`: the hierarchy implements `FlatMemory`; what `LevelRepresents` says of L1 is the
  step of the abstract memory.
* `Log2Assumption` says that the power of two `log2` finds does not exceed the number of sets, as it
  does for every number that has a one among its low 30 bits; TLC evaluates it for the sizes of the runs.

### Decoding and execution, for every width, instruction, immediate, operand, datum, address and prediction

`DatapathProofs`. In the manual a word is a set of bits, in the code it is divided, multiplied and
shifted. What connects the two are facts about numbers and their bits:

* The library's induction takes an operator, which the provers cannot instantiate. `Induction` is one
  over sets instead, from `LeastExists` (a nonempty set of numbers has a least element, from
  the well-foundedness of finite sets under inclusion); `Recursion` follows, that a
  function defined by recursion exists. `PowerRule` and `NumberRule` say so of `Pow2` and `Number`.
* A number below 2^n is determined by its n bits (`NumberOfBits`). With what quotients, remainders,
  multiples and signs do to single bits (`BitOf...`), a shift, an extension or a field is
  compared bit by bit (`NumberShifted...`, `SignedShift`, `Extended`, `FieldHeld`).
* `Encoded...` says which bits the assembler puts where, `Fields...` what `maskInstr` reads from such a
  word, `Pieces...` and `Immediate...` how the slices of an immediate come together with their sign,
  and `Decodes...` what Decode's switches make of all that: a lemma for each format.

The theorems:

* `DecodeCorrect`: Decode recovers what was encoded, but for `Misdecoded`. The invariant is `Decodes`,
  that the fields are what Decode makes of the instruction's word.
* `HazardCorrect`: the registers the hazard tests compare are those of `Pipeline`, for every instruction
  but the system call, those of `Misdecoded` included.
* `ExecuteCorrect`: register, memory and program counter are the manual's, but for `Diverges`. `Progress`
  says what each stage has left for the next one; at the end, there is a lemma for each group of
  instructions (`LoadCorrect`, `StoreCorrect`, `RegisterCorrect`, `ShiftCorrect`, `ImmediateCorrect`, `JalrCorrect`,
  `BranchCorrect`), which compares Execute's and MemStage's arithmetic with the manual's. A branch that
  Fetch predicted right goes where Fetch went (`FetchedPC`, `OpcodeFollowed`), and any other where Execute
  redirects it (`EndOfBranch`).

The immediate Decode gives a shift is more than its amount: bit 10 of `srai` is in it, and at 64 bits
so is bit 5 of the amount in funct7 (`AmountInFunct7`). Execute's shifts are right only because it is
taken modulo the width, for which the width must divide 2^10.

### Loading and starting

`PagingProofs`, for every size of page, block and memory and every program:

* the inductive invariant is `Inv`: types, `PagesAreDistinct`, and `PagesCounted` (the pages the
  loader has counted so far have entries, and all of them once it copies);
* `TypeCorrect` and `PagesCorrect` are parts of it, by `AllocPageMaps` and `FindSetIsFree` (a set
  of numbers has a least element);
* `LoaderCorrect` needs arithmetic on top: `SegPageNumReaches` (the loop of `ReadUserProg` ends
  at the end of the segment, within two rounds) and `AddressInPages` (an address of the segment lies in one
  of the pages up to there);
* `LoadedCorrect` follows the loader byte by byte: `LoadInv` says that pages nobody has are zero
  (why bss is clear) and that each mapped byte is that of the last segment copied so far that has it;
* `VirtualMemoryCorrect`: `Paging` implements `VirtualMemory`. A new page has no effect on what is mapped
  and shows zeros, since no page backs two and free ones are zero; a store changes one address only.

`StartupProofs`:

* `ProperCachesCorrect`, for every configuration file. `StartsWithProperCaches` is about the last step
  only; `Divided` says that capacity, associativity and sets of a level agree at every moment before
  it, whatever the signs of the numbers (`ExactlyUndone`). The bytes of a set are those of an int: the
  associativity is capacity by sets and blocks where the product does not overflow (`SetSizeWraps`).
* `ParametersCorrect`: `ParametersSoFar` is `ParametersOfTheirOwnLines` for the lines read so far; the
  line just read is the last one of its word and of no other. It covers all seven copies, the geometry
  of three levels and the latency of three levels and of memory, and the table of instructions.
* `SegmentsCorrect`: `ReaderInv` has a part for each phase of `load`; while segments are read, the stream is
  good exactly if everything in front of the next one is in the file (`WholeBefore`), and each segment
  read so far is as the property says. A stream that has failed delivers zeros, so what is read behind
  the gap is `Nothing`; sections count for `WholeBefore`, since they are read first.

### The assumptions

They are the named `ASSUME`s of the modules: sizes are positive, programs, memories, files
and junk have their types, `PAGE_SIZE` is a multiple of `BLOCK_SIZE`, the stack does not wrap below
address 0, the number of sets of a level divides that of its entries, no instruction is named like a
line for a cache or a latency, a set of the default caches fits into an int. A register is twice a word and has whole bytes, and its width
divides 1024, so that the bits of funct7 stay above the amount of a shift that is read with them
(`WidthAssumption`: 64 and 32 in the code, 8 and 4 in the run). The cases of `Datapath` are instructions
an assembler accepts, at any address, with operands and data of the width of a register
(`CasesAssumption`). TLC evaluates them in the runs of those modules.

### Only model-checked

* `ImplementsISA`: its safety part is what `PrefixCorrect` proves; that the pipeline goes on for ever is
  liveness under fairness and needs `ENABLED`, which the prover does not reach.
Everything else the passing runs check is stated by a theorem.

## Not modelled

* `StorageStats` and the latency of each level of cache: counters beside `Cache` that nothing reads but
  the report; `Statistics` has a constant time for an access.
* The single-stepping console: it formats state for the user and reads commands. Its `m` command reads
  through the first level of cache in the middle of a cycle.
* The rest of the ELF library (writing, dumping, relocations, symbols, notes, dynamic sections, string
  tables), which the simulator does not call.
* `mul`, `mulh`, `div` and `rem` of Execute: no word that Decode accepts leads to them.
* The user programs and their library, which are the simulator's input; their system calls are in
  `Pipeline`.
* Self-modifying programs, and virtual pages from 2^31 on, where `AllocPageEntry` leaves the defined
  behaviour of the program.
* Two files that are not part of the build (`pred .cpp`, `test.cpp`).

## Plan

Done: every component above against its abstract specification or reference, with the theorems
listed. What would come next, in this order:

1. `StorageStats` and latencies beside `Cache`: a request is counted once in each level it reaches, and
   the time of an access is the sum along its way; then `Statistics` with the times they give.
2. Theorems about these counts, on the pattern of `LevelRepresents`.
