------------------------------ MODULE CacheLevel ------------------------------
(***************************************************************************)
(* class Cache (cache.cc): one level, as operators on its entries and on the*)
(* state of the level below, which it reaches through Lower, the lower     *)
(* storage's HandleRequest. Cache chains three levels and physical memory. *)
(*                                                                         *)
(* An address is a block number and an offset (addr >> CACHE_B and the low *)
(* bits). Latencies and hit counters are left out.                         *)
(***************************************************************************)
EXTENDS Integers, FiniteSets, Functions, FiniteSetsExt

CONSTANTS
  Block,         \* blocks of physical memory
  Offset,        \* offsets in a block
  MAXAGE,        \* maxAge in Aging
  config,        \* config_ of the level
  Lower(_, _)    \* its lower_: what a state of it and a request lead to

\* A state of the level: its cache_content, and the state of the level below.
State(entries, lower) == [entries |-> entries, lower |-> lower]

\* A request reads the bytes of a span of a block or writes the given bytes to it.
ReadReq(b, span)   == [read |-> TRUE, block |-> b, span |-> span, bytes |-> << >>]
WriteReq(b, bytes) == [read |-> FALSE, block |-> b, span |-> DOMAIN bytes, bytes |-> bytes]

\* What a call of HandleRequest leaves and, for a read, delivers.
Reply(st, bytes) == [st |-> st, bytes |-> bytes]

-----------------------------------------------------------------------------
\* The position of the lowest bit set: the logarithm of a power of two only.
log2(x) == CHOOSE s \in 0 .. 29 : x % 2^(s+1) = 2^s

Sets     == 2^log2(config.set_num)
SetID(b) == b % Sets

\* A bug: the tag drops the whole number of sets, the index only its power of two.
AddrTagBySets(b) == b \div config.set_num

AddrTag(b) == b \div Sets
BlockAt(set, tag) == tag * Sets + set

Entries        == 0 .. config.entry_num-1
EntriesOf(set) == {k \in Entries : k % config.set_num = set}

\* The entries in which the two loops of HandleRequest and ReplaceDecision find a block.
Holding(entries, b) ==
  {k \in EntriesOf(SetID(b)) : entries[k].valid /\ entries[k].tag = AddrTag(b)}

Free(entries, set) == {k \in EntriesOf(set) : ~entries[k].valid}

\* A bug: ages without a limit.
AgingForever(entries, k) ==
  [j \in DOMAIN entries |->
     IF j # k THEN [entries[j] EXCEPT !.timeStamp = @ + 1] ELSE entries[j]]

\* Every entry of the cache but k grows older.
Aging(entries, k) ==
  [j \in DOMAIN entries |->
     IF j # k /\ entries[j].timeStamp < MAXAGE
       THEN [entries[j] EXCEPT !.timeStamp = @ + 1] ELSE entries[j]]

\* The first of the oldest entries of a set.
Victim(entries, set) ==
  Min({k \in EntriesOf(set) :
         \A j \in EntriesOf(set) : entries[j].timeStamp <= entries[k].timeStamp})

\* The bytes of new over those of old.
Overlay(new, old) == [o \in Offset |-> IF o \in DOMAIN new THEN new[o] ELSE old[o]]

-----------------------------------------------------------------------------
(* HandleRequest.                                                          *)

\* A bug: the entry is not marked dirty.
WrittenUnmarked(entries, k, bytes) == [entries EXCEPT ![k].data = Overlay(bytes, @)]

\* A bug: the entry is marked dirty under either policy.
WrittenMarked(entries, k, bytes) ==
  [entries EXCEPT ![k].data = Overlay(bytes, @), ![k].dirty = TRUE]

\* The entries after a hit in entry k that writes bytes.
Written(entries, k, bytes) ==
  [entries EXCEPT ![k].data = Overlay(bytes, @), ![k].dirty = ~config.write_through]

OnHit(st, r) ==
  LET k       == Min(Holding(st.entries, r.block))
      aged    == Aging(st.entries, k)
      written == Written(aged, k, r.bytes)
  IN  IF r.read
        THEN Reply(State(aged, st.lower), Restrict(aged[k].data, r.span))
      ELSE IF config.write_through
        THEN Reply(State(written, Lower(st.lower, r).st), << >>)
      ELSE Reply(State(written, st.lower), << >>)

\* Write misses may leave the level alone.
Allocates(r) == r.read \/ config.write_allocate

\* Makes room in a set. A dirty victim is written to the lower level.
ReplaceAlgorithm(st, set) ==
  LET v       == Victim(st.entries, set)
      victim  == st.entries[v]
      evicted == [st.entries EXCEPT ![v].valid = FALSE]
      flush   == WriteReq(BlockAt(set, victim.tag), victim.data)
  IN  IF Free(st.entries, set) # {} THEN st
      ELSE State(evicted, IF victim.dirty THEN Lower(st.lower, flush).st ELSE st.lower)

\* A bug: the block is fetched before the write.
FetchFirst(lower, r) ==
  LET fetched == Lower(lower, ReadReq(r.block, Offset))
  IN  IF r.read THEN fetched ELSE [fetched EXCEPT !.st = Lower(@, r).st]

\* On a miss the lower level is asked for the whole block, after a write has been
\* passed on to it.
Fetch(lower, r) ==
  Lower(IF r.read THEN lower ELSE Lower(lower, r).st, ReadReq(r.block, Offset))

OnMiss(st, r) ==
  LET set     == SetID(r.block)
      room    == ReplaceAlgorithm(st, set)
      k       == Min(Free(room.entries, set))
      fetched == Fetch(room.lower, r)
      entry   == [tag |-> AddrTag(r.block), timeStamp |-> 0, data |-> fetched.bytes,
                  valid |-> TRUE, dirty |-> FALSE]
      filled  == Aging([room.entries EXCEPT ![k] = entry], k)
  IN  IF Allocates(r)
        THEN Reply(State(filled, fetched.st),
                   IF r.read THEN Restrict(entry.data, r.span) ELSE << >>)
      ELSE Reply(State(st.entries, Lower(st.lower, r).st), << >>)

\* A bug: only reads look for the block in the cache.
HandleWritesAsMisses(st, r) ==
  IF r.read /\ Holding(st.entries, r.block) # {} THEN OnHit(st, r) ELSE OnMiss(st, r)

HandleRequest(st, r) ==
  IF Holding(st.entries, r.block) # {} THEN OnHit(st, r) ELSE OnMiss(st, r)

-----------------------------------------------------------------------------
\* buildContent clears valid; what else a new entry holds is indeterminate, and
\* no property can tell, since only valid entries are looked at.
buildContent(data) ==
  [k \in Entries |-> [tag |-> 0, timeStamp |-> 0, data |-> data, valid |-> FALSE, dirty |-> TRUE]]

-----------------------------------------------------------------------------
(* What the level shows and relies on, given what the level below shows.   *)

\* What reading each block yields.
View(entries, below) ==
  [b \in Block |-> LET holding == Holding(entries, b)
                   IN  IF holding = {} THEN below[b] ELSE entries[Min(holding)].data]

Once(entries) == \A b \in Block : Cardinality(Holding(entries, b)) <= 1

Backed(entries, below) ==
  \A k \in Entries : entries[k].valid /\ ~entries[k].dirty =>
    entries[k].data = below[BlockAt(k % config.set_num, entries[k].tag)]

Clean(entries) ==
  config.write_through => \A k \in Entries : entries[k].valid => ~entries[k].dirty

=============================================================================
