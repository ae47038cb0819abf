--------------------------- MODULE CacheLevelProofs ---------------------------
(***************************************************************************)
(* One level of cache over any storage: whatever its size, its number of   *)
(* sets and its policies, HandleRequest keeps its entries well formed, a   *)
(* block in at most one of them, and those of a write-through level clean. *)
(*                                                                         *)
(* "Serves" is what a level asks of the one below, "LevelServes" that it   *)
(* offers the same to the one above: the hierarchy follows level by level  *)
(* (CacheProofs).                                                          *)
(***************************************************************************)
EXTENDS CacheLevel, FiniteSetTheorems, TLAPS

\* The shape of an entry that holds bytes of V.
EntryOf(V) == [tag : Block, timeStamp : 0 .. MAXAGE, data : [Offset -> V],
               valid : BOOLEAN, dirty : BOOLEAN]

\* No two entries of a set have the same block.
Distinct(entries) ==
  \A j, k \in Entries :
    /\ entries[j].valid /\ entries[k].valid
    /\ j % config.set_num = k % config.set_num /\ entries[j].tag = entries[k].tag
    => j = k

\* The block an entry holds, if it is valid.
BlockOf(entries, k) == BlockAt(k % config.set_num, entries[k].tag)

\* A valid entry holds a block of memory, and is in a set that some block goes to.
Placed(entries) ==
  \A k \in Entries : entries[k].valid =>
    BlockOf(entries, k) \in Block /\ k % config.set_num \in 0 .. Sets-1

GoodEntries(V) == {e \in [Entries -> EntryOf(V)] : Distinct(e) /\ Placed(e) /\ Clean(e)}

\* States of the level over a storage with the states G.
States(V, G) == {State(e, l) : e \in GoodEntries(V), l \in G}

Requests(V) == {ReadReq(b, span) : b \in Block, span \in SUBSET Offset}
          \cup {WriteReq(b, bytes) : b \in Block, bytes \in UNION {[s -> V] : s \in SUBSET Offset}}

\* The storage below stays in G and delivers the bytes asked for.
Serves(V, G) ==
  \A l \in G, r \in Requests(V) :
    Lower(l, r).st \in G /\ (r.read => Lower(l, r).bytes \in [r.span -> V])

Geometry ==
  /\ config.set_num \in Nat \ {0} /\ config.entry_num \in Nat
  /\ config.set_num <= config.entry_num
  /\ Sets \in 1 .. config.set_num
  /\ config.write_through \in BOOLEAN
  /\ MAXAGE \in Nat
  /\ \E n \in Nat : Block = 0 .. n-1

-----------------------------------------------------------------------------
\* A nonempty set of numbers has a least element.
LEMMA LeastExists ==
  ASSUME NEW S \in SUBSET Nat, S # {}
  PROVE  \E n \in S : \A m \in S : n <= m
<1>. DEFINE Below == {0 .. n-1 : n \in S}
<1>1. Below \subseteq FiniteSubsetsOf(Nat) /\ Below # {}
<2>1. ASSUME NEW n \in S PROVE 0 .. n-1 \in FiniteSubsetsOf(Nat)
  BY FS_Interval DEF FiniteSubsetsOf
<2>. QED  BY <2>1
<1>2. PICK T \in Below : \A U \in Below : <<U, T>> \notin StrictSubsetOrdering(Nat)
<2>. HIDE DEF Below
<2>. QED  BY <1>1, FS_StrictSubsetOrderingWellFounded, WFMin
<1>3. PICK n \in S : T = 0 .. n-1
  BY <1>2
<1>4. ASSUME NEW m \in S, m < n PROVE FALSE
<2>1. 0 .. m-1 \in Below /\ 0 .. m-1 \subseteq T /\ m \in T /\ m \notin 0 .. m-1
  BY <1>3, <1>4
<2>2. T \subseteq Nat
  BY <1>3
<2>. QED  BY <1>2, <2>1, <2>2 DEF StrictSubsetOrdering
<1>. QED  BY <1>4

\* Min finds it.
LEMMA MinIsIn ==
  ASSUME NEW S \in SUBSET Nat, S # {}
  PROVE  Min(S) \in S
  BY LeastExists DEF Min

\* Quotient and remainder.
LEMMA DivMod ==
  ASSUME NEW x \in Nat, NEW d \in Nat \ {0}
  PROVE  x = (x \div d) * d + (x % d) /\ x % d \in 0 .. d-1 /\ x \div d \in Nat
  OBVIOUS

\* The address of a block is put together again from its set and its tag.
LEMMA AddressParts ==
  ASSUME Geometry, NEW b \in Block
  PROVE  /\ b \in Nat /\ SetID(b) \in 0 .. Sets-1 /\ AddrTag(b) \in Block
         /\ BlockAt(SetID(b), AddrTag(b)) = b
<1>1. PICK n \in Nat : Block = 0 .. n-1
  BY DEF Geometry
<1>2. b \in Nat /\ Sets \in Nat \ {0}
  BY <1>1 DEF Geometry
<1>4. \A q \in Nat, d \in Nat \ {0} : q <= q * d /\ q * d = d * q
  BY SMT
<1>5. b % Sets \in 0 .. Sets-1 /\ b \div Sets \in Nat /\ b = (b \div Sets) * Sets + (b % Sets)
<2>1. \A x \in Nat, d \in Nat \ {0} :
        x = (x \div d) * d + (x % d) /\ x % d \in 0 .. d-1 /\ x \div d \in Nat
  BY DivMod
<2>. QED  BY <1>2, <2>1, Zenon
<1>6. b \div Sets <= (b \div Sets) * Sets /\ (b \div Sets) * Sets \in Nat
  BY <1>2, <1>4, <1>5
<1>7. b \div Sets <= b
  BY <1>2, <1>5, <1>6
<1>. HIDE DEF Sets
<1>. QED  BY <1>1, <1>2, <1>5, <1>7 DEF SetID, AddrTag, BlockAt

\* A set has entries.
LEMMA SetsHaveEntries ==
  ASSUME Geometry, NEW set \in 0 .. Sets-1
  PROVE  EntriesOf(set) # {} /\ EntriesOf(set) \in SUBSET Nat
<1>1. /\ set \in Nat /\ config.set_num \in Nat \ {0} /\ config.entry_num \in Nat
      /\ set < config.set_num /\ config.set_num <= config.entry_num
  BY DEF Geometry
<1>2. set % config.set_num = set
  BY <1>1, SMT
<1>3. set \in Entries /\ Entries \subseteq Nat
  BY <1>1 DEF Entries
<1>. QED  BY <1>2, <1>3 DEF EntriesOf

\* The victim is an entry of the set.
LEMMA VictimIsThere ==
  ASSUME Geometry, NEW set \in 0 .. Sets-1, NEW V, NEW e \in [Entries -> EntryOf(V)]
  PROVE  Victim(e, set) \in EntriesOf(set)
<1>. DEFINE Youth == {MAXAGE - e[k].timeStamp : k \in EntriesOf(set)}
            Oldest == {k \in EntriesOf(set) :
                         \A j \in EntriesOf(set) : e[j].timeStamp <= e[k].timeStamp}
<1>1. EntriesOf(set) # {} /\ EntriesOf(set) \in SUBSET Nat /\ EntriesOf(set) \subseteq Entries
  BY SetsHaveEntries DEF EntriesOf
<1>2. \A k \in EntriesOf(set) : e[k].timeStamp \in 0 .. MAXAGE
  BY <1>1 DEF EntryOf
<1>3. Youth \in SUBSET Nat /\ Youth # {}
  BY <1>1, <1>2 DEF Geometry
<1>4. PICK n \in Youth : \A m \in Youth : n <= m
  BY <1>3, LeastExists
<1>5. PICK k \in EntriesOf(set) : n = MAXAGE - e[k].timeStamp
  BY <1>4
<1>6. k \in Oldest
<2>1. ASSUME NEW j \in EntriesOf(set) PROVE e[j].timeStamp <= e[k].timeStamp
<3>1. n <= MAXAGE - e[j].timeStamp
  BY <1>4
<3>. QED  BY <1>2, <1>5, <3>1 DEF Geometry
<2>. QED  BY <2>1
<1>7. Min(Oldest) \in Oldest
<2>1. Oldest \in SUBSET Nat /\ Oldest # {}
  BY <1>1, <1>6
<2>. HIDE DEF Oldest
<2>. QED  BY <2>1, MinIsIn
<1>. QED  BY <1>7 DEF Victim

\* At most one of the entries that are searched holds the block.
LEMMA DistinctIsOnce ==
  ASSUME NEW V, NEW e \in GoodEntries(V)
  PROVE  Once(e)
<1>. SUFFICES ASSUME NEW b \in Block PROVE Cardinality(Holding(e, b)) <= 1
  BY DEF Once
<1>1. ASSUME NEW j \in Holding(e, b), NEW k \in Holding(e, b) PROVE j = k
  BY <1>1 DEF GoodEntries, Distinct, Holding, EntriesOf
<1>2. CASE Holding(e, b) = {}
  BY <1>2, FS_EmptySet
<1>3. CASE Holding(e, b) # {}
<2>1. PICK k \in Holding(e, b) : TRUE
  BY <1>3
<2>2. Holding(e, b) = {k}
  BY <1>1, <2>1
<2>3. Cardinality({k}) = 1
  BY FS_Singleton
<2>. QED  BY <2>2, <2>3
<1>. QED  BY <1>2, <1>3

-----------------------------------------------------------------------------
\* Growing older changes nothing else of an entry.
LEMMA AgingKeeps ==
  ASSUME MAXAGE \in Nat, NEW V, NEW e \in [Entries -> EntryOf(V)], NEW k
  PROVE  /\ Aging(e, k) \in [Entries -> EntryOf(V)]
         /\ \A j \in Entries : /\ Aging(e, k)[j].valid = e[j].valid
                               /\ Aging(e, k)[j].dirty = e[j].dirty
                               /\ Aging(e, k)[j].tag = e[j].tag
                               /\ Aging(e, k)[j].data = e[j].data
<1>1. ASSUME NEW j \in Entries
      PROVE  /\ Aging(e, k)[j] \in EntryOf(V)
             /\ Aging(e, k)[j].valid = e[j].valid /\ Aging(e, k)[j].dirty = e[j].dirty
             /\ Aging(e, k)[j].tag = e[j].tag /\ Aging(e, k)[j].data = e[j].data
  BY DEF Aging, EntryOf
<1>2. Aging(e, k) = [j \in Entries |-> Aging(e, k)[j]]
  BY DEF Aging
<1>. QED  BY <1>1, <1>2

\* Nor does it make good entries bad.
LEMMA AgingIsGood ==
  ASSUME Geometry, NEW V, NEW e \in GoodEntries(V), NEW k
  PROVE  Aging(e, k) \in GoodEntries(V)
<1>. DEFINE a == Aging(e, k)
<1>1. /\ a \in [Entries -> EntryOf(V)]
      /\ \A j \in Entries : /\ a[j].valid = e[j].valid /\ a[j].dirty = e[j].dirty
                            /\ a[j].tag = e[j].tag
  BY AgingKeeps DEF GoodEntries, Geometry
<1>2. Distinct(e) /\ Placed(e) /\ Clean(e)
  BY DEF GoodEntries
<1>. HIDE DEF a
<1>3. Distinct(a)
  BY <1>1, <1>2 DEF Distinct
<1>4. Placed(a) /\ Clean(a)
  BY <1>1, <1>2 DEF Placed, BlockOf, Clean
<1>5. a \in GoodEntries(V)
  BY <1>1, <1>3, <1>4 DEF GoodEntries
<1>. QED  BY <1>5 DEF a

\* A write leaves a clean level clean.
LEMMA WrittenIsGood ==
  ASSUME Geometry, NEW V, NEW e \in GoodEntries(V), NEW k \in Entries,
         NEW span \in SUBSET Offset, NEW bytes \in [span -> V]
  PROVE  Written(e, k, bytes) \in GoodEntries(V)
<1>. DEFINE w == Written(e, k, bytes)
            d == Overlay(bytes, e[k].data)
<1>1. e \in [Entries -> EntryOf(V)] /\ Distinct(e) /\ Placed(e) /\ Clean(e)
  BY DEF GoodEntries
<1>2. d \in [Offset -> V]
  BY <1>1 DEF Overlay, EntryOf
<1>. HIDE DEF d
<1>3. w = [e EXCEPT ![k] = [e[k] EXCEPT !.data = d, !.dirty = ~config.write_through]]
  BY <1>1 DEF Written, d, EntryOf
<1>4. [e[k] EXCEPT !.data = d, !.dirty = ~config.write_through] \in EntryOf(V)
  BY <1>1, <1>2 DEF EntryOf, Geometry
<1>5. w \in [Entries -> EntryOf(V)]
  BY <1>1, <1>3, <1>4
<1>6. \A j \in Entries : /\ w[j].valid = e[j].valid /\ w[j].tag = e[j].tag
                         /\ w[j].dirty = IF j = k THEN ~config.write_through ELSE e[j].dirty
  BY <1>1, <1>3 DEF EntryOf
<1>. HIDE DEF w
<1>7. Distinct(w)
  BY <1>1, <1>6 DEF Distinct
<1>8. Placed(w) /\ Clean(w)
  BY <1>1, <1>6 DEF Placed, BlockOf, Clean
<1>9. w \in GoodEntries(V)
  BY <1>5, <1>7, <1>8 DEF GoodEntries
<1>. QED  BY <1>9 DEF w

-----------------------------------------------------------------------------
\* A request is of one of two shapes.
LEMMA RequestShape ==
  ASSUME NEW V, NEW r \in Requests(V)
  PROVE  /\ r.block \in Block /\ r.span \in SUBSET Offset /\ r.read \in BOOLEAN
         /\ ~r.read => \E span \in SUBSET Offset : r.bytes \in [span -> V]
<1>1. CASE \E b \in Block, span \in SUBSET Offset : r = ReadReq(b, span)
  BY <1>1 DEF ReadReq
<1>2. ASSUME NEW b \in Block, NEW span \in SUBSET Offset, NEW bytes \in [span -> V],
             r = WriteReq(b, bytes)
      PROVE  /\ r.block \in Block /\ r.span \in SUBSET Offset /\ r.read \in BOOLEAN
             /\ ~r.read => \E s \in SUBSET Offset : r.bytes \in [s -> V]
  BY <1>2 DEF WriteReq
<1>. QED  BY <1>1, <1>2 DEF Requests

\* The requests a level makes of the one below.
LEMMA RequestsBelow ==
  ASSUME NEW V
  PROVE  /\ \A b \in Block : ReadReq(b, Offset) \in Requests(V)
         /\ \A b \in Block, d \in [Offset -> V] : WriteReq(b, d) \in Requests(V)
  BY DEF Requests

\* A hit, whatever the policy.
LEMMA HitServes ==
  ASSUME Geometry, NEW V, NEW G, Serves(V, G), NEW e \in GoodEntries(V), NEW l \in G,
         NEW r \in Requests(V), Holding(e, r.block) # {}
  PROVE  /\ OnHit(State(e, l), r).st \in States(V, G)
         /\ r.read => OnHit(State(e, l), r).bytes \in [r.span -> V]
<1>. DEFINE k == Min(Holding(e, r.block))
            a == Aging(e, k)
            w == Written(a, k, r.bytes)
<1>1. k \in Entries
<2>1. Holding(e, r.block) \in SUBSET Entries /\ Entries \in SUBSET Nat
  BY DEF Holding, EntriesOf, Entries, Geometry
<2>2. Holding(e, r.block) \in SUBSET Nat
  BY <2>1
<2>3. k \in Holding(e, r.block)
  BY <2>2, MinIsIn
<2>. QED  BY <2>1, <2>3
<1>2. a \in GoodEntries(V) /\ a[k].data \in [Offset -> V]
<2>1. a \in GoodEntries(V)
  BY AgingIsGood
<2>. HIDE DEF a
<2>. QED  BY <1>1, <2>1 DEF GoodEntries, EntryOf
<1>3. r.span \in SUBSET Offset /\ r.read \in BOOLEAN
  BY RequestShape
<1>4. ~r.read => w \in GoodEntries(V)
<2>. HIDE DEF a, k
<2>. QED  BY <1>1, <1>2, RequestShape, WrittenIsGood
<1>5. Lower(l, r).st \in G
  BY DEF Serves
<1>6. OnHit(State(e, l), r) =
        IF r.read THEN Reply(State(a, l), Restrict(a[k].data, r.span))
        ELSE IF config.write_through THEN Reply(State(w, Lower(l, r).st), << >>)
        ELSE Reply(State(w, l), << >>)
  BY DEF OnHit, State
<1>. HIDE DEF w, a, k
<1>7. CASE r.read
<2>1. Restrict(a[k].data, r.span) \in [r.span -> V]
  BY <1>2, <1>3 DEF Restrict
<2>. QED  BY <1>2, <1>6, <1>7, <2>1 DEF Reply, States
<1>8. CASE ~r.read
<2>1. CASE config.write_through
  BY <1>4, <1>5, <1>6, <1>8, <2>1 DEF Reply, States
<2>2. CASE ~config.write_through
  BY <1>4, <1>6, <1>8, <2>2 DEF Reply, States
<2>. QED  BY <2>1, <2>2
<1>. QED  BY <1>3, <1>7, <1>8

\* Making room frees an entry and brings no block in.
LEMMA RoomIsMade ==
  ASSUME Geometry, NEW V, NEW G, Serves(V, G), NEW e \in GoodEntries(V), NEW l \in G,
         NEW set \in 0 .. Sets-1
  PROVE  LET room == ReplaceAlgorithm(State(e, l), set)
         IN  /\ room.entries \in GoodEntries(V) /\ room.lower \in G
             /\ Free(room.entries, set) # {}
             /\ \A j \in Entries : room.entries[j].valid =>
                                     e[j].valid /\ room.entries[j].tag = e[j].tag
<1>. DEFINE room == ReplaceAlgorithm(State(e, l), set)
            v    == Victim(e, set)
            x    == [e EXCEPT ![v].valid = FALSE]
            f    == WriteReq(BlockAt(set, e[v].tag), e[v].data)
<1>1. room = IF Free(e, set) # {} THEN State(e, l)
             ELSE State(x, IF e[v].dirty THEN Lower(l, f).st ELSE l)
  BY DEF ReplaceAlgorithm, State
<1>2. CASE Free(e, set) # {}
  BY <1>1, <1>2 DEF State
<1>3. CASE Free(e, set) = {}
<2>1. /\ e \in [Entries -> EntryOf(V)] /\ Distinct(e) /\ Placed(e) /\ Clean(e)
  BY DEF GoodEntries
<2>2. v \in EntriesOf(set)
  BY <2>1, VictimIsThere
<2>3. v \in Entries /\ v % config.set_num = set
  BY <2>2 DEF EntriesOf
<2>. HIDE DEF v
<2>4. e[v].valid /\ e[v].data \in [Offset -> V]
  BY <1>3, <2>1, <2>2, <2>3 DEF Free, EntryOf
<2>5. BlockAt(set, e[v].tag) \in Block
  BY <2>1, <2>3, <2>4 DEF Placed, BlockOf
<2>6. f \in Requests(V)
  BY <2>4, <2>5, RequestsBelow
<2>7. Lower(l, f).st \in G
  BY <2>6 DEF Serves
<2>8. x \in [Entries -> EntryOf(V)] /\ ~x[v].valid
  BY <2>1, <2>3 DEF EntryOf
<2>9. \A j \in Entries : /\ x[j].valid => e[j].valid
                          /\ x[j].tag = e[j].tag /\ x[j].dirty = e[j].dirty
  BY <2>1, <2>3 DEF EntryOf
<2>. HIDE DEF x, f
<2>10. Distinct(x)
  BY <2>1, <2>9 DEF Distinct
<2>11. Placed(x) /\ Clean(x)
  BY <2>1, <2>9 DEF Placed, BlockOf, Clean
<2>12. x \in GoodEntries(V)
  BY <2>8, <2>10, <2>11 DEF GoodEntries
<2>13. v \in Free(x, set)
  BY <2>2, <2>8 DEF Free
<2>14. room.entries = x /\ room.lower \in G
  BY <1>1, <1>3, <2>7 DEF State
<2>. QED  BY <2>9, <2>12, <2>13, <2>14
<1>. QED  BY <1>2, <1>3

\* A block that no entry of its set holds is brought in, clean.
BroughtIn(entries, k, b, data) ==
  [entries EXCEPT ![k] = [tag |-> AddrTag(b), timeStamp |-> 0, data |-> data,
                          valid |-> TRUE, dirty |-> FALSE]]

LEMMA BroughtInIsGood ==
  ASSUME Geometry, NEW V, NEW e \in GoodEntries(V), NEW b \in Block, NEW k \in EntriesOf(SetID(b)),
         \A j \in EntriesOf(SetID(b)) : e[j].valid => e[j].tag # AddrTag(b),
         NEW d \in [Offset -> V]
  PROVE  BroughtIn(e, k, b, d) \in GoodEntries(V)
<1>. DEFINE put   == BroughtIn(e, k, b, d)
            entry == [tag |-> AddrTag(b), timeStamp |-> 0, data |-> d, valid |-> TRUE, dirty |-> FALSE]
<1>1. /\ SetID(b) \in 0 .. Sets-1 /\ AddrTag(b) \in Block
      /\ BlockAt(SetID(b), AddrTag(b)) = b
  BY AddressParts
<1>2. e \in [Entries -> EntryOf(V)] /\ Distinct(e) /\ Placed(e) /\ Clean(e)
  BY DEF GoodEntries
<1>3. k \in Entries /\ k % config.set_num = SetID(b)
  BY DEF EntriesOf
<1>4. entry \in EntryOf(V)
  BY <1>1 DEF EntryOf, Geometry
<1>5. put = [e EXCEPT ![k] = entry]
  BY DEF BroughtIn
<1>. HIDE DEF put
<1>6. put \in [Entries -> EntryOf(V)]
  BY <1>2, <1>3, <1>4, <1>5
<1>7. /\ put[k].tag = AddrTag(b) /\ ~put[k].dirty
      /\ \A j \in Entries \ {k} : put[j] = e[j]
  BY <1>2, <1>3, <1>5
<1>8. Distinct(put)
<2>. SUFFICES ASSUME NEW i \in Entries, NEW j \in Entries, put[i].valid, put[j].valid,
                     i % config.set_num = j % config.set_num, put[i].tag = put[j].tag, i # j
              PROVE  FALSE
  BY DEF Distinct
<2>1. CASE i = k
  BY <1>3, <1>7, <2>1 DEF EntriesOf
<2>2. CASE j = k
  BY <1>3, <1>7, <2>2 DEF EntriesOf
<2>3. CASE i # k /\ j # k
  BY <1>2, <1>7, <2>3 DEF Distinct
<2>. QED  BY <2>1, <2>2, <2>3
<1>9. Placed(put)
  BY <1>1, <1>2, <1>3, <1>7 DEF Placed, BlockOf
<1>10. Clean(put)
  BY <1>2, <1>7 DEF Clean
<1>11. put \in GoodEntries(V)
  BY <1>6, <1>8, <1>9, <1>10 DEF GoodEntries
<1>. QED  BY <1>11 DEF put

\* What OnMiss does in turn: the room made, the entry it takes, what is fetched, and
\* the entries filled with it.
Room(e, l, r)    == ReplaceAlgorithm(State(e, l), SetID(r.block))
Place(e, l, r)   == Min(Free(Room(e, l, r).entries, SetID(r.block)))
Fetched(e, l, r) == Fetch(Room(e, l, r).lower, r)
Filled(e, l, r)  == BroughtIn(Room(e, l, r).entries, Place(e, l, r), r.block, Fetched(e, l, r).bytes)

\* A miss passes the request on, or brings the block into the room that is made.
LEMMA MissSteps ==
  ASSUME Geometry, NEW V, NEW G, Serves(V, G), NEW e \in GoodEntries(V), NEW l \in G,
         NEW r \in Requests(V), Holding(e, r.block) = {}
  PROVE  /\ Allocates(r) =>
              OnMiss(State(e, l), r) =
                Reply(State(Aging(Filled(e, l, r), Place(e, l, r)), Fetched(e, l, r).st),
                      IF r.read THEN Restrict(Fetched(e, l, r).bytes, r.span) ELSE << >>)
         /\ ~Allocates(r) => OnMiss(State(e, l), r) = Reply(State(e, Lower(l, r).st), << >>) /\ ~r.read
         /\ Room(e, l, r).entries \in GoodEntries(V) /\ Room(e, l, r).lower \in G
         /\ Fetched(e, l, r).st \in G /\ Fetched(e, l, r).bytes \in [Offset -> V]
         /\ Filled(e, l, r) \in GoodEntries(V)
         /\ Place(e, l, r) \in Entries /\ Place(e, l, r) % config.set_num = SetID(r.block)
         /\ ~Room(e, l, r).entries[Place(e, l, r)].valid
         /\ \A j \in EntriesOf(SetID(r.block)) :
              Room(e, l, r).entries[j].valid => Room(e, l, r).entries[j].tag # AddrTag(r.block)
<1>. DEFINE set     == SetID(r.block)
            room    == Room(e, l, r)
            k       == Place(e, l, r)
            fetched == Fetched(e, l, r)
            put     == Filled(e, l, r)
<1>1. /\ r.block \in Block /\ r.span \in SUBSET Offset /\ r.read \in BOOLEAN
      /\ set \in 0 .. Sets-1
  BY RequestShape, AddressParts
<1>2. /\ Allocates(r) =>
           OnMiss(State(e, l), r) = Reply(State(Aging(put, k), fetched.st),
             IF r.read THEN Restrict(fetched.bytes, r.span) ELSE << >>)
      /\ ~Allocates(r) => OnMiss(State(e, l), r) = Reply(State(e, Lower(l, r).st), << >>)
  BY DEF OnMiss, State, BroughtIn, Room, Place, Fetched, Filled
<1>3. /\ room.entries \in GoodEntries(V) /\ room.lower \in G /\ Free(room.entries, set) # {}
      /\ \A j \in Entries : room.entries[j].valid =>
                              e[j].valid /\ room.entries[j].tag = e[j].tag
<2>. HIDE DEF set
<2>1. room = ReplaceAlgorithm(State(e, l), set)
  BY DEF Room, set
<2>. DEFINE made == ReplaceAlgorithm(State(e, l), set)
<2>2. /\ made.entries \in GoodEntries(V) /\ made.lower \in G
      /\ Free(made.entries, set) # {}
      /\ \A j \in Entries : made.entries[j].valid =>
                              e[j].valid /\ made.entries[j].tag = e[j].tag
<3>1. set \in 0 .. Sets-1
  BY <1>1
<3>. QED  BY <3>1, RoomIsMade
<2>. HIDE DEF made, room
<2>. QED  BY <2>1, <2>2 DEF made
<1>4. fetched.st \in G /\ fetched.bytes \in [Offset -> V]
<2>. DEFINE asked == IF r.read THEN room.lower ELSE Lower(room.lower, r).st
            whole == ReadReq(r.block, Offset)
<2>1. asked \in G
  BY <1>1, <1>3 DEF Serves
<2>2. whole \in Requests(V) /\ whole.read /\ whole.span = Offset
  BY <1>1, RequestsBelow DEF ReadReq
<2>. HIDE DEF asked, whole
<2>3. Lower(asked, whole).st \in G /\ Lower(asked, whole).bytes \in [Offset -> V]
  BY <2>1, <2>2 DEF Serves
<2>. QED  BY <2>3 DEF Fetch, Fetched, asked, whole
<1>5. k \in EntriesOf(set) /\ ~room.entries[k].valid
<2>1. Free(room.entries, set) \in SUBSET Nat
  BY DEF Free, EntriesOf, Entries, Geometry
<2>2. k \in Free(room.entries, set)
  BY <1>3, <2>1, MinIsIn DEF Place
<2>. QED  BY <2>2 DEF Free
<1>6. k \in Entries /\ k % config.set_num = set
  BY <1>5 DEF EntriesOf
<1>7. \A j \in EntriesOf(set) : room.entries[j].valid => room.entries[j].tag # AddrTag(r.block)
  BY <1>3 DEF Holding, EntriesOf
<1>8. put \in GoodEntries(V)
  BY <1>1, <1>3, <1>4, <1>5, <1>7, BroughtInIsGood DEF Filled
<1>. QED  BY <1>1, <1>2, <1>3, <1>4, <1>5, <1>6, <1>7, <1>8 DEF Allocates

\* Either way it is served.
LEMMA MissServes ==
  ASSUME Geometry, NEW V, NEW G, Serves(V, G), NEW e \in GoodEntries(V), NEW l \in G,
         NEW r \in Requests(V), Holding(e, r.block) = {}
  PROVE  /\ OnMiss(State(e, l), r).st \in States(V, G)
         /\ r.read => OnMiss(State(e, l), r).bytes \in [r.span -> V]
<1>. DEFINE room    == Room(e, l, r)
            k       == Place(e, l, r)
            fetched == Fetched(e, l, r)
            put     == Filled(e, l, r)
            reply   == OnMiss(State(e, l), r)
<1>1. r.span \in SUBSET Offset /\ r.read \in BOOLEAN
  BY RequestShape
<1>2. /\ Allocates(r) =>
           reply = Reply(State(Aging(put, k), fetched.st),
                         IF r.read THEN Restrict(fetched.bytes, r.span) ELSE << >>)
      /\ ~Allocates(r) => reply = Reply(State(e, Lower(l, r).st), << >>) /\ ~r.read
      /\ fetched.st \in G /\ fetched.bytes \in [Offset -> V] /\ put \in GoodEntries(V)
  BY MissSteps
<1>. HIDE DEF room, k, fetched, put, reply
<1>3. CASE Allocates(r)
<2>1. Aging(put, k) \in GoodEntries(V)
  BY <1>2, AgingIsGood
<2>2. r.read => Restrict(fetched.bytes, r.span) \in [r.span -> V]
  BY <1>1, <1>2 DEF Restrict
<2>3. State(Aging(put, k), fetched.st) \in States(V, G)
  BY <1>2, <2>1 DEF States
<2>4. reply.st \in States(V, G) /\ (r.read => reply.bytes \in [r.span -> V])
  BY <1>2, <1>3, <2>2, <2>3 DEF Reply
<2>. QED  BY <2>4 DEF reply
<1>4. CASE ~Allocates(r)
<2>1. Lower(l, r).st \in G
  BY DEF Serves
<2>2. reply.st \in States(V, G)
  BY <1>2, <1>4, <2>1 DEF Reply, States
<2>. QED  BY <1>2, <1>4, <2>2 DEF reply
<1>. QED  BY <1>3, <1>4

(* One level over any storage that serves what it is asked: HandleRequest  *)
(* (cache.cc) serves the level above, and keeps its entries well formed,   *)
(* its blocks in one entry each and, if it writes through, clean.          *)
THEOREM LevelServes ==
  ASSUME Geometry, NEW V, NEW G, Serves(V, G), NEW st \in States(V, G), NEW r \in Requests(V)
  PROVE  /\ HandleRequest(st, r).st \in States(V, G)
         /\ r.read => HandleRequest(st, r).bytes \in [r.span -> V]
<1>1. PICK e \in GoodEntries(V), l \in G : st = State(e, l)
  BY DEF States
<1>2. st.entries = e
  BY <1>1 DEF State
<1>. QED  BY <1>1, <1>2, HitServes, MissServes DEF HandleRequest

-----------------------------------------------------------------------------
(* What the level shows. A state of the storage below shows the contents    *)
(* F[l], a state of the level those of View.                               *)

Contents(V) == [Block -> [Offset -> V]]

\* A request answered with bytes leads from one content to another.
Answers(r, before, after, bytes) ==
  IF r.read
    THEN bytes = Restrict(before[r.block], r.span) /\ after = before
  ELSE after = [before EXCEPT ![r.block] = Overlay(r.bytes, @)]

\* The storage below is a memory: it answers from the contents its state shows.
Represents(V, G, F) ==
  /\ F \in [G -> Contents(V)]
  /\ \A l \in G, r \in Requests(V) :
       Lower(l, r).st \in G /\ Answers(r, F[l], F[Lower(l, r).st], Lower(l, r).bytes)

\* States in which what is clean is backed, and what they show.
BackedStates(V, G, F) == {st \in States(V, G) : Backed(st.entries, F[st.lower])}
Shown(V, G, F)        == [st \in BackedStates(V, G, F) |-> View(st.entries, F[st.lower])]

\* A memory serves what it is asked.
LEMMA RepresentsServes ==
  ASSUME NEW V, NEW G, NEW F, Represents(V, G, F)
  PROVE  Serves(V, G)
<1>. SUFFICES ASSUME NEW l \in G, NEW r \in Requests(V), r.read
              PROVE  Lower(l, r).bytes \in [r.span -> V]
  BY DEF Serves, Represents
<1>1. r.block \in Block /\ r.span \in SUBSET Offset
  BY RequestShape
<1>2. F[l][r.block] \in [Offset -> V]
  BY <1>1 DEF Represents, Contents
<1>3. Lower(l, r).bytes = Restrict(F[l][r.block], r.span)
  BY DEF Represents, Answers
<1>. QED  BY <1>1, <1>2, <1>3 DEF Restrict

\* A set and a tag are found again in the address they make.
LEMMA AddressWhole ==
  ASSUME Geometry, NEW set \in 0 .. Sets-1, NEW tag \in Nat
  PROVE  SetID(BlockAt(set, tag)) = set /\ AddrTag(BlockAt(set, tag)) = tag
<1>1. Sets \in Nat \ {0} /\ set \in Nat /\ set < Sets
  BY DEF Geometry
<1>2. \A t \in Nat, d \in Nat \ {0} : t * d \in Nat
  BY SMT
<1>3. \A t, q \in Nat, d \in Nat \ {0}, x, y \in Nat :
        x < d /\ y < d /\ t * d + x = q * d + y => t = q /\ x = y
<2>. SUFFICES ASSUME NEW t \in Nat, NEW q \in Nat, NEW d \in Nat \ {0}, NEW x \in Nat, NEW y \in Nat,
                     x < d, y < d, t * d + x = q * d + y
              PROVE  t = q /\ x = y
  OBVIOUS
<2>1. \A a, b \in Nat : a < b => a * d + d <= b * d
  BY SMT
<2>2. t * d \in Nat /\ q * d \in Nat
  BY <1>2
<2>3. t = q
  BY <2>1, <2>2
<2>. QED  BY <2>2, <2>3
<1>. DEFINE z == tag * Sets + set
<1>4. z \in Nat
  BY <1>1, <1>2
<1>5. z = (z \div Sets) * Sets + (z % Sets) /\ z % Sets \in 0 .. Sets-1 /\ z \div Sets \in Nat
<2>1. \A x \in Nat, d \in Nat \ {0} :
        x = (x \div d) * d + (x % d) /\ x % d \in 0 .. d-1 /\ x \div d \in Nat
  BY DivMod
<2>. HIDE DEF z, Sets
<2>. QED  BY <1>1, <1>4, <2>1, Zenon
<1>6. tag = z \div Sets /\ set = z % Sets
<2>1. z % Sets \in Nat /\ z % Sets < Sets
  BY <1>1, <1>5
<2>2. tag * Sets + set = (z \div Sets) * Sets + (z % Sets)
  BY <1>5
<2>. HIDE DEF z, Sets
<2>. QED  BY <1>1, <1>3, <1>5, <2>1, <2>2
<1>. HIDE DEF Sets
<1>. QED  BY <1>6 DEF SetID, AddrTag, BlockAt

\* The entries that hold a block are those whose block it is.
LEMMA HoldingIs ==
  ASSUME Geometry, NEW V, NEW e \in GoodEntries(V), NEW b \in Block
  PROVE  Holding(e, b) = {k \in Entries : e[k].valid /\ BlockOf(e, k) = b}
<1>1. e \in [Entries -> EntryOf(V)] /\ Placed(e)
  BY DEF GoodEntries
<1>2. ASSUME NEW k \in Entries, k % config.set_num = SetID(b), e[k].tag = AddrTag(b)
      PROVE  BlockOf(e, k) = b
  BY <1>2, AddressParts DEF BlockOf
<1>3. ASSUME NEW k \in Entries, e[k].valid, BlockOf(e, k) = b
      PROVE  k % config.set_num = SetID(b) /\ e[k].tag = AddrTag(b)
<2>1. k % config.set_num \in 0 .. Sets-1
  BY <1>1, <1>3 DEF Placed
<2>2. e[k].tag \in Nat
  BY <1>1 DEF EntryOf, Geometry
<2>. HIDE DEF Sets
<2>. QED  BY <1>3, <2>1, <2>2, AddressWhole DEF BlockOf
<1>. QED  BY <1>2, <1>3 DEF Holding, EntriesOf

\* Entries of different places hold different blocks.
LEMMA BlocksDiffer ==
  ASSUME Geometry, NEW V, NEW e \in GoodEntries(V), NEW j \in Entries, NEW k \in Entries,
         e[j].valid, e[k].valid, BlockOf(e, j) = BlockOf(e, k)
  PROVE  j = k
<1>1. BlockOf(e, k) \in Block
  BY DEF GoodEntries, Placed
<1>2. j \in Holding(e, BlockOf(e, k)) /\ k \in Holding(e, BlockOf(e, k))
  BY <1>1, HoldingIs
<1>. QED  BY <1>2 DEF Holding, EntriesOf, GoodEntries, Distinct

\* The level shows what its valid entries hold, and what is below for the other blocks.
LEMMA ViewIs ==
  ASSUME Geometry, NEW V, NEW e \in GoodEntries(V), NEW B \in Contents(V)
  PROVE  /\ View(e, B) \in Contents(V)
         /\ \A k \in Entries : e[k].valid => View(e, B)[BlockOf(e, k)] = e[k].data
         /\ \A b \in Block :
              (\A k \in Entries : e[k].valid => BlockOf(e, k) # b) => View(e, B)[b] = B[b]
<1>1. e \in [Entries -> EntryOf(V)] /\ Placed(e) /\ Entries \subseteq Nat
  BY DEF GoodEntries, Entries, Geometry
<1>2. ASSUME NEW k \in Entries, e[k].valid
      PROVE  View(e, B)[BlockOf(e, k)] = e[k].data
<2>1. BlockOf(e, k) \in Block
  BY <1>1, <1>2 DEF Placed
<2>2. Holding(e, BlockOf(e, k)) = {k}
  BY <1>2, <2>1, HoldingIs, BlocksDiffer
<2>3. Min({k}) = k
<3>1. {k} \in SUBSET Nat /\ {k} # {}
  BY <1>1
<3>2. Min({k}) \in {k}
  BY <3>1, MinIsIn
<3>. QED  BY <3>2
<2>. QED  BY <2>1, <2>2, <2>3 DEF View
<1>3. ASSUME NEW b \in Block, \A k \in Entries : e[k].valid => BlockOf(e, k) # b
      PROVE  View(e, B)[b] = B[b]
<2>1. Holding(e, b) = {}
  BY <1>3, HoldingIs
<2>. QED  BY <2>1 DEF View
<1>4. View(e, B) \in Contents(V)
<2>1. ASSUME NEW b \in Block PROVE View(e, B)[b] \in [Offset -> V]
<3>1. CASE \E k \in Entries : e[k].valid /\ BlockOf(e, k) = b
  BY <1>1, <1>2, <3>1 DEF EntryOf
<3>2. CASE \A k \in Entries : e[k].valid => BlockOf(e, k) # b
  BY <1>3, <3>2 DEF Contents
<3>. QED  BY <3>1, <3>2
<2>2. View(e, B) = [b \in Block |-> View(e, B)[b]]
  BY DEF View
<2>. QED  BY <2>1, <2>2 DEF Contents
<1>. QED  BY <1>2, <1>3, <1>4

\* What is written over a whole block is the block.
LEMMA OverlayWhole ==
  ASSUME NEW V, NEW d \in [Offset -> V], NEW old
  PROVE  Overlay(d, old) = d
  BY DEF Overlay

\* Entries that hold the same show the same.
LEMMA SameView ==
  ASSUME Geometry, NEW V, NEW e \in GoodEntries(V), NEW f \in GoodEntries(V), NEW B \in Contents(V),
         \A j \in Entries : f[j].valid = e[j].valid /\ f[j].tag = e[j].tag /\ f[j].data = e[j].data
  PROVE  View(f, B) = View(e, B)
<1>1. \A b \in Block : Holding(f, b) = Holding(e, b)
  BY DEF Holding, EntriesOf
<1>2. ASSUME NEW b \in Block, Holding(e, b) # {}
      PROVE  f[Min(Holding(e, b))].data = e[Min(Holding(e, b))].data
<2>1. Holding(e, b) \in SUBSET Entries /\ Holding(e, b) \in SUBSET Nat
  BY DEF Holding, EntriesOf, Entries, Geometry
<2>2. Min(Holding(e, b)) \in Entries
  BY <1>2, <2>1, MinIsIn
<2>. QED  BY <2>2
<1>. QED  BY <1>1, <1>2 DEF View

\* A write below of a block that no entry holds is seen through the level.
LEMMA WriteBelow ==
  ASSUME Geometry, NEW V, NEW e \in GoodEntries(V), NEW B \in Contents(V), NEW b \in Block,
         NEW d \in [Offset -> V], Backed(e, B),
         \A k \in Entries : e[k].valid => BlockOf(e, k) # b
  PROVE  /\ Backed(e, [B EXCEPT ![b] = d])
         /\ View(e, [B EXCEPT ![b] = d]) = [View(e, B) EXCEPT ![b] = d]
<1>. DEFINE C == [B EXCEPT ![b] = d]
<1>1. C \in Contents(V) /\ C[b] = d /\ \A c \in Block \ {b} : C[c] = B[c]
  BY DEF Contents
<1>. HIDE DEF C
<1>2. Backed(e, C)
<2>. SUFFICES ASSUME NEW k \in Entries, e[k].valid, ~e[k].dirty
              PROVE  e[k].data = C[BlockOf(e, k)]
  BY DEF Backed, BlockOf
<2>1. BlockOf(e, k) \in Block \ {b}
  BY DEF GoodEntries, Placed
<2>. QED  BY <1>1, <2>1 DEF Backed, BlockOf
<1>3. ASSUME NEW c \in Block
      PROVE  View(e, C)[c] = IF c = b THEN d ELSE View(e, B)[c]
<2>1. CASE \E k \in Entries : e[k].valid /\ BlockOf(e, k) = c
  BY <1>1, <2>1, ViewIs
<2>2. CASE \A k \in Entries : e[k].valid => BlockOf(e, k) # c
  BY <1>1, <2>2, ViewIs
<2>. QED  BY <2>1, <2>2
<1>4. View(e, C) \in Contents(V) /\ View(e, B) \in Contents(V)
  BY <1>1, ViewIs
<1>5. View(e, C) = [View(e, B) EXCEPT ![b] = d]
  BY <1>3, <1>4 DEF Contents
<1>. QED  BY <1>2, <1>5 DEF C

\* A write to an entry is seen through the level: it is dirty, or below holds the same.
LEMMA WriteHere ==
  ASSUME Geometry, NEW V, NEW e \in GoodEntries(V), NEW f \in GoodEntries(V),
         NEW B \in Contents(V), NEW C \in Contents(V), NEW k \in Entries, Backed(e, B),
         f[k].valid,
         \A j \in Entries \ {k} : f[j] = e[j],
         e[k].valid => e[k].tag = f[k].tag,
         \A c \in Block : c # BlockOf(f, k) => C[c] = B[c],
         ~f[k].dirty => C[BlockOf(f, k)] = f[k].data,
         ~e[k].valid => \A j \in Entries : e[j].valid => BlockOf(e, j) # BlockOf(f, k)
  PROVE  /\ Backed(f, C)
         /\ View(f, C) = [View(e, B) EXCEPT ![BlockOf(f, k)] = f[k].data]
<1>. DEFINE b == BlockOf(f, k)
<1>1. b \in Block
  BY DEF GoodEntries, Placed
<1>2. \A j \in Entries \ {k} : BlockOf(f, j) = BlockOf(e, j)
  BY DEF BlockOf
<1>3. \A j \in Entries \ {k} : f[j].valid => BlockOf(f, j) \in Block \ {b}
  BY BlocksDiffer DEF GoodEntries, Placed
<1>4. Backed(f, C)
<2>. SUFFICES ASSUME NEW j \in Entries, f[j].valid, ~f[j].dirty
              PROVE  f[j].data = C[BlockOf(f, j)]
  BY DEF Backed, BlockOf
<2>1. CASE j = k
  BY <2>1
<2>2. CASE j # k
<3>1. e[j].data = B[BlockOf(e, j)]
  BY <2>2 DEF Backed, BlockOf
<3>. QED  BY <1>2, <1>3, <2>2, <3>1
<2>. QED  BY <2>1, <2>2
<1>5. e[k].valid => BlockOf(e, k) = b
  BY DEF BlockOf
<1>. HIDE DEF b
<1>6. View(f, C) \in Contents(V) /\ View(e, B) \in Contents(V)
  BY ViewIs
<1>7. ASSUME NEW c \in Block
      PROVE  View(f, C)[c] = IF c = b THEN f[k].data ELSE View(e, B)[c]
<2>1. CASE c = b
  BY <2>1, ViewIs DEF b
<2>2. CASE c # b /\ \E j \in Entries : f[j].valid /\ BlockOf(f, j) = c
<3>1. PICK j \in Entries \ {k} : f[j].valid /\ BlockOf(f, j) = c
  BY <2>2 DEF b
<3>2. View(f, C)[c] = f[j].data /\ View(e, B)[c] = e[j].data
  BY <1>2, <3>1, ViewIs
<3>. QED  BY <2>2, <3>1, <3>2
<2>3. CASE c # b /\ \A j \in Entries : f[j].valid => BlockOf(f, j) # c
<3>1. View(f, C)[c] = C[c]
  BY <2>3, ViewIs
<3>2. \A j \in Entries : e[j].valid => BlockOf(e, j) # c
  BY <1>2, <1>5, <2>3
<3>3. View(e, B)[c] = B[c]
  BY <3>2, ViewIs
<3>. QED  BY <2>3, <3>1, <3>3 DEF b
<2>. QED  BY <2>1, <2>2, <2>3
<1>8. View(f, C) = [View(e, B) EXCEPT ![b] = f[k].data]
  BY <1>6, <1>7 DEF Contents
<1>. QED  BY <1>4, <1>8 DEF b

\* A hit, whatever the policy, is a read or a write of what the level shows.
LEMMA HitRepresents ==
  ASSUME Geometry, NEW V, NEW G, NEW F, Represents(V, G, F), NEW e \in GoodEntries(V), NEW l \in G,
         Backed(e, F[l]), NEW r \in Requests(V), Holding(e, r.block) # {},
         NEW reply, reply = OnHit(State(e, l), r)
  PROVE  /\ Backed(reply.st.entries, F[reply.st.lower])
         /\ Answers(r, View(e, F[l]), View(reply.st.entries, F[reply.st.lower]), reply.bytes)
<1>. DEFINE k == Min(Holding(e, r.block))
            a == Aging(e, k)
            w == Written(a, k, r.bytes)
            b == r.block
            m == Lower(l, r).st
<1>1. /\ b \in Block /\ r.span \in SUBSET Offset /\ r.read \in BOOLEAN
      /\ F[l] \in Contents(V)
  BY RequestShape DEF Represents
<1>2. k \in Holding(e, b)
<2>1. Holding(e, b) \in SUBSET Nat
  BY DEF Holding, EntriesOf, Entries, Geometry
<2>. QED  BY <2>1, MinIsIn
<1>3. reply = IF r.read THEN Reply(State(a, l), Restrict(a[k].data, r.span))
              ELSE IF config.write_through THEN Reply(State(w, m), << >>)
              ELSE Reply(State(w, l), << >>)
  BY DEF OnHit, State
<1>. HIDE DEF k
<1>4. k \in Entries /\ e[k].valid /\ BlockOf(e, k) = b
  BY <1>1, <1>2, HoldingIs
<1>5. /\ a \in GoodEntries(V)
      /\ \A j \in Entries : /\ a[j].valid = e[j].valid /\ a[j].dirty = e[j].dirty
                            /\ a[j].tag = e[j].tag /\ a[j].data = e[j].data
<2>1. e \in [Entries -> EntryOf(V)] /\ MAXAGE \in Nat
  BY DEF GoodEntries, Geometry
<2>. QED  BY <2>1, AgingIsGood, AgingKeeps
<1>. HIDE DEF a
<1>6. /\ Backed(a, F[l]) /\ View(a, F[l]) = View(e, F[l]) /\ View(e, F[l])[b] = a[k].data
      /\ BlockOf(a, k) = b
<2>1. Backed(a, F[l])
  BY <1>5 DEF Backed
<2>2. View(a, F[l]) = View(e, F[l])
  BY <1>1, <1>5, SameView
<2>3. View(e, F[l])[b] = a[k].data
  BY <1>1, <1>4, <1>5, ViewIs
<2>4. BlockOf(a, k) = b
  BY <1>4, <1>5 DEF BlockOf
<2>. QED  BY <2>1, <2>2, <2>3, <2>4
<1>7. CASE r.read
  BY <1>3, <1>6, <1>7 DEF Reply, State, Answers
<1>8. CASE ~r.read
<2>1. PICK span \in SUBSET Offset : r.bytes \in [span -> V]
  BY <1>8, RequestShape
<2>2. w \in GoodEntries(V)
  BY <1>4, <1>5, <2>1, WrittenIsGood
<2>3. /\ a \in [Entries -> EntryOf(V)] /\ Clean(a)
  BY <1>5 DEF GoodEntries
<2>4. /\ w[k].data = Overlay(r.bytes, a[k].data) /\ w[k].dirty = ~config.write_through
      /\ w[k].valid = a[k].valid /\ w[k].tag = a[k].tag
      /\ \A j \in Entries \ {k} : w[j] = a[j]
  BY <1>4, <2>3 DEF Written, EntryOf
<2>5. w[k].valid /\ BlockOf(w, k) = b /\ a[k].valid
  BY <1>4, <1>5, <1>6, <2>4 DEF BlockOf
<2>. HIDE DEF w
<2>6. CASE config.write_through
<3>1. /\ F[m] = [F[l] EXCEPT ![b] = Overlay(r.bytes, @)] /\ m \in G
  BY <1>8 DEF Represents, Answers
<3>2. a[k].data = F[l][b]
  BY <1>4, <1>5, <1>6, <2>3, <2>6 DEF Clean, Backed, BlockOf
<3>3. /\ F[m] \in Contents(V) /\ F[m][b] = w[k].data
      /\ \A c \in Block : c # b => F[m][c] = F[l][c]
  BY <1>1, <2>4, <3>1, <3>2 DEF Represents, Contents
<3>4. Backed(w, F[m]) /\ View(w, F[m]) = [View(a, F[l]) EXCEPT ![b] = w[k].data]
<4>. HIDE DEF b, m
<4>. QED  BY <1>1, <1>4, <1>5, <1>6, <2>2, <2>4, <2>5, <3>3, WriteHere
<3>5. View(w, F[m]) = [View(e, F[l]) EXCEPT ![b] = Overlay(r.bytes, @)]
  BY <1>6, <2>4, <3>4
<3>. QED  BY <1>3, <1>8, <2>6, <3>4, <3>5 DEF Reply, State, Answers
<2>7. CASE ~config.write_through
<3>1. Backed(w, F[l]) /\ View(w, F[l]) = [View(a, F[l]) EXCEPT ![b] = w[k].data]
<4>1. w[k].dirty
  BY <2>4, <2>7
<4>. HIDE DEF b
<4>. QED  BY <1>1, <1>4, <1>5, <1>6, <2>2, <2>4, <2>5, <4>1, WriteHere
<3>2. View(w, F[l]) = [View(e, F[l]) EXCEPT ![b] = Overlay(r.bytes, @)]
  BY <1>6, <2>4, <3>1
<3>. QED  BY <1>3, <1>8, <2>7, <3>1, <3>2 DEF Reply, State, Answers
<2>. QED  BY <2>6, <2>7
<1>. QED  BY <1>1, <1>7, <1>8

\* Making room changes nothing of what the level shows.
LEMMA RoomShowsTheSame ==
  ASSUME Geometry, NEW V, NEW G, NEW F, Represents(V, G, F), NEW e \in GoodEntries(V), NEW l \in G,
         Backed(e, F[l]), NEW set \in 0 .. Sets-1
  PROVE  LET room == ReplaceAlgorithm(State(e, l), set)
         IN  /\ Backed(room.entries, F[room.lower])
             /\ View(room.entries, F[room.lower]) = View(e, F[l])
<1>. DEFINE room == ReplaceAlgorithm(State(e, l), set)
            v == Victim(e, set)
            x == [e EXCEPT ![v].valid = FALSE]
            f == WriteReq(BlockAt(set, e[v].tag), e[v].data)
            m == IF e[v].dirty THEN Lower(l, f).st ELSE l
<1>1. room = IF Free(e, set) # {} THEN State(e, l) ELSE State(x, m)
  BY DEF ReplaceAlgorithm, State
<1>2. CASE Free(e, set) # {}
  BY <1>1, <1>2 DEF State
<1>3. CASE Free(e, set) = {}
<2>1. e \in [Entries -> EntryOf(V)] /\ Placed(e) /\ F[l] \in Contents(V)
  BY DEF GoodEntries, Represents
<2>2. room.entries = x /\ room.lower = m
<3>. HIDE DEF x, m
<3>. QED  BY <1>1, <1>3 DEF State
<2>3. x \in GoodEntries(V)
<3>1. room.entries \in GoodEntries(V)
  BY RepresentsServes, RoomIsMade
<3>. QED  BY <2>2, <3>1
<2>4. v \in EntriesOf(set)
  BY <2>1, VictimIsThere
<2>5. v \in Entries /\ v % config.set_num = set
  BY <2>4 DEF EntriesOf
<2>. HIDE DEF v
<2>6. e[v].valid /\ e[v].data \in [Offset -> V]
  BY <1>3, <2>1, <2>4, <2>5 DEF Free, EntryOf
<2>7. BlockAt(set, e[v].tag) = BlockOf(e, v) /\ BlockOf(e, v) \in Block
  BY <2>1, <2>5, <2>6 DEF BlockOf, Placed
<2>8. m \in G /\ F[m] = [F[l] EXCEPT ![BlockOf(e, v)] = e[v].data]
<3>1. CASE e[v].dirty
<4>1. f \in Requests(V)
  BY <2>6, <2>7, RequestsBelow
<4>2. ~f.read /\ f.block = BlockOf(e, v) /\ f.bytes = e[v].data
  BY <2>7 DEF WriteReq
<4>. HIDE DEF f
<4>3. /\ Lower(l, f).st \in G
      /\ F[Lower(l, f).st] = [F[l] EXCEPT ![BlockOf(e, v)] = Overlay(e[v].data, @)]
  BY <4>1, <4>2 DEF Represents, Answers
<4>. QED  BY <2>6, <3>1, <4>3, OverlayWhole
<3>2. CASE ~e[v].dirty
<4>1. e[v].data = F[l][BlockOf(e, v)]
  BY <2>5, <2>6, <3>2 DEF Backed, BlockOf
<4>. QED  BY <2>1, <2>7, <3>2, <4>1 DEF Contents
<3>. QED  BY <2>1, <2>5, <3>1, <3>2 DEF EntryOf
<2>9. /\ ~x[v].valid /\ \A j \in Entries \ {v} : x[j] = e[j] /\ BlockOf(x, j) = BlockOf(e, j)
  BY <2>1, <2>5 DEF EntryOf, BlockOf
<2>10. /\ F[m] \in Contents(V) /\ F[m][BlockOf(e, v)] = e[v].data
       /\ \A b \in Block : b # BlockOf(e, v) => F[m][b] = F[l][b]
  BY <2>1, <2>7, <2>8 DEF Represents, Contents
<2>. HIDE DEF x, m
<2>11. \A j \in Entries : x[j].valid =>
         /\ j # v /\ e[j].valid /\ x[j] = e[j]
         /\ BlockOf(x, j) = BlockOf(e, j) /\ BlockOf(e, j) \in Block /\ BlockOf(e, j) # BlockOf(e, v)
  BY <2>1, <2>5, <2>6, <2>9, BlocksDiffer DEF Placed
<2>12. Backed(x, F[m])
  BY <2>10, <2>11 DEF Backed, BlockOf
<2>13. ASSUME NEW b \in Block
       PROVE  View(x, F[m])[b] = View(e, F[l])[b]
<3>1. CASE \E j \in Entries : x[j].valid /\ BlockOf(x, j) = b
<4>1. PICK j \in Entries : x[j].valid /\ BlockOf(x, j) = b
  BY <3>1
<4>. QED  BY <2>1, <2>3, <2>10, <2>11, <4>1, ViewIs
<3>2. CASE b = BlockOf(e, v)
<4>1. \A j \in Entries : x[j].valid => BlockOf(x, j) # b
  BY <2>11, <3>2
<4>2. View(x, F[m])[b] = F[m][b]
  BY <2>3, <2>10, <4>1, ViewIs
<4>. QED  BY <2>1, <2>5, <2>6, <2>10, <3>2, <4>2, ViewIs
<3>3. CASE b # BlockOf(e, v) /\ \A j \in Entries : x[j].valid => BlockOf(x, j) # b
<4>1. \A j \in Entries : e[j].valid => BlockOf(e, j) # b
  BY <2>9, <3>3
<4>. QED  BY <2>1, <2>3, <2>10, <3>3, <4>1, ViewIs
<3>. QED  BY <3>1, <3>2, <3>3
<2>14. View(x, F[m]) \in Contents(V) /\ View(e, F[l]) \in Contents(V)
  BY <2>1, <2>3, <2>10, ViewIs
<2>15. View(x, F[m]) = View(e, F[l])
  BY <2>13, <2>14 DEF Contents
<2>. QED  BY <2>2, <2>12, <2>15
<1>. QED  BY <1>2, <1>3

\* So does a miss.
LEMMA MissRepresents ==
  ASSUME Geometry, NEW V, NEW G, NEW F, Represents(V, G, F), NEW e \in GoodEntries(V), NEW l \in G,
         Backed(e, F[l]), NEW r \in Requests(V), Holding(e, r.block) = {},
         NEW reply, reply = OnMiss(State(e, l), r)
  PROVE  /\ Backed(reply.st.entries, F[reply.st.lower])
         /\ Answers(r, View(e, F[l]), View(reply.st.entries, F[reply.st.lower]), reply.bytes)
<1>. DEFINE room    == Room(e, l, r)
            k       == Place(e, l, r)
            fetched == Fetched(e, l, r)
            put     == Filled(e, l, r)
            aged    == Aging(put, k)
            b       == r.block
            set     == SetID(b)
<1>1. /\ b \in Block /\ r.span \in SUBSET Offset /\ r.read \in BOOLEAN
      /\ F[l] \in Contents(V) /\ F \in [G -> Contents(V)]
      /\ set \in 0 .. Sets-1 /\ AddrTag(b) \in Block /\ BlockAt(set, AddrTag(b)) = b
  BY RequestShape, AddressParts DEF Represents
<1>2. /\ Allocates(r) =>
           reply = Reply(State(aged, fetched.st),
                         IF r.read THEN Restrict(fetched.bytes, r.span) ELSE << >>)
      /\ ~Allocates(r) => reply = Reply(State(e, Lower(l, r).st), << >>) /\ ~r.read
      /\ room.entries \in GoodEntries(V) /\ room.lower \in G
      /\ fetched.st \in G /\ fetched.bytes \in [Offset -> V]
      /\ put \in GoodEntries(V)
      /\ k \in Entries /\ k % config.set_num = set /\ ~room.entries[k].valid
      /\ \A j \in EntriesOf(set) : room.entries[j].valid => room.entries[j].tag # AddrTag(b)
  BY RepresentsServes, MissSteps
<1>3. Backed(room.entries, F[room.lower]) /\ View(room.entries, F[room.lower]) = View(e, F[l])
<2>. HIDE DEF set
<2>1. room = ReplaceAlgorithm(State(e, l), set)
  BY DEF Room, set
<2>. QED  BY <1>1, <2>1, RoomShowsTheSame
<1>4. CASE ~Allocates(r)
<2>1. \A j \in Entries : e[j].valid => BlockOf(e, j) # b
  BY <1>1, HoldingIs
<2>2. F[Lower(l, r).st] = [F[l] EXCEPT ![b] = Overlay(r.bytes, @)]
  BY <1>2, <1>4 DEF Represents, Answers
<2>3. Overlay(r.bytes, F[l][b]) \in [Offset -> V]
<3>1. PICK span \in SUBSET Offset : r.bytes \in [span -> V]
  BY <1>2, <1>4, RequestShape
<3>. QED  BY <1>1, <3>1 DEF Overlay, Contents
<2>4. View(e, F[l])[b] = F[l][b]
  BY <1>1, <2>1, ViewIs
<2>. DEFINE d == Overlay(r.bytes, F[l][b])
<2>5. /\ Backed(e, [F[l] EXCEPT ![b] = d])
      /\ View(e, [F[l] EXCEPT ![b] = d]) = [View(e, F[l]) EXCEPT ![b] = d]
<3>. HIDE DEF d, b
<3>. QED  BY <1>1, <2>1, <2>3, WriteBelow DEF d
<2>6. F[Lower(l, r).st] = [F[l] EXCEPT ![b] = d]
  BY <2>2
<2>7. View(e, F[Lower(l, r).st]) = [View(e, F[l]) EXCEPT ![b] = Overlay(r.bytes, @)]
  BY <2>4, <2>5, <2>6
<2>. HIDE DEF d
<2>. QED  BY <1>2, <1>4, <2>5, <2>6, <2>7 DEF Reply, State, Answers
<1>5. CASE Allocates(r)
<2>. DEFINE n     == room.entries
            asked == IF r.read THEN room.lower ELSE Lower(room.lower, r).st
            whole == ReadReq(b, Offset)
            B     == F[room.lower]
            C     == F[asked]
<2>1. whole \in Requests(V) /\ whole.read /\ whole.block = b /\ whole.span = Offset
  BY <1>1, RequestsBelow DEF ReadReq
<2>2. asked \in G /\ C = IF r.read THEN B ELSE [B EXCEPT ![b] = Overlay(r.bytes, @)]
<3>. HIDE DEF room
<3>. QED  BY <1>1, <1>2 DEF Represents, Answers
<2>3. fetched = Lower(asked, whole)
  BY DEF Fetch, Fetched
<2>. HIDE DEF room, k, fetched, put, asked, whole
<2>4. C \in Contents(V) /\ B \in Contents(V)
  BY <1>1, <1>2, <2>2
<2>5. F[fetched.st] = C /\ fetched.bytes = C[b]
<3>1. F[fetched.st] = C /\ fetched.bytes = Restrict(C[b], Offset)
  BY <2>1, <2>2, <2>3 DEF Represents, Answers
<3>2. Restrict(C[b], Offset) = C[b]
  BY <1>1, <2>4 DEF Restrict, Contents
<3>. QED  BY <3>1, <3>2
<2>6. n \in [Entries -> EntryOf(V)]
  BY <1>2 DEF GoodEntries
<2>7. /\ put[k] = [tag |-> AddrTag(b), timeStamp |-> 0, data |-> C[b], valid |-> TRUE, dirty |-> FALSE]
      /\ \A j \in Entries \ {k} : put[j] = n[j]
<3>1. put = BroughtIn(n, k, b, C[b])
  BY <2>5 DEF put, Filled, room, k, fetched
<3>. HIDE DEF n, C, b
<3>. QED  BY <1>2, <2>6, <3>1 DEF BroughtIn
<2>8. put[k].valid /\ ~put[k].dirty /\ put[k].data = C[b] /\ BlockOf(put, k) = b
  BY <1>1, <1>2, <2>7 DEF BlockOf
<2>9. \A j \in Entries : n[j].valid => BlockOf(n, j) # b
<3>1. Holding(n, b) = {}
  BY <1>2 DEF Holding
<3>. QED  BY <1>1, <1>2, <3>1, HoldingIs
<2>10. \A c \in Block : c # b => C[c] = B[c]
  BY <2>2, <2>4 DEF Contents
<2>11. Backed(put, C) /\ View(put, C) = [View(n, B) EXCEPT ![b] = C[b]]
<3>1. /\ n \in GoodEntries(V) /\ put \in GoodEntries(V) /\ k \in Entries /\ ~n[k].valid
      /\ b \in Block /\ Backed(n, B) /\ B \in Contents(V) /\ C \in Contents(V)
  BY <1>1, <1>2, <1>3, <2>4
<3>2. /\ put[k].valid /\ ~put[k].dirty /\ BlockOf(put, k) = b /\ C[b] = put[k].data
      /\ \A j \in Entries \ {k} : put[j] = n[j]
  BY <2>7, <2>8
<3>. HIDE DEF b, n, B, C
<3>. QED  BY <2>9, <2>10, <3>1, <3>2, WriteHere
<2>12. View(n, B)[b] = B[b] /\ View(n, B) \in Contents(V)
  BY <1>1, <1>2, <2>4, <2>9, ViewIs
<2>13. /\ r.read => View(put, C) = View(n, B)
       /\ ~r.read => View(put, C) = [View(n, B) EXCEPT ![b] = Overlay(r.bytes, @)]
<3>1. CASE r.read
  BY <2>2, <2>11, <2>12, <3>1 DEF Contents
<3>2. CASE ~r.read
<4>1. C[b] = Overlay(r.bytes, B[b])
  BY <1>1, <2>2, <2>4, <3>2 DEF Contents
<4>. QED  BY <2>11, <2>12, <3>2, <4>1
<3>. QED  BY <1>1, <3>1, <3>2
<2>14. Backed(aged, C) /\ View(aged, C) = View(put, C)
<3>1. put \in [Entries -> EntryOf(V)] /\ MAXAGE \in Nat
  BY <1>2 DEF GoodEntries, Geometry
<3>2. /\ aged \in GoodEntries(V)
      /\ \A j \in Entries : /\ aged[j].valid = put[j].valid /\ aged[j].dirty = put[j].dirty
                            /\ aged[j].tag = put[j].tag /\ aged[j].data = put[j].data
  BY <1>2, <3>1, AgingIsGood, AgingKeeps
<3>. HIDE DEF aged, C
<3>3. Backed(aged, C)
  BY <2>11, <3>2 DEF Backed
<3>. QED  BY <1>2, <2>4, <3>2, <3>3, SameView
<2>15. r.read => C[b] = View(n, B)[b]
  BY <2>2, <2>12
<2>. HIDE DEF aged, n, B, C
<2>16. View(n, B) = View(e, F[l])
  BY <1>3 DEF n, B
<2>17. /\ reply.st.entries = aged /\ reply.st.lower = fetched.st
       /\ r.read => reply.bytes = Restrict(fetched.bytes, r.span)
  BY <1>2, <1>5 DEF Reply, State
<2>. QED  BY <1>1, <2>5, <2>13, <2>14, <2>15, <2>16, <2>17 DEF Answers
<1>. QED  BY <1>4, <1>5

\* What the level shows is what a memory contains.
LEMMA ShownIs ==
  ASSUME Geometry, NEW V, NEW G, NEW F, Represents(V, G, F)
  PROVE  Shown(V, G, F) \in [BackedStates(V, G, F) -> Contents(V)]
<1>. DEFINE S == BackedStates(V, G, F)
<1>1. ASSUME NEW s \in S PROVE View(s.entries, F[s.lower]) \in Contents(V)
<2>1. PICK x \in GoodEntries(V), y \in G : s = State(x, y)
  BY DEF BackedStates, States
<2>2. s.entries = x /\ F[s.lower] \in Contents(V)
  BY <2>1 DEF State, Represents
<2>. QED  BY <2>2, ViewIs
<1>. HIDE DEF S
<1>. QED  BY <1>1 DEF Shown, S

(* One level over any memory: HandleRequest (cache.cc) is a memory for the  *)
(* level above. It answers from what the level shows, and what is clean    *)
(* stays backed, on hits and misses, under either policy, through every    *)
(* eviction.                                                               *)
THEOREM LevelRepresents ==
  ASSUME Geometry, NEW V, NEW G, NEW F, Represents(V, G, F),
         NEW st \in BackedStates(V, G, F), NEW r \in Requests(V)
  PROVE  /\ HandleRequest(st, r).st \in BackedStates(V, G, F)
         /\ Answers(r, Shown(V, G, F)[st], Shown(V, G, F)[HandleRequest(st, r).st],
                    HandleRequest(st, r).bytes)
<1>. DEFINE S == BackedStates(V, G, F)
            reply == HandleRequest(st, r)
<1>1. PICK e \in GoodEntries(V), l \in G : st = State(e, l)
  BY DEF BackedStates, States
<1>2. st.entries = e /\ st.lower = l /\ Backed(e, F[l])
  BY <1>1 DEF State, BackedStates
<1>3. /\ Backed(reply.st.entries, F[reply.st.lower])
      /\ Answers(r, View(e, F[l]), View(reply.st.entries, F[reply.st.lower]), reply.bytes)
<2>1. reply = IF Holding(e, r.block) # {} THEN OnHit(State(e, l), r) ELSE OnMiss(State(e, l), r)
  BY <1>1, <1>2 DEF HandleRequest
<2>. HIDE DEF reply
<2>. QED  BY <1>2, <2>1, HitRepresents, MissRepresents
<1>4. reply.st \in S
<2>1. reply.st \in States(V, G)
  BY RepresentsServes, LevelServes DEF BackedStates
<2>. HIDE DEF reply
<2>. QED  BY <1>3, <2>1 DEF BackedStates
<1>5. Shown(V, G, F)[st] = View(e, F[l])
  BY <1>2 DEF Shown
<1>6. Shown(V, G, F)[reply.st] = View(reply.st.entries, F[reply.st.lower])
<2>. HIDE DEF reply
<2>. QED  BY <1>4 DEF Shown
<1>. QED  BY <1>3, <1>4, <1>5, <1>6
=============================================================================
