------------------------------- MODULE MCCache -------------------------------
(* Hierarchies behind two or three blocks of memory, of so few entries     *)
(* that every miss evicts something somewhere. A byte is a bit.            *)
EXTENDS Cache

Lvl(entries, sets, wt, wa) == [entry_num |-> entries, set_num |-> sets,
                               write_through |-> wt, write_allocate |-> wa]

\* Programs of single bytes in three blocks, and programs of bytes, whole blocks
\* and accesses that leave their block, in two.
Bytes(levels)  == [levels |-> levels, blocks |-> {0, 1, 2}, accesses |-> {<<0, 1>>}]
Spans(levels)  == [levels |-> levels, blocks |-> {0, 1},
                   accesses |-> {<<1, 1>>, <<0, 2>>, <<1, 2>>}]

\* A fully associative L1 over single entries. L2 has the policy its
\* neighbours do not have, in both respects.
Policies ==
  {<<Lvl(2, 1, p, p), Lvl(1, 1, ~p, ~p), Lvl(1, 1, p, p)>> : p \in BOOLEAN}

\* Direct mapped; the number of sets of L2 is no power of two.
Geometry == <<Lvl(2, 2, FALSE, TRUE), Lvl(3, 3, FALSE, TRUE), Lvl(1, 1, FALSE, TRUE)>>

\* One entry everywhere. L1 and L2 allocate alike here, and one of them writes through.
Single ==
  {<<Lvl(1, 1, wt, ~wt), Lvl(1, 1, ~wt, ~wt), Lvl(1, 1, FALSE, TRUE)>> : wt \in BOOLEAN}

ByteSetups == {Bytes(levels) : levels \in Policies \cup {Geometry}}
AllSetups  == ByteSetups \cup {Spans(levels) : levels \in Single}
=============================================================================
