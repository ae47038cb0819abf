------------------------------- MODULE MCPaging -------------------------------
(* Pages of two bytes; programs of up to two segments anywhere in the      *)
(* first pages, overlapping, sharing pages, or reaching into the stack.    *)
EXTENDS Paging

\* Data of one value, so that the bytes of two segments can be told apart.
Segments(vaddrs, sizes, byte) ==
  UNION {[vaddr : vaddrs, memSize : {size},
          data : {[i \in 1 .. m |-> byte] : m \in {size \div 2, size}}] : size \in sizes}

\* One segment of any size and alignment, up to those that do not fit memory or
\* leave no page for the stack, or two, the second in the first, in its last page
\* or on the stack.
Files == {<<s>> : s \in Segments({0, 1}, {0, 1, 3, 5, 7, 9}, 1)}
           \cup {<<s, t>> : s \in Segments({1}, {2, 3}, 1), t \in Segments({0, 1, 3, 6}, {2}, 0)}
=============================================================================
