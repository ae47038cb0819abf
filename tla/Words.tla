-------------------------------- MODULE Words --------------------------------
(***************************************************************************)
(* Words of bits: a word is the set of the positions of its ones, and the  *)
(* number it stands for is read from it with or without a sign.            *)
(***************************************************************************)
EXTENDS Integers

CONSTANTS
  XLEN,       \* bits of a register, 64 in the code
  WLEN        \* bits of a word of the W operations, 32

\* A register is twice a word and has whole bytes; the bits of funct7 are above
\* every amount of a shift that is read with them.
ASSUME WidthAssumption ==
  /\ WLEN \in Nat \ {0} /\ XLEN = 2 * WLEN
  /\ XLEN % 8 = 0 /\ 1024 % XLEN = 0

Pow2[k \in Nat] == IF k = 0 THEN 1 ELSE 2 * Pow2[k - 1]

\* The number that the len low bits of a word stand for.
Number(word, len) ==
  LET below[n \in Nat] ==
        IF n = 0 THEN 0 ELSE below[n - 1] + IF n - 1 \in word THEN Pow2[n - 1] ELSE 0
  IN  below[len]

\* The bits lo .. lo+len-1 of a word, as a number.
Field(word, lo, len) == Number({k \in 0 .. len-1 : lo + k \in word}, len)

\* The len low bits of an integer in two's complement.
Bits(x, len) == {k \in 0 .. len-1 : (x \div Pow2[k]) % 2 = 1}

Unsigned(len, x) == x % Pow2[len]
Signed(len, x)   == LET u == Unsigned(len, x) IN IF u >= Pow2[len-1] THEN u - Pow2[len] ELSE u

=============================================================================
