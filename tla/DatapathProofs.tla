--------------------------- MODULE DatapathProofs ---------------------------
(***************************************************************************)
(* For every width, instruction, operand and address: Decode recovers what *)
(* the assembler put into a word, its fields are those the model of the    *)
(* pipeline has, and the stages leave what the manual says, except where   *)
(* Diverges says otherwise.                                                *)
(*                                                                         *)
(* Words are sets of bits in the manual and quotients and remainders in    *)
(* the code. What connects them is that a number is determined by its bits *)
(* (NumberOfBits), an induction over the recursive functions of Words; the *)
(* rest is bookkeeping of which bits a field, a shift or an access keeps.  *)
(***************************************************************************)
EXTENDS Datapath, FiniteSetTheorems, WellFoundedInduction, TLAPS

-----------------------------------------------------------------------------
(* Induction and recursion.                                                *)

\* A nonempty set of numbers has a least element.
LEMMA LeastExists ==
  ASSUME NEW S \in SUBSET Nat, S # {}
  PROVE  \E n \in S : \A m \in S : n <= m
<1>. DEFINE Segments == {0 .. n-1 : n \in S}
<1>1. Segments \subseteq FiniteSubsetsOf(Nat) /\ Segments # {}
  <2>1. ASSUME NEW n \in S PROVE 0 .. n-1 \in FiniteSubsetsOf(Nat)
    BY FS_Interval DEF FiniteSubsetsOf
  <2>. QED  BY <2>1
<1>2. PICK T \in Segments : \A U \in Segments : <<U, T>> \notin StrictSubsetOrdering(Nat)
  <2>. HIDE DEF Segments
  <2>. QED  BY <1>1, FS_StrictSubsetOrderingWellFounded, WFMin
<1>3. PICK n \in S : T = 0 .. n-1
  BY <1>2
<1>4. ASSUME NEW m \in S, m < n PROVE FALSE
  <2>1. 0 .. m-1 \in Segments /\ 0 .. m-1 \subseteq T /\ m \in T /\ m \notin 0 .. m-1
    BY <1>3, <1>4
  <2>2. T \subseteq Nat
    BY <1>3
  <2>. QED  BY <1>2, <2>1, <2>2 DEF StrictSubsetOrdering
<1>. QED  BY <1>4

\* Induction, over a set.
LEMMA Induction ==
  ASSUME NEW S, 0 \in S, \A n \in Nat : n \in S => n + 1 \in S
  PROVE  \A n \in Nat : n \in S
<1>. SUFFICES ASSUME Nat \ S # {} PROVE FALSE
  OBVIOUS
<1>1. PICK n \in Nat \ S : \A m \in Nat \ S : n <= m
  BY LeastExists
<1>2. n # 0 /\ n - 1 \in Nat /\ n - 1 \notin Nat \ S
  BY <1>1
<1>. QED  BY <1>1, <1>2

\* There is a function with the values that F gives one after another, from a.
Defined(S, a, F) ==
  \E g \in [Nat -> S] : g[0] = a /\ \A n \in Nat : g[n+1] = F[n][g[n]]

\* A function may be defined by recursion.
LEMMA Recursion ==
  ASSUME NEW S, NEW a \in S, NEW F, \A n \in Nat : \A v \in S : F[n][v] \in S
  PROVE  Defined(S, a, F)
<1>. DEFINE UpTo(h, n) == h[0] = a /\ \A k \in 0 .. n-1 : h[k+1] = F[k][h[k]]
            Starts == {n \in Nat : \E h \in [0 .. n -> S] : UpTo(h, n)}
<1>1. \A n \in Nat : n \in Starts
  <2>1. 0 \in Starts
    <3>1. [k \in 0 .. 0 |-> a] \in [0 .. 0 -> S] /\ UpTo([k \in 0 .. 0 |-> a], 0)
      OBVIOUS
    <3>. QED  BY <3>1
  <2>2. ASSUME NEW n \in Nat, n \in Starts PROVE n + 1 \in Starts
    <3>1. PICK h \in [0 .. n -> S] : UpTo(h, n)
      BY <2>2
    <3>. DEFINE longer == [k \in 0 .. n+1 |-> IF k = n+1 THEN F[n][h[n]] ELSE h[k]]
    <3>2. longer \in [0 .. n+1 -> S]
      BY <3>1
    <3>3. UpTo(longer, n+1)
      <4>1. longer[0] = a
        BY <3>1
      <4>2. ASSUME NEW k \in 0 .. (n+1)-1 PROVE longer[k+1] = F[k][longer[k]]
        BY <3>1
      <4>. HIDE DEF longer
      <4>. QED  BY <4>1, <4>2
    <3>. HIDE DEF longer, UpTo
    <3>. QED  BY <3>2, <3>3
  <2>. HIDE DEF Starts
  <2>. QED  BY <2>1, <2>2, Induction
<1>. DEFINE Approx(n) == CHOOSE h \in [0 .. n -> S] : UpTo(h, n)
            g == [n \in Nat |-> Approx(n)[n]]
<1>2. ASSUME NEW n \in Nat PROVE Approx(n) \in [0 .. n -> S] /\ UpTo(Approx(n), n)
  <2>1. \E h \in [0 .. n -> S] : UpTo(h, n)
    BY <1>1
  <2>. HIDE DEF UpTo
  <2>. QED  BY <2>1, Zenon
<1>3. ASSUME NEW m \in Nat, NEW h, NEW n \in Nat, m <= n, UpTo(h, n) PROVE h[m] = Approx(m)[m]
  <2>. DEFINE Same == {k \in Nat : k <= m => h[k] = Approx(m)[k]}
  <2>1. UpTo(Approx(m), m)
    BY <1>2
  <2>. HIDE DEF Approx
  <2>2. 0 \in Same
    BY <1>3, <2>1
  <2>3. ASSUME NEW k \in Nat, k \in Same PROVE k + 1 \in Same
    BY <1>3, <2>1, <2>3
  <2>. HIDE DEF Same
  <2>4. m \in Same
    BY <2>2, <2>3, Induction
  <2>. QED  BY <2>4 DEF Same
<1>4. g \in [Nat -> S]
  <2>1. ASSUME NEW n \in Nat PROVE Approx(n)[n] \in S
    <3>. HIDE DEF Approx, UpTo
    <3>1. Approx(n) \in [0 .. n -> S] /\ n \in 0 .. n
      BY <1>2
    <3>. QED  BY <3>1
  <2>. HIDE DEF Approx, UpTo
  <2>. QED  BY <2>1
<1>5. g[0] = a
  <2>1. Approx(0)[0] = a
    <3>. HIDE DEF Approx
    <3>. QED  BY <1>2
  <2>. QED  BY <2>1
<1>6. ASSUME NEW n \in Nat PROVE g[n+1] = F[n][g[n]]
  <2>1. UpTo(Approx(n+1), n+1)
    <3>. HIDE DEF Approx, UpTo
    <3>. QED  BY <1>2
  <2>2. Approx(n+1)[n] = Approx(n)[n]
    <3>. HIDE DEF Approx, UpTo
    <3>. QED  BY <1>3, <2>1
  <2>3. Approx(n+1)[n+1] = F[n][Approx(n+1)[n]]
    <3>. HIDE DEF Approx
    <3>. QED  BY <2>1
  <2>. HIDE DEF Approx, UpTo
  <2>. QED  BY <2>2, <2>3
<1>. HIDE DEF g
<1>. QED  BY <1>4, <1>5, <1>6 DEF Defined

\* Powers of two: positive, and doubled from one to the next.
LEMMA PowerRule ==
  /\ Pow2[0] = 1
  /\ \A n \in Nat : Pow2[n] \in Nat \ {0} /\ Pow2[n+1] = 2 * Pow2[n]
<1>1. \E g : g = [k \in Nat |-> IF k = 0 THEN 1 ELSE 2 * g[k-1]]
  <2>. DEFINE F == [n \in Nat |-> [v \in Nat |-> 2 * v]]
  <2>1. \A n \in Nat : \A v \in Nat : F[n][v] \in Nat
    OBVIOUS
  <2>2. Defined(Nat, 1, F)
    <3>1. 1 \in Nat
      OBVIOUS
    <3>. HIDE DEF F
    <3>. QED  BY <2>1, <3>1, Recursion, Zenon
  <2>3. PICK g \in [Nat -> Nat] : g[0] = 1 /\ \A n \in Nat : g[n+1] = 2 * g[n]
    BY <2>2 DEF Defined
  <2>4. ASSUME NEW k \in Nat PROVE g[k] = IF k = 0 THEN 1 ELSE 2 * g[k-1]
    <3>1. k # 0 => k - 1 \in Nat /\ k = (k-1)+1
      OBVIOUS
    <3>. QED  BY <2>3, <3>1
  <2>5. g = [k \in Nat |-> IF k = 0 THEN 1 ELSE 2 * g[k-1]]
    BY <2>4
  <2>. QED  BY <2>5
<1>2. Pow2 = [k \in Nat |-> IF k = 0 THEN 1 ELSE 2 * Pow2[k-1]]
  BY <1>1, Zenon DEF Pow2
<1>3. Pow2[0] = 1 /\ \A n \in Nat : Pow2[n+1] = 2 * Pow2[n]
  <2>. SUFFICES ASSUME NEW n \in Nat PROVE Pow2[0] = 1 /\ Pow2[n+1] = 2 * Pow2[n]
    OBVIOUS
  <2>1. \A k \in Nat : Pow2[k] = IF k = 0 THEN 1 ELSE 2 * Pow2[k-1]
    BY <1>2, Zenon
  <2>2. n + 1 \in Nat /\ n + 1 # 0 /\ (n + 1) - 1 = n
    OBVIOUS
  <2>. QED  BY <2>1, <2>2
<1>. DEFINE Positive == {n \in Nat : Pow2[n] \in Nat \ {0}}
<1>4. 0 \in Positive /\ \A n \in Nat : n \in Positive => n + 1 \in Positive
  BY <1>3
<1>. HIDE DEF Positive
<1>5. \A n \in Nat : n \in Positive
  BY <1>4, Induction
<1>. QED  BY <1>3, <1>5 DEF Positive

\* What Number adds up.
LEMMA NumberRule ==
  ASSUME NEW word
  PROVE  /\ Number(word, 0) = 0
         /\ \A n \in Nat : /\ Number(word, n) \in Nat
                           /\ Number(word, n+1) = Number(word, n) + IF n \in word THEN Pow2[n] ELSE 0
<1>. DEFINE Weight(n) == IF n \in word THEN Pow2[n] ELSE 0
            Rule(g) == g = [n \in Nat |-> IF n = 0 THEN 0 ELSE g[n-1] + Weight(n-1)]
            below == CHOOSE g : Rule(g)
<1>1. \A n \in Nat : Weight(n) \in Nat
  BY PowerRule
<1>2. \E g : Rule(g)
  <2>. DEFINE F == [n \in Nat |-> [v \in Nat |-> v + Weight(n)]]
  <2>1. \A n \in Nat : \A v \in Nat : F[n][v] \in Nat
    <3>. HIDE DEF Weight
    <3>. QED  BY <1>1
  <2>2. Defined(Nat, 0, F)
    <3>1. 0 \in Nat
      OBVIOUS
    <3>. HIDE DEF F
    <3>. QED  BY <2>1, <3>1, Recursion, Zenon
  <2>. HIDE DEF Weight
  <2>3. PICK g \in [Nat -> Nat] : g[0] = 0 /\ \A n \in Nat : g[n+1] = g[n] + Weight(n)
    BY <2>2 DEF Defined
  <2>4. ASSUME NEW k \in Nat PROVE g[k] = IF k = 0 THEN 0 ELSE g[k-1] + Weight(k-1)
    <3>1. k # 0 => k - 1 \in Nat /\ k = (k-1)+1
      OBVIOUS
    <3>. QED  BY <2>3, <3>1
  <2>5. Rule(g)
    BY <2>4
  <2>. HIDE DEF Rule
  <2>. QED  BY <2>5
<1>3. Rule(below)
  <2>. HIDE DEF Rule
  <2>. QED  BY <1>2, Zenon
<1>4. \A n : Number(word, n) = below[n]
  BY Zenon DEF Number
<1>. HIDE DEF below
<1>5. below[0] = 0 /\ \A n \in Nat : below[n+1] = below[n] + Weight(n)
  <2>. HIDE DEF Weight
  <2>1. \A k \in Nat : below[k] = IF k = 0 THEN 0 ELSE below[k-1] + Weight(k-1)
    BY <1>3, Zenon
  <2>2. ASSUME NEW n \in Nat PROVE n + 1 \in Nat /\ n + 1 # 0 /\ (n + 1) - 1 = n
    OBVIOUS
  <2>. QED  BY <2>1, <2>2
<1>. DEFINE Natural == {n \in Nat : below[n] \in Nat}
<1>6. \A n \in Nat : n \in Natural
  <2>1. 0 \in Natural /\ \A n \in Nat : n \in Natural => n + 1 \in Natural
    <3>. HIDE DEF Weight
    <3>. QED  BY <1>1, <1>5
  <2>. HIDE DEF Natural
  <2>. QED  BY <2>1, Induction
<1>. QED  BY <1>4, <1>5, <1>6

-----------------------------------------------------------------------------
(* Division.                                                               *)

\* Multiples of a larger number are larger by the factor at least.
LEMMA ProductMonotone ==
  ASSUME NEW d \in Nat \ {0}, NEW p \in Int, NEW q \in Int, p < q
  PROVE  d * p + d <= d * q
<1>. DEFINE k == q - p - 1
<1>1. k \in Nat /\ q = p + 1 + k
  OBVIOUS
<1>. HIDE DEF k
<1>2. d * (p + 1 + k) = d * p + d + d * k
  BY <1>1
<1>3. d * k \in Nat
  BY <1>1
<1>4. d * p \in Int
  OBVIOUS
<1>. QED  BY <1>1, <1>2, <1>3, <1>4

\* Quotient and remainder, as defined.
LEMMA DivRule ==
  ASSUME NEW v \in Int, NEW d \in Nat \ {0}
  PROVE  /\ v = d * (v \div d) + (v % d)
         /\ v % d \in 0 .. d-1
         /\ v \div d \in Int
  OBVIOUS

\* There is one quotient with a remainder in range.
LEMMA DivUnique ==
  ASSUME NEW v \in Int, NEW d \in Nat \ {0}, NEW q \in Int, NEW r \in 0 .. d-1, v = d * q + r
  PROVE  v \div d = q /\ v % d = r
<1>. DEFINE p == v \div d
            s == v % d
<1>1. v = d * p + s /\ s \in 0 .. d-1 /\ p \in Int
  BY DivRule
<1>. HIDE DEF p, s
<1>2. ~(p < q)
  BY <1>1, ProductMonotone
<1>3. ~(q < p)
  BY <1>1, ProductMonotone
<1>4. p = q
  BY <1>1, <1>2, <1>3
<1>5. s = r
  BY <1>1, <1>4
<1>. QED  BY <1>4, <1>5 DEF p, s

\* What is below the divisor is its own remainder.
LEMMA SmallRemainder ==
  ASSUME NEW d \in Nat \ {0}, NEW x \in 0 .. d-1
  PROVE  x \div d = 0 /\ x % d = x
<1>1. x \in Int /\ x = d * 0 + x
  OBVIOUS
<1>. QED  BY <1>1, DivUnique

\* What is just below zero is the remainder less the divisor.
LEMMA NegativeRemainder ==
  ASSUME NEW d \in Nat \ {0}, NEW x \in -d .. -1
  PROVE  x \div d = -1 /\ x % d = x + d
<1>1. x \in Int /\ x = d * (-1) + (x + d) /\ x + d \in 0 .. d-1
  OBVIOUS
<1>. QED  BY <1>1, DivUnique

\* Multiples of the divisor do not change the remainder.
LEMMA ModShift ==
  ASSUME NEW v \in Int, NEW d \in Nat \ {0}, NEW q \in Int
  PROVE  /\ (v + d * q) % d = v % d
         /\ (v + d * q) \div d = v \div d + q
<1>. DEFINE p == v \div d
            s == v % d
<1>1. v = d * p + s /\ s \in 0 .. d-1 /\ p \in Int
  BY DivRule
<1>. HIDE DEF p, s
<1>2. v + d * q = d * (p + q) + s
  BY <1>1
<1>3. v + d * q \in Int /\ p + q \in Int
  BY <1>1
<1>4. (v + d * q) \div d = p + q /\ (v + d * q) % d = s
  BY <1>1, <1>2, <1>3, DivUnique
<1>. QED  BY <1>4 DEF p, s

\* Dividing twice is dividing by the product.
LEMMA DivDiv ==
  ASSUME NEW v \in Int, NEW c \in Nat \ {0}, NEW d \in Nat \ {0}
  PROVE  (v \div c) \div d = v \div (c * d)
<1>. DEFINE p == v \div c
            s == v % c
            q == p \div d
            t == p % d
<1>1. v = c * p + s /\ s \in 0 .. c-1 /\ p \in Int
  BY DivRule
<1>2. p = d * q + t /\ t \in 0 .. d-1 /\ q \in Int
  BY <1>1, DivRule
<1>. HIDE DEF p, s, q, t
<1>3. v = (c * d) * q + (c * t + s)
  <2>1. c * (d * q + t) = (c * d) * q + c * t
    BY <1>1, <1>2
  <2>. QED  BY <1>1, <1>2, <2>1
<1>4. c * d \in Nat \ {0}
  OBVIOUS
<1>5. c * t + c <= c * d /\ c * t \in Nat
  <2>1. c * t \in Nat
    BY <1>2
  <2>. QED  BY <1>2, <2>1, ProductMonotone
<1>6. c * t + s \in 0 .. c * d - 1
  BY <1>1, <1>4, <1>5
<1>. HIDE DEF p, s, q, t
<1>7. v \div (c * d) = q
  BY <1>1, <1>2, <1>3, <1>4, <1>6, DivUnique
<1>. QED  BY <1>7 DEF p, q

-----------------------------------------------------------------------------
(* Powers of two and bits.                                                 *)

\* The power of a sum is the product of the powers.
LEMMA PowSum ==
  ASSUME NEW m \in Nat
  PROVE  \A n \in Nat : Pow2[m+n] = Pow2[m] * Pow2[n]
<1>. DEFINE Good == {n \in Nat : Pow2[m+n] = Pow2[m] * Pow2[n]}
<1>1. 0 \in Good
  BY PowerRule
<1>2. ASSUME NEW n \in Nat, n \in Good PROVE n + 1 \in Good
  <2>1. Pow2[m+n] = Pow2[m] * Pow2[n]
    BY <1>2
  <2>2. Pow2[m+(n+1)] = 2 * Pow2[m+n]
    <3>1. m+(n+1) = (m+n)+1 /\ m+n \in Nat
      OBVIOUS
    <3>. QED  BY <3>1, PowerRule
  <2>3. Pow2[m] \in Nat /\ Pow2[n] \in Nat /\ Pow2[n+1] = 2 * Pow2[n]
    BY PowerRule
  <2>4. Pow2[m] * (2 * Pow2[n]) = 2 * (Pow2[m] * Pow2[n])
    BY <2>3
  <2>. QED  BY <2>1, <2>2, <2>3, <2>4
<1>. HIDE DEF Good
<1>3. \A n \in Nat : n \in Good
  BY <1>1, <1>2, Induction
<1>. QED  BY <1>3 DEF Good

\* The factor between two powers.
LEMMA PowFactor ==
  ASSUME NEW m \in Nat, NEW n \in Nat, m <= n
  PROVE  /\ n - m \in Nat
         /\ Pow2[n] = Pow2[m] * Pow2[n-m]
         /\ Pow2[m] <= Pow2[n]
         /\ m < n => n-m-1 \in Nat /\ Pow2[n-m] = 2 * Pow2[n-m-1] /\ 2 * Pow2[m] <= Pow2[n]
<1>1. n - m \in Nat /\ n = m + (n-m)
  OBVIOUS
<1>2. Pow2[n] = Pow2[m] * Pow2[n-m]
  BY <1>1, PowSum
<1>3. Pow2[m] \in Nat \ {0} /\ Pow2[n-m] \in Nat \ {0}
  BY <1>1, PowerRule
<1>. DEFINE c == Pow2[m]
            d == Pow2[n-m]
<1>4. c * 1 <= c * d
  <2>1. c \in Nat \ {0} /\ d \in Nat \ {0}
    BY <1>3
  <2>. HIDE DEF c, d
  <2>2. d # 1 => c * 1 + c <= c * d
    BY <2>1, ProductMonotone
  <2>3. c * 1 = c /\ c * d \in Nat
    BY <2>1
  <2>. QED  BY <2>1, <2>2, <2>3
<1>5. ASSUME m < n PROVE n-m-1 \in Nat /\ Pow2[n-m] = 2 * Pow2[n-m-1] /\ 2 * Pow2[m] <= Pow2[n]
  <2>1. n-m-1 \in Nat /\ n-m = (n-m-1)+1
    BY <1>5
  <2>2. Pow2[n-m] = 2 * Pow2[n-m-1] /\ Pow2[n-m-1] \in Nat \ {0}
    BY <2>1, PowerRule
  <2>3. c * 1 + c <= c * d
    <3>1. c \in Nat \ {0} /\ d \in Int /\ 1 < d
      BY <1>3, <2>2
    <3>. HIDE DEF c, d
    <3>. QED  BY <3>1, ProductMonotone
  <2>. QED  BY <1>2, <1>3, <2>1, <2>2, <2>3
<1>. QED  BY <1>1, <1>2, <1>3, <1>4, <1>5

Bit(x, k) == (x \div Pow2[k]) % 2 = 1

\* The words of Words are sets of such bits.
LEMMA BitsAre ==
  ASSUME NEW x, NEW len \in Nat
  PROVE  Bits(x, len) = {k \in 0 .. len-1 : Bit(x, k)}
  BY DEF Bits, Bit

\* Dividing by a power moves the bits down.
LEMMA BitOfQuotient ==
  ASSUME NEW x \in Int, NEW n \in Nat, NEW k \in Nat
  PROVE  Bit(x \div Pow2[n], k) <=> Bit(x, n+k)
<1>1. Pow2[n] \in Nat \ {0} /\ Pow2[k] \in Nat \ {0} /\ Pow2[n+k] = Pow2[n] * Pow2[k]
  BY PowerRule, PowSum
<1>2. (x \div Pow2[n]) \div Pow2[k] = x \div Pow2[n+k]
  BY <1>1, DivDiv
<1>. QED  BY <1>2 DEF Bit

\* An even number of times a power changes no bit at it or below.
LEMMA BitShift ==
  ASSUME NEW x \in Int, NEW k \in Nat, NEW m \in Int
  PROVE  Bit(x + Pow2[k] * (2 * m), k) <=> Bit(x, k)
<1>1. Pow2[k] \in Nat \ {0} /\ 2 * m \in Int
  BY PowerRule
<1>2. (x + Pow2[k] * (2 * m)) \div Pow2[k] = (x \div Pow2[k]) + 2 * m
  BY <1>1, ModShift
<1>3. x \div Pow2[k] \in Int
  BY <1>1, DivRule
<1>4. ((x \div Pow2[k]) + 2 * m) % 2 = (x \div Pow2[k]) % 2
  BY <1>3, ModShift
<1>. QED  BY <1>2, <1>4 DEF Bit

\* So is the bit below, whatever the multiple.
LEMMA BitShiftAbove ==
  ASSUME NEW x \in Int, NEW n \in Nat, NEW k \in Nat, k < n, NEW m \in Int
  PROVE  Bit(x + Pow2[n] * m, k) <=> Bit(x, k)
<1>1. /\ n-k \in Nat /\ n-k-1 \in Nat
      /\ Pow2[n] = Pow2[k] * Pow2[n-k] /\ Pow2[n-k] = 2 * Pow2[n-k-1]
  BY PowFactor
<1>2. Pow2[k] \in Nat /\ Pow2[n-k-1] \in Nat
  BY <1>1, PowerRule
<1>. DEFINE c == Pow2[k]
            d == Pow2[n-k-1]
<1>3. Pow2[n] * m = c * (2 * (d * m)) /\ d * m \in Int
  <2>1. Pow2[n] = c * (2 * d) /\ c \in Nat /\ d \in Nat
    BY <1>1, <1>2
  <2>. HIDE DEF c, d
  <2>2. (c * (2 * d)) * m = c * (2 * (d * m))
    BY <2>1
  <2>. QED  BY <2>1, <2>2
<1>. QED  BY <1>3, BitShift

\* A number below a power has no bits from it on.
LEMMA BitOfSmall ==
  ASSUME NEW n \in Nat, NEW x \in 0 .. Pow2[n]-1, NEW k \in Nat, n <= k
  PROVE  x \div Pow2[k] = 0 /\ ~Bit(x, k)
<1>1. Pow2[n] \in Nat /\ Pow2[k] \in Nat \ {0} /\ Pow2[n] <= Pow2[k]
  BY PowerRule, PowFactor
<1>2. x \div Pow2[k] = 0
  <2>1. x \in 0 .. Pow2[k]-1 /\ x \in Int /\ x = Pow2[k] * 0 + x
    BY <1>1
  <2>. QED  BY <1>1, <2>1, DivUnique
<1>. QED  BY <1>2 DEF Bit

\* The remainder by a power keeps the bits below it.
LEMMA BitOfRemainder ==
  ASSUME NEW x \in Int, NEW n \in Nat, NEW k \in Nat
  PROVE  Bit(x % Pow2[n], k) <=> k < n /\ Bit(x, k)
<1>. DEFINE r == x % Pow2[n]
            q == x \div Pow2[n]
<1>1. Pow2[n] \in Nat \ {0}
  BY PowerRule
<1>2. x = Pow2[n] * q + r /\ r \in 0 .. Pow2[n]-1 /\ q \in Int
  BY <1>1, DivRule
<1>. HIDE DEF r, q
<1>3. CASE k < n
  <2>1. r \in Int /\ x = r + Pow2[n] * q
    BY <1>1, <1>2
  <2>2. Bit(x, k) <=> Bit(r, k)
    BY <1>2, <1>3, <2>1, BitShiftAbove
  <2>. QED  BY <1>3, <2>2 DEF r
<1>4. CASE n <= k
  BY <1>2, <1>4, BitOfSmall DEF r
<1>. QED  BY <1>3, <1>4

\* Multiplying by a power moves the bits up.
LEMMA BitOfMultiple ==
  ASSUME NEW x \in Int, NEW n \in Nat, NEW k \in Nat
  PROVE  Bit(x * Pow2[n], k) <=> k >= n /\ Bit(x, k-n)
<1>1. Pow2[n] \in Nat \ {0} /\ x * Pow2[n] \in Int
  BY PowerRule
<1>2. CASE k < n
  <2>1. Bit(0 + Pow2[n] * x, k) <=> Bit(0, k)
    BY <1>2, BitShiftAbove
  <2>2. ~Bit(0, k)
    <3>1. 0 \in 0 .. Pow2[0]-1
      BY PowerRule
    <3>. QED  BY <3>1, BitOfSmall
  <2>3. 0 + Pow2[n] * x = x * Pow2[n]
    BY <1>1
  <2>. QED  BY <1>2, <2>1, <2>2, <2>3
<1>3. CASE n <= k
  <2>1. k-n \in Nat /\ k = n + (k-n)
    BY <1>3
  <2>2. (x * Pow2[n]) \div Pow2[n] = x
    <3>1. x * Pow2[n] = Pow2[n] * x + 0 /\ 0 \in 0 .. Pow2[n]-1
      BY <1>1
    <3>. QED  BY <1>1, <3>1, DivUnique
  <2>3. Bit((x * Pow2[n]) \div Pow2[n], k-n) <=> Bit(x * Pow2[n], k)
    BY <1>1, <2>1, BitOfQuotient
  <2>. QED  BY <1>3, <2>2, <2>3
<1>. QED  BY <1>2, <1>3

\* A remainder by the next power has one more bit.
LEMMA RemainderStep ==
  ASSUME NEW x \in Int, NEW n \in Nat
  PROVE  x % Pow2[n+1] = (x % Pow2[n]) + IF Bit(x, n) THEN Pow2[n] ELSE 0
<1>. DEFINE d == Pow2[n]
            r == x % d
            q == x \div d
            h == q \div 2
            b == q % 2
<1>1. d \in Nat \ {0} /\ Pow2[n+1] = 2 * d
  BY PowerRule
<1>2. x = d * q + r /\ r \in 0 .. d-1 /\ q \in Int
  BY <1>1, DivRule
<1>3. Bit(x, n) <=> b = 1
  BY DEF Bit
<1>. HIDE DEF d, r, q
<1>4. q = 2 * h + b /\ b \in 0 .. 1 /\ h \in Int
  BY <1>2
<1>. HIDE DEF h, b
<1>5. d * q = (2 * d) * h + d * b
  BY <1>1, <1>2, <1>4
<1>6. d * b = IF b = 1 THEN d ELSE 0
  BY <1>1, <1>4
<1>7. x = (2 * d) * h + (d * b + r) /\ d * b + r \in 0 .. (2 * d) - 1 /\ 2 * d \in Nat \ {0}
  BY <1>1, <1>2, <1>4, <1>5, <1>6
<1>8. x % (2 * d) = d * b + r
  BY <1>4, <1>7, DivUnique
<1>. QED  BY <1>1, <1>2, <1>3, <1>6, <1>8 DEF d, r

\* The number a word stands for is determined by its bits.
LEMMA NumberOfBits ==
  ASSUME NEW x \in Int, NEW word, NEW len \in Nat, \A k \in 0 .. len-1 : k \in word <=> Bit(x, k)
  PROVE  Number(word, len) = x % Pow2[len]
<1>. DEFINE Good == {n \in Nat : n <= len => Number(word, n) = x % Pow2[n]}
<1>1. 0 \in Good
  <2>1. x % Pow2[0] = 0
    BY PowerRule
  <2>. QED  BY <2>1, NumberRule
<1>2. ASSUME NEW n \in Nat, n \in Good PROVE n + 1 \in Good
  <2>1. SUFFICES ASSUME n + 1 <= len PROVE Number(word, n+1) = x % Pow2[n+1]
    OBVIOUS
  <2>2. Number(word, n) = x % Pow2[n]
    BY <1>2, <2>1
  <2>3. n \in word <=> Bit(x, n)
    BY <2>1
  <2>4. Number(word, n+1) = Number(word, n) + IF n \in word THEN Pow2[n] ELSE 0
    BY NumberRule
  <2>. QED  BY <2>2, <2>3, <2>4, RemainderStep
<1>. HIDE DEF Good
<1>3. len \in Good
  BY <1>1, <1>2, Induction
<1>. QED  BY <1>3 DEF Good

\* The word of a number stands for its remainder.
LEMMA NumberOfWord ==
  ASSUME NEW x \in Int, NEW len \in Nat
  PROVE  Number(Bits(x, len), len) = x % Pow2[len]
  BY NumberOfBits, BitsAre

\* A word of len bits is a number below the power.
LEMMA NumberInRange ==
  ASSUME NEW word, NEW len \in Nat
  PROVE  Number(word, len) \in 0 .. Pow2[len]-1
<1>. DEFINE Good == {n \in Nat : Number(word, n) \in 0 .. Pow2[n]-1}
<1>1. 0 \in Good
  BY NumberRule, PowerRule
<1>2. ASSUME NEW n \in Nat, n \in Good PROVE n + 1 \in Good
  <2>1. Number(word, n+1) = Number(word, n) + IF n \in word THEN Pow2[n] ELSE 0
    BY NumberRule
  <2>2. Pow2[n] \in Nat \ {0} /\ Pow2[n+1] = 2 * Pow2[n]
    BY PowerRule
  <2>. QED  BY <1>2, <2>1, <2>2
<1>. HIDE DEF Good
<1>3. len \in Good
  BY <1>1, <1>2, Induction
<1>. QED  BY <1>3 DEF Good

-----------------------------------------------------------------------------
(* Numbers with a sign.                                                    *)

\* Reading with a sign takes away the range, or nothing.
LEMMA SignedRule ==
  ASSUME NEW x \in Int, NEW len \in Nat \ {0}
  PROVE  /\ Unsigned(len, x) \in 0 .. Pow2[len]-1
         /\ Signed(len, x) \in -Pow2[len-1] .. Pow2[len-1]-1
         /\ \E m \in {0, 1} : Signed(len, x) = Unsigned(len, x) - Pow2[len] * m
         /\ \E q \in Int : Signed(len, x) = x + Pow2[len] * q
<1>. DEFINE d == Pow2[len]
            h == Pow2[len-1]
            r == x % d
            q == x \div d
<1>1. h \in Nat \ {0} /\ d \in Nat \ {0} /\ d = 2 * h
  <2>1. len-1 \in Nat /\ len = (len-1)+1
    OBVIOUS
  <2>. QED  BY <2>1, PowerRule
<1>2. x = d * q + r /\ r \in 0 .. d-1 /\ q \in Int
  BY <1>1, DivRule
<1>3. Unsigned(len, x) = r /\ Signed(len, x) = IF r >= h THEN r - d ELSE r
  BY DEF Unsigned, Signed
<1>. HIDE DEF d, h, r, q
<1>4. r \in 0 .. d-1 /\ (IF r >= h THEN r - d ELSE r) \in -h .. h-1
  BY <1>1, <1>2
<1>5. \E m \in {0, 1} : (IF r >= h THEN r - d ELSE r) = r - d * m
  BY <1>1, <1>2
<1>6. \E p \in Int : (IF r >= h THEN r - d ELSE r) = x + d * p
  <2>1. CASE r >= h
    <3>1. r - d = x + d * (-q-1)
      BY <1>1, <1>2
    <3>. QED  BY <1>2, <2>1, <3>1
  <2>2. CASE ~(r >= h)
    <3>1. r = x + d * (-q)
      BY <1>1, <1>2
    <3>. QED  BY <1>2, <2>2, <3>1
  <2>. QED  BY <2>1, <2>2
<1>. QED  BY <1>3, <1>4, <1>5, <1>6 DEF d, h

\* Numbers that differ by a multiple of the range have the same word.
LEMMA SignedShift ==
  ASSUME NEW x \in Int, NEW len \in Nat, NEW q \in Int
  PROVE  /\ Signed(len, x + Pow2[len] * q) = Signed(len, x)
         /\ Unsigned(len, x + Pow2[len] * q) = Unsigned(len, x)
<1>1. Pow2[len] \in Nat \ {0}
  BY PowerRule
<1>2. (x + Pow2[len] * q) % Pow2[len] = x % Pow2[len]
  BY <1>1, ModShift
<1>. QED  BY <1>2 DEF Signed, Unsigned

\* Reading without a sign first changes nothing.
LEMMA SignedOfUnsigned ==
  ASSUME NEW x \in Int, NEW len \in Nat
  PROVE  Signed(len, x % Pow2[len]) = Signed(len, x)
<1>. DEFINE d == Pow2[len]
<1>1. d \in Nat \ {0}
  BY PowerRule
<1>. HIDE DEF d
<1>2. x % d \in Int /\ x \div d \in Int /\ x = (x % d) + d * (x \div d)
  BY <1>1, DivRule
<1>. QED  BY <1>2, SignedShift DEF d

\* A number in the range is its own.
LEMMA SignedInRange ==
  ASSUME NEW len \in Nat \ {0}, NEW x \in -Pow2[len-1] .. Pow2[len-1]-1
  PROVE  Signed(len, x) = x
<1>. DEFINE d == Pow2[len]
            h == Pow2[len-1]
<1>1. h \in Nat \ {0} /\ d = 2 * h /\ d \in Nat \ {0}
  <2>1. len-1 \in Nat /\ len = (len-1)+1
    OBVIOUS
  <2>. QED  BY <2>1, PowerRule
<1>2. Signed(len, x) = IF x % d >= h THEN (x % d) - d ELSE x % d
  BY DEF Signed, Unsigned
<1>3. x \in -h .. h-1
  OBVIOUS
<1>. HIDE DEF d, h
<1>4. CASE x < 0
  <2>1. x = d * (-1) + (x + d) /\ x + d \in 0 .. d-1 /\ x \in Int /\ d \in Nat \ {0}
    BY <1>1, <1>3, <1>4
  <2>2. x % d = x + d
    BY <2>1, DivUnique
  <2>. QED  BY <1>1, <1>2, <1>3, <1>4, <2>2
<1>5. CASE x >= 0
  <2>1. x = d * 0 + x /\ x \in 0 .. d-1
    BY <1>1, <1>3, <1>5
  <2>2. x % d = x
    BY <1>1, <1>3, <2>1, DivUnique
  <2>. QED  BY <1>1, <1>2, <1>3, <1>5, <2>2
<1>. QED  BY <1>3, <1>4, <1>5

\* The bits of a signed number: those of the word, and its highest without end.
LEMMA BitOfSigned ==
  ASSUME NEW x \in Int, NEW len \in Nat \ {0}, NEW k \in Nat
  PROVE  /\ k < len => (Bit(Signed(len, x), k) <=> Bit(x, k))
         /\ k >= len => (Bit(Signed(len, x), k) <=> Bit(x, len-1))
<1>. DEFINE s == Signed(len, x)
            h == Pow2[len-1]
<1>1. len-1 \in Nat /\ h \in Nat \ {0}
  BY PowerRule
<1>2. s \in -h .. h-1 /\ s \in Int
  BY <1>1, SignedRule
<1>3. PICK q \in Int : s = x + Pow2[len] * q
  BY SignedRule
<1>. HIDE DEF s, h
<1>4. ASSUME NEW j \in Nat, j < len PROVE Bit(s, j) <=> Bit(x, j)
  BY <1>3, <1>4, BitShiftAbove
<1>5. ASSUME NEW j \in Nat, j >= len-1 PROVE Bit(s, j) <=> s < 0
  <2>1. Pow2[j] \in Nat \ {0} /\ h <= Pow2[j]
    BY <1>1, <1>5, PowerRule, PowFactor DEF h
  <2>2. CASE s < 0
    <3>1. s = Pow2[j] * (-1) + (s + Pow2[j]) /\ s + Pow2[j] \in 0 .. Pow2[j]-1
      BY <1>1, <1>2, <2>1, <2>2
    <3>2. s \div Pow2[j] = -1
      BY <1>2, <2>1, <3>1, DivUnique
    <3>. QED  BY <2>2, <3>2 DEF Bit
  <2>3. CASE s >= 0
    <3>1. s \in 0 .. Pow2[len-1]-1
      BY <1>1, <1>2, <2>3 DEF h
    <3>. QED  BY <1>1, <1>5, <2>3, <3>1, BitOfSmall
  <2>. QED  BY <1>2, <2>2, <2>3
<1>6. (Bit(s, len-1) <=> Bit(x, len-1)) /\ (Bit(s, len-1) <=> s < 0)
  BY <1>1, <1>4, <1>5
<1>. QED  BY <1>4, <1>5, <1>6 DEF s

-----------------------------------------------------------------------------
(* What the manual's operations on bits compute.                           *)

\* Quotients stay in a range around zero.
LEMMA QuotientInRange ==
  ASSUME NEW h \in Nat, NEW l \in Nat, NEW x \in -l .. h, NEW d \in Nat \ {0}
  PROVE  x \div d \in -l .. h
<1>. DEFINE q == x \div d
            r == x % d
<1>1. x = d * q + r /\ r \in 0 .. d-1 /\ q \in Int
  BY DivRule
<1>. HIDE DEF q, r
<1>2. CASE q > 0
  <2>1. d * q >= q
    <3>1. (d - 1) * q \in Nat /\ d * q = (d - 1) * q + q
      BY <1>1, <1>2
    <3>. QED  BY <1>1, <3>1
  <2>. QED  BY <1>1, <1>2, <2>1 DEF q
<1>3. CASE q = 0
  BY <1>1, <1>3 DEF q
<1>4. CASE q < 0
  <2>. DEFINE p == -q-1
  <2>1. p \in Nat /\ q = -p-1
    BY <1>1, <1>4
  <2>. HIDE DEF p
  <2>2. (d - 1) * p \in Nat /\ d * p = (d - 1) * p + p
    BY <2>1
  <2>3. d * q = -(d * p) - d
    BY <2>1
  <2>4. x <= -p-1
    BY <1>1, <2>1, <2>2, <2>3
  <2>. QED  BY <1>1, <1>4, <2>1, <2>4 DEF q
<1>. QED  BY <1>1, <1>2, <1>3, <1>4

\* Bits moved up: a product, cut to the word.
LEMMA NumberShiftedUp ==
  ASSUME NEW x \in Int, NEW len \in Nat, NEW n \in Nat
  PROVE  Number(ShiftUp(x, n, len), len) = (x * Pow2[n]) % Pow2[len]
<1>1. ASSUME NEW k \in 0 .. len-1 PROVE k \in ShiftUp(x, n, len) <=> Bit(x * Pow2[n], k)
  <2>1. k \in ShiftUp(x, n, len) <=> k >= n /\ Bit(x, k-n)
    BY BitsAre DEF ShiftUp
  <2>. QED  BY <2>1, BitOfMultiple
<1>2. x * Pow2[n] \in Int
  BY PowerRule
<1>. QED  BY <1>1, <1>2, NumberOfBits

\* Bits moved down, zeros following: a quotient of the number without sign.
LEMMA NumberShiftedDown ==
  ASSUME NEW x \in Int, NEW len \in Nat, NEW n \in Nat
  PROVE  Number(ShiftDown(x, n, len), len) = Unsigned(len, x) \div Pow2[n]
<1>. DEFINE u == x % Pow2[len]
            q == u \div Pow2[n]
            d == Pow2[len]
<1>1. Pow2[n] \in Nat \ {0} /\ d \in Nat \ {0}
  BY PowerRule
<1>2. u \in 0 .. d-1 /\ u \in Int
  <2>1. ASSUME NEW e \in Nat \ {0} PROVE x % e \in 0 .. e-1 /\ x % e \in Int
    OBVIOUS
  <2>. HIDE DEF d
  <2>2. x % d \in 0 .. d-1 /\ x % d \in Int
    BY <1>1, <2>1
  <2>. QED  BY <2>2 DEF d
<1>3. q \in 0 .. d-1
  <2>. HIDE DEF u, d
  <2>1. d-1 \in Nat /\ 0 \in Nat /\ u \in -0 .. d-1
    BY <1>1, <1>2
  <2>2. u \div Pow2[n] \in -0 .. d-1
    BY <1>1, <2>1, QuotientInRange
  <2>. QED  BY <1>1, <2>2
<1>4. ASSUME NEW k \in 0 .. len-1 PROVE k \in ShiftDown(x, n, len) <=> Bit(q, k)
  <2>1. k \in ShiftDown(x, n, len) <=> k + n < len /\ Bit(x, n + k)
    BY BitsAre DEF ShiftDown
  <2>2. Bit(u, n + k) <=> n + k < len /\ Bit(x, n + k)
    BY BitOfRemainder
  <2>3. Bit(u \div Pow2[n], k) <=> Bit(u, n + k)
    <3>. HIDE DEF u
    <3>. QED  BY <1>2, BitOfQuotient
  <2>. QED  BY <2>1, <2>2, <2>3
<1>. HIDE DEF q
<1>5. Number(ShiftDown(x, n, len), len) = q % d
  BY <1>3, <1>4, NumberOfBits
<1>6. q % d = q
  <2>. HIDE DEF d, q
  <2>1. q = d * 0 + q /\ q \in Int
    BY <1>1, <1>3
  <2>. QED  BY <1>1, <1>3, <2>1, DivUnique
<1>. QED  BY <1>5, <1>6 DEF q, Unsigned

\* Bits moved down, the sign following: a quotient of the number with it.
LEMMA NumberShiftedSign ==
  ASSUME NEW x \in Int, NEW len \in Nat \ {0}, NEW n \in 0 .. len-1
  PROVE  Signed(len, Number(ShiftSign(x, n, len), len)) = Signed(len, x) \div Pow2[n]
<1>. DEFINE s == Signed(len, x)
            h == Pow2[len-1]
            q == s \div Pow2[n]
<1>1. Pow2[n] \in Nat \ {0} /\ h \in Nat \ {0}
  BY PowerRule
<1>2. s \in -h .. h-1 /\ s \in Int
  BY <1>1, SignedRule
<1>3. q \in -h .. h-1 /\ q \in Int
  <2>. HIDE DEF s, h
  <2>1. h \in Nat /\ h-1 \in Nat
    BY <1>1
  <2>2. s \div Pow2[n] \in -h .. h-1
    BY <1>1, <1>2, <2>1, QuotientInRange
  <2>. QED  BY <1>1, <2>2
<1>4. ASSUME NEW k \in 0 .. len-1 PROVE k \in ShiftSign(x, n, len) <=> Bit(q, k)
  <2>1. k \in ShiftSign(x, n, len) <=> \/ n + k < len /\ Bit(x, n + k)
                                       \/ Bit(x, len-1) /\ n + k >= len
    BY BitsAre DEF ShiftSign, ShiftDown
  <2>2. /\ n + k < len => (Bit(s, n + k) <=> Bit(x, n + k))
        /\ n + k >= len => (Bit(s, n + k) <=> Bit(x, len-1))
    BY BitOfSigned
  <2>3. Bit(s \div Pow2[n], k) <=> Bit(s, n + k)
    <3>. HIDE DEF s
    <3>. QED  BY <1>2, BitOfQuotient
  <2>. QED  BY <2>1, <2>2, <2>3
<1>. HIDE DEF q, h
<1>5. Number(ShiftSign(x, n, len), len) = q % Pow2[len]
  BY <1>3, <1>4, NumberOfBits
<1>6. Signed(len, q % Pow2[len]) = Signed(len, q)
  BY <1>3, SignedOfUnsigned
<1>7. Signed(len, q) = q
  BY <1>3, SignedInRange DEF h
<1>. QED  BY <1>5, <1>6, <1>7 DEF q

-----------------------------------------------------------------------------
(* Which instruction a word is.                                            *)

\* A table of Decode, entry by entry.
LEMMA TableRule ==
  ASSUME NEW a, NEW b, NEW c, NEW d, NEW e, NEW f, NEW g, NEW h
  PROVE  LET t == Table(<<a, b, c, d, e, f, g, h>>)
         IN  /\ t[0] = a /\ t[1] = b /\ t[2] = c /\ t[3] = d
             /\ t[4] = e /\ t[5] = f /\ t[6] = g /\ t[7] = h
  BY DEF Table

RNames == {"add", "sub", "sll", "slt", "sltu", "xor", "srl", "sra", "or", "and", "addw", "subw",
           "sllw", "srlw", "sraw", "mul", "div", "rem"}
ShiftNames == {"slli", "srli", "srai", "slliw", "srliw", "sraiw"}
INames == {"jalr", "lb", "lh", "lw", "ld", "lbu", "lhu", "lwu", "addi", "slti", "sltiu", "xori",
           "ori", "andi", "addiw", "fence", "ecall"}
SNames == {"sb", "sh", "sw", "sd"}
BNames == {"beq", "bne", "blt", "bge", "bltu", "bgeu"}
UNames == {"lui", "auipc"}
JNames == {"jal"}

\* They are the mnemonics of the tables of the manual.
LEMMA FormatNames ==
  /\ DOMAIN RFormat = RNames /\ DOMAIN Shifts = ShiftNames /\ DOMAIN IFormat = INames
  /\ DOMAIN SFormat = SNames /\ DOMAIN BFormat = BNames /\ DOMAIN UFormat = UNames
  /\ DOMAIN JFormat = JNames
<1>1. DOMAIN RFormat = RNames
  BY DEF RFormat, RNames
<1>2. DOMAIN Shifts = ShiftNames
  BY DEF Shifts, ShiftNames
<1>3. DOMAIN IFormat = INames
  BY DEF IFormat, INames
<1>4. DOMAIN SFormat = SNames
  BY DEF SFormat, SNames
<1>5. DOMAIN BFormat = BNames
  BY DEF BFormat, BNames
<1>6. DOMAIN UFormat = UNames
  BY DEF UFormat, UNames
<1>7. DOMAIN JFormat = JNames
  BY DEF JFormat, JNames
<1>. QED  BY <1>1, <1>2, <1>3, <1>4, <1>5, <1>6, <1>7

\* No mnemonic is in two formats.
LEMMA FormatsDiffer ==
  /\ RNames \cap (ShiftNames \cup INames \cup SNames \cup BNames \cup UNames \cup JNames) = {}
  /\ ShiftNames \cap (INames \cup SNames \cup BNames \cup UNames \cup JNames) = {}
  /\ INames \cap (SNames \cup BNames \cup UNames \cup JNames) = {}
  /\ SNames \cap (BNames \cup UNames \cup JNames) = {}
  /\ BNames \cap (UNames \cup JNames) = {}
  /\ UNames \cap JNames = {}
  BY DEF RNames, ShiftNames, INames, SNames, BNames, UNames, JNames

\* Where the table has an instruction, one format after another.
LEMMA RowOfR ==
  ASSUME NEW name \in RNames
  PROVE  /\ RowOf(name) = RFormat[name] /\ name \in DOMAIN RFormat
         /\ ~(name \in DOMAIN Shifts) /\ ~(name \in DOMAIN IFormat) /\ ~(name \in DOMAIN SFormat)
         /\ ~(name \in DOMAIN BFormat) /\ ~(name \in DOMAIN UFormat) /\ ~(name \in DOMAIN JFormat)
<1>1. name \in DOMAIN RFormat
  BY FormatNames
<1>2. /\ ~(name \in DOMAIN Shifts) /\ ~(name \in DOMAIN IFormat) /\ ~(name \in DOMAIN SFormat)
      /\ ~(name \in DOMAIN BFormat) /\ ~(name \in DOMAIN UFormat) /\ ~(name \in DOMAIN JFormat)
  BY FormatNames, FormatsDiffer
<1>. QED  BY <1>1, <1>2 DEF RowOf

LEMMA RowOfShift ==
  ASSUME NEW name \in ShiftNames
  PROVE  /\ RowOf(name) = Shifts[name] /\ name \in DOMAIN Shifts
         /\ ~(name \in DOMAIN RFormat) /\ ~(name \in DOMAIN IFormat) /\ ~(name \in DOMAIN SFormat)
         /\ ~(name \in DOMAIN BFormat) /\ ~(name \in DOMAIN UFormat) /\ ~(name \in DOMAIN JFormat)
<1>1. name \in DOMAIN Shifts
  BY FormatNames
<1>2. /\ ~(name \in DOMAIN RFormat) /\ ~(name \in DOMAIN IFormat) /\ ~(name \in DOMAIN SFormat)
      /\ ~(name \in DOMAIN BFormat) /\ ~(name \in DOMAIN UFormat) /\ ~(name \in DOMAIN JFormat)
  BY FormatNames, FormatsDiffer
<1>. QED  BY <1>1, <1>2 DEF RowOf

LEMMA RowOfI ==
  ASSUME NEW name \in INames
  PROVE  /\ RowOf(name) = IFormat[name] /\ name \in DOMAIN IFormat
         /\ ~(name \in DOMAIN RFormat) /\ ~(name \in DOMAIN Shifts) /\ ~(name \in DOMAIN SFormat)
         /\ ~(name \in DOMAIN BFormat) /\ ~(name \in DOMAIN UFormat) /\ ~(name \in DOMAIN JFormat)
<1>1. name \in DOMAIN IFormat
  BY FormatNames
<1>2. /\ ~(name \in DOMAIN RFormat) /\ ~(name \in DOMAIN Shifts) /\ ~(name \in DOMAIN SFormat)
      /\ ~(name \in DOMAIN BFormat) /\ ~(name \in DOMAIN UFormat) /\ ~(name \in DOMAIN JFormat)
  BY FormatNames, FormatsDiffer
<1>. QED  BY <1>1, <1>2 DEF RowOf

LEMMA RowOfS ==
  ASSUME NEW name \in SNames
  PROVE  /\ RowOf(name) = SFormat[name] /\ name \in DOMAIN SFormat
         /\ ~(name \in DOMAIN RFormat) /\ ~(name \in DOMAIN Shifts) /\ ~(name \in DOMAIN IFormat)
         /\ ~(name \in DOMAIN BFormat) /\ ~(name \in DOMAIN UFormat) /\ ~(name \in DOMAIN JFormat)
<1>1. name \in DOMAIN SFormat
  BY FormatNames
<1>2. /\ ~(name \in DOMAIN RFormat) /\ ~(name \in DOMAIN Shifts) /\ ~(name \in DOMAIN IFormat)
      /\ ~(name \in DOMAIN BFormat) /\ ~(name \in DOMAIN UFormat) /\ ~(name \in DOMAIN JFormat)
  BY FormatNames, FormatsDiffer
<1>. QED  BY <1>1, <1>2 DEF RowOf

LEMMA RowOfB ==
  ASSUME NEW name \in BNames
  PROVE  /\ RowOf(name) = BFormat[name] /\ name \in DOMAIN BFormat
         /\ ~(name \in DOMAIN RFormat) /\ ~(name \in DOMAIN Shifts) /\ ~(name \in DOMAIN IFormat)
         /\ ~(name \in DOMAIN SFormat) /\ ~(name \in DOMAIN UFormat) /\ ~(name \in DOMAIN JFormat)
<1>1. name \in DOMAIN BFormat
  BY FormatNames
<1>2. /\ ~(name \in DOMAIN RFormat) /\ ~(name \in DOMAIN Shifts) /\ ~(name \in DOMAIN IFormat)
      /\ ~(name \in DOMAIN SFormat) /\ ~(name \in DOMAIN UFormat) /\ ~(name \in DOMAIN JFormat)
  BY FormatNames, FormatsDiffer
<1>. QED  BY <1>1, <1>2 DEF RowOf

LEMMA RowOfU ==
  ASSUME NEW name \in UNames
  PROVE  /\ RowOf(name) = UFormat[name] /\ name \in DOMAIN UFormat
         /\ ~(name \in DOMAIN RFormat) /\ ~(name \in DOMAIN Shifts) /\ ~(name \in DOMAIN IFormat)
         /\ ~(name \in DOMAIN SFormat) /\ ~(name \in DOMAIN BFormat) /\ ~(name \in DOMAIN JFormat)
<1>1. name \in DOMAIN UFormat
  BY FormatNames
<1>2. /\ ~(name \in DOMAIN RFormat) /\ ~(name \in DOMAIN Shifts) /\ ~(name \in DOMAIN IFormat)
      /\ ~(name \in DOMAIN SFormat) /\ ~(name \in DOMAIN BFormat) /\ ~(name \in DOMAIN JFormat)
  BY FormatNames, FormatsDiffer
<1>. QED  BY <1>1, <1>2 DEF RowOf

LEMMA RowOfJ ==
  ASSUME NEW name \in JNames
  PROVE  /\ RowOf(name) = JFormat[name] /\ name \in DOMAIN JFormat
         /\ ~(name \in DOMAIN RFormat) /\ ~(name \in DOMAIN Shifts) /\ ~(name \in DOMAIN IFormat)
         /\ ~(name \in DOMAIN SFormat) /\ ~(name \in DOMAIN BFormat) /\ ~(name \in DOMAIN UFormat)
<1>1. name \in DOMAIN JFormat
  BY FormatNames
<1>2. /\ ~(name \in DOMAIN RFormat) /\ ~(name \in DOMAIN Shifts) /\ ~(name \in DOMAIN IFormat)
      /\ ~(name \in DOMAIN SFormat) /\ ~(name \in DOMAIN BFormat) /\ ~(name \in DOMAIN UFormat)
  BY FormatNames, FormatsDiffer
<1>. QED  BY <1>1, <1>2 DEF RowOf

\* The name of a word with the opcode, funct3 and funct7 of an operation on registers.
LEMMA RNamed ==
  ASSUME NEW name \in RNames, NEW w,
         Opcode(w) = RowOf(name).opcode, Funct3(w) = RowOf(name).f3,
         Funct7(w) = RowOf(name).f7
  PROVE  /\ name \notin {"mul", "div", "rem"} => Name(w) = name
         /\ Name(w) \in {"sub", "xor", "or", name} /\ Type(w) = "R_type" /\ ~IsLoad(Name(w))
<1>0. RowOf(name) = RFormat[name]
  BY RowOfR
<1>1. CASE name = "add"
  BY <1>0, <1>1, TableRule DEF Name, Type, IsLoad, Registers, WordRegisters, RFormat, Row
<1>2. CASE name = "sub"
  BY <1>0, <1>2, TableRule DEF Name, Type, IsLoad, Registers, WordRegisters, RFormat, Row
<1>3. CASE name = "sll"
  BY <1>0, <1>3, TableRule DEF Name, Type, IsLoad, Registers, WordRegisters, RFormat, Row
<1>4. CASE name = "slt"
  BY <1>0, <1>4, TableRule DEF Name, Type, IsLoad, Registers, WordRegisters, RFormat, Row
<1>5. CASE name = "sltu"
  BY <1>0, <1>5, TableRule DEF Name, Type, IsLoad, Registers, WordRegisters, RFormat, Row
<1>6. CASE name = "xor"
  BY <1>0, <1>6, TableRule DEF Name, Type, IsLoad, Registers, WordRegisters, RFormat, Row
<1>7. CASE name = "srl"
  BY <1>0, <1>7, TableRule DEF Name, Type, IsLoad, Registers, WordRegisters, RFormat, Row
<1>8. CASE name = "sra"
  BY <1>0, <1>8, TableRule DEF Name, Type, IsLoad, Registers, WordRegisters, RFormat, Row
<1>9. CASE name = "or"
  BY <1>0, <1>9, TableRule DEF Name, Type, IsLoad, Registers, WordRegisters, RFormat, Row
<1>10. CASE name = "and"
  BY <1>0, <1>10, TableRule DEF Name, Type, IsLoad, Registers, WordRegisters, RFormat, Row
<1>11. CASE name = "addw"
  BY <1>0, <1>11, TableRule DEF Name, Type, IsLoad, Registers, WordRegisters, RFormat, Row
<1>12. CASE name = "subw"
  BY <1>0, <1>12, TableRule DEF Name, Type, IsLoad, Registers, WordRegisters, RFormat, Row
<1>13. CASE name = "sllw"
  BY <1>0, <1>13, TableRule DEF Name, Type, IsLoad, Registers, WordRegisters, RFormat, Row
<1>14. CASE name = "srlw"
  BY <1>0, <1>14, TableRule DEF Name, Type, IsLoad, Registers, WordRegisters, RFormat, Row
<1>15. CASE name = "sraw"
  BY <1>0, <1>15, TableRule DEF Name, Type, IsLoad, Registers, WordRegisters, RFormat, Row
<1>16. CASE name = "mul"
  BY <1>0, <1>16, TableRule DEF Name, Type, IsLoad, Registers, WordRegisters, RFormat, Row
<1>17. CASE name = "div"
  BY <1>0, <1>17, TableRule DEF Name, Type, IsLoad, Registers, WordRegisters, RFormat, Row
<1>18. CASE name = "rem"
  BY <1>0, <1>18, TableRule DEF Name, Type, IsLoad, Registers, WordRegisters, RFormat, Row
<1>. QED  BY <1>1, <1>2, <1>3, <1>4, <1>5, <1>6, <1>7, <1>8, <1>9, <1>10, <1>11, <1>12,
             <1>13, <1>14, <1>15, <1>16, <1>17, <1>18 DEF RNames

\* A shift by an immediate, whose amount reaches into funct7.
LEMMA ShiftNamed ==
  ASSUME NEW name \in ShiftNames, NEW w,
         Opcode(w) = RowOf(name).opcode, Funct3(w) = RowOf(name).f3,
         NEW high \in {0, 1}, Funct7(w) = RowOf(name).f7 + high, RowOf(name).opcode = 27 => high = 0
  PROVE  /\ ~(name = "srli" /\ high = 1) => Name(w) = name
         /\ Name(w) \in {"srai", name} /\ Type(w) = "I_type" /\ ~IsLoad(Name(w))
<1>0. RowOf(name) = Shifts[name]
  BY RowOfShift
<1>1. CASE name = "slli"
  BY <1>0, <1>1, TableRule DEF Name, Type, IsLoad, Immediates, WordImmediates, Shifts, Row
<1>2. CASE name = "srli"
  BY <1>0, <1>2, TableRule DEF Name, Type, IsLoad, Immediates, WordImmediates, Shifts, Row
<1>3. CASE name = "srai"
  BY <1>0, <1>3, TableRule DEF Name, Type, IsLoad, Immediates, WordImmediates, Shifts, Row
<1>4. CASE name = "slliw"
  BY <1>0, <1>4, TableRule DEF Name, Type, IsLoad, Immediates, WordImmediates, Shifts, Row
<1>5. CASE name = "srliw"
  BY <1>0, <1>5, TableRule DEF Name, Type, IsLoad, Immediates, WordImmediates, Shifts, Row
<1>6. CASE name = "sraiw"
  BY <1>0, <1>6, TableRule DEF Name, Type, IsLoad, Immediates, WordImmediates, Shifts, Row
<1>. QED  BY <1>1, <1>2, <1>3, <1>4, <1>5, <1>6 DEF ShiftNames

\* Operations with an immediate, loads and jalr.
LEMMA INamed ==
  ASSUME NEW name \in INames, NEW w,
         Opcode(w) = RowOf(name).opcode, Funct3(w) = RowOf(name).f3
  PROVE  /\ name \notin {"fence", "ecall"} => Name(w) = name /\ Type(w) = "I_type"
         /\ name = "fence" => Name(w) = "illegal"
         /\ name = "ecall" => Name(w) = name /\ Type(w) = "R_type"
<1>0. RowOf(name) = IFormat[name]
  BY RowOfI
<1>1. CASE name = "jalr"
  BY <1>0, <1>1, TableRule DEF Name, Type, IsLoad, Loads, Immediates, WordImmediates, IFormat, Row
<1>2. CASE name = "lb"
  BY <1>0, <1>2, TableRule DEF Name, Type, IsLoad, Loads, Immediates, WordImmediates, IFormat, Row
<1>3. CASE name = "lh"
  BY <1>0, <1>3, TableRule DEF Name, Type, IsLoad, Loads, Immediates, WordImmediates, IFormat, Row
<1>4. CASE name = "lw"
  BY <1>0, <1>4, TableRule DEF Name, Type, IsLoad, Loads, Immediates, WordImmediates, IFormat, Row
<1>5. CASE name = "ld"
  BY <1>0, <1>5, TableRule DEF Name, Type, IsLoad, Loads, Immediates, WordImmediates, IFormat, Row
<1>6. CASE name = "lbu"
  BY <1>0, <1>6, TableRule DEF Name, Type, IsLoad, Loads, Immediates, WordImmediates, IFormat, Row
<1>7. CASE name = "lhu"
  BY <1>0, <1>7, TableRule DEF Name, Type, IsLoad, Loads, Immediates, WordImmediates, IFormat, Row
<1>8. CASE name = "lwu"
  BY <1>0, <1>8, TableRule DEF Name, Type, IsLoad, Loads, Immediates, WordImmediates, IFormat, Row
<1>9. CASE name = "addi"
  BY <1>0, <1>9, TableRule DEF Name, Type, IsLoad, Loads, Immediates, WordImmediates, IFormat, Row
<1>10. CASE name = "slti"
  BY <1>0, <1>10, TableRule DEF Name, Type, IsLoad, Loads, Immediates, WordImmediates, IFormat, Row
<1>11. CASE name = "sltiu"
  BY <1>0, <1>11, TableRule DEF Name, Type, IsLoad, Loads, Immediates, WordImmediates, IFormat, Row
<1>12. CASE name = "xori"
  BY <1>0, <1>12, TableRule DEF Name, Type, IsLoad, Loads, Immediates, WordImmediates, IFormat, Row
<1>13. CASE name = "ori"
  BY <1>0, <1>13, TableRule DEF Name, Type, IsLoad, Loads, Immediates, WordImmediates, IFormat, Row
<1>14. CASE name = "andi"
  BY <1>0, <1>14, TableRule DEF Name, Type, IsLoad, Loads, Immediates, WordImmediates, IFormat, Row
<1>15. CASE name = "addiw"
  BY <1>0, <1>15, TableRule DEF Name, Type, IsLoad, Loads, Immediates, WordImmediates, IFormat, Row
<1>16. CASE name = "fence"
  BY <1>0, <1>16, TableRule DEF Name, Type, IsLoad, Loads, Immediates, WordImmediates, IFormat, Row
<1>17. CASE name = "ecall"
  BY <1>0, <1>17, TableRule DEF Name, Type, IsLoad, Loads, Immediates, WordImmediates, IFormat, Row
<1>. QED  BY <1>1, <1>2, <1>3, <1>4, <1>5, <1>6, <1>7, <1>8, <1>9, <1>10, <1>11, <1>12,
             <1>13, <1>14, <1>15, <1>16, <1>17 DEF INames

\* Stores.
LEMMA SNamed ==
  ASSUME NEW name \in SNames, NEW w,
         Opcode(w) = RowOf(name).opcode, Funct3(w) = RowOf(name).f3
  PROVE  Name(w) = name /\ Type(w) = "S_type" /\ ~IsLoad(name)
<1>0. RowOf(name) = SFormat[name]
  BY RowOfS
<1>1. CASE name = "sb"
  BY <1>0, <1>1, TableRule DEF Name, Type, IsLoad, Stores, SFormat, Row
<1>2. CASE name = "sh"
  BY <1>0, <1>2, TableRule DEF Name, Type, IsLoad, Stores, SFormat, Row
<1>3. CASE name = "sw"
  BY <1>0, <1>3, TableRule DEF Name, Type, IsLoad, Stores, SFormat, Row
<1>4. CASE name = "sd"
  BY <1>0, <1>4, TableRule DEF Name, Type, IsLoad, Stores, SFormat, Row
<1>. QED  BY <1>1, <1>2, <1>3, <1>4 DEF SNames

\* Branches.
LEMMA BNamed ==
  ASSUME NEW name \in BNames, NEW w,
         Opcode(w) = RowOf(name).opcode, Funct3(w) = RowOf(name).f3
  PROVE  Name(w) = name /\ Type(w) = "SB_type" /\ ~IsLoad(name)
<1>0. RowOf(name) = BFormat[name]
  BY RowOfB
<1>1. CASE name = "beq"
  BY <1>0, <1>1, TableRule DEF Name, Type, IsLoad, Branches, BFormat, Row
<1>2. CASE name = "bne"
  BY <1>0, <1>2, TableRule DEF Name, Type, IsLoad, Branches, BFormat, Row
<1>3. CASE name = "blt"
  BY <1>0, <1>3, TableRule DEF Name, Type, IsLoad, Branches, BFormat, Row
<1>4. CASE name = "bge"
  BY <1>0, <1>4, TableRule DEF Name, Type, IsLoad, Branches, BFormat, Row
<1>5. CASE name = "bltu"
  BY <1>0, <1>5, TableRule DEF Name, Type, IsLoad, Branches, BFormat, Row
<1>6. CASE name = "bgeu"
  BY <1>0, <1>6, TableRule DEF Name, Type, IsLoad, Branches, BFormat, Row
<1>. QED  BY <1>1, <1>2, <1>3, <1>4, <1>5, <1>6 DEF BNames

\* The two instructions with 20 bits of an immediate, and jal.
LEMMA UNamed ==
  ASSUME NEW name \in UNames, NEW w,
         Opcode(w) = RowOf(name).opcode
  PROVE  Name(w) = name /\ Type(w) = "U_type" /\ ~IsLoad(name)
<1>0. RowOf(name) = UFormat[name]
  BY RowOfU
<1>1. CASE name = "lui"
  BY <1>0, <1>1 DEF Name, Type, IsLoad, UFormat, Row
<1>2. CASE name = "auipc"
  BY <1>0, <1>2 DEF Name, Type, IsLoad, UFormat, Row
<1>. QED  BY <1>1, <1>2 DEF UNames

\* jal.
LEMMA JNamed ==
  ASSUME NEW name \in JNames, NEW w,
         Opcode(w) = RowOf(name).opcode
  PROVE  Name(w) = name /\ Type(w) = "UJ_type" /\ ~IsLoad(name)
<1>0. RowOf(name) = JFormat[name]
  BY RowOfJ
<1>1. CASE name = "jal"
  BY <1>0, <1>1 DEF Name, Type, IsLoad, JFormat, Row
<1>. QED  BY <1>1 DEF JNames

-----------------------------------------------------------------------------
(* The fields of a word.                                                   *)

\* The powers that occur as literals.
LEMMA Powers ==
  /\ Pow2[0] = 1 /\ Pow2[1] = 2 /\ Pow2[2] = 4 /\ Pow2[3] = 8 /\ Pow2[4] = 16 /\ Pow2[5] = 32
  /\ Pow2[6] = 64 /\ Pow2[7] = 128 /\ Pow2[8] = 256 /\ Pow2[9] = 512 /\ Pow2[10] = 1024
  /\ Pow2[11] = 2048 /\ Pow2[12] = 4096 /\ Pow2[13] = 8192
<1>1. /\ Pow2[0] = 1 /\ Pow2[1] = 2 /\ Pow2[2] = 4 /\ Pow2[3] = 8 /\ Pow2[4] = 16
      /\ Pow2[5] = 32 /\ Pow2[6] = 64 /\ Pow2[7] = 128
  <2>1. \A n \in Nat : Pow2[n+1] = 2 * Pow2[n]
    BY PowerRule
  <2>2. /\ Pow2[0] = 1 /\ Pow2[0+1] = 2 * Pow2[0] /\ Pow2[1+1] = 2 * Pow2[1]
        /\ Pow2[2+1] = 2 * Pow2[2] /\ Pow2[3+1] = 2 * Pow2[3] /\ Pow2[4+1] = 2 * Pow2[4]
        /\ Pow2[5+1] = 2 * Pow2[5] /\ Pow2[6+1] = 2 * Pow2[6]
    BY <2>1, PowerRule
  <2>. QED  BY <2>2
<1>2. /\ Pow2[4+4] = Pow2[4] * Pow2[4] /\ Pow2[4+5] = Pow2[4] * Pow2[5]
      /\ Pow2[5+5] = Pow2[5] * Pow2[5] /\ Pow2[5+6] = Pow2[5] * Pow2[6]
      /\ Pow2[6+6] = Pow2[6] * Pow2[6] /\ Pow2[6+7] = Pow2[6] * Pow2[7]
  BY PowSum
<1>3. /\ Pow2[8] = 256 /\ Pow2[9] = 512 /\ Pow2[10] = 1024
      /\ Pow2[11] = 2048 /\ Pow2[12] = 4096 /\ Pow2[13] = 8192
  BY <1>1, <1>2
<1>. QED  BY <1>1, <1>3

\* And those of the 20 bits of an immediate.
LEMMA LargePowers ==
  Pow2[19] = 524288 /\ Pow2[20] = 1048576 /\ Pow2[21] = 2097152
<1>1. Pow2[9] = 512 /\ Pow2[10] = 1024 /\ Pow2[11] = 2048
  BY Powers
<1>2. /\ Pow2[9+10] = Pow2[9] * Pow2[10] /\ Pow2[10+10] = Pow2[10] * Pow2[10]
      /\ Pow2[10+11] = Pow2[10] * Pow2[11]
  BY PowSum
<1>. QED  BY <1>1, <1>2

\* The len bits of a word from lo on are those of a number.
Holds(word, lo, len, x) == \A k \in 0 .. len-1 : lo + k \in word <=> Bit(x, k)

\* Field reads the number that a word holds there.
LEMMA FieldHeld ==
  ASSUME NEW word, NEW lo \in Nat, NEW len \in Nat, NEW x \in Int, Holds(word, lo, len, x)
  PROVE  Field(word, lo, len) = x % Pow2[len]
<1>. DEFINE bits == {k \in 0 .. len-1 : lo + k \in word}
<1>1. \A k \in 0 .. len-1 : k \in bits <=> Bit(x, k)
  BY DEF Holds
<1>. HIDE DEF bits
<1>2. Number(bits, len) = x % Pow2[len]
  BY <1>1, NumberOfBits
<1>. QED  BY <1>2 DEF Field, bits

\* The bits of Put and of Slice in a word.
LEMMA InPut ==
  ASSUME NEW p \in Int, NEW x, NEW len \in Nat, NEW at \in Nat
  PROVE  p \in Put(x, len, at) <=> p-at \in 0 .. len-1 /\ Bit(x, p-at)
<1>1. p \in Put(x, len, at) <=> \E k \in Bits(x, len) : p = at + k
  BY DEF Put
<1>2. \A k \in Bits(x, len) : k \in 0 .. len-1 /\ (p = at + k <=> p-at = k)
  BY DEF Bits
<1>3. p \in Put(x, len, at) <=> p-at \in Bits(x, len)
  BY <1>1, <1>2
<1>. QED  BY <1>3, BitsAre

LEMMA InSlice ==
  ASSUME NEW p \in Int, NEW x \in Int, NEW hi \in Nat, NEW lo \in Nat, NEW at \in Nat
  PROVE  p \in Slice(x, hi, lo, at) <=> p-at \in 0 .. hi-lo /\ Bit(x \div Pow2[lo], p-at)
<1>1. \A j \in lo .. hi : j \in Bits(x, hi+1) <=> Bit(x, j)
  BY BitsAre
<1>2. p \in Slice(x, hi, lo, at) <=> \E j \in lo .. hi : j \in Bits(x, hi+1) /\ p = at + j - lo
  BY DEF Slice
<1>3. p \in Slice(x, hi, lo, at) <=> p-at \in 0 .. hi-lo /\ Bit(x, lo + (p-at))
  BY <1>1, <1>2
<1>. DEFINE k == p-at
<1>4. k \in 0 .. hi-lo => (Bit(x \div Pow2[lo], k) <=> Bit(x, lo + k))
  <2>. HIDE DEF k
  <2>. QED  BY BitOfQuotient
<1>. QED  BY <1>3, <1>4

\* What the assembler puts where in a word, one format after another.
LEMMA EncodedR ==
  ASSUME NEW i \in Instruction, i.name \in RNames
  PROVE  LET w == Encode(i)
         IN  /\ Holds(w, 0, 7, RowOf(i.name).opcode) /\ Holds(w, 12, 3, RowOf(i.name).f3)
             /\ Holds(w, 25, 7, RowOf(i.name).f7) /\ Holds(w, 7, 5, i.rd)
             /\ Holds(w, 15, 5, i.rs1) /\ Holds(w, 20, 5, i.rs2)
<1>1. Encode(i) = Put(RowOf(i.name).opcode, 7, 0) \cup
            (Put(RowOf(i.name).f3, 3, 12) \cup Put(RowOf(i.name).f7, 7, 25) \cup Put(i.rd, 5, 7)
             \cup Put(i.rs1, 5, 15) \cup Put(i.rs2, 5, 20))
  <2>1. /\ i.name \in DOMAIN RFormat
        /\ ~(i.name \in DOMAIN Shifts) /\ ~(i.name \in DOMAIN IFormat) /\ ~(i.name \in DOMAIN SFormat)
        /\ ~(i.name \in DOMAIN BFormat) /\ ~(i.name \in DOMAIN UFormat) /\ ~(i.name \in DOMAIN JFormat)
    BY RowOfR
  <2>. QED  BY <2>1 DEF Encode
<1>2. i.imm \in Int
  BY DEF Instruction
<1>. DEFINE row == RowOf(i.name)
            w == Encode(i)
<1>. HIDE DEF row, w
<1>3. ASSUME NEW p \in Int
      PROVE  p \in w <=> \/ p-0 \in 0 .. 6 /\ Bit(row.opcode, p-0)
                         \/ p-12 \in 0 .. 2 /\ Bit(row.f3, p-12)
                         \/ p-25 \in 0 .. 6 /\ Bit(row.f7, p-25)
                         \/ p-7 \in 0 .. 4 /\ Bit(i.rd, p-7)
                         \/ p-15 \in 0 .. 4 /\ Bit(i.rs1, p-15)
                         \/ p-20 \in 0 .. 4 /\ Bit(i.rs2, p-20)
  <2>1. /\ p \in Put(row.opcode, 7, 0) <=> p-0 \in 0 .. 6 /\ Bit(row.opcode, p-0)
        /\ p \in Put(row.f3, 3, 12) <=> p-12 \in 0 .. 2 /\ Bit(row.f3, p-12)
        /\ p \in Put(row.f7, 7, 25) <=> p-25 \in 0 .. 6 /\ Bit(row.f7, p-25)
        /\ p \in Put(i.rd, 5, 7) <=> p-7 \in 0 .. 4 /\ Bit(i.rd, p-7)
        /\ p \in Put(i.rs1, 5, 15) <=> p-15 \in 0 .. 4 /\ Bit(i.rs1, p-15)
        /\ p \in Put(i.rs2, 5, 20) <=> p-20 \in 0 .. 4 /\ Bit(i.rs2, p-20)
    BY InPut
  <2>. QED  BY <1>1, <1>2, <2>1 DEF row, w
<1>. QED  BY <1>3 DEF Holds, row, w

LEMMA EncodedShift ==
  ASSUME NEW i \in Instruction, i.name \in ShiftNames
  PROVE  LET w == Encode(i)
         IN  /\ Holds(w, 0, 7, RowOf(i.name).opcode) /\ Holds(w, 12, 3, RowOf(i.name).f3)
             /\ Holds(w, 7, 5, i.rd) /\ Holds(w, 15, 5, i.rs1)
             /\ \A p \in 20 .. 31 : p \in w <=> (\/ p <= 25 /\ Bit(i.imm, p-20)
                                                 \/ p >= 25 /\ Bit(RowOf(i.name).f7, p-25))
<1>1. Encode(i) = Put(RowOf(i.name).opcode, 7, 0) \cup
            (Put(RowOf(i.name).f3, 3, 12) \cup Put(RowOf(i.name).f7, 7, 25) \cup Put(i.rd, 5, 7)
             \cup Put(i.rs1, 5, 15) \cup Put(i.imm, 6, 20))
  <2>1. /\ i.name \in DOMAIN Shifts
        /\ ~(i.name \in DOMAIN RFormat) /\ ~(i.name \in DOMAIN IFormat) /\ ~(i.name \in DOMAIN SFormat)
        /\ ~(i.name \in DOMAIN BFormat) /\ ~(i.name \in DOMAIN UFormat) /\ ~(i.name \in DOMAIN JFormat)
    BY RowOfShift
  <2>. QED  BY <2>1 DEF Encode
<1>2. i.imm \in Int
  BY DEF Instruction
<1>. DEFINE row == RowOf(i.name)
            w == Encode(i)
<1>. HIDE DEF row, w
<1>3. ASSUME NEW p \in Int
      PROVE  p \in w <=> \/ p-0 \in 0 .. 6 /\ Bit(row.opcode, p-0)
                         \/ p-12 \in 0 .. 2 /\ Bit(row.f3, p-12)
                         \/ p-25 \in 0 .. 6 /\ Bit(row.f7, p-25)
                         \/ p-7 \in 0 .. 4 /\ Bit(i.rd, p-7)
                         \/ p-15 \in 0 .. 4 /\ Bit(i.rs1, p-15)
                         \/ p-20 \in 0 .. 5 /\ Bit(i.imm, p-20)
  <2>1. /\ p \in Put(row.opcode, 7, 0) <=> p-0 \in 0 .. 6 /\ Bit(row.opcode, p-0)
        /\ p \in Put(row.f3, 3, 12) <=> p-12 \in 0 .. 2 /\ Bit(row.f3, p-12)
        /\ p \in Put(row.f7, 7, 25) <=> p-25 \in 0 .. 6 /\ Bit(row.f7, p-25)
        /\ p \in Put(i.rd, 5, 7) <=> p-7 \in 0 .. 4 /\ Bit(i.rd, p-7)
        /\ p \in Put(i.rs1, 5, 15) <=> p-15 \in 0 .. 4 /\ Bit(i.rs1, p-15)
        /\ p \in Put(i.imm, 6, 20) <=> p-20 \in 0 .. 5 /\ Bit(i.imm, p-20)
    BY InPut
  <2>. QED  BY <1>1, <1>2, <2>1 DEF row, w
<1>. QED  BY <1>3 DEF Holds, row, w

LEMMA EncodedI ==
  ASSUME NEW i \in Instruction, i.name \in INames
  PROVE  LET w == Encode(i)
         IN  /\ Holds(w, 0, 7, RowOf(i.name).opcode) /\ Holds(w, 12, 3, RowOf(i.name).f3)
             /\ Holds(w, 7, 5, i.rd) /\ Holds(w, 15, 5, i.rs1)
             /\ Holds(w, 20, 12, i.imm \div Pow2[0])
<1>1. Encode(i) = Put(RowOf(i.name).opcode, 7, 0) \cup
            (Put(RowOf(i.name).f3, 3, 12) \cup Put(i.rd, 5, 7) \cup Put(i.rs1, 5, 15)
             \cup Slice(i.imm, 11, 0, 20))
  <2>1. /\ i.name \in DOMAIN IFormat
        /\ ~(i.name \in DOMAIN RFormat) /\ ~(i.name \in DOMAIN Shifts) /\ ~(i.name \in DOMAIN SFormat)
        /\ ~(i.name \in DOMAIN BFormat) /\ ~(i.name \in DOMAIN UFormat) /\ ~(i.name \in DOMAIN JFormat)
    BY RowOfI
  <2>. QED  BY <2>1 DEF Encode
<1>2. i.imm \in Int
  BY DEF Instruction
<1>. DEFINE row == RowOf(i.name)
            w == Encode(i)
<1>. HIDE DEF row, w
<1>3. ASSUME NEW p \in Int
      PROVE  p \in w <=> \/ p-0 \in 0 .. 6 /\ Bit(row.opcode, p-0)
                         \/ p-12 \in 0 .. 2 /\ Bit(row.f3, p-12)
                         \/ p-7 \in 0 .. 4 /\ Bit(i.rd, p-7)
                         \/ p-15 \in 0 .. 4 /\ Bit(i.rs1, p-15)
                         \/ p-20 \in 0 .. 11 /\ Bit(i.imm \div Pow2[0], p-20)
  <2>1. /\ p \in Put(row.opcode, 7, 0) <=> p-0 \in 0 .. 6 /\ Bit(row.opcode, p-0)
        /\ p \in Put(row.f3, 3, 12) <=> p-12 \in 0 .. 2 /\ Bit(row.f3, p-12)
        /\ p \in Put(i.rd, 5, 7) <=> p-7 \in 0 .. 4 /\ Bit(i.rd, p-7)
        /\ p \in Put(i.rs1, 5, 15) <=> p-15 \in 0 .. 4 /\ Bit(i.rs1, p-15)
    BY InPut
  <2>2. ASSUME NEW x \in Int
        PROVE  /\ p \in Slice(x, 11, 0, 20) <=> p-20 \in 0 .. 11-0 /\ Bit(x \div Pow2[0], p-20)
    <3>1. p \in Slice(x, 11, 0, 20) <=> p-20 \in 0 .. 11-0 /\ Bit(x \div Pow2[0], p-20)
      BY InSlice
    <3>. QED  BY <3>1
  <2>. QED  BY <1>1, <1>2, <2>1, <2>2 DEF row, w
<1>. QED  BY <1>3 DEF Holds, row, w

LEMMA EncodedS ==
  ASSUME NEW i \in Instruction, i.name \in SNames
  PROVE  LET w == Encode(i)
         IN  /\ Holds(w, 0, 7, RowOf(i.name).opcode) /\ Holds(w, 12, 3, RowOf(i.name).f3)
             /\ Holds(w, 15, 5, i.rs1) /\ Holds(w, 20, 5, i.rs2)
             /\ Holds(w, 7, 5, i.imm \div Pow2[0]) /\ Holds(w, 25, 7, i.imm \div Pow2[5])
<1>1. Encode(i) = Put(RowOf(i.name).opcode, 7, 0) \cup
            (Put(RowOf(i.name).f3, 3, 12) \cup Put(i.rs1, 5, 15) \cup Put(i.rs2, 5, 20)
             \cup Slice(i.imm, 4, 0, 7) \cup Slice(i.imm, 11, 5, 25))
  <2>1. /\ i.name \in DOMAIN SFormat
        /\ ~(i.name \in DOMAIN RFormat) /\ ~(i.name \in DOMAIN Shifts) /\ ~(i.name \in DOMAIN IFormat)
        /\ ~(i.name \in DOMAIN BFormat) /\ ~(i.name \in DOMAIN UFormat) /\ ~(i.name \in DOMAIN JFormat)
    BY RowOfS
  <2>. QED  BY <2>1 DEF Encode
<1>2. i.imm \in Int
  BY DEF Instruction
<1>. DEFINE row == RowOf(i.name)
            w == Encode(i)
<1>. HIDE DEF row, w
<1>3. ASSUME NEW p \in Int
      PROVE  p \in w <=> \/ p-0 \in 0 .. 6 /\ Bit(row.opcode, p-0)
                         \/ p-12 \in 0 .. 2 /\ Bit(row.f3, p-12)
                         \/ p-15 \in 0 .. 4 /\ Bit(i.rs1, p-15)
                         \/ p-20 \in 0 .. 4 /\ Bit(i.rs2, p-20)
                         \/ p-7 \in 0 .. 4 /\ Bit(i.imm \div Pow2[0], p-7)
                         \/ p-25 \in 0 .. 6 /\ Bit(i.imm \div Pow2[5], p-25)
  <2>1. /\ p \in Put(row.opcode, 7, 0) <=> p-0 \in 0 .. 6 /\ Bit(row.opcode, p-0)
        /\ p \in Put(row.f3, 3, 12) <=> p-12 \in 0 .. 2 /\ Bit(row.f3, p-12)
        /\ p \in Put(i.rs1, 5, 15) <=> p-15 \in 0 .. 4 /\ Bit(i.rs1, p-15)
        /\ p \in Put(i.rs2, 5, 20) <=> p-20 \in 0 .. 4 /\ Bit(i.rs2, p-20)
    BY InPut
  <2>2. ASSUME NEW x \in Int
        PROVE  /\ p \in Slice(x, 4, 0, 7) <=> p-7 \in 0 .. 4-0 /\ Bit(x \div Pow2[0], p-7)
               /\ p \in Slice(x, 11, 5, 25) <=> p-25 \in 0 .. 11-5 /\ Bit(x \div Pow2[5], p-25)
    <3>1. p \in Slice(x, 4, 0, 7) <=> p-7 \in 0 .. 4-0 /\ Bit(x \div Pow2[0], p-7)
      BY InSlice
    <3>2. p \in Slice(x, 11, 5, 25) <=> p-25 \in 0 .. 11-5 /\ Bit(x \div Pow2[5], p-25)
      BY InSlice
    <3>. QED  BY <3>1, <3>2
  <2>. QED  BY <1>1, <1>2, <2>1, <2>2 DEF row, w
<1>. QED  BY <1>3 DEF Holds, row, w

LEMMA EncodedB ==
  ASSUME NEW i \in Instruction, i.name \in BNames
  PROVE  LET w == Encode(i)
         IN  /\ Holds(w, 0, 7, RowOf(i.name).opcode) /\ Holds(w, 12, 3, RowOf(i.name).f3)
             /\ Holds(w, 15, 5, i.rs1) /\ Holds(w, 20, 5, i.rs2)
             /\ Holds(w, 8, 4, i.imm \div Pow2[1]) /\ Holds(w, 25, 6, i.imm \div Pow2[5])
             /\ Holds(w, 7, 1, i.imm \div Pow2[11]) /\ Holds(w, 31, 1, i.imm \div Pow2[12])
<1>1. Encode(i) = Put(RowOf(i.name).opcode, 7, 0) \cup
            (Put(RowOf(i.name).f3, 3, 12) \cup Put(i.rs1, 5, 15) \cup Put(i.rs2, 5, 20)
             \cup Slice(i.imm, 4, 1, 8) \cup Slice(i.imm, 10, 5, 25)
             \cup Slice(i.imm, 11, 11, 7) \cup Slice(i.imm, 12, 12, 31))
  <2>1. /\ i.name \in DOMAIN BFormat
        /\ ~(i.name \in DOMAIN RFormat) /\ ~(i.name \in DOMAIN Shifts) /\ ~(i.name \in DOMAIN IFormat)
        /\ ~(i.name \in DOMAIN SFormat) /\ ~(i.name \in DOMAIN UFormat) /\ ~(i.name \in DOMAIN JFormat)
    BY RowOfB
  <2>. QED  BY <2>1 DEF Encode
<1>2. i.imm \in Int
  BY DEF Instruction
<1>. DEFINE row == RowOf(i.name)
            w == Encode(i)
<1>. HIDE DEF row, w
<1>3. ASSUME NEW p \in Int
      PROVE  p \in w <=> \/ p-0 \in 0 .. 6 /\ Bit(row.opcode, p-0)
                         \/ p-12 \in 0 .. 2 /\ Bit(row.f3, p-12)
                         \/ p-15 \in 0 .. 4 /\ Bit(i.rs1, p-15)
                         \/ p-20 \in 0 .. 4 /\ Bit(i.rs2, p-20)
                         \/ p-8 \in 0 .. 3 /\ Bit(i.imm \div Pow2[1], p-8)
                         \/ p-25 \in 0 .. 5 /\ Bit(i.imm \div Pow2[5], p-25)
                         \/ p-7 \in 0 .. 0 /\ Bit(i.imm \div Pow2[11], p-7)
                         \/ p-31 \in 0 .. 0 /\ Bit(i.imm \div Pow2[12], p-31)
  <2>1. /\ p \in Put(row.opcode, 7, 0) <=> p-0 \in 0 .. 6 /\ Bit(row.opcode, p-0)
        /\ p \in Put(row.f3, 3, 12) <=> p-12 \in 0 .. 2 /\ Bit(row.f3, p-12)
        /\ p \in Put(i.rs1, 5, 15) <=> p-15 \in 0 .. 4 /\ Bit(i.rs1, p-15)
        /\ p \in Put(i.rs2, 5, 20) <=> p-20 \in 0 .. 4 /\ Bit(i.rs2, p-20)
    BY InPut
  <2>2. ASSUME NEW x \in Int
        PROVE  /\ p \in Slice(x, 4, 1, 8) <=> p-8 \in 0 .. 4-1 /\ Bit(x \div Pow2[1], p-8)
               /\ p \in Slice(x, 10, 5, 25) <=> p-25 \in 0 .. 10-5 /\ Bit(x \div Pow2[5], p-25)
               /\ p \in Slice(x, 11, 11, 7) <=> p-7 \in 0 .. 11-11 /\ Bit(x \div Pow2[11], p-7)
               /\ p \in Slice(x, 12, 12, 31) <=> p-31 \in 0 .. 12-12 /\ Bit(x \div Pow2[12], p-31)
    <3>1. p \in Slice(x, 4, 1, 8) <=> p-8 \in 0 .. 4-1 /\ Bit(x \div Pow2[1], p-8)
      BY InSlice
    <3>2. p \in Slice(x, 10, 5, 25) <=> p-25 \in 0 .. 10-5 /\ Bit(x \div Pow2[5], p-25)
      BY InSlice
    <3>3. p \in Slice(x, 11, 11, 7) <=> p-7 \in 0 .. 11-11 /\ Bit(x \div Pow2[11], p-7)
      BY InSlice
    <3>4. p \in Slice(x, 12, 12, 31) <=> p-31 \in 0 .. 12-12 /\ Bit(x \div Pow2[12], p-31)
      BY InSlice
    <3>. QED  BY <3>1, <3>2, <3>3, <3>4
  <2>. QED  BY <1>1, <1>2, <2>1, <2>2 DEF row, w
<1>. QED  BY <1>3 DEF Holds, row, w

LEMMA EncodedU ==
  ASSUME NEW i \in Instruction, i.name \in UNames
  PROVE  LET w == Encode(i)
         IN  /\ Holds(w, 0, 7, RowOf(i.name).opcode) /\ Holds(w, 7, 5, i.rd)
             /\ Holds(w, 12, 20, i.imm \div 4096)
<1>1. Encode(i) = Put(RowOf(i.name).opcode, 7, 0) \cup
            (Put(i.rd, 5, 7) \cup Put(i.imm \div 4096, 20, 12))
  <2>1. /\ i.name \in DOMAIN UFormat
        /\ ~(i.name \in DOMAIN RFormat) /\ ~(i.name \in DOMAIN Shifts) /\ ~(i.name \in DOMAIN IFormat)
        /\ ~(i.name \in DOMAIN SFormat) /\ ~(i.name \in DOMAIN BFormat) /\ ~(i.name \in DOMAIN JFormat)
    BY RowOfU
  <2>. QED  BY <2>1 DEF Encode
<1>2. i.imm \in Int
  BY DEF Instruction
<1>. DEFINE row == RowOf(i.name)
            w == Encode(i)
<1>. HIDE DEF row, w
<1>3. ASSUME NEW p \in Int
      PROVE  p \in w <=> \/ p-0 \in 0 .. 6 /\ Bit(row.opcode, p-0)
                         \/ p-7 \in 0 .. 4 /\ Bit(i.rd, p-7)
                         \/ p-12 \in 0 .. 19 /\ Bit(i.imm \div 4096, p-12)
  <2>1. /\ p \in Put(row.opcode, 7, 0) <=> p-0 \in 0 .. 6 /\ Bit(row.opcode, p-0)
        /\ p \in Put(i.rd, 5, 7) <=> p-7 \in 0 .. 4 /\ Bit(i.rd, p-7)
    BY InPut
  <2>. DEFINE upper == i.imm \div 4096
  <2>2. p \in Put(upper, 20, 12) <=> p-12 \in 0 .. 19 /\ Bit(upper, p-12)
    <3>. HIDE DEF upper
    <3>. QED  BY InPut
  <2>. QED  BY <1>1, <1>2, <2>1, <2>2 DEF row, w
<1>. QED  BY <1>3 DEF Holds, row, w

LEMMA EncodedJ ==
  ASSUME NEW i \in Instruction, i.name \in JNames
  PROVE  LET w == Encode(i)
         IN  /\ Holds(w, 0, 7, RowOf(i.name).opcode) /\ Holds(w, 7, 5, i.rd)
             /\ Holds(w, 21, 10, i.imm \div Pow2[1]) /\ Holds(w, 20, 1, i.imm \div Pow2[11])
             /\ Holds(w, 12, 8, i.imm \div Pow2[12]) /\ Holds(w, 31, 1, i.imm \div Pow2[20])
<1>1. Encode(i) = Put(RowOf(i.name).opcode, 7, 0) \cup
            (Put(i.rd, 5, 7) \cup Slice(i.imm, 10, 1, 21) \cup Slice(i.imm, 11, 11, 20)
             \cup Slice(i.imm, 19, 12, 12) \cup Slice(i.imm, 20, 20, 31))
  <2>1. /\ i.name \in DOMAIN JFormat
        /\ ~(i.name \in DOMAIN RFormat) /\ ~(i.name \in DOMAIN Shifts) /\ ~(i.name \in DOMAIN IFormat)
        /\ ~(i.name \in DOMAIN SFormat) /\ ~(i.name \in DOMAIN BFormat) /\ ~(i.name \in DOMAIN UFormat)
    BY RowOfJ
  <2>. QED  BY <2>1 DEF Encode
<1>2. i.imm \in Int
  BY DEF Instruction
<1>. DEFINE row == RowOf(i.name)
            w == Encode(i)
<1>. HIDE DEF row, w
<1>3. ASSUME NEW p \in Int
      PROVE  p \in w <=> \/ p-0 \in 0 .. 6 /\ Bit(row.opcode, p-0)
                         \/ p-7 \in 0 .. 4 /\ Bit(i.rd, p-7)
                         \/ p-21 \in 0 .. 9 /\ Bit(i.imm \div Pow2[1], p-21)
                         \/ p-20 \in 0 .. 0 /\ Bit(i.imm \div Pow2[11], p-20)
                         \/ p-12 \in 0 .. 7 /\ Bit(i.imm \div Pow2[12], p-12)
                         \/ p-31 \in 0 .. 0 /\ Bit(i.imm \div Pow2[20], p-31)
  <2>1. /\ p \in Put(row.opcode, 7, 0) <=> p-0 \in 0 .. 6 /\ Bit(row.opcode, p-0)
        /\ p \in Put(i.rd, 5, 7) <=> p-7 \in 0 .. 4 /\ Bit(i.rd, p-7)
    BY InPut
  <2>2. ASSUME NEW x \in Int
        PROVE  /\ p \in Slice(x, 10, 1, 21) <=> p-21 \in 0 .. 10-1 /\ Bit(x \div Pow2[1], p-21)
               /\ p \in Slice(x, 11, 11, 20) <=> p-20 \in 0 .. 11-11 /\ Bit(x \div Pow2[11], p-20)
               /\ p \in Slice(x, 19, 12, 12) <=> p-12 \in 0 .. 19-12 /\ Bit(x \div Pow2[12], p-12)
               /\ p \in Slice(x, 20, 20, 31) <=> p-31 \in 0 .. 20-20 /\ Bit(x \div Pow2[20], p-31)
    <3>1. p \in Slice(x, 10, 1, 21) <=> p-21 \in 0 .. 10-1 /\ Bit(x \div Pow2[1], p-21)
      BY InSlice
    <3>2. p \in Slice(x, 11, 11, 20) <=> p-20 \in 0 .. 11-11 /\ Bit(x \div Pow2[11], p-20)
      BY InSlice
    <3>3. p \in Slice(x, 19, 12, 12) <=> p-12 \in 0 .. 19-12 /\ Bit(x \div Pow2[12], p-12)
      BY InSlice
    <3>4. p \in Slice(x, 20, 20, 31) <=> p-31 \in 0 .. 20-20 /\ Bit(x \div Pow2[20], p-31)
      BY InSlice
    <3>. QED  BY <3>1, <3>2, <3>3, <3>4
  <2>. QED  BY <1>1, <1>2, <2>1, <2>2 DEF row, w
<1>. QED  BY <1>3 DEF Holds, row, w

\* Opcodes, funct3 and funct7 fit their fields.
LEMMA RangesOfR ==
  ASSUME NEW name \in RNames
  PROVE  RowOf(name).opcode \in {51, 59} /\ RowOf(name).f3 \in 0 .. 7 /\ RowOf(name).f7 \in {0, 1, 32}
<1>1. RowOf(name) = RFormat[name]
  BY RowOfR
<1>. QED  BY <1>1 DEF RNames, RFormat, Row

LEMMA RangesOfShift ==
  ASSUME NEW name \in ShiftNames
  PROVE  RowOf(name).opcode \in {19, 27} /\ RowOf(name).f3 \in 0 .. 7 /\ RowOf(name).f7 \in {0, 32}
<1>1. RowOf(name) = Shifts[name]
  BY RowOfShift
<1>. QED  BY <1>1 DEF ShiftNames, Shifts, Row

LEMMA RangesOfI ==
  ASSUME NEW name \in INames
  PROVE  RowOf(name).opcode \in {103, 3, 19, 27, 15, 115} /\ RowOf(name).f3 \in 0 .. 7
<1>1. RowOf(name) = IFormat[name]
  BY RowOfI
<1>. QED  BY <1>1 DEF INames, IFormat, Row

LEMMA RangesOfS ==
  ASSUME NEW name \in SNames
  PROVE  RowOf(name).opcode = 35 /\ RowOf(name).f3 \in 0 .. 7
<1>1. RowOf(name) = SFormat[name]
  BY RowOfS
<1>. QED  BY <1>1 DEF SNames, SFormat, Row

LEMMA RangesOfB ==
  ASSUME NEW name \in BNames
  PROVE  RowOf(name).opcode = 99 /\ RowOf(name).f3 \in 0 .. 7
<1>1. RowOf(name) = BFormat[name]
  BY RowOfB
<1>. QED  BY <1>1 DEF BNames, BFormat, Row

LEMMA RangesOfU ==
  ASSUME NEW name \in UNames
  PROVE  RowOf(name).opcode \in {55, 23}
<1>1. RowOf(name) = UFormat[name]
  BY RowOfU
<1>. QED  BY <1>1 DEF UNames, UFormat, Row

LEMMA RangesOfJ ==
  ASSUME NEW name \in JNames
  PROVE  RowOf(name).opcode = 111
<1>1. RowOf(name) = JFormat[name]
  BY RowOfJ
<1>. QED  BY <1>1 DEF JNames, JFormat, Row

\* What maskInstr reads from such a word.
LEMMA FieldsR ==
  ASSUME NEW i \in Instruction, i.name \in RNames
  PROVE  LET w   == Encode(i)
             row == RowOf(i.name)
         IN  /\ Opcode(w) = row.opcode /\ Funct3(w) = row.f3 /\ Funct7(w) = row.f7
             /\ Rd(w) = i.rd /\ Rs1(w) = i.rs1 /\ Rs2(w) = i.rs2
<1>. DEFINE w == Encode(i)
            row == RowOf(i.name)
<1>1. /\ row.opcode \in 0 .. 127 /\ row.f3 \in 0 .. 7 /\ row.f7 \in 0 .. 127
      /\ i.rd \in 0 .. 31 /\ i.rs1 \in 0 .. 31 /\ i.rs2 \in 0 .. 31 /\ i.imm \in Int
  BY RangesOfR DEF Instruction, RegNum
<1>2. Opcode(w) = row.opcode
  <2>. DEFINE x == row.opcode
  <2>1. x \in Int
    BY <1>1, PowerRule
  <2>2. Holds(w, 0, 7, x)
    BY EncodedR
  <2>. HIDE DEF x, w, row
  <2>3. Field(w, 0, 7) = x % Pow2[7]
    BY <2>1, <2>2, FieldHeld
  <2>. QED  BY <1>1, <2>3, Powers DEF x, Opcode
<1>3. Funct3(w) = row.f3
  <2>. DEFINE x == row.f3
  <2>1. x \in Int
    BY <1>1, PowerRule
  <2>2. Holds(w, 12, 3, x)
    BY EncodedR
  <2>. HIDE DEF x, w, row
  <2>3. Field(w, 12, 3) = x % Pow2[3]
    BY <2>1, <2>2, FieldHeld
  <2>. QED  BY <1>1, <2>3, Powers DEF x, Funct3
<1>4. Funct7(w) = row.f7
  <2>. DEFINE x == row.f7
  <2>1. x \in Int
    BY <1>1, PowerRule
  <2>2. Holds(w, 25, 7, x)
    BY EncodedR
  <2>. HIDE DEF x, w, row
  <2>3. Field(w, 25, 7) = x % Pow2[7]
    BY <2>1, <2>2, FieldHeld
  <2>. QED  BY <1>1, <2>3, Powers DEF x, Funct7
<1>5. Rd(w) = i.rd
  <2>. DEFINE x == i.rd
  <2>1. x \in Int
    BY <1>1, PowerRule
  <2>2. Holds(w, 7, 5, x)
    BY EncodedR
  <2>. HIDE DEF x, w, row
  <2>3. Field(w, 7, 5) = x % Pow2[5]
    BY <2>1, <2>2, FieldHeld
  <2>. QED  BY <1>1, <2>3, Powers DEF x, Rd
<1>6. Rs1(w) = i.rs1
  <2>. DEFINE x == i.rs1
  <2>1. x \in Int
    BY <1>1, PowerRule
  <2>2. Holds(w, 15, 5, x)
    BY EncodedR
  <2>. HIDE DEF x, w, row
  <2>3. Field(w, 15, 5) = x % Pow2[5]
    BY <2>1, <2>2, FieldHeld
  <2>. QED  BY <1>1, <2>3, Powers DEF x, Rs1
<1>7. Rs2(w) = i.rs2
  <2>. DEFINE x == i.rs2
  <2>1. x \in Int
    BY <1>1, PowerRule
  <2>2. Holds(w, 20, 5, x)
    BY EncodedR
  <2>. HIDE DEF x, w, row
  <2>3. Field(w, 20, 5) = x % Pow2[5]
    BY <2>1, <2>2, FieldHeld
  <2>. QED  BY <1>1, <2>3, Powers DEF x, Rs2
<1>. QED  BY <1>2, <1>3, <1>4, <1>5, <1>6, <1>7

LEMMA FieldsI ==
  ASSUME NEW i \in Instruction, i.name \in INames
  PROVE  LET w   == Encode(i)
             row == RowOf(i.name)
         IN  /\ Opcode(w) = row.opcode /\ Funct3(w) = row.f3 /\ Rd(w) = i.rd
             /\ Rs1(w) = i.rs1 /\ Field(w, 20, 12) = i.imm % 4096
<1>. DEFINE w == Encode(i)
            row == RowOf(i.name)
<1>1. /\ row.opcode \in 0 .. 127 /\ row.f3 \in 0 .. 7
      /\ i.rd \in 0 .. 31 /\ i.rs1 \in 0 .. 31 /\ i.rs2 \in 0 .. 31 /\ i.imm \in Int
  BY RangesOfI DEF Instruction, RegNum
<1>2. Opcode(w) = row.opcode
  <2>. DEFINE x == row.opcode
  <2>1. x \in Int
    BY <1>1, PowerRule
  <2>2. Holds(w, 0, 7, x)
    BY EncodedI
  <2>. HIDE DEF x, w, row
  <2>3. Field(w, 0, 7) = x % Pow2[7]
    BY <2>1, <2>2, FieldHeld
  <2>. QED  BY <1>1, <2>3, Powers DEF x, Opcode
<1>3. Funct3(w) = row.f3
  <2>. DEFINE x == row.f3
  <2>1. x \in Int
    BY <1>1, PowerRule
  <2>2. Holds(w, 12, 3, x)
    BY EncodedI
  <2>. HIDE DEF x, w, row
  <2>3. Field(w, 12, 3) = x % Pow2[3]
    BY <2>1, <2>2, FieldHeld
  <2>. QED  BY <1>1, <2>3, Powers DEF x, Funct3
<1>4. Rd(w) = i.rd
  <2>. DEFINE x == i.rd
  <2>1. x \in Int
    BY <1>1, PowerRule
  <2>2. Holds(w, 7, 5, x)
    BY EncodedI
  <2>. HIDE DEF x, w, row
  <2>3. Field(w, 7, 5) = x % Pow2[5]
    BY <2>1, <2>2, FieldHeld
  <2>. QED  BY <1>1, <2>3, Powers DEF x, Rd
<1>5. Rs1(w) = i.rs1
  <2>. DEFINE x == i.rs1
  <2>1. x \in Int
    BY <1>1, PowerRule
  <2>2. Holds(w, 15, 5, x)
    BY EncodedI
  <2>. HIDE DEF x, w, row
  <2>3. Field(w, 15, 5) = x % Pow2[5]
    BY <2>1, <2>2, FieldHeld
  <2>. QED  BY <1>1, <2>3, Powers DEF x, Rs1
<1>6. Field(w, 20, 12) = i.imm % 4096
  <2>. DEFINE x == i.imm \div Pow2[0]
  <2>1. x \in Int
    BY <1>1, PowerRule
  <2>2. Holds(w, 20, 12, x)
    BY EncodedI
  <2>. HIDE DEF x, w, row
  <2>3. Field(w, 20, 12) = x % Pow2[12]
    BY <2>1, <2>2, FieldHeld
  <2>. QED  BY <1>1, <2>3, Powers DEF x
<1>. QED  BY <1>2, <1>3, <1>4, <1>5, <1>6

LEMMA FieldsS ==
  ASSUME NEW i \in Instruction, i.name \in SNames
  PROVE  LET w   == Encode(i)
             row == RowOf(i.name)
         IN  /\ Opcode(w) = row.opcode /\ Funct3(w) = row.f3 /\ Rs1(w) = i.rs1
             /\ Rs2(w) = i.rs2 /\ Rd(w) = i.imm % 32 /\ Funct7(w) = (i.imm \div 32) % 128
<1>. DEFINE w == Encode(i)
            row == RowOf(i.name)
<1>1. /\ row.opcode \in 0 .. 127 /\ row.f3 \in 0 .. 7
      /\ i.rd \in 0 .. 31 /\ i.rs1 \in 0 .. 31 /\ i.rs2 \in 0 .. 31 /\ i.imm \in Int
  BY RangesOfS DEF Instruction, RegNum
<1>2. Opcode(w) = row.opcode
  <2>. DEFINE x == row.opcode
  <2>1. x \in Int
    BY <1>1, PowerRule
  <2>2. Holds(w, 0, 7, x)
    BY EncodedS
  <2>. HIDE DEF x, w, row
  <2>3. Field(w, 0, 7) = x % Pow2[7]
    BY <2>1, <2>2, FieldHeld
  <2>. QED  BY <1>1, <2>3, Powers DEF x, Opcode
<1>3. Funct3(w) = row.f3
  <2>. DEFINE x == row.f3
  <2>1. x \in Int
    BY <1>1, PowerRule
  <2>2. Holds(w, 12, 3, x)
    BY EncodedS
  <2>. HIDE DEF x, w, row
  <2>3. Field(w, 12, 3) = x % Pow2[3]
    BY <2>1, <2>2, FieldHeld
  <2>. QED  BY <1>1, <2>3, Powers DEF x, Funct3
<1>4. Rs1(w) = i.rs1
  <2>. DEFINE x == i.rs1
  <2>1. x \in Int
    BY <1>1, PowerRule
  <2>2. Holds(w, 15, 5, x)
    BY EncodedS
  <2>. HIDE DEF x, w, row
  <2>3. Field(w, 15, 5) = x % Pow2[5]
    BY <2>1, <2>2, FieldHeld
  <2>. QED  BY <1>1, <2>3, Powers DEF x, Rs1
<1>5. Rs2(w) = i.rs2
  <2>. DEFINE x == i.rs2
  <2>1. x \in Int
    BY <1>1, PowerRule
  <2>2. Holds(w, 20, 5, x)
    BY EncodedS
  <2>. HIDE DEF x, w, row
  <2>3. Field(w, 20, 5) = x % Pow2[5]
    BY <2>1, <2>2, FieldHeld
  <2>. QED  BY <1>1, <2>3, Powers DEF x, Rs2
<1>6. Rd(w) = i.imm % 32
  <2>. DEFINE x == i.imm \div Pow2[0]
  <2>1. x \in Int
    BY <1>1, PowerRule
  <2>2. Holds(w, 7, 5, x)
    BY EncodedS
  <2>. HIDE DEF x, w, row
  <2>3. Field(w, 7, 5) = x % Pow2[5]
    BY <2>1, <2>2, FieldHeld
  <2>. QED  BY <1>1, <2>3, Powers DEF x, Rd
<1>7. Funct7(w) = (i.imm \div 32) % 128
  <2>. DEFINE x == i.imm \div Pow2[5]
  <2>1. x \in Int
    BY <1>1, PowerRule
  <2>2. Holds(w, 25, 7, x)
    BY EncodedS
  <2>. HIDE DEF x, w, row
  <2>3. Field(w, 25, 7) = x % Pow2[7]
    BY <2>1, <2>2, FieldHeld
  <2>. QED  BY <1>1, <2>3, Powers DEF x, Funct7
<1>. QED  BY <1>2, <1>3, <1>4, <1>5, <1>6, <1>7

LEMMA FieldsB ==
  ASSUME NEW i \in Instruction, i.name \in BNames
  PROVE  LET w   == Encode(i)
             row == RowOf(i.name)
         IN  /\ Opcode(w) = row.opcode /\ Funct3(w) = row.f3 /\ Rs1(w) = i.rs1
             /\ Rs2(w) = i.rs2 /\ Field(w, 8, 4) = (i.imm \div 2) % 16 /\ Field(w, 25, 6) = (i.imm \div 32) % 64
             /\ Field(w, 7, 1) = (i.imm \div 2048) % 2 /\ Field(w, 31, 1) = (i.imm \div 4096) % 2
<1>. DEFINE w == Encode(i)
            row == RowOf(i.name)
<1>1. /\ row.opcode \in 0 .. 127 /\ row.f3 \in 0 .. 7
      /\ i.rd \in 0 .. 31 /\ i.rs1 \in 0 .. 31 /\ i.rs2 \in 0 .. 31 /\ i.imm \in Int
  BY RangesOfB DEF Instruction, RegNum
<1>2. Opcode(w) = row.opcode
  <2>. DEFINE x == row.opcode
  <2>1. x \in Int
    BY <1>1, PowerRule
  <2>2. Holds(w, 0, 7, x)
    BY EncodedB
  <2>. HIDE DEF x, w, row
  <2>3. Field(w, 0, 7) = x % Pow2[7]
    BY <2>1, <2>2, FieldHeld
  <2>. QED  BY <1>1, <2>3, Powers DEF x, Opcode
<1>3. Funct3(w) = row.f3
  <2>. DEFINE x == row.f3
  <2>1. x \in Int
    BY <1>1, PowerRule
  <2>2. Holds(w, 12, 3, x)
    BY EncodedB
  <2>. HIDE DEF x, w, row
  <2>3. Field(w, 12, 3) = x % Pow2[3]
    BY <2>1, <2>2, FieldHeld
  <2>. QED  BY <1>1, <2>3, Powers DEF x, Funct3
<1>4. Rs1(w) = i.rs1
  <2>. DEFINE x == i.rs1
  <2>1. x \in Int
    BY <1>1, PowerRule
  <2>2. Holds(w, 15, 5, x)
    BY EncodedB
  <2>. HIDE DEF x, w, row
  <2>3. Field(w, 15, 5) = x % Pow2[5]
    BY <2>1, <2>2, FieldHeld
  <2>. QED  BY <1>1, <2>3, Powers DEF x, Rs1
<1>5. Rs2(w) = i.rs2
  <2>. DEFINE x == i.rs2
  <2>1. x \in Int
    BY <1>1, PowerRule
  <2>2. Holds(w, 20, 5, x)
    BY EncodedB
  <2>. HIDE DEF x, w, row
  <2>3. Field(w, 20, 5) = x % Pow2[5]
    BY <2>1, <2>2, FieldHeld
  <2>. QED  BY <1>1, <2>3, Powers DEF x, Rs2
<1>6. Field(w, 8, 4) = (i.imm \div 2) % 16
  <2>. DEFINE x == i.imm \div Pow2[1]
  <2>1. x \in Int
    BY <1>1, PowerRule
  <2>2. Holds(w, 8, 4, x)
    BY EncodedB
  <2>. HIDE DEF x, w, row
  <2>3. Field(w, 8, 4) = x % Pow2[4]
    BY <2>1, <2>2, FieldHeld
  <2>. QED  BY <1>1, <2>3, Powers DEF x
<1>7. Field(w, 25, 6) = (i.imm \div 32) % 64
  <2>. DEFINE x == i.imm \div Pow2[5]
  <2>1. x \in Int
    BY <1>1, PowerRule
  <2>2. Holds(w, 25, 6, x)
    BY EncodedB
  <2>. HIDE DEF x, w, row
  <2>3. Field(w, 25, 6) = x % Pow2[6]
    BY <2>1, <2>2, FieldHeld
  <2>. QED  BY <1>1, <2>3, Powers DEF x
<1>8. Field(w, 7, 1) = (i.imm \div 2048) % 2
  <2>. DEFINE x == i.imm \div Pow2[11]
  <2>1. x \in Int
    BY <1>1, PowerRule
  <2>2. Holds(w, 7, 1, x)
    BY EncodedB
  <2>. HIDE DEF x, w, row
  <2>3. Field(w, 7, 1) = x % Pow2[1]
    BY <2>1, <2>2, FieldHeld
  <2>. QED  BY <1>1, <2>3, Powers DEF x
<1>9. Field(w, 31, 1) = (i.imm \div 4096) % 2
  <2>. DEFINE x == i.imm \div Pow2[12]
  <2>1. x \in Int
    BY <1>1, PowerRule
  <2>2. Holds(w, 31, 1, x)
    BY EncodedB
  <2>. HIDE DEF x, w, row
  <2>3. Field(w, 31, 1) = x % Pow2[1]
    BY <2>1, <2>2, FieldHeld
  <2>. QED  BY <1>1, <2>3, Powers DEF x
<1>. QED  BY <1>2, <1>3, <1>4, <1>5, <1>6, <1>7, <1>8, <1>9

LEMMA FieldsU ==
  ASSUME NEW i \in Instruction, i.name \in UNames
  PROVE  LET w   == Encode(i)
             row == RowOf(i.name)
         IN  /\ Opcode(w) = row.opcode /\ Rd(w) = i.rd /\ Field(w, 12, 20) = (i.imm \div 4096) % Pow2[20]
<1>. DEFINE w == Encode(i)
            row == RowOf(i.name)
<1>1. /\ row.opcode \in 0 .. 127
      /\ i.rd \in 0 .. 31 /\ i.rs1 \in 0 .. 31 /\ i.rs2 \in 0 .. 31 /\ i.imm \in Int
  BY RangesOfU DEF Instruction, RegNum
<1>2. Opcode(w) = row.opcode
  <2>. DEFINE x == row.opcode
  <2>1. x \in Int
    BY <1>1, PowerRule
  <2>2. Holds(w, 0, 7, x)
    BY EncodedU
  <2>. HIDE DEF x, w, row
  <2>3. Field(w, 0, 7) = x % Pow2[7]
    BY <2>1, <2>2, FieldHeld
  <2>. QED  BY <1>1, <2>3, Powers DEF x, Opcode
<1>3. Rd(w) = i.rd
  <2>. DEFINE x == i.rd
  <2>1. x \in Int
    BY <1>1, PowerRule
  <2>2. Holds(w, 7, 5, x)
    BY EncodedU
  <2>. HIDE DEF x, w, row
  <2>3. Field(w, 7, 5) = x % Pow2[5]
    BY <2>1, <2>2, FieldHeld
  <2>. QED  BY <1>1, <2>3, Powers DEF x, Rd
<1>4. Field(w, 12, 20) = (i.imm \div 4096) % Pow2[20]
  <2>. DEFINE x == i.imm \div 4096
  <2>1. x \in Int
    BY <1>1, PowerRule
  <2>2. Holds(w, 12, 20, x)
    BY EncodedU
  <2>. HIDE DEF x, w, row
  <2>3. Field(w, 12, 20) = x % Pow2[20]
    BY <2>1, <2>2, FieldHeld
  <2>. QED  BY <1>1, <2>3, Powers DEF x
<1>. QED  BY <1>2, <1>3, <1>4

LEMMA FieldsJ ==
  ASSUME NEW i \in Instruction, i.name \in JNames
  PROVE  LET w   == Encode(i)
             row == RowOf(i.name)
         IN  /\ Opcode(w) = row.opcode /\ Rd(w) = i.rd /\ Field(w, 21, 10) = (i.imm \div 2) % 1024
             /\ Field(w, 20, 1) = (i.imm \div 2048) % 2 /\ Field(w, 12, 8) = (i.imm \div 4096) % 256
             /\ Field(w, 31, 1) = (i.imm \div Pow2[20]) % 2
<1>. DEFINE w == Encode(i)
            row == RowOf(i.name)
<1>1. /\ row.opcode \in 0 .. 127
      /\ i.rd \in 0 .. 31 /\ i.rs1 \in 0 .. 31 /\ i.rs2 \in 0 .. 31 /\ i.imm \in Int
  BY RangesOfJ DEF Instruction, RegNum
<1>2. Opcode(w) = row.opcode
  <2>. DEFINE x == row.opcode
  <2>1. x \in Int
    BY <1>1, PowerRule
  <2>2. Holds(w, 0, 7, x)
    BY EncodedJ
  <2>. HIDE DEF x, w, row
  <2>3. Field(w, 0, 7) = x % Pow2[7]
    BY <2>1, <2>2, FieldHeld
  <2>. QED  BY <1>1, <2>3, Powers DEF x, Opcode
<1>3. Rd(w) = i.rd
  <2>. DEFINE x == i.rd
  <2>1. x \in Int
    BY <1>1, PowerRule
  <2>2. Holds(w, 7, 5, x)
    BY EncodedJ
  <2>. HIDE DEF x, w, row
  <2>3. Field(w, 7, 5) = x % Pow2[5]
    BY <2>1, <2>2, FieldHeld
  <2>. QED  BY <1>1, <2>3, Powers DEF x, Rd
<1>4. Field(w, 21, 10) = (i.imm \div 2) % 1024
  <2>. DEFINE x == i.imm \div Pow2[1]
  <2>1. x \in Int
    BY <1>1, PowerRule
  <2>2. Holds(w, 21, 10, x)
    BY EncodedJ
  <2>. HIDE DEF x, w, row
  <2>3. Field(w, 21, 10) = x % Pow2[10]
    BY <2>1, <2>2, FieldHeld
  <2>. QED  BY <1>1, <2>3, Powers DEF x
<1>5. Field(w, 20, 1) = (i.imm \div 2048) % 2
  <2>. DEFINE x == i.imm \div Pow2[11]
  <2>1. x \in Int
    BY <1>1, PowerRule
  <2>2. Holds(w, 20, 1, x)
    BY EncodedJ
  <2>. HIDE DEF x, w, row
  <2>3. Field(w, 20, 1) = x % Pow2[1]
    BY <2>1, <2>2, FieldHeld
  <2>. QED  BY <1>1, <2>3, Powers DEF x
<1>6. Field(w, 12, 8) = (i.imm \div 4096) % 256
  <2>. DEFINE x == i.imm \div Pow2[12]
  <2>1. x \in Int
    BY <1>1, PowerRule
  <2>2. Holds(w, 12, 8, x)
    BY EncodedJ
  <2>. HIDE DEF x, w, row
  <2>3. Field(w, 12, 8) = x % Pow2[8]
    BY <2>1, <2>2, FieldHeld
  <2>. QED  BY <1>1, <2>3, Powers DEF x
<1>7. Field(w, 31, 1) = (i.imm \div Pow2[20]) % 2
  <2>. DEFINE x == i.imm \div Pow2[20]
  <2>1. x \in Int
    BY <1>1, PowerRule
  <2>2. Holds(w, 31, 1, x)
    BY EncodedJ
  <2>. HIDE DEF x, w, row
  <2>3. Field(w, 31, 1) = x % Pow2[1]
    BY <2>1, <2>2, FieldHeld
  <2>. QED  BY <1>1, <2>3, Powers DEF x
<1>. QED  BY <1>2, <1>3, <1>4, <1>5, <1>6, <1>7

LEMMA FieldsShift ==
  ASSUME NEW i \in Instruction, i.name \in ShiftNames
  PROVE  LET w   == Encode(i)
             row == RowOf(i.name)
         IN  /\ Opcode(w) = row.opcode /\ Funct3(w) = row.f3 /\ Rd(w) = i.rd
             /\ Rs1(w) = i.rs1
<1>. DEFINE w == Encode(i)
            row == RowOf(i.name)
<1>1. /\ row.opcode \in 0 .. 127 /\ row.f3 \in 0 .. 7
      /\ i.rd \in 0 .. 31 /\ i.rs1 \in 0 .. 31 /\ i.rs2 \in 0 .. 31 /\ i.imm \in Int
  BY RangesOfShift DEF Instruction, RegNum
<1>2. Opcode(w) = row.opcode
  <2>. DEFINE x == row.opcode
  <2>1. x \in Int
    BY <1>1, PowerRule
  <2>2. Holds(w, 0, 7, x)
    BY EncodedShift
  <2>. HIDE DEF x, w, row
  <2>3. Field(w, 0, 7) = x % Pow2[7]
    BY <2>1, <2>2, FieldHeld
  <2>. QED  BY <1>1, <2>3, Powers DEF x, Opcode
<1>3. Funct3(w) = row.f3
  <2>. DEFINE x == row.f3
  <2>1. x \in Int
    BY <1>1, PowerRule
  <2>2. Holds(w, 12, 3, x)
    BY EncodedShift
  <2>. HIDE DEF x, w, row
  <2>3. Field(w, 12, 3) = x % Pow2[3]
    BY <2>1, <2>2, FieldHeld
  <2>. QED  BY <1>1, <2>3, Powers DEF x, Funct3
<1>4. Rd(w) = i.rd
  <2>. DEFINE x == i.rd
  <2>1. x \in Int
    BY <1>1, PowerRule
  <2>2. Holds(w, 7, 5, x)
    BY EncodedShift
  <2>. HIDE DEF x, w, row
  <2>3. Field(w, 7, 5) = x % Pow2[5]
    BY <2>1, <2>2, FieldHeld
  <2>. QED  BY <1>1, <2>3, Powers DEF x, Rd
<1>5. Rs1(w) = i.rs1
  <2>. DEFINE x == i.rs1
  <2>1. x \in Int
    BY <1>1, PowerRule
  <2>2. Holds(w, 15, 5, x)
    BY EncodedShift
  <2>. HIDE DEF x, w, row
  <2>3. Field(w, 15, 5) = x % Pow2[5]
    BY <2>1, <2>2, FieldHeld
  <2>. QED  BY <1>1, <2>3, Powers DEF x, Rs1
<1>. QED  BY <1>2, <1>3, <1>4, <1>5

\* The amount of a shift and funct7 overlap in one bit.
LEMMA AmountInFunct7 ==
  ASSUME NEW f \in {0, 32}, NEW a \in 0 .. 63, NEW k \in 0 .. 6
  PROVE  Bit(f + (a \div 32), k) <=> (k = 0 /\ Bit(a, 5)) \/ Bit(f, k)
<1>0. CASE k = 0
  BY <1>0, Powers DEF Bit
<1>1. CASE k = 1
  BY <1>1, Powers DEF Bit
<1>2. CASE k = 2
  BY <1>2, Powers DEF Bit
<1>3. CASE k = 3
  BY <1>3, Powers DEF Bit
<1>4. CASE k = 4
  BY <1>4, Powers DEF Bit
<1>5. CASE k = 5
  BY <1>5, Powers DEF Bit
<1>6. CASE k = 6
  BY <1>6, Powers DEF Bit
<1>. QED  BY <1>0, <1>1, <1>2, <1>3, <1>4, <1>5, <1>6

\* And the immediate that is read holds both.
LEMMA AmountInImmediate ==
  ASSUME NEW f \in {0, 32}, NEW a \in 0 .. 63, NEW k \in 0 .. 11
  PROVE  Bit(a + 32 * f, k) <=> (k <= 5 /\ Bit(a, k)) \/ (k >= 5 /\ Bit(f, k-5))
<1>0. CASE k = 0
  BY <1>0, Powers DEF Bit
<1>1. CASE k = 1
  BY <1>1, Powers DEF Bit
<1>2. CASE k = 2
  BY <1>2, Powers DEF Bit
<1>3. CASE k = 3
  BY <1>3, Powers DEF Bit
<1>4. CASE k = 4
  BY <1>4, Powers DEF Bit
<1>5. CASE k = 5
  BY <1>5, Powers DEF Bit
<1>6. CASE k = 6
  BY <1>6, Powers DEF Bit
<1>7. CASE k = 7
  BY <1>7, Powers DEF Bit
<1>8. CASE k = 8
  BY <1>8, Powers DEF Bit
<1>9. CASE k = 9
  BY <1>9, Powers DEF Bit
<1>10. CASE k = 10
  BY <1>10, Powers DEF Bit
<1>11. CASE k = 11
  BY <1>11, Powers DEF Bit
<1>. QED  BY <1>0, <1>1, <1>2, <1>3, <1>4, <1>5, <1>6, <1>7, <1>8, <1>9, <1>10, <1>11

\* So this is read as funct7 and as the immediate of a shift.
LEMMA FieldsOfShift ==
  ASSUME NEW i \in Instruction, i.name \in ShiftNames, i.imm \in 0 .. 63
  PROVE  LET w   == Encode(i)
             row == RowOf(i.name)
         IN  Funct7(w) = row.f7 + (i.imm \div 32) /\ Field(w, 20, 12) = i.imm + 32 * row.f7
<1>. DEFINE w == Encode(i)
            f == RowOf(i.name).f7
            a == i.imm
<1>1. f \in {0, 32} /\ a \in 0 .. 63
  BY RangesOfShift
<1>2. \A p \in 20 .. 31 : p \in w <=> (\/ p <= 25 /\ Bit(a, p-20)
                                       \/ p >= 25 /\ Bit(f, p-25))
  BY EncodedShift
<1>. HIDE DEF w, f, a
<1>3. Funct7(w) = f + (a \div 32)
  <2>. DEFINE x == f + (a \div 32)
  <2>1. Holds(w, 25, 7, x)
    BY <1>1, <1>2, AmountInFunct7 DEF Holds
  <2>2. x \in 0 .. 127
    BY <1>1
  <2>. HIDE DEF x
  <2>3. Field(w, 25, 7) = x % Pow2[7]
    BY <2>1, <2>2, FieldHeld
  <2>4. x % 128 = x
    BY <2>2
  <2>. QED  BY <2>3, <2>4, Powers DEF Funct7, x
<1>4. Field(w, 20, 12) = a + 32 * f
  <2>. DEFINE x == a + 32 * f
  <2>1. Holds(w, 20, 12, x)
    BY <1>1, <1>2, AmountInImmediate DEF Holds
  <2>2. x \in 0 .. 4095
    BY <1>1
  <2>. HIDE DEF x
  <2>3. Field(w, 20, 12) = x % Pow2[12]
    BY <2>1, <2>2, FieldHeld
  <2>4. x % 4096 = x
    BY <2>2
  <2>. QED  BY <2>3, <2>4, Powers DEF x
<1>. QED  BY <1>3, <1>4 DEF w, f, a

-----------------------------------------------------------------------------
(* Immediates.                                                             *)

\* sig64ext finds the sign in the highest bit.
LEMMA Extended ==
  ASSUME NEW len \in Nat, NEW x \in -Pow2[len] .. Pow2[len]-1
  PROVE  sig64ext(len, x % Pow2[len+1]) = x
<1>. DEFINE val == x % Pow2[len+1]
<1>1. len \in Bits(val, len+1) <=> Bit(x, len)
  <2>1. Bit(val, len) <=> Bit(x, len)
    BY BitOfRemainder
  <2>. QED  BY <2>1, BitsAre
<1>2. Pow2[len] \in Nat \ {0} /\ Pow2[len+1] = 2 * Pow2[len] /\ x \in Int
  BY PowerRule
<1>. DEFINE c == Pow2[len]
            d == Pow2[len+1]
<1>3. c \in Nat \ {0} /\ d \in Nat \ {0} /\ d = 2 * c /\ x \in -c .. c-1
  BY <1>2
<1>4. sig64ext(len, val) = IF Bit(x, len) THEN val - d ELSE val
  BY <1>1 DEF sig64ext
<1>5. Bit(x, len) <=> (x \div c) % 2 = 1
  BY DEF Bit
<1>6. val = x % d
  OBVIOUS
<1>. HIDE DEF c, d, val
<1>7. CASE x < 0
  <2>1. x \in -c .. -1 /\ x \in -d .. -1
    BY <1>3, <1>7
  <2>2. x \div c = -1 /\ x % d = x + d
    BY <1>3, <2>1, NegativeRemainder
  <2>3. ASSUME NEW y \in Int, y = -1 PROVE y % 2 = 1
    <3>1. y \in -2 .. -1
      BY <2>3
    <3>2. y % 2 = y + 2
      BY <3>1, NegativeRemainder
    <3>. QED  BY <2>3, <3>2
  <2>4. Bit(x, len)
    <3>. DEFINE q == x \div c
    <3>1. q = -1 /\ (Bit(x, len) <=> q % 2 = 1)
      BY <1>5, <2>2
    <3>. HIDE DEF q
    <3>2. q \in Int /\ q = -1
      BY <3>1
    <3>3. q % 2 = 1
      BY <2>3, <3>2, Zenon
    <3>. QED  BY <3>1, <3>3
  <2>. QED  BY <1>3, <1>4, <1>6, <2>2, <2>4 DEF val
<1>8. CASE x >= 0
  <2>1. x \in 0 .. c-1 /\ x \in 0 .. d-1
    BY <1>3, <1>8
  <2>2. x \div c = 0 /\ x % d = x
    BY <1>3, <2>1, SmallRemainder
  <2>3. ~Bit(x, len)
    BY <1>5, <2>2
  <2>. QED  BY <1>3, <1>4, <1>6, <2>2, <2>3 DEF val
<1>. QED  BY <1>3, <1>7, <1>8 DEF val

\* The pieces of an immediate.
LEMMA PiecesS ==
  ASSUME NEW x \in Int
  PROVE  (x % 32) + 32 * ((x \div 32) % 128) = x % 4096
<1>1. PICK a \in 0 .. 31, h \in Int : x = 32 * h + a
  <2>1. x % 32 \in 0 .. 31 /\ x \div 32 \in Int /\ x = 32 * (x \div 32) + (x % 32)
    OBVIOUS
  <2>. QED  BY <2>1
<1>2. PICK b \in 0 .. 127, g \in Int : h = 128 * g + b
  <2>1. h % 128 \in 0 .. 127 /\ h \div 128 \in Int /\ h = 128 * (h \div 128) + (h % 128)
    BY <1>1
  <2>. QED  BY <2>1
<1>3. x % 32 = a /\ x \div 32 = h
  BY <1>1
<1>4. h % 128 = b
  BY <1>2
<1>5. x % 4096 = a + 32 * b
  BY <1>1, <1>2
<1>. QED  BY <1>3, <1>4, <1>5

LEMMA PiecesB ==
  ASSUME NEW x \in Int, x % 2 = 0
  PROVE  2 * ((x \div 2) % 16) + 32 * ((x \div 32) % 64) + 2048 * ((x \div 2048) % 2)
           + 4096 * ((x \div 4096) % 2) = x % 8192
<1>1. PICK h \in Int : x = 2 * h
  <2>1. x = 2 * (x \div 2) /\ x \div 2 \in Int
    OBVIOUS
  <2>. QED  BY <2>1
<1>2. PICK a \in 0 .. 15, h1 \in Int : h = 16 * h1 + a
  <2>1. h % 16 \in 0 .. 15 /\ h \div 16 \in Int /\ h = 16 * (h \div 16) + (h % 16)
    BY <1>1
  <2>. QED  BY <2>1
<1>3. PICK b \in 0 .. 63, h2 \in Int : h1 = 64 * h2 + b
  <2>1. h1 % 64 \in 0 .. 63 /\ h1 \div 64 \in Int /\ h1 = 64 * (h1 \div 64) + (h1 % 64)
    BY <1>2
  <2>. QED  BY <2>1
<1>4. PICK c \in 0 .. 1, h3 \in Int : h2 = 2 * h3 + c
  <2>1. h2 % 2 \in 0 .. 1 /\ h2 \div 2 \in Int /\ h2 = 2 * (h2 \div 2) + (h2 % 2)
    BY <1>3
  <2>. QED  BY <2>1
<1>5. PICK d \in 0 .. 1, h4 \in Int : h3 = 2 * h4 + d
  <2>1. h3 % 2 \in 0 .. 1 /\ h3 \div 2 \in Int /\ h3 = 2 * (h3 \div 2) + (h3 % 2)
    BY <1>4
  <2>. QED  BY <2>1
<1>6. (x \div 2) % 16 = a
  BY <1>1, <1>2
<1>7. (x \div 32) % 64 = b
  <2>1. x \div 32 = h1
    BY <1>1, <1>2
  <2>. QED  BY <1>3, <2>1
<1>8. (x \div 2048) % 2 = c
  <2>1. x \div 2048 = h2
    BY <1>1, <1>2, <1>3
  <2>. QED  BY <1>4, <2>1
<1>9. (x \div 4096) % 2 = d
  <2>1. x \div 4096 = h3
    BY <1>1, <1>2, <1>3, <1>4
  <2>. QED  BY <1>5, <2>1
<1>10. x % 8192 = 2 * a + 32 * b + 2048 * c + 4096 * d
  BY <1>1, <1>2, <1>3, <1>4, <1>5
<1>. QED  BY <1>6, <1>7, <1>8, <1>9, <1>10

LEMMA PiecesJ ==
  ASSUME NEW x \in Int, x % 2 = 0
  PROVE  2 * ((x \div 2) % 1024) + 2048 * ((x \div 2048) % 2) + 4096 * ((x \div 4096) % 256)
           + 1048576 * ((x \div 1048576) % 2) = x % 2097152
<1>1. PICK h \in Int : x = 2 * h
  <2>1. x = 2 * (x \div 2) /\ x \div 2 \in Int
    OBVIOUS
  <2>. QED  BY <2>1
<1>2. PICK a \in 0 .. 1023, h1 \in Int : h = 1024 * h1 + a
  <2>1. h % 1024 \in 0 .. 1023 /\ h \div 1024 \in Int /\ h = 1024 * (h \div 1024) + (h % 1024)
    BY <1>1
  <2>. QED  BY <2>1
<1>3. PICK b \in 0 .. 1, h2 \in Int : h1 = 2 * h2 + b
  <2>1. h1 % 2 \in 0 .. 1 /\ h1 \div 2 \in Int /\ h1 = 2 * (h1 \div 2) + (h1 % 2)
    BY <1>2
  <2>. QED  BY <2>1
<1>4. PICK c \in 0 .. 255, h3 \in Int : h2 = 256 * h3 + c
  <2>1. h2 % 256 \in 0 .. 255 /\ h2 \div 256 \in Int /\ h2 = 256 * (h2 \div 256) + (h2 % 256)
    BY <1>3
  <2>. QED  BY <2>1
<1>5. PICK d \in 0 .. 1, h4 \in Int : h3 = 2 * h4 + d
  <2>1. h3 % 2 \in 0 .. 1 /\ h3 \div 2 \in Int /\ h3 = 2 * (h3 \div 2) + (h3 % 2)
    BY <1>4
  <2>. QED  BY <2>1
<1>6. (x \div 2) % 1024 = a
  BY <1>1, <1>2
<1>7. (x \div 2048) % 2 = b
  <2>1. x \div 2048 = h1
    BY <1>1, <1>2
  <2>. QED  BY <1>3, <2>1
<1>8. (x \div 4096) % 256 = c
  <2>1. x \div 4096 = h2
    BY <1>1, <1>2, <1>3
  <2>. QED  BY <1>4, <2>1
<1>9. (x \div 1048576) % 2 = d
  <2>1. x \div 1048576 = h3
    BY <1>1, <1>2, <1>3, <1>4
  <2>. QED  BY <1>5, <2>1
<1>10. x % 2097152 = 2 * a + 2048 * b + 4096 * c + 1048576 * d
  BY <1>1, <1>2, <1>3, <1>4, <1>5
<1>. QED  BY <1>6, <1>7, <1>8, <1>9, <1>10

-----------------------------------------------------------------------------
(* What Decode makes of a word.                                            *)

\* The immediates that fit, as inequalities.
LEMMA EncodableShift ==
  ASSUME NEW i \in Instruction, i.name \in ShiftNames, Encodable(i)
  PROVE  i.imm \in 0 .. 63 /\ (RowOf(i.name).opcode = 27 => i.imm \in 0 .. 31)
<1>1. /\ i.name \in DOMAIN Shifts
      /\ ~(i.name \in DOMAIN RFormat) /\ ~(i.name \in DOMAIN IFormat) /\ ~(i.name \in DOMAIN SFormat)
      /\ ~(i.name \in DOMAIN BFormat) /\ ~(i.name \in DOMAIN UFormat) /\ ~(i.name \in DOMAIN JFormat)
  BY RowOfShift
<1>2. i.name # "ecall"
  BY DEF ShiftNames
<1>3. i.imm \in 0 .. IF RowOf(i.name).opcode = 19 THEN 63 ELSE 31
  BY <1>1, <1>2 DEF Encodable
<1>4. RowOf(i.name).opcode \in {19, 27}
  BY RangesOfShift
<1>. QED  BY <1>3, <1>4

LEMMA EncodableI ==
  ASSUME NEW i \in Instruction, i.name \in INames, Encodable(i)
  PROVE  i.imm \in -Pow2[11] .. Pow2[11]-1 /\ (i.name = "ecall" => i.imm = 0)
<1>1. /\ i.name \in DOMAIN IFormat
      /\ ~(i.name \in DOMAIN RFormat) /\ ~(i.name \in DOMAIN Shifts) /\ ~(i.name \in DOMAIN SFormat)
      /\ ~(i.name \in DOMAIN BFormat) /\ ~(i.name \in DOMAIN UFormat) /\ ~(i.name \in DOMAIN JFormat)
  BY RowOfI
<1>2. (IF i.name = "ecall" THEN i.imm = 0 ELSE i.imm \in -Pow2[11] .. Pow2[11]-1)
  BY <1>1 DEF Encodable
<1>3. Pow2[11] = 2048
  BY Powers
<1>. QED  BY <1>2, <1>3

LEMMA EncodableS ==
  ASSUME NEW i \in Instruction, i.name \in SNames, Encodable(i)
  PROVE  i.imm \in Int /\ -2048 <= i.imm /\ i.imm <= 2047
<1>1. /\ i.name \in DOMAIN SFormat
      /\ ~(i.name \in DOMAIN RFormat) /\ ~(i.name \in DOMAIN Shifts) /\ ~(i.name \in DOMAIN IFormat)
      /\ ~(i.name \in DOMAIN BFormat) /\ ~(i.name \in DOMAIN UFormat) /\ ~(i.name \in DOMAIN JFormat)
  BY RowOfS
<1>2. i.name # "ecall"
  BY DEF SNames
<1>3. i.imm \in -Pow2[11] .. Pow2[11]-1
  BY <1>1, <1>2 DEF Encodable
<1>4. Pow2[11] = 2048
  BY Powers
<1>. DEFINE x == i.imm
            p == Pow2[11]
<1>. HIDE DEF x, p
<1>5. x \in -p .. p-1 /\ p = 2048
  BY <1>3, <1>4 DEF x, p
<1>6. x \in Int /\ -p <= x /\ x <= p-1
  BY <1>5
<1>. QED  BY <1>5, <1>6 DEF x

LEMMA EncodableB ==
  ASSUME NEW i \in Instruction, i.name \in BNames, Encodable(i)
  PROVE  i.imm % 2 = 0 /\ i.imm \in Int /\ -4096 <= i.imm /\ i.imm <= 4095
<1>1. /\ i.name \in DOMAIN BFormat
      /\ ~(i.name \in DOMAIN RFormat) /\ ~(i.name \in DOMAIN Shifts) /\ ~(i.name \in DOMAIN IFormat)
      /\ ~(i.name \in DOMAIN SFormat) /\ ~(i.name \in DOMAIN UFormat) /\ ~(i.name \in DOMAIN JFormat)
  BY RowOfB
<1>2. i.name # "ecall"
  BY DEF BNames
<1>3. i.imm % 2 = 0 /\ i.imm \div 2 \in -Pow2[11] .. Pow2[11]-1
  BY <1>1, <1>2 DEF Encodable
<1>4. i.imm \in Int
  BY DEF Instruction
<1>. DEFINE x == i.imm
            half == x \div 2
<1>. HIDE DEF x
<1>5. x = 2 * half + (x % 2) /\ half \in Int
  BY <1>4 DEF x
<1>. HIDE DEF half
<1>6. x % 2 = 0 /\ -2048 <= half /\ half <= 2047
  <2>. DEFINE p == Pow2[11]
  <2>1. p = 2048
    BY Powers
  <2>. HIDE DEF p
  <2>2. x % 2 = 0 /\ half \in -p .. p-1
    BY <1>3 DEF x, half, p
  <2>3. x % 2 = 0 /\ -p <= half /\ half <= p-1
    BY <2>1, <2>2
  <2>. QED  BY <2>1, <2>3
<1>7. x = 2 * half
  BY <1>5, <1>6
<1>8. x \in Int /\ -4096 <= x /\ x <= 4095
  BY <1>5, <1>6, <1>7
<1>. QED  BY <1>6, <1>8 DEF x

LEMMA EncodableU ==
  ASSUME NEW i \in Instruction, i.name \in UNames, Encodable(i)
  PROVE  i.imm % 4096 = 0 /\ i.imm \div 4096 \in -Pow2[19] .. Pow2[19]-1
<1>1. /\ i.name \in DOMAIN UFormat
      /\ ~(i.name \in DOMAIN RFormat) /\ ~(i.name \in DOMAIN Shifts) /\ ~(i.name \in DOMAIN IFormat)
      /\ ~(i.name \in DOMAIN SFormat) /\ ~(i.name \in DOMAIN BFormat) /\ ~(i.name \in DOMAIN JFormat)
  BY RowOfU
<1>2. i.name # "ecall"
  BY DEF UNames
<1>3. i.imm % 4096 = 0 /\ i.imm \div 4096 \in -Pow2[19] .. Pow2[19]-1
  BY <1>1, <1>2 DEF Encodable
<1>. QED  BY <1>3

LEMMA EncodableJ ==
  ASSUME NEW i \in Instruction, i.name \in JNames, Encodable(i)
  PROVE  i.imm % 2 = 0 /\ i.imm \in -Pow2[20] .. Pow2[20]-1
<1>1. /\ i.name \in DOMAIN JFormat
      /\ ~(i.name \in DOMAIN RFormat) /\ ~(i.name \in DOMAIN Shifts) /\ ~(i.name \in DOMAIN IFormat)
      /\ ~(i.name \in DOMAIN SFormat) /\ ~(i.name \in DOMAIN BFormat) /\ ~(i.name \in DOMAIN UFormat)
  BY RowOfJ
<1>2. i.name # "ecall"
  BY DEF JNames
<1>3. i.imm % 2 = 0 /\ i.imm \div 2 \in -Pow2[19] .. Pow2[19]-1
  BY <1>1, <1>2 DEF Encodable
<1>4. i.imm \in Int
  BY DEF Instruction
<1>6. Pow2[20] = 2 * Pow2[19] /\ Pow2[19] \in Nat
  BY PowerRule, Powers
<1>5. i.imm = 2 * (i.imm \div 2) + (i.imm % 2) /\ i.imm \div 2 \in Int
  BY <1>4
<1>. QED  BY <1>3, <1>4, <1>5, <1>6

\* The pieces of the immediate of a store or of a branch in a word.
StoreOffset(w, x)  == Rd(w) = x % 32 /\ Funct7(w) = (x \div 32) % 128
BranchOffset(w, x) == /\ Field(w, 8, 4) = (x \div 2) % 16 /\ Field(w, 25, 6) = (x \div 32) % 64
                      /\ Field(w, 7, 1) = (x \div 2048) % 2 /\ Field(w, 31, 1) = (x \div 4096) % 2

\* sig64ext makes the immediate of its pieces.
LEMMA ImmediateS ==
  ASSUME NEW w, NEW x \in Int, -2048 <= x, x <= 2047
  PROVE  StoreOffset(w, x) => ImmS(w) = x
<1>1. Pow2[11] = 2048 /\ Pow2[11+1] = 4096 /\ Pow2[5] = 32
  BY Powers
<1>2. x \in -Pow2[11] .. Pow2[11]-1
  BY <1>1
<1>3. sig64ext(11, x % Pow2[11+1]) = x
  BY <1>2, Extended
<1>4. (x % 32) + 32 * ((x \div 32) % 128) = x % 4096
  BY PiecesS
<1>5. Rd(w) = x % 32 /\ Funct7(w) = (x \div 32) % 128
        => Rd(w) + Pow2[5] * Funct7(w) = x % Pow2[11+1]
  BY <1>1, <1>4
<1>. QED  BY <1>3, <1>5 DEF ImmS, StoreOffset

LEMMA ImmediateB ==
  ASSUME NEW w, NEW x \in Int, -4096 <= x, x <= 4095, x % 2 = 0
  PROVE  BranchOffset(w, x) => ImmSB(w) = x
<1>1. Pow2[5] = 32 /\ Pow2[11] = 2048 /\ Pow2[12] = 4096 /\ Pow2[12+1] = 8192
  BY Powers
<1>2. x \in -Pow2[12] .. Pow2[12]-1
  BY <1>1
<1>3. sig64ext(12, x % Pow2[12+1]) = x
  BY <1>2, Extended
<1>4. 2 * ((x \div 2) % 16) + 32 * ((x \div 32) % 64) + 2048 * ((x \div 2048) % 2)
        + 4096 * ((x \div 4096) % 2) = x % 8192
  BY PiecesB
<1>. DEFINE a == (x \div 2) % 16
            b == (x \div 32) % 64
            c == (x \div 2048) % 2
            d == (x \div 4096) % 2
            all == x % Pow2[12+1]
<1>5. a \in Int /\ b \in Int /\ c \in Int /\ d \in Int /\ 2 * a + 32 * b + 2048 * c + 4096 * d = all
  BY <1>1, <1>4
<1>. HIDE DEF a, b, c, d, all
<1>6. Field(w, 8, 4) = a /\ Field(w, 25, 6) = b /\ Field(w, 7, 1) = c /\ Field(w, 31, 1) = d
      => 2 * Field(w, 8, 4) + Pow2[5] * Field(w, 25, 6) + Pow2[11] * Field(w, 7, 1)
           + Pow2[12] * Field(w, 31, 1) = all
  BY <1>1, <1>5
<1>. QED  BY <1>3, <1>6 DEF ImmSB, BranchOffset, a, b, c, d, all

LEMMA ImmediateJ ==
  ASSUME NEW w, NEW x \in Int, -Pow2[20] <= x, x < Pow2[20], x % 2 = 0
  PROVE  /\ Field(w, 21, 10) = (x \div 2) % 1024 /\ Field(w, 20, 1) = (x \div 2048) % 2
         /\ Field(w, 12, 8) = (x \div 4096) % 256 /\ Field(w, 31, 1) = (x \div Pow2[20]) % 2
         => ImmUJ(w) = x
<1>0. 20+1 = 21 /\ Pow2[11] = 2048 /\ Pow2[12] = 4096
  BY Powers
<1>1. Pow2[11] = 2048 /\ Pow2[12] = 4096 /\ Pow2[20] = 1048576 /\ Pow2[20+1] = 2097152
  BY <1>0, LargePowers
<1>2. x \in -Pow2[20] .. Pow2[20]-1
  <2>1. Pow2[20] \in Int
    BY PowerRule
  <2>. QED  BY <2>1
<1>3. sig64ext(20, x % Pow2[20+1]) = x
  <2>1. 20 \in Nat
    OBVIOUS
  <2>. QED  BY <1>2, <2>1, Extended
<1>4. 2 * ((x \div 2) % 1024) + 2048 * ((x \div 2048) % 2) + 4096 * ((x \div 4096) % 256)
        + 1048576 * ((x \div 1048576) % 2) = x % 2097152
  BY PiecesJ
<1>. DEFINE a == (x \div 2) % 1024
            b == (x \div 2048) % 2
            c == (x \div 4096) % 256
            d == (x \div Pow2[20]) % 2
            all == x % Pow2[20+1]
<1>5. a \in Int /\ b \in Int /\ c \in Int /\ d \in Int
      /\ 2 * a + 2048 * b + 4096 * c + 1048576 * d = all
  BY <1>1, <1>4
<1>. HIDE DEF a, b, c, d, all
<1>6. Field(w, 21, 10) = a /\ Field(w, 20, 1) = b /\ Field(w, 12, 8) = c /\ Field(w, 31, 1) = d
      => 2 * Field(w, 21, 10) + Pow2[11] * Field(w, 20, 1) + Pow2[12] * Field(w, 12, 8)
           + Pow2[20] * Field(w, 31, 1) = all
  BY <1>1, <1>5
<1>. QED  BY <1>3, <1>6 DEF ImmUJ, a, b, c, d, all

LEMMA ImmediateU ==
  ASSUME NEW w, NEW x \in 0 .. Pow2[19]-1
  PROVE  Field(w, 12, 20) = x % Pow2[20] => ImmU(w) = {4096 * x}
<1>1. 19 \in Nat /\ 19+1 = 20 /\ Pow2[12] = 4096 /\ Pow2[19] \in Nat
  <2>1. Pow2[12] = 4096
    BY Powers
  <2>2. Pow2[19] \in Nat
    BY PowerRule
  <2>. QED  BY <2>1, <2>2
<1>2. x \in -Pow2[19] .. Pow2[19]-1
  BY <1>1
<1>3. sig64ext(19, x % Pow2[19+1]) = x
  BY <1>1, <1>2, Extended
<1>4. Field(w, 12, 20) = x % Pow2[20] => sig64ext(19, Field(w, 12, 20)) = x
  BY <1>1, <1>3
<1>. DEFINE meant == x * Pow2[12]
<1>5. Field(w, 12, 20) = x % Pow2[20] => ImmU(w) = IF meant < 0 THEN {meant, -1} ELSE {meant}
  BY <1>4 DEF ImmU
<1>6. meant = 4096 * x /\ meant \in Nat
  BY <1>1
<1>. QED  BY <1>5, <1>6

\* What Decode makes of a word, one format after another.
LEMMA DecodesR ==
  ASSUME NEW i \in Instruction, i.name \in RNames, NEW imm
  PROVE  LET w == Encode(i)
             e == Decoded(w, imm)
         IN  /\ Imm(w) = {0}
             /\ e.name = Name(w) /\ e.imm = imm /\ e.srcA = i.rs1 /\ e.srcB = i.rs2
             /\ e.dstE = i.rd /\ e.dstM = 0
             /\ i.name \notin {"mul", "div", "rem"} => Name(w) = i.name
<1>. DEFINE w == Encode(i)
<1>1. /\ Opcode(w) = RowOf(i.name).opcode /\ Funct3(w) = RowOf(i.name).f3 /\ Funct7(w) = RowOf(i.name).f7
      /\ Rd(w) = i.rd /\ Rs1(w) = i.rs1 /\ Rs2(w) = i.rs2
  BY FieldsR
<1>. HIDE DEF w
<1>2. /\ i.name \notin {"mul", "div", "rem"} => Name(w) = i.name
      /\ Type(w) = "R_type" /\ ~IsLoad(Name(w))
  BY <1>1, RNamed
<1>3. Imm(w) = {0}
  BY <1>2 DEF Imm
<1>. QED  BY <1>1, <1>2, <1>3 DEF Decoded, w

LEMMA DecodesShift ==
  ASSUME NEW i \in Instruction, i.name \in ShiftNames, Encodable(i), NEW imm
  PROVE  LET w == Encode(i)
             e == Decoded(w, imm)
         IN  /\ Imm(w) = {i.imm + 32 * RowOf(i.name).f7}
             /\ e.name = Name(w) /\ e.imm = imm /\ e.srcA = i.rs1 /\ e.srcB = 0
             /\ e.dstE = i.rd /\ e.dstM = 0
             /\ ~(i.name = "srli" /\ i.imm > 31) => Name(w) = i.name
<1>. DEFINE w == Encode(i)
            high == i.imm \div 32
<1>0. i.imm \in 0 .. 63 /\ (RowOf(i.name).opcode = 27 => i.imm \in 0 .. 31)
  BY EncodableShift
<1>1. /\ Opcode(w) = RowOf(i.name).opcode /\ Funct3(w) = RowOf(i.name).f3
      /\ Rd(w) = i.rd /\ Rs1(w) = i.rs1
  BY FieldsShift
<1>2. Funct7(w) = RowOf(i.name).f7 + high /\ Field(w, 20, 12) = i.imm + 32 * RowOf(i.name).f7
  BY <1>0, FieldsOfShift
<1>3. /\ high \in {0, 1} /\ (RowOf(i.name).opcode = 27 => high = 0)
      /\ high = 1 => i.imm > 31
  BY <1>0
<1>. HIDE DEF w, high
<1>4. /\ ~(i.name = "srli" /\ high = 1) => Name(w) = i.name
      /\ Type(w) = "I_type" /\ ~IsLoad(Name(w))
  BY <1>1, <1>2, <1>3, ShiftNamed
<1>5. ImmI(w) = i.imm + 32 * RowOf(i.name).f7
  <2>. DEFINE x == i.imm + 32 * RowOf(i.name).f7
  <2>1. x \in 0 .. 2047 /\ RowOf(i.name).f7 \in {0, 32}
    BY <1>0, RangesOfShift
  <2>. HIDE DEF x
  <2>2. Pow2[11] = 2048 /\ Pow2[11+1] = 4096
    BY Powers
  <2>3. x \in -Pow2[11] .. Pow2[11]-1
    BY <2>1, <2>2
  <2>4. sig64ext(11, x % Pow2[11+1]) = x
    BY <2>3, Extended
  <2>5. x % Pow2[11+1] = x
    BY <2>1, <2>2
  <2>. QED  BY <1>2, <2>4, <2>5 DEF x, ImmI
<1>6. Imm(w) = {ImmI(w)}
  BY <1>4 DEF Imm
<1>. QED  BY <1>1, <1>3, <1>4, <1>5, <1>6 DEF Decoded, w

LEMMA DecodesI ==
  ASSUME NEW i \in Instruction, i.name \in INames \ {"fence"}, Encodable(i), NEW imm
  PROVE  LET w == Encode(i)
             e == Decoded(w, imm)
         IN  /\ Imm(w) = {i.imm}
             /\ e.name = i.name /\ e.imm = imm /\ e.srcA = i.rs1
             /\ i.name # "ecall" => e.srcB = 0
             /\ e.dstE = IF IsLoad(i.name) THEN 0 ELSE i.rd
             /\ e.dstM = IF IsLoad(i.name) THEN i.rd ELSE 0
             /\ Name(w) = i.name
<1>. DEFINE w == Encode(i)
<1>0. i.imm \in -Pow2[11] .. Pow2[11]-1 /\ (i.name = "ecall" => i.imm = 0)
  BY EncodableI
<1>1. /\ Opcode(w) = RowOf(i.name).opcode /\ Funct3(w) = RowOf(i.name).f3
      /\ Rd(w) = i.rd /\ Rs1(w) = i.rs1 /\ Field(w, 20, 12) = i.imm % 4096
  BY FieldsI
<1>. HIDE DEF w
<1>2. /\ i.name # "ecall" => Name(w) = i.name /\ Type(w) = "I_type"
      /\ i.name = "ecall" => Name(w) = i.name /\ Type(w) = "R_type"
  BY <1>1, INamed
<1>3. ImmI(w) = i.imm
  <2>1. Pow2[11+1] = 4096
    BY Powers
  <2>. DEFINE x == i.imm
  <2>2. x \in -Pow2[11] .. Pow2[11]-1
    BY <1>0
  <2>. HIDE DEF x
  <2>3. sig64ext(11, x % Pow2[11+1]) = x
    BY <2>2, Extended
  <2>. QED  BY <1>1, <2>1, <2>3 DEF ImmI, x
<1>4. Imm(w) = {i.imm}
  <2>1. CASE i.name = "ecall"
    BY <1>0, <1>2, <2>1 DEF Imm
  <2>2. CASE i.name # "ecall"
    BY <1>2, <1>3, <2>2 DEF Imm
  <2>. QED  BY <2>1, <2>2
<1>. QED  BY <1>1, <1>2, <1>4 DEF Decoded, w

LEMMA DecodesS ==
  ASSUME NEW i \in Instruction, i.name \in SNames, Encodable(i), NEW imm
  PROVE  LET w == Encode(i)
             e == Decoded(w, imm)
         IN  /\ Imm(w) = {i.imm} /\ Name(w) = i.name
             /\ e.name = i.name /\ e.imm = imm /\ e.srcA = i.rs1 /\ e.srcB = i.rs2
             /\ e.dstE = 0 /\ e.dstM = 0
<1>. DEFINE w == Encode(i)
<1>0. i.imm \in Int /\ -2048 <= i.imm /\ i.imm <= 2047
  BY EncodableS
<1>1. /\ Opcode(w) = RowOf(i.name).opcode /\ Funct3(w) = RowOf(i.name).f3
      /\ Rs1(w) = i.rs1 /\ Rs2(w) = i.rs2
      /\ Rd(w) = i.imm % 32 /\ Funct7(w) = (i.imm \div 32) % 128
  BY FieldsS
<1>. HIDE DEF w
<1>2. Name(w) = i.name /\ Type(w) = "S_type" /\ ~IsLoad(i.name)
  BY <1>1, SNamed
<1>3. ImmS(w) = i.imm
  <2>. DEFINE x == i.imm
  <2>. HIDE DEF x
  <2>1. x \in Int /\ -2048 <= x /\ x <= 2047
    BY <1>0 DEF x
  <2>2. StoreOffset(w, x)
    BY <1>1 DEF x, StoreOffset
  <2>3. ImmS(w) = x
    BY <2>1, <2>2, ImmediateS
  <2>. QED  BY <2>3 DEF x
<1>4. Imm(w) = {i.imm}
  BY <1>2, <1>3 DEF Imm
<1>. QED  BY <1>1, <1>2, <1>4 DEF Decoded, w

LEMMA DecodesB ==
  ASSUME NEW i \in Instruction, i.name \in BNames, Encodable(i), NEW imm
  PROVE  LET w == Encode(i)
             e == Decoded(w, imm)
         IN  /\ Imm(w) = {i.imm} /\ ImmSB(w) = i.imm /\ Name(w) = i.name
             /\ e.name = i.name /\ e.imm = imm /\ e.srcA = i.rs1 /\ e.srcB = i.rs2
             /\ e.dstE = 0 /\ e.dstM = 0
<1>. DEFINE w == Encode(i)
<1>0. i.imm % 2 = 0 /\ i.imm \in Int /\ -4096 <= i.imm /\ i.imm <= 4095
  BY EncodableB
<1>1. /\ Opcode(w) = RowOf(i.name).opcode /\ Funct3(w) = RowOf(i.name).f3
      /\ Rs1(w) = i.rs1 /\ Rs2(w) = i.rs2
      /\ Field(w, 8, 4) = (i.imm \div 2) % 16 /\ Field(w, 25, 6) = (i.imm \div 32) % 64
      /\ Field(w, 7, 1) = (i.imm \div 2048) % 2 /\ Field(w, 31, 1) = (i.imm \div 4096) % 2
  BY FieldsB
<1>. HIDE DEF w
<1>2. Name(w) = i.name /\ Type(w) = "SB_type" /\ ~IsLoad(i.name)
  BY <1>1, BNamed
<1>3. ImmSB(w) = i.imm
  <2>. DEFINE x == i.imm
  <2>. HIDE DEF x
  <2>1. x % 2 = 0 /\ x \in Int /\ -4096 <= x /\ x <= 4095
    BY <1>0 DEF x
  <2>2. BranchOffset(w, x)
    BY <1>1 DEF x, BranchOffset
  <2>3. ImmSB(w) = x
    BY <2>1, <2>2, ImmediateB
  <2>. QED  BY <2>3 DEF x
<1>4. Imm(w) = {i.imm}
  BY <1>2, <1>3 DEF Imm
<1>. QED  BY <1>1, <1>2, <1>3, <1>4 DEF Decoded, w

LEMMA DecodesU ==
  ASSUME NEW i \in Instruction, i.name \in UNames, Encodable(i), NEW imm
  PROVE  LET w == Encode(i)
             e == Decoded(w, imm)
         IN  /\ i.imm >= 0 => Imm(w) = {i.imm}
             /\ e.name = i.name /\ e.imm = imm /\ e.srcA = 0 /\ e.srcB = 0
             /\ e.dstE = i.rd /\ e.dstM = 0 /\ Name(w) = i.name
<1>. DEFINE w == Encode(i)
<1>0. i.imm % 4096 = 0 /\ i.imm \div 4096 \in -Pow2[19] .. Pow2[19]-1 /\ i.imm \in Int
  BY EncodableU DEF Instruction
<1>1. /\ Opcode(w) = RowOf(i.name).opcode /\ Rd(w) = i.rd
      /\ Field(w, 12, 20) = (i.imm \div 4096) % Pow2[20]
  BY FieldsU
<1>. HIDE DEF w
<1>2. Name(w) = i.name /\ Type(w) = "U_type" /\ ~IsLoad(i.name)
  BY <1>1, UNamed
<1>3. ASSUME i.imm >= 0 PROVE Imm(w) = {i.imm}
  <2>. DEFINE x == i.imm \div 4096
  <2>1. i.imm = 4096 * x /\ x \in Int /\ x >= 0
    BY <1>0, <1>3
  <2>2. x \in 0 .. Pow2[19]-1
    BY <1>0, <2>1
  <2>3. Field(w, 12, 20) = x % Pow2[20]
    BY <1>1
  <2>. HIDE DEF x
  <2>4. ImmU(w) = {i.imm}
    BY <2>1, <2>2, <2>3, ImmediateU
  <2>. QED  BY <1>2, <2>4 DEF Imm
<1>. QED  BY <1>1, <1>2, <1>3 DEF Decoded, w

LEMMA DecodesJ ==
  ASSUME NEW i \in Instruction, i.name \in JNames, Encodable(i), NEW imm
  PROVE  LET w == Encode(i)
             e == Decoded(w, imm)
         IN  /\ Imm(w) = {i.imm} /\ ImmUJ(w) = i.imm /\ Name(w) = i.name
             /\ e.name = i.name /\ e.imm = imm /\ e.srcA = 0 /\ e.srcB = 0
             /\ e.dstE = i.rd /\ e.dstM = 0
<1>. DEFINE w == Encode(i)
<1>0. i.imm % 2 = 0 /\ i.imm \in -Pow2[20] .. Pow2[20]-1 /\ i.imm \in Int
  BY EncodableJ DEF Instruction
<1>1. /\ Opcode(w) = RowOf(i.name).opcode /\ Rd(w) = i.rd
      /\ Field(w, 21, 10) = (i.imm \div 2) % 1024 /\ Field(w, 20, 1) = (i.imm \div 2048) % 2
      /\ Field(w, 12, 8) = (i.imm \div 4096) % 256 /\ Field(w, 31, 1) = (i.imm \div Pow2[20]) % 2
  BY FieldsJ
<1>. HIDE DEF w
<1>2. Name(w) = i.name /\ Type(w) = "UJ_type" /\ ~IsLoad(i.name)
  BY <1>1, JNamed
<1>3. ImmUJ(w) = i.imm
  <2>1. -Pow2[20] <= i.imm /\ i.imm < Pow2[20]
    BY <1>0, PowerRule
  <2>. QED  BY <1>0, <1>1, <2>1, ImmediateJ
<1>4. Imm(w) = {i.imm}
  BY <1>2, <1>3 DEF Imm
<1>. QED  BY <1>1, <1>2, <1>3, <1>4 DEF Decoded, w

\* Decode takes rs2 of ecall for a source, which is register 0.
LEMMA EcallReadsZero ==
  ASSUME NEW i \in Instruction, i.name = "ecall", Encodable(i)
  PROVE  Rs2(Encode(i)) = 0
<1>. DEFINE w == Encode(i)
<1>1. i.name \in INames
  BY DEF INames
<1>2. i.imm = 0
  BY <1>1, EncodableI
<1>3. Holds(w, 20, 12, i.imm \div Pow2[0])
  BY <1>1, EncodedI
<1>. HIDE DEF w
<1>4. Holds(w, 20, 5, 0)
  <2>1. Holds(w, 20, 12, 0)
    BY <1>2, <1>3, Powers
  <2>. QED  BY <2>1 DEF Holds
<1>5. Field(w, 20, 5) = 0 % Pow2[5]
  BY <1>4, FieldHeld
<1>. QED  BY <1>5, Powers DEF Rs2, w

\* The formats an instruction can have.
LEMMA FormatCases ==
  ASSUME NEW i \in Instruction
  PROVE  \/ i.name \in RNames \/ i.name \in ShiftNames \/ i.name \in INames \/ i.name \in SNames
         \/ i.name \in BNames \/ i.name \in UNames \/ i.name \in JNames
<1>1. i.name \in Mnemonics
  BY DEF Instruction
<1>2. Mnemonics = UNION {RNames, ShiftNames, INames, SNames, BNames, UNames, JNames}
  BY FormatNames, Zenon DEF Mnemonics
<1>. QED  BY <1>1, <1>2

\* What the formats say of the registers an instruction reads and writes.
Reads1(name) == ~(name \in DOMAIN UFormat \/ name \in DOMAIN JFormat)
Reads2(name) == name \in DOMAIN RFormat \/ name \in DOMAIN SFormat \/ name \in DOMAIN BFormat
Writes(name) == ~(name \in DOMAIN SFormat \/ name \in DOMAIN BFormat)

\* Decode finds the registers of every word it accepts.
LEMMA DecodedRegisters ==
  ASSUME NEW i \in Instruction, Encodable(i), Name(Encode(i)) # "illegal", NEW imm
  PROVE  LET e == Decoded(Encode(i), imm)
         IN  /\ i.name # "fence"
             /\ e.name = Name(Encode(i)) /\ e.imm = imm
             /\ e.srcA = IF Reads1(i.name) THEN i.rs1 ELSE 0
             /\ e.srcB = IF Reads2(i.name) THEN i.rs2 ELSE 0
             /\ e.dstE = IF Writes(i.name) /\ ~IsLoad(i.name) THEN i.rd ELSE 0
             /\ e.dstM = IF IsLoad(i.name) THEN i.rd ELSE 0
<1>. DEFINE w == Encode(i)
            e == Decoded(Encode(i), imm)
<1>0. e.name = Name(w) /\ e.imm = imm
  BY DEF Decoded
<1>1. CASE i.name \in RNames
  <2>1. Reads1(i.name) /\ Reads2(i.name) /\ Writes(i.name)
    BY <1>1, RowOfR, Zenon DEF Reads1, Reads2, Writes
  <2>2. i.name # "fence" /\ ~IsLoad(i.name)
    BY <1>1 DEF RNames, IsLoad
  <2>3. e.srcA = i.rs1 /\ e.srcB = i.rs2 /\ e.dstE = i.rd /\ e.dstM = 0
    BY <1>1, DecodesR
  <2>. QED  BY <1>0, <2>1, <2>2, <2>3
<1>2. CASE i.name \in ShiftNames
  <2>1. Reads1(i.name) /\ ~Reads2(i.name) /\ Writes(i.name)
    BY <1>2, RowOfShift, Zenon DEF Reads1, Reads2, Writes
  <2>2. i.name # "fence" /\ ~IsLoad(i.name)
    BY <1>2 DEF ShiftNames, IsLoad
  <2>3. e.srcA = i.rs1 /\ e.srcB = 0 /\ e.dstE = i.rd /\ e.dstM = 0
    BY <1>2, DecodesShift
  <2>. QED  BY <1>0, <2>1, <2>2, <2>3
<1>3. CASE i.name \in INames
  <2>1. Reads1(i.name) /\ ~Reads2(i.name) /\ Writes(i.name)
    BY <1>3, RowOfI, Zenon DEF Reads1, Reads2, Writes
  <2>2. i.name # "fence"
    <3>1. Opcode(w) = RowOf(i.name).opcode /\ Funct3(w) = RowOf(i.name).f3
      BY <1>3, FieldsI
    <3>. HIDE DEF w
    <3>2. i.name = "fence" => Name(w) = "illegal"
      BY <1>3, <3>1, INamed
    <3>. QED  BY <3>2 DEF w
  <2>3. /\ e.srcA = i.rs1
        /\ i.name # "ecall" => e.srcB = 0
        /\ e.dstE = IF IsLoad(i.name) THEN 0 ELSE i.rd
        /\ e.dstM = IF IsLoad(i.name) THEN i.rd ELSE 0
    BY <1>3, <2>2, DecodesI
  <2>4. e.srcB = 0
    <3>1. CASE i.name = "ecall"
      BY <3>1, EcallReadsZero DEF Decoded
    <3>2. CASE i.name # "ecall"
      BY <2>3, <3>2
    <3>. QED  BY <3>1, <3>2
  <2>. QED  BY <1>0, <2>1, <2>2, <2>3, <2>4
<1>4. CASE i.name \in SNames
  <2>1. Reads1(i.name) /\ Reads2(i.name) /\ ~Writes(i.name)
    BY <1>4, RowOfS, Zenon DEF Reads1, Reads2, Writes
  <2>2. i.name # "fence" /\ ~IsLoad(i.name)
    BY <1>4 DEF SNames, IsLoad
  <2>3. e.srcA = i.rs1 /\ e.srcB = i.rs2 /\ e.dstE = 0 /\ e.dstM = 0
    BY <1>4, DecodesS
  <2>. QED  BY <1>0, <2>1, <2>2, <2>3
<1>5. CASE i.name \in BNames
  <2>1. Reads1(i.name) /\ Reads2(i.name) /\ ~Writes(i.name)
    BY <1>5, RowOfB, Zenon DEF Reads1, Reads2, Writes
  <2>2. i.name # "fence" /\ ~IsLoad(i.name)
    BY <1>5 DEF BNames, IsLoad
  <2>3. e.srcA = i.rs1 /\ e.srcB = i.rs2 /\ e.dstE = 0 /\ e.dstM = 0
    BY <1>5, DecodesB
  <2>. QED  BY <1>0, <2>1, <2>2, <2>3
<1>6. CASE i.name \in UNames
  <2>1. ~Reads1(i.name) /\ ~Reads2(i.name) /\ Writes(i.name)
    BY <1>6, RowOfU, Zenon DEF Reads1, Reads2, Writes
  <2>2. i.name # "fence" /\ ~IsLoad(i.name)
    BY <1>6 DEF UNames, IsLoad
  <2>3. e.srcA = 0 /\ e.srcB = 0 /\ e.dstE = i.rd /\ e.dstM = 0
    BY <1>6, DecodesU
  <2>. QED  BY <1>0, <2>1, <2>2, <2>3
<1>7. CASE i.name \in JNames
  <2>1. ~Reads1(i.name) /\ ~Reads2(i.name) /\ Writes(i.name)
    BY <1>7, RowOfJ, Zenon DEF Reads1, Reads2, Writes
  <2>2. i.name # "fence" /\ ~IsLoad(i.name)
    BY <1>7 DEF JNames, IsLoad
  <2>3. e.srcA = 0 /\ e.srcB = 0 /\ e.dstE = i.rd /\ e.dstM = 0
    BY <1>7, DecodesJ
  <2>. QED  BY <1>0, <2>1, <2>2, <2>3
<1>. QED  BY <1>1, <1>2, <1>3, <1>4, <1>5, <1>6, <1>7, FormatCases

\* Decode finds the name and the immediate where it does not take one instruction
\* for another; to a shift's immediate it may add bits of funct7.
LEMMA DecodedOperation ==
  ASSUME NEW i \in Instruction, Encodable(i), Name(Encode(i)) # "illegal", ~Misdecoded(i),
         NEW imm \in Imm(Encode(i))
  PROVE  /\ Name(Encode(i)) = i.name
         /\ i.name \in RNames => imm = 0
         /\ i.name \in ShiftNames => imm = i.imm + 32 * RowOf(i.name).f7
         /\ i.name \notin RNames \cup ShiftNames => imm = i.imm
<1>. DEFINE w == Encode(i)
<1>0. i.name # "fence"
  BY DecodedRegisters
<1>1. CASE i.name \in RNames
  <2>1. i.name \notin {"mul", "div", "rem"}
    BY DEF Misdecoded
  <2>2. Name(w) = i.name /\ Imm(w) = {0}
    BY <1>1, <2>1, DecodesR
  <2>3. i.name \notin ShiftNames
    BY <1>1 DEF RNames, ShiftNames
  <2>. QED  BY <1>1, <2>2, <2>3
<1>2. CASE i.name \in ShiftNames
  <2>1. Imm(w) = {i.imm + 32 * RowOf(i.name).f7}
    BY <1>2, DecodesShift
  <2>2. ~(i.name = "srli" /\ i.imm > 31)
    BY DEF Misdecoded
  <2>3. Name(w) = i.name
    BY <1>2, <2>2, DecodesShift
  <2>4. i.name \notin RNames
    BY <1>2 DEF RNames, ShiftNames
  <2>. QED  BY <1>2, <2>1, <2>3, <2>4
<1>3. CASE i.name \in INames
  <2>1. Imm(w) = {i.imm} /\ Name(w) = i.name
    BY <1>0, <1>3, DecodesI
  <2>2. i.name \notin RNames /\ i.name \notin ShiftNames
    BY <1>3 DEF RNames, ShiftNames, INames
  <2>. QED  BY <2>1, <2>2
<1>4. CASE i.name \in SNames
  <2>1. Imm(w) = {i.imm} /\ Name(w) = i.name
    BY <1>4, DecodesS
  <2>2. i.name \notin RNames /\ i.name \notin ShiftNames
    BY <1>4 DEF RNames, ShiftNames, SNames
  <2>. QED  BY <2>1, <2>2
<1>5. CASE i.name \in BNames
  <2>1. Imm(w) = {i.imm} /\ Name(w) = i.name
    BY <1>5, DecodesB
  <2>2. i.name \notin RNames /\ i.name \notin ShiftNames
    BY <1>5 DEF RNames, ShiftNames, BNames
  <2>. QED  BY <2>1, <2>2
<1>6. CASE i.name \in UNames
  <2>1. i.imm >= 0
    <3>1. i.imm \in Int
      BY DEF Instruction
    <3>2. i.name \in {"lui", "auipc"}
      BY <1>6 DEF UNames
    <3>. QED  BY <3>1, <3>2 DEF Misdecoded
  <2>2. Imm(w) = {i.imm} /\ Name(w) = i.name
    BY <1>6, <2>1, DecodesU
  <2>3. i.name \notin RNames /\ i.name \notin ShiftNames
    BY <1>6 DEF RNames, ShiftNames, UNames
  <2>. QED  BY <2>2, <2>3
<1>7. CASE i.name \in JNames
  <2>1. Imm(w) = {i.imm} /\ Name(w) = i.name
    BY <1>7, DecodesJ
  <2>2. i.name \notin RNames /\ i.name \notin ShiftNames
    BY <1>7 DEF RNames, ShiftNames, JNames
  <2>. QED  BY <2>1, <2>2
<1>. QED  BY <1>1, <1>2, <1>3, <1>4, <1>5, <1>6, <1>7, FormatCases

-----------------------------------------------------------------------------
(* Decode, in every run.                                                   *)

\* The word is the instruction's, and past Decode the fields are what Decode makes of it.
Decodes ==
  /\ case \in Cases /\ ival = Encode(case.instr)
  /\ stage \in {"Execute", "MemStage", "done"} =>
       /\ Name(ival) # "illegal"
       /\ \E imm \in Imm(ival) : ERegO = Decoded(ival, imm)

\* The word stays that of the instruction, and ERegO what Decode made of it, up to the end.
THEOREM DecodesAlways == Spec => []Decodes
<1>1. Init => Decodes
  BY DEF Init, Decodes
<1>2. Decodes /\ [Next]_vars => Decodes'
  <2>. SUFFICES ASSUME Decodes, [Next]_vars PROVE Decodes'
    OBVIOUS
  <2>. USE DEF Decodes
  <2>1. CASE Fetch
    BY <2>1 DEF Fetch
  <2>2. CASE Decode
    BY <2>2 DEF Decode
  <2>3. CASE DecodeFault
    BY <2>3 DEF DecodeFault
  <2>4. CASE Execute
    BY <2>4 DEF Execute
  <2>5. CASE MemStage
    BY <2>5 DEF MemStage
  <2>6. CASE UNCHANGED vars
    BY <2>6 DEF vars
  <2>. QED  BY <2>1, <2>2, <2>3, <2>4, <2>5, <2>6 DEF Next
<1>. QED  BY <1>1, <1>2, PTL DEF Spec

\* Cases are instructions that can be encoded.
LEMMA CaseInstruction ==
  ASSUME NEW c \in Cases
  PROVE  c.instr \in Instruction /\ Encodable(c.instr)
BY CasesAssumption

\* The immediate Decode gives a shift has the amount in its low bits.
LEMMA AmountOfShift ==
  ASSUME NEW i \in Instruction, i.name \in ShiftNames, Encodable(i)
  PROVE  /\ i.imm \in 0 .. 63 /\ RowOf(i.name).f7 \in {0, 32}
         /\ i.imm + 32 * RowOf(i.name).f7 \in {i.imm, i.imm + 1024}
         /\ (i.imm + 32 * RowOf(i.name).f7) % 64 = i.imm % 64
<1>1. i.imm \in 0 .. 63 /\ RowOf(i.name).f7 \in {0, 32}
  BY EncodableShift, RangesOfShift
<1>. DEFINE a == i.imm
            f == RowOf(i.name).f7
<1>. HIDE DEF a, f
<1>2. a \in 0 .. 63 /\ f \in {0, 32}
  BY <1>1 DEF a, f
<1>3. CASE f = 0
  <2>1. a + 32 * f = a
    BY <1>2, <1>3
  <2>. QED  BY <1>1, <2>1 DEF a, f
<1>4. CASE f = 32
  <2>1. a + 32 * f = a + 1024 /\ (a + 1024) % 64 = a % 64
    BY <1>2, <1>4
  <2>. QED  BY <1>1, <2>1 DEF a, f
<1>. QED  BY <1>2, <1>3, <1>4

\* DecodesAsEncoded, for every instruction the assembler can encode that Decode does not take for
\* another: mul, div and rem, srli by 32 and more, and lui and auipc of a negative immediate.
THEOREM DecodeCorrect == Spec => [](~Misdecoded(Instr) => DecodesAsEncoded)
<1>1. Decodes => (~Misdecoded(Instr) => DecodesAsEncoded)
  <2>. SUFFICES ASSUME Decodes, ~Misdecoded(case.instr), stage = "Execute"
                PROVE  DecodesAsEncoded
    BY DEF DecodesAsEncoded, Instr
  <2>. DEFINE i == case.instr
  <2>1. i \in Instruction /\ Encodable(i)
    BY CaseInstruction DEF Decodes
  <2>2. Name(Encode(i)) # "illegal"
    BY DEF Decodes
  <2>3. PICK imm \in Imm(Encode(i)) : ERegO = Decoded(Encode(i), imm)
    BY DEF Decodes
  <2>. HIDE DEF i
  <2>4. /\ ERegO.name = Name(Encode(i)) /\ ERegO.imm = imm
        /\ ERegO.srcA = IF Reads1(i.name) THEN i.rs1 ELSE 0
        /\ ERegO.srcB = IF Reads2(i.name) THEN i.rs2 ELSE 0
        /\ ERegO.dstE = IF Writes(i.name) /\ ~IsLoad(i.name) THEN i.rd ELSE 0
        /\ ERegO.dstM = IF IsLoad(i.name) THEN i.rd ELSE 0
    BY <2>1, <2>2, <2>3, DecodedRegisters
  <2>5. /\ Name(Encode(i)) = i.name
        /\ i.name \in RNames => imm = 0
        /\ i.name \in ShiftNames => imm = i.imm + 32 * RowOf(i.name).f7
        /\ i.name \notin RNames \cup ShiftNames => imm = i.imm
    BY <2>1, <2>2, DecodedOperation DEF i
  <2>6. IsLoad(i.name) => Writes(i.name)
    BY FormatNames DEF IsLoad, Writes, SNames, BNames
  <2>7. {ERegO.dstE, ERegO.dstM} = {0, IF Writes(i.name) THEN i.rd ELSE 0}
    BY <2>4, <2>6
  <2>8. IF i.name \in ShiftNames THEN ERegO.imm % 64 = i.imm % 64
                                 ELSE ERegO.imm = IF i.name \in RNames THEN 0 ELSE i.imm
    <3>1. CASE i.name \in ShiftNames
      <4>1. (i.imm + 32 * RowOf(i.name).f7) % 64 = i.imm % 64
        BY <2>1, <3>1, AmountOfShift
      <4>. QED  BY <2>4, <2>5, <3>1, <4>1
    <3>2. CASE i.name \notin ShiftNames
      BY <2>4, <2>5, <3>2
    <3>. QED  BY <3>1, <3>2
  <2>9. DOMAIN Shifts = ShiftNames /\ DOMAIN RFormat = RNames
    BY FormatNames
  <2>. QED  BY <2>4, <2>5, <2>7, <2>8, <2>9
            DEF DecodesAsEncoded, Instr, Has, ReadsRs1, ReadsRs2, WritesRd, Reads1, Reads2, Writes, i
<1>. QED  BY <1>1, DecodesAlways, PTL

\* The groups of the model of the pipeline, by the registers they name.
LEMMA GroupOf ==
  ASSUME NEW i \in Instruction, i.name # "fence"
  PROVE  LET op == Group(i.name)
         IN  /\ op \in {"alu", "alui", "load", "store", "branch", "jal", "jalr", "lui", "ecall"}
             /\ op = "load" <=> IsLoad(i.name)
             /\ op \in {"alu", "store", "branch"} <=> Reads2(i.name)
             /\ op \in {"lui", "jal"} <=> ~Reads1(i.name)
             /\ op \in {"store", "branch"} <=> ~Writes(i.name)
             /\ op = "ecall" <=> i.name = "ecall"
<1>. DEFINE n == i.name
<1>9. Group(n) = CASE n \in SNames              -> "store"
                   [] n \in LoadNames           -> "load"
                   [] n \in BNames              -> "branch"
                   [] n \in {"jal", "jalr", "lui", "ecall", "nop"} -> n
                   [] n = "auipc"               -> "lui"
                   [] n \in RNames              -> "alu"
                   [] OTHER                     -> "alui"
  BY FormatNames, Zenon DEF Group
<1>10. /\ Reads1(n) <=> n \notin UNames /\ n \notin JNames
       /\ Reads2(n) <=> n \in RNames \/ n \in SNames \/ n \in BNames
       /\ Writes(n) <=> n \notin SNames /\ n \notin BNames
  BY FormatNames, Zenon DEF Reads1, Reads2, Writes
<1>1. CASE i.name \in RNames
  <2>1. Group(i.name) = "alu"
    BY <1>1, <1>9 DEF IsLoad, LoadNames, RNames, SNames, BNames
  <2>2. i.name # "ecall" /\ ~IsLoad(i.name) /\ Reads1(i.name) /\ Reads2(i.name) /\ Writes(i.name)
    BY <1>1, <1>10 DEF IsLoad, LoadNames, RNames, SNames, BNames, UNames, JNames
  <2>. QED  BY <2>1, <2>2
<1>2. CASE i.name \in ShiftNames
  <2>1. Group(i.name) = "alui"
    BY <1>2, <1>9 DEF IsLoad, LoadNames, RNames, ShiftNames, SNames, BNames
  <2>2. i.name # "ecall" /\ ~IsLoad(i.name) /\ Reads1(i.name) /\ ~Reads2(i.name) /\ Writes(i.name)
    BY <1>2, <1>10 DEF IsLoad, LoadNames, RNames, ShiftNames, SNames, BNames, UNames, JNames
  <2>. QED  BY <2>1, <2>2
<1>3. CASE i.name \in INames
  <2>1. /\ Group(i.name) \in {"alui", "load", "jalr", "ecall"}
        /\ Group(i.name) = "load" <=> IsLoad(i.name)
        /\ Group(i.name) = "ecall" <=> i.name = "ecall"
    BY <1>3, <1>9 DEF IsLoad, LoadNames, RNames, INames, SNames, BNames
  <2>2. Reads1(i.name) /\ ~Reads2(i.name) /\ Writes(i.name)
    BY <1>3, <1>10 DEF RNames, INames, SNames, BNames, UNames, JNames
  <2>. QED  BY <2>1, <2>2
<1>4. CASE i.name \in SNames
  <2>1. Group(i.name) = "store"
    BY <1>4, <1>9 DEF IsLoad, LoadNames, SNames, BNames, RNames
  <2>2. i.name # "ecall" /\ ~IsLoad(i.name) /\ Reads1(i.name) /\ Reads2(i.name) /\ ~Writes(i.name)
    BY <1>4, <1>10 DEF IsLoad, LoadNames, SNames, UNames, JNames
  <2>. QED  BY <2>1, <2>2
<1>5. CASE i.name \in BNames
  <2>1. Group(i.name) = "branch"
    BY <1>5, <1>9 DEF IsLoad, LoadNames, SNames, BNames, RNames
  <2>2. i.name # "ecall" /\ ~IsLoad(i.name) /\ Reads1(i.name) /\ Reads2(i.name) /\ ~Writes(i.name)
    BY <1>5, <1>10 DEF IsLoad, LoadNames, BNames, UNames, JNames
  <2>. QED  BY <2>1, <2>2
<1>6. CASE i.name \in UNames \cup JNames
  <2>1. Group(i.name) \in {"lui", "jal"}
    BY <1>6, <1>9 DEF IsLoad, LoadNames, RNames, SNames, BNames, UNames, JNames
  <2>2. i.name # "ecall" /\ ~IsLoad(i.name) /\ ~Reads1(i.name) /\ ~Reads2(i.name) /\ Writes(i.name)
    BY <1>6, <1>10 DEF IsLoad, LoadNames, RNames, SNames, BNames, UNames, JNames
  <2>. QED  BY <2>1, <2>2
<1>. QED  BY <1>1, <1>2, <1>3, <1>4, <1>5, <1>6, FormatCases

\* HazardFieldsAsModelled, for every instruction: the registers the hazard tests compare are those the
\* model of the pipeline computes from the group of the instruction.
THEOREM HazardCorrect == Spec => []HazardFieldsAsModelled
<1>1. Decodes => HazardFieldsAsModelled
  <2>. SUFFICES ASSUME Decodes, stage = "Execute", case.instr.name # "ecall"
                PROVE  HazardFieldsAsModelled
    BY DEF HazardFieldsAsModelled, Instr
  <2>. DEFINE i == case.instr
  <2>1. i \in Instruction /\ Encodable(i)
    BY CaseInstruction DEF Decodes
  <2>2. Name(Encode(i)) # "illegal"
    BY DEF Decodes
  <2>3. PICK imm \in Imm(Encode(i)) : ERegO = Decoded(Encode(i), imm)
    BY DEF Decodes
  <2>4. i.name # "ecall"
    OBVIOUS
  <2>. HIDE DEF i
  <2>5. /\ i.name # "fence"
        /\ ERegO.srcA = IF Reads1(i.name) THEN i.rs1 ELSE 0
        /\ ERegO.srcB = IF Reads2(i.name) THEN i.rs2 ELSE 0
        /\ ERegO.dstE = IF Writes(i.name) /\ ~IsLoad(i.name) THEN i.rd ELSE 0
        /\ ERegO.dstM = IF IsLoad(i.name) THEN i.rd ELSE 0
    BY <2>1, <2>2, <2>3, DecodedRegisters
  <2>. DEFINE op == Group(i.name)
  <2>6. /\ op \in {"alu", "alui", "load", "store", "branch", "jal", "jalr", "lui"}
        /\ op = "load" <=> IsLoad(i.name)
        /\ op \in {"alu", "store", "branch"} <=> Reads2(i.name)
        /\ op \in {"lui", "jal"} <=> ~Reads1(i.name)
        /\ op \in {"store", "branch"} <=> ~Writes(i.name)
    BY <2>1, <2>4, <2>5, GroupOf
  <2>7. InModel = [op |-> op, rd |-> i.rd, rs1 |-> i.rs1, rs2 |-> i.rs2, imm |-> 0]
    BY DEF InModel, Instr, i
  <2>. HIDE DEF op
  <2>8. /\ Model!SrcA(InModel) = IF op \in {"lui", "jal"} THEN 0 ELSE i.rs1
        /\ Model!SrcB(InModel) = IF op \in {"alu", "store", "branch"} THEN i.rs2 ELSE 0
        /\ Model!DstE(InModel) = IF op \in {"store", "branch", "load"} THEN 0 ELSE i.rd
        /\ Model!DstM(InModel) = IF op = "load" THEN i.rd ELSE 0
    BY <2>6, <2>7 DEF Model!SrcA, Model!SrcB, Model!DstE, Model!DstM, Model!RType, Model!IType,
                      Model!SType, Model!SBType, Model!UType, Model!UJType, Model!ZEROREG
  <2>. QED  BY <2>5, <2>6, <2>8 DEF HazardFieldsAsModelled
<1>. QED  BY <1>1, DecodesAlways, PTL

-----------------------------------------------------------------------------
(* Loads and stores.                                                       *)

\* The widths are numbers, and those of the accesses are between them.
LEMMA Widths ==
  /\ XLEN \in Nat \ {0} /\ WLEN \in Nat \ {0} /\ WLEN < XLEN
  /\ XLEN \div 8 \in 1 .. XLEN-1 /\ XLEN \div 4 \in 1 .. XLEN-1 /\ XLEN \div 2 = WLEN
  /\ 1024 % XLEN = 0 /\ 1024 % WLEN = 0
<1>1. XLEN \in Nat \ {0} /\ WLEN \in Nat \ {0} /\ XLEN = 2 * WLEN /\ 1024 % XLEN = 0 /\ XLEN % 8 = 0
  BY WidthAssumption
<1>2. PICK q \in Nat \ {0} : XLEN = 8 * q
  <2>1. XLEN = 8 * (XLEN \div 8) /\ XLEN \div 8 \in Nat \ {0}
    BY <1>1
  <2>. QED  BY <2>1
<1>3. XLEN \div 8 = q /\ XLEN \div 4 = 2 * q /\ XLEN \div 2 = WLEN
  BY <1>1, <1>2
<1>4. 1024 % WLEN = 0
  <2>. DEFINE n == 1024
              k == n \div XLEN
  <2>0. n \in Int /\ n % XLEN = 0
    BY <1>1
  <2>. HIDE DEF n
  <2>1. n = XLEN * k /\ k \in Int
    <3>0. XLEN \in Nat \ {0} /\ n \in Int
      BY <1>1, <2>0
    <3>1. n = XLEN * k + (n % XLEN) /\ k \in Int
      BY <3>0, DivRule
    <3>. HIDE DEF k
    <3>. QED  BY <1>1, <2>0, <3>1
  <2>. HIDE DEF k
  <2>2. n = WLEN * (2 * k) + 0 /\ 2 * k \in Int /\ 0 \in 0 .. WLEN-1
    BY <1>1, <2>1
  <2>3. n % WLEN = 0
    BY <1>1, <2>0, <2>2, DivUnique
  <2>. QED  BY <2>3 DEF n
<1>. QED  BY <1>1, <1>2, <1>3, <1>4

\* A register's value.
IsRegister(x) == x \in Int /\ Signed(XLEN, x) = x

\* Numbers read with a sign are values of a register.
LEMMA SignedTwice ==
  ASSUME NEW x \in Int, NEW len \in 1 .. XLEN
  PROVE  IsRegister(Signed(len, x))
<1>. DEFINE s == Signed(len, x)
<1>1. len \in Nat \ {0} /\ len-1 \in Nat /\ XLEN-1 \in Nat /\ XLEN \in Nat \ {0} /\ len-1 <= XLEN-1
  BY Widths
<1>2. s \in -Pow2[len-1] .. Pow2[len-1]-1
  BY <1>1, SignedRule
<1>3. Pow2[len-1] <= Pow2[XLEN-1] /\ Pow2[len-1] \in Nat /\ Pow2[XLEN-1] \in Nat
  BY <1>1, PowFactor, PowerRule
<1>. HIDE DEF s
<1>4. s \in -Pow2[XLEN-1] .. Pow2[XLEN-1]-1 /\ s \in Int
  BY <1>2, <1>3
<1>5. Signed(XLEN, s) = s
  BY <1>1, <1>4, SignedInRange
<1>. QED  BY <1>4, <1>5 DEF IsRegister, s

\* So are numbers that leave the sign alone.
LEMMA SmallRegister ==
  ASSUME NEW len \in 0 .. XLEN-1, NEW x \in 0 .. Pow2[len]-1
  PROVE  IsRegister(x)
<1>1. len \in Nat /\ XLEN-1 \in Nat /\ XLEN \in Nat \ {0} /\ len <= XLEN-1
  BY Widths
<1>2. Pow2[len] <= Pow2[XLEN-1] /\ Pow2[len] \in Nat /\ Pow2[XLEN-1] \in Nat
  BY <1>1, PowFactor, PowerRule
<1>3. x \in -Pow2[XLEN-1] .. Pow2[XLEN-1]-1 /\ x \in Int
  BY <1>2
<1>. QED  BY <1>1, <1>3, SignedInRange DEF IsRegister

\* A word whose bits are those of a number.
LEMMA RegisterOfBits ==
  ASSUME NEW x \in Int, NEW word, \A k \in 0 .. XLEN-1 : k \in word <=> Bit(x, k)
  PROVE  Register(word) = Signed(XLEN, x)
<1>1. XLEN \in Nat
  BY Widths
<1>2. Number(word, XLEN) = x % Pow2[XLEN]
  BY <1>1, NumberOfBits
<1>3. Signed(XLEN, x % Pow2[XLEN]) = Signed(XLEN, x)
  BY <1>1, SignedOfUnsigned
<1>. QED  BY <1>2, <1>3 DEF Register

\* A register filled up with zeros, or with the sign.
LEMMA LoadedUnsigned ==
  ASSUME NEW data \in Int, NEW len \in 1 .. XLEN-1
  PROVE  Register(Bits(data, XLEN) \cap 0 .. len-1) = Unsigned(len, data)
<1>1. XLEN \in Nat /\ len \in Nat /\ len < XLEN /\ Pow2[len] \in Nat \ {0}
  BY Widths, PowerRule
<1>. DEFINE v == data % Pow2[len]
            word == Bits(data, XLEN) \cap 0 .. len-1
<1>2. v \in 0 .. Pow2[len]-1 /\ v \in Int
  <2>1. data % Pow2[len] \in 0 .. Pow2[len]-1
    BY <1>1, DivRule
  <2>. QED  BY <1>1, <2>1
<1>3. \A k \in 0 .. XLEN-1 : k \in word <=> k < len /\ Bit(data, k)
  BY <1>1, BitsAre
<1>4. \A k \in 0 .. XLEN-1 : Bit(v, k) <=> k < len /\ Bit(data, k)
  BY <1>1, BitOfRemainder
<1>. HIDE DEF v, word
<1>5. Register(word) = Signed(XLEN, v)
  BY <1>2, <1>3, <1>4, RegisterOfBits
<1>6. IsRegister(v)
  BY <1>1, <1>2, SmallRegister
<1>. QED  BY <1>5, <1>6 DEF IsRegister, Unsigned, v, word

LEMMA LoadedSigned ==
  ASSUME NEW data \in Int, NEW len \in 1 .. XLEN
  PROVE  LET bits == Bits(data, XLEN) \cap 0 .. len-1
             sign == IF len-1 \in bits THEN len-1 .. XLEN-1 ELSE {}
         IN  Register(bits \cup sign) = Signed(len, data)
<1>1. XLEN \in Nat /\ len \in Nat \ {0} /\ len <= XLEN
  BY Widths
<1>. DEFINE v == Signed(len, data)
            bits == Bits(data, XLEN) \cap 0 .. len-1
            sign == IF len-1 \in bits THEN len-1 .. XLEN-1 ELSE {}
            word == bits \cup sign
<1>2. IsRegister(v)
  BY SignedTwice
<1>3. \A k \in 0 .. XLEN-1 : k \in bits <=> k < len /\ Bit(data, k)
  BY <1>1, BitsAre
<1>. HIDE DEF bits
<1>4. \A k \in 0 .. XLEN-1 : k \in word <=> IF k < len THEN Bit(data, k) ELSE Bit(data, len-1)
  <2>1. len-1 \in 0 .. XLEN-1 /\ (len-1 \in bits <=> Bit(data, len-1))
    BY <1>1, <1>3
  <2>. QED  BY <1>1, <1>3, <2>1
<1>5. \A k \in 0 .. XLEN-1 : Bit(v, k) <=> IF k < len THEN Bit(data, k) ELSE Bit(data, len-1)
  <2>. TAKE k \in 0 .. XLEN-1
  <2>1. /\ k < len => (Bit(v, k) <=> Bit(data, k))
        /\ k >= len => (Bit(v, k) <=> Bit(data, len-1))
    BY <1>1, BitOfSigned
  <2>. QED  BY <1>1, <2>1
<1>. HIDE DEF v, word
<1>6. Register(word) = Signed(XLEN, v)
  BY <1>2, <1>4, <1>5, RegisterOfBits DEF IsRegister
<1>. QED  BY <1>2, <1>6 DEF IsRegister, v, word, sign, bits

\* The bits of a store in those it leaves.
LEMMA WrittenBits ==
  ASSUME NEW len \in 1 .. XLEN, NEW data \in 0 .. Pow2[XLEN]-1, NEW y \in Int
  PROVE  Number((Bits(data, XLEN) \ 0 .. len-1) \cup (Bits(y, XLEN) \cap 0 .. len-1), XLEN)
           = data - Unsigned(len, data) + Unsigned(len, y)
<1>1. /\ XLEN \in Nat /\ len \in Nat /\ len <= XLEN
      /\ Pow2[len] \in Nat \ {0} /\ Pow2[XLEN] \in Nat \ {0} /\ data \in Int
  BY Widths, PowerRule
<1>. DEFINE P == Pow2[len]
            h == data \div P
            r == y % P
            v == r + P * h
            word == (Bits(data, XLEN) \ 0 .. len-1) \cup (Bits(y, XLEN) \cap 0 .. len-1)
<1>2. h \in Int /\ r \in 0 .. P-1 /\ data = P * h + (data % P) /\ data % P \in 0 .. P-1
  BY <1>1, DivRule
<1>3. v \in Int
  BY <1>1, <1>2
<1>4. \A k \in 0 .. XLEN-1 : k \in word <=> IF k < len THEN Bit(y, k) ELSE Bit(data, k)
  BY <1>1, BitsAre
<1>5. \A k \in 0 .. XLEN-1 : Bit(v, k) <=> IF k < len THEN Bit(y, k) ELSE Bit(data, k)
  <2>. TAKE k \in 0 .. XLEN-1
  <2>0. k \in Nat
    BY <1>1
  <2>1. CASE k < len
    <3>1. Bit(v, k) <=> Bit(r, k)
      <4>. HIDE DEF r, h
      <4>. QED  BY <1>1, <1>2, <2>0, <2>1, BitShiftAbove
    <3>2. Bit(r, k) <=> Bit(y, k)
      BY <1>1, <2>0, <2>1, BitOfRemainder
    <3>. QED  BY <2>1, <3>1, <3>2
  <2>2. CASE ~(k < len)
    <3>1. k - len \in Nat /\ len + (k - len) = k
      BY <1>1, <2>0, <2>2
    <3>2. v \div P = h
      <4>. HIDE DEF r, h, P
      <4>1. v = P * h + r /\ P \in Nat \ {0}
        BY <1>1, <1>2 DEF P
      <4>. HIDE DEF v
      <4>. QED  BY <1>2, <1>3, <4>1, DivUnique
    <3>. DEFINE j == k - len
    <3>. HIDE DEF v, h, j
    <3>3. Bit(v \div Pow2[len], j) <=> Bit(v, len + j)
      BY <1>1, <1>3, <3>1, BitOfQuotient DEF j
    <3>4. Bit(data \div Pow2[len], j) <=> Bit(data, len + j)
      BY <1>1, <3>1, BitOfQuotient DEF j
    <3>. QED  BY <2>2, <3>1, <3>2, <3>3, <3>4 DEF h, j
  <2>. QED  BY <2>1, <2>2
<1>6. Number(word, XLEN) = v % Pow2[XLEN]
  <2>. HIDE DEF word, v
  <2>. QED  BY <1>1, <1>3, <1>4, <1>5, NumberOfBits
<1>7. v \in 0 .. Pow2[XLEN]-1
  <2>. DEFINE Q == Pow2[XLEN-len]
  <2>1. Pow2[XLEN] = P * Q /\ Q \in Nat \ {0}
    BY <1>1, PowFactor, PowerRule
  <2>. HIDE DEF Q, P, h, r
  <2>2. P \in Nat \ {0}
    BY <1>1 DEF P
  <2>3. h < Q
    <3>. SUFFICES ASSUME Q - 1 < h PROVE FALSE
      BY <1>2, <2>1
    <3>1. P * (Q-1) + P <= P * h
      BY <1>2, <2>1, <2>2, ProductMonotone
    <3>2. P * (Q-1) + P = P * Q /\ P * Q \in Int /\ P * h \in Int
      BY <1>2, <2>1, <2>2
    <3>. QED  BY <1>1, <1>2, <2>1, <2>2, <3>1, <3>2
  <2>4. P * h + P <= P * Q
    BY <1>2, <2>1, <2>2, <2>3, ProductMonotone
  <2>5. h >= 0
    <3>. SUFFICES ASSUME h < 0 PROVE FALSE
      BY <1>2
    <3>1. P * h + P <= P * 0
      BY <1>2, <2>2, ProductMonotone
    <3>2. P * 0 = 0 /\ P * h \in Int
      BY <1>2, <2>2
    <3>. QED  BY <1>1, <1>2, <2>2, <3>1, <3>2
  <2>6. P * h \in Nat
    BY <1>2, <2>2, <2>5
  <2>. QED  BY <1>2, <2>1, <2>2, <2>4, <2>6
<1>8. v % Pow2[XLEN] = v
  <2>. HIDE DEF v
  <2>. QED  BY <1>1, <1>7, SmallRemainder
<1>9. v = data - (data % P) + (y % P)
  <2>. HIDE DEF h
  <2>. QED  BY <1>1, <1>2
<1>. QED  BY <1>6, <1>8, <1>9 DEF Unsigned

-----------------------------------------------------------------------------
(* What Execute computes.                                                  *)

\* The manual's width of an access is the code's.
LEMMA AccessWidth ==
  /\ \A name \in {"lb", "lbu", "sb"} :
       XLEN \div AccessBits[name] = XLEN \div 8 /\ Width(name) = XLEN \div 8
  /\ \A name \in {"lh", "lhu", "sh"} :
       XLEN \div AccessBits[name] = XLEN \div 4 /\ Width(name) = XLEN \div 4
  /\ \A name \in {"lw", "lwu", "sw"} :
       XLEN \div AccessBits[name] = WLEN /\ Width(name) = WLEN
  /\ \A name \in {"ld", "sd"} :
       XLEN \div AccessBits[name] = XLEN /\ Width(name) = XLEN
<1>1. XLEN \in Nat /\ XLEN \div 1 = XLEN /\ XLEN \div 2 = WLEN
  BY Widths
<1>2. /\ \A name \in {"lb", "lbu", "sb"} : AccessBits[name] = 8
      /\ \A name \in {"lh", "lhu", "sh"} : AccessBits[name] = 4
      /\ \A name \in {"lw", "lwu", "sw"} : AccessBits[name] = 2
      /\ \A name \in {"ld", "sd"} : AccessBits[name] = 1
  BY DEF AccessBits
<1>3. /\ \A name \in {"lb", "lbu", "sb"} : Width(name) = XLEN \div 8
      /\ \A name \in {"lh", "lhu", "sh"} : Width(name) = XLEN \div 4
      /\ \A name \in {"lw", "lwu", "sw"} : Width(name) = XLEN \div 2
      /\ \A name \in {"ld", "sd"} : Width(name) = XLEN
  BY DEF Width
<1>. QED  BY <1>1, <1>2, <1>3

LEMMA WidthInRange ==
  ASSUME NEW name, IsLoad(name) \/ name \in SNames
  PROVE  /\ Width(name) \in 1 .. XLEN /\ XLEN \div AccessBits[name] = Width(name)
         /\ name \notin {"ld", "sd"} => Width(name) \in 1 .. XLEN-1
<1>1. CASE name \in {"lb", "lbu", "sb"}
  BY <1>1, AccessWidth, Widths
<1>2. CASE name \in {"lh", "lhu", "sh"}
  BY <1>2, AccessWidth, Widths
<1>3. CASE name \in {"lw", "lwu", "sw"}
  BY <1>3, AccessWidth, Widths
<1>4. CASE name \in {"ld", "sd"}
  BY <1>4, AccessWidth, Widths
<1>. QED  BY <1>1, <1>2, <1>3, <1>4 DEF IsLoad, SNames

\* A load gives what the manual says.
LEMMA LoadCorrect ==
  ASSUME NEW name, IsLoad(name), NEW data \in Int
  PROVE  Loaded(name, data) = ValM(name, data)
<1>. DEFINE len == Width(name)
            bits == Bits(data, XLEN) \cap 0 .. len-1
<1>1. len \in 1 .. XLEN /\ (name # "ld" => len \in 1 .. XLEN-1)
  BY WidthInRange DEF IsLoad
<1>2. Loaded(name, data) =
        Register(bits \cup (IF name \in {"lb", "lh", "lw"} /\ len-1 \in bits THEN len-1 .. XLEN-1 ELSE {}))
  BY WidthInRange DEF Loaded, Accessed
<1>. HIDE DEF len
<1>3. CASE name \in {"lb", "lh", "lw"}
  <2>1. Loaded(name, data) = Register(bits \cup (IF len-1 \in bits THEN len-1 .. XLEN-1 ELSE {}))
    BY <1>2, <1>3
  <2>2. Loaded(name, data) = Signed(len, data)
    BY <1>1, <2>1, LoadedSigned
  <2>. QED  BY <1>3, <2>2 DEF ValM, len
<1>4. CASE name \notin {"lb", "lh", "lw"}
  <2>1. bits \cup {} = bits
    OBVIOUS
  <2>2. Loaded(name, data) = Register(bits)
    BY <1>2, <1>4, <2>1
  <2>3. CASE name = "ld"
    <3>1. len = XLEN
      BY <2>3, AccessWidth DEF len
    <3>2. \A k \in 0 .. XLEN-1 : k \in bits <=> Bit(data, k)
      BY <3>1, Widths, BitsAre
    <3>. HIDE DEF bits
    <3>3. Register(bits) = Signed(XLEN, data)
      BY <3>2, RegisterOfBits
    <3>. QED  BY <2>2, <2>3, <3>1, <3>3 DEF ValM, len
  <2>4. CASE name # "ld"
    <3>1. Register(bits) = Unsigned(len, data)
      BY <1>1, <2>4, LoadedUnsigned
    <3>2. name \in {"lbu", "lhu", "lwu"}
      BY <1>4, <2>4 DEF IsLoad
    <3>. QED  BY <2>2, <3>1, <3>2 DEF ValM, len
  <2>. QED  BY <2>3, <2>4
<1>. QED  BY <1>3, <1>4

\* A store leaves what the manual says.
LEMMA StoreCorrect ==
  ASSUME NEW name \in SNames, NEW data \in 0 .. Pow2[XLEN]-1, NEW y \in Int
  PROVE  Overwritten(name, data, y) = Stored(name, data, y)
<1>. DEFINE len == Width(name)
<1>1. len \in 1 .. XLEN /\ Accessed(name) = 0 .. len-1
  BY WidthInRange DEF Accessed
<1>. HIDE DEF len
<1>2. Number((Bits(data, XLEN) \ 0 .. len-1) \cup (Bits(y, XLEN) \cap 0 .. len-1), XLEN)
        = data - Unsigned(len, data) + Unsigned(len, y)
  BY <1>1, WrittenBits
<1>. QED  BY <1>1, <1>2 DEF Overwritten, Stored, len

-----------------------------------------------------------------------------
\* Operations on bits.
LEMMA Bitwise ==
  ASSUME NEW x \in Int, NEW z \in Int
  PROVE  /\ Operation("xor", x, z) = Int64(Xor(x, z))
         /\ Operation("or", x, z)  = Int64(Or(x, z))
         /\ Operation("and", x, z) = Int64(And(x, z))
<1>. DEFINE X == Bits(x, XLEN)
            Z == Bits(z, XLEN)
<1>0. X \subseteq 0 .. XLEN-1 /\ Z \subseteq 0 .. XLEN-1
  BY DEF Bits
<1>1. /\ Operation("xor", x, z) = Register({k \in 0 .. XLEN-1 : (k \in X) # (k \in Z)})
      /\ Operation("or", x, z)  = Register({k \in 0 .. XLEN-1 : k \in X \/ k \in Z})
      /\ Operation("and", x, z) = Register({k \in 0 .. XLEN-1 : k \in X /\ k \in Z})
  BY DEF Operation
<1>2. /\ Int64(Xor(x, z)) = Register((X \cup Z) \ (X \cap Z))
      /\ Int64(Or(x, z))  = Register(X \cup Z)
      /\ Int64(And(x, z)) = Register(X \cap Z)
  BY DEF Int64, Xor, Or, And, Register
<1>. HIDE DEF X, Z
<1>3. /\ {k \in 0 .. XLEN-1 : (k \in X) # (k \in Z)} = (X \cup Z) \ (X \cap Z)
      /\ {k \in 0 .. XLEN-1 : k \in X \/ k \in Z} = X \cup Z
      /\ {k \in 0 .. XLEN-1 : k \in X /\ k \in Z} = X \cap Z
  <2>1. \A k : ((k \in X) # (k \in Z)) <=> (k \in (X \cup Z) \ (X \cap Z))
    OBVIOUS
  <2>2. {k \in 0 .. XLEN-1 : (k \in X) # (k \in Z)} = (X \cup Z) \ (X \cap Z)
    BY <1>0, <2>1, Zenon
  <2>3. {k \in 0 .. XLEN-1 : k \in X \/ k \in Z} = X \cup Z
    BY <1>0
  <2>4. {k \in 0 .. XLEN-1 : k \in X /\ k \in Z} = X \cap Z
    BY <1>0
  <2>. QED  BY <2>2, <2>3, <2>4
<1>. QED  BY <1>1, <1>2, <1>3

\* Sums and comparisons.
LEMMA Arithmetic ==
  ASSUME NEW x \in Int, NEW z \in Int
  PROVE  /\ Operation("add", x, z)  = Int64(x + z)
         /\ Operation("sub", x, z)  = Int64(x - z)
         /\ Operation("slt", x, z)  = Truth(x < z)
         /\ Operation("sltu", x, z) = Truth(LessUnsigned(x, z))
<1>1. /\ Operation("add", x, z)  = Signed(XLEN, x + z)
      /\ Operation("sub", x, z)  = Signed(XLEN, x - z)
      /\ Operation("slt", x, z)  = Below(x, z)
      /\ Operation("sltu", x, z) = BelowUnsigned(x, z)
  BY DEF Operation
<1>. QED  BY <1>1 DEF Int64, UInt64, Truth, LessUnsigned, Below, BelowUnsigned

\* Amounts of shifts are below the width.
LEMMA AmountInRange ==
  ASSUME NEW z \in Int
  PROVE  /\ z % XLEN \in 0 .. XLEN-1 /\ z % WLEN \in 0 .. WLEN-1
         /\ z % XLEN \in Nat /\ z % WLEN \in Nat
         /\ (z % WLEN) % XLEN = z % WLEN
<1>1. XLEN \in Nat \ {0} /\ WLEN \in Nat \ {0} /\ WLEN < XLEN
  BY Widths
<1>2. z % XLEN \in 0 .. XLEN-1 /\ z % WLEN \in 0 .. WLEN-1
  BY <1>1, DivRule
<1>. DEFINE n == z % WLEN
<1>3. n \in 0 .. XLEN-1
  BY <1>1, <1>2
<1>. HIDE DEF n
<1>4. n % XLEN = n
  BY <1>1, <1>3, SmallRemainder
<1>. QED  BY <1>1, <1>2, <1>4 DEF n

\* Shifts of a register.
LEMMA LongShifts ==
  ASSUME NEW x, IsRegister(x), NEW z \in Int
  PROVE  /\ Operation("sll", x, z) = Int64(Left(x, z, XLEN))
         /\ Operation("srl", x, z) = Int64(Right(UInt64(x), z, XLEN))
         /\ Operation("sra", x, z) = Right(x, z, XLEN)
<1>. DEFINE n == z % XLEN
<1>1. /\ Operation("sll", x, z) = Register(ShiftUp(x, n, XLEN))
      /\ Operation("srl", x, z) = Register(ShiftDown(x, n, XLEN))
      /\ Operation("sra", x, z) = Register(ShiftSign(x, n, XLEN))
  BY DEF Operation
<1>2. /\ Left(x, z, XLEN) = x * Pow2[n]
      /\ Right(UInt64(x), z, XLEN) = Unsigned(XLEN, x) \div Pow2[n]
      /\ Right(x, z, XLEN) = x \div Pow2[n]
  BY DEF Left, Right, UInt64
<1>3. n \in Nat /\ n \in 0 .. XLEN-1 /\ XLEN \in Nat \ {0} /\ XLEN \in Nat /\ x \in Int /\ Signed(XLEN, x) = x
  <2>1. n \in Nat /\ n \in 0 .. XLEN-1
    BY AmountInRange
  <2>2. XLEN \in Nat \ {0} /\ x \in Int /\ Signed(XLEN, x) = x
    BY Widths DEF IsRegister
  <2>. QED  BY <2>1, <2>2
<1>. HIDE DEF n
<1>4. Pow2[n] \in Nat
  BY <1>3, PowerRule
<1>5. Register(ShiftUp(x, n, XLEN)) = Signed(XLEN, x * Pow2[n])
  <2>. DEFINE v == x * Pow2[n]
  <2>1. Number(ShiftUp(x, n, XLEN), XLEN) = v % Pow2[XLEN]
    BY <1>3, NumberShiftedUp
  <2>2. v \in Int
    BY <1>3, <1>4
  <2>. HIDE DEF v
  <2>3. Signed(XLEN, v % Pow2[XLEN]) = Signed(XLEN, v)
    BY <1>3, <2>2, SignedOfUnsigned
  <2>. QED  BY <2>1, <2>3 DEF Register, v
<1>6. Number(ShiftDown(x, n, XLEN), XLEN) = Unsigned(XLEN, x) \div Pow2[n]
  BY <1>3, NumberShiftedDown
<1>7. Signed(XLEN, Number(ShiftSign(x, n, XLEN), XLEN)) = Signed(XLEN, x) \div Pow2[n]
  BY <1>3, NumberShiftedSign
<1>. QED  BY <1>1, <1>2, <1>3, <1>5, <1>6, <1>7 DEF Register, Int64

\* What a word-sized operation makes of its operands it makes of their low words.
LEMMA WordSum ==
  ASSUME NEW x \in Int, NEW z \in Int
  PROVE  Operation("addw", x, z) = Int32(Int32(x) + Int32(z))
<1>1. WLEN \in Nat \ {0} /\ WLEN \in Nat /\ Pow2[WLEN] \in Nat
  BY Widths, PowerRule
<1>2. PICK p \in Int : Signed(WLEN, x) = x + Pow2[WLEN] * p
  BY <1>1, SignedRule
<1>3. PICK q \in Int : Signed(WLEN, z) = z + Pow2[WLEN] * q
  BY <1>1, SignedRule
<1>4. Signed(WLEN, x) + Signed(WLEN, z) = (x + z) + Pow2[WLEN] * (p + q)
  BY <1>1, <1>2, <1>3
<1>5. Signed(WLEN, (x + z) + Pow2[WLEN] * (p + q)) = Signed(WLEN, x + z)
  BY <1>1, SignedShift
<1>6. Operation("addw", x, z) = Signed(WLEN, x + z)
  BY DEF Operation, ExtendWord
<1>. QED  BY <1>4, <1>5, <1>6 DEF Int32

\* Execute shifts a word to the left in two ways.
LEMMA WordShiftUp ==
  ASSUME NEW x \in Int, NEW z \in Int
  PROVE  /\ Operation("sllw", x, z) = Int32(Left(Int32(x), z, WLEN))
         /\ Operation("sllw", x, z) = Int32(Left(x, z % WLEN, XLEN))
<1>. DEFINE n == z % WLEN
            w == x * Pow2[n]
<1>1. WLEN \in Nat \ {0} /\ WLEN \in Nat /\ Pow2[WLEN] \in Nat /\ n \in Nat /\ n % XLEN = n
  <2>1. WLEN \in Nat \ {0} /\ Pow2[WLEN] \in Nat
    BY Widths, PowerRule
  <2>2. n \in Nat /\ n % XLEN = n
    BY AmountInRange
  <2>. QED  BY <2>1, <2>2
<1>2. Operation("sllw", x, z) = Signed(WLEN, Number(ShiftUp(x, n, WLEN), WLEN))
  BY DEF Operation, ExtendWord
<1>3. Left(Int32(x), z, WLEN) = Signed(WLEN, x) * Pow2[n]
  BY DEF Left, Int32
<1>4. Left(x, n, XLEN) = w
  BY <1>1 DEF Left
<1>. HIDE DEF n
<1>5. Pow2[n] \in Nat /\ w \in Int
  BY <1>1, PowerRule
<1>6. Number(ShiftUp(x, n, WLEN), WLEN) = w % Pow2[WLEN]
  BY <1>1, NumberShiftedUp
<1>7. PICK q \in Int : Signed(WLEN, x) = x + Pow2[WLEN] * q
  BY <1>1, SignedRule
<1>8. Signed(WLEN, x) * Pow2[n] = w + Pow2[WLEN] * (q * Pow2[n])
  BY <1>1, <1>5, <1>7
<1>9. q * Pow2[n] \in Int
  BY <1>5
<1>. HIDE DEF w
<1>10. Signed(WLEN, w % Pow2[WLEN]) = Signed(WLEN, w)
  BY <1>1, <1>5, SignedOfUnsigned
<1>11. Signed(WLEN, w + Pow2[WLEN] * (q * Pow2[n])) = Signed(WLEN, w)
  BY <1>1, <1>5, <1>9, SignedShift
<1>. QED  BY <1>2, <1>3, <1>4, <1>6, <1>8, <1>10, <1>11 DEF Int32, n

\* Shifts of a word to the right.
LEMMA WordShiftsDown ==
  ASSUME NEW x \in Int, NEW z \in Int
  PROVE  /\ Operation("srlw", x, z) = Int32(Right(UInt32(x), z, WLEN))
         /\ Operation("sraw", x, z) = Right(Int32(x), z, WLEN)
<1>. DEFINE n == z % WLEN
<1>1. WLEN \in Nat \ {0} /\ WLEN \in Nat /\ n \in Nat /\ n \in 0 .. WLEN-1
  BY Widths, AmountInRange
<1>2. /\ Operation("srlw", x, z) = Signed(WLEN, Number(ShiftDown(x, n, WLEN), WLEN))
      /\ Operation("sraw", x, z) = Signed(WLEN, Number(ShiftSign(x, n, WLEN), WLEN))
  BY DEF Operation, ExtendWord
<1>3. /\ Right(UInt32(x), z, WLEN) = Unsigned(WLEN, x) \div Pow2[n]
      /\ Right(Int32(x), z, WLEN) = Signed(WLEN, x) \div Pow2[n]
  BY DEF Right, Int32, UInt32
<1>. HIDE DEF n
<1>4. Number(ShiftDown(x, n, WLEN), WLEN) = Unsigned(WLEN, x) \div Pow2[n]
  BY <1>1, NumberShiftedDown
<1>5. Signed(WLEN, Number(ShiftSign(x, n, WLEN), WLEN)) = Signed(WLEN, x) \div Pow2[n]
  BY <1>1, NumberShiftedSign
<1>. QED  BY <1>2, <1>3, <1>4, <1>5 DEF Int32

\* A word is its own number where its sign is not set.
LEMMA SignClear ==
  ASSUME NEW v \in Int, Int32(v) >= 0
  PROVE  UInt32(v) = Int32(v)
<1>1. WLEN \in Nat \ {0} /\ WLEN \in Nat /\ Pow2[WLEN] \in Nat
  BY Widths, PowerRule
<1>2. UInt32(v) \in 0 .. Pow2[WLEN]-1
  BY <1>1, SignedRule DEF UInt32
<1>3. PICK m \in {0, 1} : Int32(v) = UInt32(v) - Pow2[WLEN] * m
  BY <1>1, SignedRule DEF UInt32, Int32
<1>. QED  BY <1>1, <1>2, <1>3

\* The outcomes of Execute, one operation at a time.
LEMMA RegisterValE ==
  ASSUME NEW addr, NEW vA, NEW vB, NEW imm
  PROVE  /\ ValE("add", addr, vA, vB, imm) = {Int64(vA + vB)}
         /\ ValE("sub", addr, vA, vB, imm) = {Int64(vA - vB)}
         /\ ValE("sll", addr, vA, vB, imm) = {Int64(Left(vA, vB, XLEN))}
         /\ ValE("slt", addr, vA, vB, imm) = {Truth(vA < vB)}
         /\ ValE("sltu", addr, vA, vB, imm) = {Truth(LessUnsigned(vA, vB))}
         /\ ValE("xor", addr, vA, vB, imm) = {Int64(Xor(vA, vB))}
         /\ ValE("srl", addr, vA, vB, imm) = {Int64(Right(UInt64(vA), vB, XLEN))}
         /\ ValE("sra", addr, vA, vB, imm) = {Right(vA, vB, XLEN)}
         /\ ValE("or", addr, vA, vB, imm) = {Int64(Or(vA, vB))}
         /\ ValE("and", addr, vA, vB, imm) = {Int64(And(vA, vB))}
         /\ ValE("addw", addr, vA, vB, imm) = {Int32(Int32(vA) + Int32(vB))}
         /\ ValE("sllw", addr, vA, vB, imm) = {Int32(Left(Int32(vA), vB, WLEN))}
<1>1. ValE("add", addr, vA, vB, imm) = {Int64(vA + vB)}
  BY DEF ValE, BranchNames
<1>2. ValE("sub", addr, vA, vB, imm) = {Int64(vA - vB)}
  BY DEF ValE, BranchNames
<1>3. ValE("sll", addr, vA, vB, imm) = {Int64(Left(vA, vB, XLEN))}
  BY DEF ValE, BranchNames
<1>4. ValE("slt", addr, vA, vB, imm) = {Truth(vA < vB)}
  BY DEF ValE, BranchNames
<1>5. ValE("sltu", addr, vA, vB, imm) = {Truth(LessUnsigned(vA, vB))}
  BY DEF ValE, BranchNames
<1>6. ValE("xor", addr, vA, vB, imm) = {Int64(Xor(vA, vB))}
  BY DEF ValE, BranchNames
<1>7. ValE("srl", addr, vA, vB, imm) = {Int64(Right(UInt64(vA), vB, XLEN))}
  BY DEF ValE, BranchNames
<1>8. ValE("sra", addr, vA, vB, imm) = {Right(vA, vB, XLEN)}
  BY DEF ValE, BranchNames
<1>9. ValE("or", addr, vA, vB, imm) = {Int64(Or(vA, vB))}
  BY DEF ValE, BranchNames
<1>10. ValE("and", addr, vA, vB, imm) = {Int64(And(vA, vB))}
  BY DEF ValE, BranchNames
<1>11. ValE("addw", addr, vA, vB, imm) = {Int32(Int32(vA) + Int32(vB))}
  BY DEF ValE, BranchNames
<1>12. ValE("sllw", addr, vA, vB, imm) = {Int32(Left(Int32(vA), vB, WLEN))}
  BY DEF ValE, BranchNames
<1>. QED  BY <1>1, <1>2, <1>3, <1>4, <1>5, <1>6, <1>7, <1>8, <1>9, <1>10, <1>11, <1>12

LEMMA ImmediateValE ==
  ASSUME NEW addr, NEW vA, NEW vB, NEW imm
  PROVE  /\ ValE("addi", addr, vA, vB, imm) = {Int64(vA + imm)}
         /\ ValE("slli", addr, vA, vB, imm) = {Int64(Left(vA, imm, XLEN))}
         /\ ValE("slti", addr, vA, vB, imm) = {Truth(vA < imm)}
         /\ ValE("sltiu", addr, vA, vB, imm) = {Truth(LessUnsigned(vA, imm))}
         /\ ValE("xori", addr, vA, vB, imm) = {Int64(Xor(vA, imm))}
         /\ ValE("srli", addr, vA, vB, imm) = {Int64(Right(UInt64(vA), imm, XLEN))}
         /\ ValE("srai", addr, vA, vB, imm) = {Right(vA, imm, XLEN)}
         /\ ValE("ori", addr, vA, vB, imm) = {Int64(Or(vA, imm))}
         /\ ValE("andi", addr, vA, vB, imm) = {Int64(And(vA, imm))}
         /\ ValE("srliw", addr, vA, vB, imm) = {Right(UInt32(vA), imm, WLEN)}
         /\ ValE("slliw", addr, vA, vB, imm) = {UInt32(Left(vA, imm % WLEN, XLEN))}
         /\ ValE("addiw", addr, vA, vB, imm) = ExtendedWord(vA + imm)
         /\ ValE("sraiw", addr, vA, vB, imm) = {Right(Int32(vA), imm, WLEN)}
<1>1. ValE("addi", addr, vA, vB, imm) = {Int64(vA + imm)}
  BY DEF ValE, BranchNames
<1>2. ValE("slli", addr, vA, vB, imm) = {Int64(Left(vA, imm, XLEN))}
  BY DEF ValE, BranchNames
<1>3. ValE("slti", addr, vA, vB, imm) = {Truth(vA < imm)}
  BY DEF ValE, BranchNames
<1>4. ValE("sltiu", addr, vA, vB, imm) = {Truth(LessUnsigned(vA, imm))}
  BY DEF ValE, BranchNames
<1>5. ValE("xori", addr, vA, vB, imm) = {Int64(Xor(vA, imm))}
  BY DEF ValE, BranchNames
<1>6. ValE("srli", addr, vA, vB, imm) = {Int64(Right(UInt64(vA), imm, XLEN))}
  BY DEF ValE, BranchNames
<1>7. ValE("srai", addr, vA, vB, imm) = {Right(vA, imm, XLEN)}
  BY DEF ValE, BranchNames
<1>8. ValE("ori", addr, vA, vB, imm) = {Int64(Or(vA, imm))}
  BY DEF ValE, BranchNames
<1>9. ValE("andi", addr, vA, vB, imm) = {Int64(And(vA, imm))}
  BY DEF ValE, BranchNames
<1>10. ValE("srliw", addr, vA, vB, imm) = {Right(UInt32(vA), imm, WLEN)}
  BY DEF ValE, BranchNames
<1>11. ValE("slliw", addr, vA, vB, imm) = {UInt32(Left(vA, imm % WLEN, XLEN))}
  BY DEF ValE, BranchNames
<1>12. ValE("addiw", addr, vA, vB, imm) = ExtendedWord(vA + imm)
  BY DEF ValE, BranchNames
<1>13. ValE("sraiw", addr, vA, vB, imm) = {Right(Int32(vA), imm, WLEN)}
  BY DEF ValE, BranchNames
<1>. QED  BY <1>1, <1>2, <1>3, <1>4, <1>5, <1>6, <1>7, <1>8, <1>9, <1>10, <1>11, <1>12, <1>13

LEMMA OtherValE ==
  ASSUME NEW addr, NEW vA, NEW vB, NEW imm
  PROVE  /\ ValE("jal", addr, vA, vB, imm) = {Int64(addr + 4)}
         /\ ValE("jalr", addr, vA, vB, imm) = {Int64(addr + 4)}
         /\ ValE("auipc", addr, vA, vB, imm) = {Int64(addr + imm)}
         /\ ValE("lui", addr, vA, vB, imm) = {Int64(imm)}
         /\ ValE("ecall", addr, vA, vB, imm) = {0}
<1>1. ValE("jal", addr, vA, vB, imm) = {Int64(addr + 4)}
  BY DEF ValE, BranchNames
<1>2. ValE("jalr", addr, vA, vB, imm) = {Int64(addr + 4)}
  BY DEF ValE, BranchNames
<1>3. ValE("auipc", addr, vA, vB, imm) = {Int64(addr + imm)}
  BY DEF ValE, BranchNames
<1>4. ValE("lui", addr, vA, vB, imm) = {Int64(imm)}
  BY DEF ValE, BranchNames
<1>5. ValE("ecall", addr, vA, vB, imm) = {0}
  BY DEF ValE, BranchNames
<1>. QED  BY <1>1, <1>2, <1>3, <1>4, <1>5

\* The operations on registers Execute does as the manual says.
LEMMA RegisterCorrect ==
  ASSUME NEW name \in RNames \ {"mul", "div", "rem", "subw", "srlw", "sraw"}, NEW addr, NEW imm,
         NEW x, IsRegister(x), NEW y, IsRegister(y)
  PROVE  ValE(name, addr, x, y, imm) = {Operation(name, x, y)}
<1>0. x \in Int /\ y \in Int
  BY DEF IsRegister
<1>1. CASE name \in {"add", "sub", "slt", "sltu"}
  <2>1. /\ Operation("add", x, y)  = Int64(x + y)       /\ Operation("sub", x, y) = Int64(x - y)
        /\ Operation("sltu", x, y) = Truth(LessUnsigned(x, y))
        /\ Operation("slt", x, y)  = Truth(x < y)
    BY <1>0, Arithmetic
  <2>2. /\ ValE("add", addr, x, y, imm) = {Int64(x + y)} /\ ValE("sub", addr, x, y, imm) = {Int64(x - y)}
        /\ ValE("sltu", addr, x, y, imm) = {Truth(LessUnsigned(x, y))}
        /\ ValE("slt", addr, x, y, imm) = {Truth(x < y)}
    BY RegisterValE
  <2>. QED  BY <1>1, <2>1, <2>2
<1>2. CASE name \in {"xor", "or", "and"}
  BY <1>0, <1>2, RegisterValE, Bitwise
<1>3. CASE name \in {"sll", "srl", "sra"}
  BY <1>0, <1>3, RegisterValE, LongShifts
<1>4. CASE name = "addw"
  BY <1>0, <1>4, RegisterValE, WordSum
<1>5. CASE name = "sllw"
  BY <1>0, <1>5, RegisterValE, WordShiftUp
<1>. QED  BY <1>1, <1>2, <1>3, <1>4, <1>5 DEF RNames

\* The amount of a shift does not depend on the bits of funct7 in it.
LEMMA AmountsAgree ==
  ASSUME NEW a \in Int
  PROVE  (a + 1024) % XLEN = a % XLEN /\ (a + 1024) % WLEN = a % WLEN
<1>. DEFINE n == 1024
<1>0. XLEN \in Nat \ {0} /\ WLEN \in Nat \ {0} /\ n % XLEN = 0 /\ n % WLEN = 0 /\ n \in Int
  BY Widths
<1>. HIDE DEF n
<1>1. ASSUME NEW d \in Nat \ {0}, n % d = 0 PROVE (a + n) % d = a % d
  <2>. DEFINE k == n \div d
  <2>1. n = d * k + (n % d) /\ k \in Int
    BY <1>0, DivRule
  <2>. HIDE DEF k
  <2>2. a + n = a + d * k
    BY <1>0, <1>1, <2>1
  <2>3. (a + d * k) % d = a % d
    BY <2>1, ModShift
  <2>. QED  BY <2>2, <2>3
<1>2. (a + n) % XLEN = a % XLEN
  BY <1>0, <1>1
<1>3. (a + n) % WLEN = a % WLEN
  BY <1>0, <1>1
<1>. QED  BY <1>2, <1>3 DEF n

\* Execute is given a shift's immediate with the bits of funct7 above the amount.
LEMMA ShiftCorrect ==
  ASSUME NEW name \in ShiftNames, NEW addr, NEW v, NEW x, IsRegister(x), NEW a \in Int,
         NEW imm \in {a, a + 1024}, name \notin {"srai", "sraiw"} => imm = a,
         name \in {"slliw", "srliw"} => Operation(WithImmediate[name], x, a) >= 0
  PROVE  ValE(name, addr, x, v, imm) = {Operation(WithImmediate[name], x, a)}
<1>0. x \in Int
  BY DEF IsRegister
<1>1. /\ WithImmediate["slli"] = "sll" /\ WithImmediate["srli"] = "srl"
      /\ WithImmediate["srai"] = "sra" /\ WithImmediate["slliw"] = "sllw"
      /\ WithImmediate["srliw"] = "srlw" /\ WithImmediate["sraiw"] = "sraw"
  BY DEF WithImmediate
<1>2. imm % XLEN = a % XLEN /\ imm % WLEN = a % WLEN
  BY AmountsAgree
<1>3. CASE name \in {"slli", "srli"}
  BY <1>0, <1>1, <1>3, ImmediateValE, LongShifts
<1>4. CASE name = "srai"
  <2>1. Right(x, imm, XLEN) = Right(x, a, XLEN)
    BY <1>2 DEF Right
  <2>. QED  BY <1>0, <1>1, <1>4, <2>1, ImmediateValE, LongShifts
<1>5. CASE name = "sraiw"
  <2>1. Right(Int32(x), imm, WLEN) = Right(Int32(x), a, WLEN)
    BY <1>2 DEF Right
  <2>. QED  BY <1>0, <1>1, <1>5, <2>1, ImmediateValE, WordShiftsDown
<1>6. CASE name = "slliw"
  <2>. DEFINE u == Left(x, a % WLEN, XLEN)
  <2>1. Operation("sllw", x, a) = Int32(u)
    BY <1>0, WordShiftUp
  <2>2. u \in Int
    BY <1>0, PowerRule, AmountInRange DEF Left
  <2>3. Int32(u) >= 0
    BY <1>1, <1>6, <2>1
  <2>. HIDE DEF u
  <2>4. UInt32(u) = Int32(u)
    BY <2>2, <2>3, SignClear
  <2>5. ValE(name, addr, x, v, imm) = {UInt32(u)}
    BY <1>6, ImmediateValE DEF u
  <2>. QED  BY <1>1, <1>6, <2>1, <2>4, <2>5
<1>7. CASE name = "srliw"
  <2>. DEFINE u == Right(UInt32(x), a, WLEN)
  <2>1. Operation("srlw", x, a) = Int32(u)
    BY <1>0, WordShiftsDown
  <2>2. u \in 0 .. Pow2[WLEN]-1
    <3>. DEFINE n == a % WLEN
                h == Pow2[WLEN]-1
                w == UInt32(x)
    <3>1. /\ WLEN \in Nat \ {0} /\ h \in Nat /\ n \in Nat
      <4>1. WLEN \in Nat \ {0} /\ h \in Nat
        BY Widths, PowerRule
      <4>2. n \in Nat
        BY AmountInRange
      <4>. QED  BY <4>1, <4>2
    <3>2. w \in 0 .. h
      BY <1>0, <3>1, SignedRule DEF UInt32
    <3>3. u = w \div Pow2[n]
      BY DEF Right
    <3>. HIDE DEF n, h, u, w
    <3>4. Pow2[n] \in Nat \ {0}
      BY <3>1, PowerRule
    <3>5. w \in -0 .. h
      BY <3>1, <3>2
    <3>6. w \div Pow2[n] \in -0 .. h
      BY <3>1, <3>4, <3>5, QuotientInRange
    <3>. QED  BY <3>1, <3>3, <3>6 DEF h
  <2>3. Int32(u) >= 0
    BY <1>1, <1>7, <2>1
  <2>. HIDE DEF u
  <2>4. u \in Int /\ WLEN \in Nat /\ Pow2[WLEN] \in Nat \ {0}
    BY <2>2, Widths, PowerRule
  <2>5. UInt32(u) = Int32(u)
    BY <2>3, <2>4, SignClear
  <2>6. UInt32(u) = u
    BY <2>2, <2>4, SmallRemainder DEF UInt32, Unsigned
  <2>7. ValE(name, addr, x, v, imm) = {u}
    BY <1>7, ImmediateValE DEF u
  <2>. QED  BY <1>1, <1>7, <2>1, <2>5, <2>6, <2>7
<1>. QED  BY <1>3, <1>4, <1>5, <1>6, <1>7 DEF ShiftNames

\* The other operations with an immediate.
LEMMA ImmediateCorrect ==
  ASSUME NEW name \in {"addi", "slti", "sltiu", "xori", "ori", "andi", "addiw"}, NEW addr, NEW v,
         NEW x, IsRegister(x), NEW imm \in Int,
         name = "addiw" => Operation(WithImmediate[name], x, imm) >= -1
  PROVE  ValE(name, addr, x, v, imm) = {Operation(WithImmediate[name], x, imm)}
<1>0. x \in Int
  BY DEF IsRegister
<1>1. /\ WithImmediate["addi"] = "add" /\ WithImmediate["slti"] = "slt"
      /\ WithImmediate["sltiu"] = "sltu" /\ WithImmediate["xori"] = "xor"
      /\ WithImmediate["ori"] = "or" /\ WithImmediate["andi"] = "and"
      /\ WithImmediate["addiw"] = "addw"
  BY DEF WithImmediate
<1>2. CASE name \in {"addi", "slti", "sltiu"}
  <2>1. /\ Operation("add", x, imm)  = Int64(x + imm)
        /\ Operation("sltu", x, imm) = Truth(LessUnsigned(x, imm))
        /\ Operation("slt", x, imm)  = Truth(x < imm)
    BY <1>0, Arithmetic
  <2>2. /\ ValE("addi", addr, x, v, imm)  = {Int64(x + imm)}
        /\ ValE("sltiu", addr, x, v, imm) = {Truth(LessUnsigned(x, imm))}
        /\ ValE("slti", addr, x, v, imm)  = {Truth(x < imm)}
    BY ImmediateValE
  <2>. QED  BY <1>1, <1>2, <2>1, <2>2
<1>3. CASE name \in {"xori", "ori", "andi"}
  BY <1>0, <1>1, <1>3, ImmediateValE, Bitwise
<1>4. CASE name = "addiw"
  <2>1. Operation("addw", x, imm) = Int32(x + imm)
    BY DEF Operation, ExtendWord, Int32
  <2>2. Int32(x + imm) >= -1 /\ Int32(x + imm) \in Int
    <3>1. x + imm \in Int
      BY <1>0
    <3>2. WLEN \in Nat \ {0}
      BY Widths
    <3>. DEFINE u == x + imm
    <3>. HIDE DEF u
    <3>3. Signed(WLEN, u) \in -Pow2[WLEN-1] .. Pow2[WLEN-1]-1
      BY <3>1, <3>2, SignedRule DEF u
    <3>4. WLEN-1 \in Nat
      BY <3>2
    <3>5. Pow2[WLEN-1] \in Nat
      BY <3>4, PowerRule
    <3>. QED  BY <1>1, <1>4, <2>1, <3>3, <3>5 DEF u, Int32
  <2>3. ExtendedWord(x + imm) = {Int32(x + imm)}
    BY <2>2 DEF ExtendedWord
  <2>. QED  BY <1>1, <1>4, <2>1, <2>3, ImmediateValE
<1>. QED  BY <1>2, <1>3, <1>4

\* Where jalr goes.
LEMMA JalrCorrect ==
  ASSUME NEW v \in Int
  PROVE  Register(Bits(v, XLEN) \ {0}) = Int64(2 * (v \div 2))
<1>. DEFINE h == v \div 2
            u == 2 * h
            word == Bits(v, XLEN) \ {0}
<1>1. h \in Int /\ u \in Int /\ Pow2[1] = 2 /\ XLEN \in Nat
  BY Widths, Powers
<1>2. \A k \in 0 .. XLEN-1 : k \in word <=> k # 0 /\ Bit(v, k)
  BY <1>1, BitsAre
<1>3. \A k \in 0 .. XLEN-1 : Bit(u, k) <=> k # 0 /\ Bit(v, k)
  <2>. TAKE k \in 0 .. XLEN-1
  <2>1. k \in Nat /\ u = h * Pow2[1]
    BY <1>1
  <2>2. CASE k = 0
    <3>1. u % 2 = 0 /\ u \div 1 = u
      BY <1>1
    <3>. QED  BY <2>2, <3>1, Powers DEF Bit
  <2>3. CASE k # 0
    <3>1. k-1 \in Nat /\ 1 + (k-1) = k /\ k >= 1
      BY <2>1, <2>3
    <3>. HIDE DEF h, u
    <3>2. Bit(h * Pow2[1], k) <=> k >= 1 /\ Bit(h, k-1)
      BY <1>1, <2>1, BitOfMultiple
    <3>. DEFINE j == k-1
    <3>. HIDE DEF j
    <3>3. Bit(v \div Pow2[1], j) <=> Bit(v, 1 + j)
      BY <3>1, BitOfQuotient DEF j
    <3>. QED  BY <1>1, <2>1, <2>3, <3>1, <3>2, <3>3 DEF h, j
  <2>. QED  BY <2>2, <2>3
<1>. HIDE DEF word, u
<1>4. Register(word) = Signed(XLEN, u)
  BY <1>1, <1>2, <1>3, RegisterOfBits
<1>. QED  BY <1>4 DEF Int64, u, word

\* Whether a branch is taken.
LEMMA BranchCorrect ==
  ASSUME NEW name \in BNames, NEW addr, NEW x \in Int, NEW y \in Int, NEW imm,
         NEW outcome \in ValE(name, addr, x, y, imm)
  PROVE  outcome = 1 <=> Condition(name, x, y)
<1>1. name \in BranchNames
  BY DEF BranchNames, BNames
<1>2. ValE(name, addr, x, y, imm) = {Truth(Taken(name, x, y))}
  BY <1>1 DEF ValE, BranchNames
<1>3. outcome = 1 <=> Taken(name, x, y)
  <2>1. outcome = Truth(Taken(name, x, y))
    BY <1>2
  <2>. QED  BY <2>1 DEF Truth
<1>4. \A p, q \in Int : BelowUnsigned(p, q) = 1 <=> LessUnsigned(p, q)
  BY DEF BelowUnsigned, Below, LessUnsigned, UInt64
<1>5. \A p, q \in Int : BelowUnsigned(p, q) = 0 <=> ~LessUnsigned(p, q)
  BY DEF BelowUnsigned, Below, LessUnsigned, UInt64
<1>6. CASE name \in {"beq", "bne", "blt", "bge"}
  BY <1>3, <1>6 DEF Taken, Condition
<1>7. CASE name = "bltu"
  <2>1. Taken(name, x, y) <=> LessUnsigned(x, y)
    BY <1>7 DEF Taken
  <2>2. Condition(name, x, y) <=> BelowUnsigned(x, y) = 1
    BY <1>7 DEF Condition
  <2>. QED  BY <1>3, <1>4, <2>1, <2>2
<1>8. CASE name = "bgeu"
  <2>1. Taken(name, x, y) <=> ~LessUnsigned(x, y)
    BY <1>8 DEF Taken
  <2>2. Condition(name, x, y) <=> BelowUnsigned(x, y) = 0
    BY <1>8 DEF Condition
  <2>. QED  BY <1>3, <1>5, <2>1, <2>2
<1>. QED  BY <1>6, <1>7, <1>8 DEF BNames

-----------------------------------------------------------------------------
(* The stages together.                                                    *)

\* Fetch tells a jal by its opcode and gets its target right; only branches have theirs.
LEMMA OpcodeFollowed ==
  ASSUME NEW i \in Instruction, Encodable(i)
  PROVE  LET w == Encode(i)
         IN  /\ i.name \in JNames => Opcode(w) = 111 /\ ImmUJ(w) = i.imm
             /\ i.name \in BNames => Opcode(w) = 99 /\ ImmSB(w) = i.imm
             /\ i.name \notin JNames \cup BNames => Opcode(w) \notin {99, 111}
<1>. DEFINE w == Encode(i)
<1>1. CASE i.name \in RNames
  BY <1>1, FieldsR, RangesOfR DEF RNames, JNames, BNames
<1>2. CASE i.name \in ShiftNames
  BY <1>2, FieldsShift, RangesOfShift DEF ShiftNames, JNames, BNames
<1>3. CASE i.name \in INames
  BY <1>3, FieldsI, RangesOfI DEF INames, JNames, BNames
<1>4. CASE i.name \in SNames
  <2>1. Opcode(w) = 35
    <3>1. Opcode(w) = RowOf(i.name).opcode
      BY <1>4, FieldsS
    <3>. QED  BY <1>4, <3>1, RangesOfS
  <2>. QED  BY <1>4, <2>1 DEF SNames, JNames, BNames
<1>5. CASE i.name \in BNames
  <2>1. Opcode(w) = 99
    <3>1. Opcode(w) = RowOf(i.name).opcode
      BY <1>5, FieldsB
    <3>. QED  BY <1>5, <3>1, RangesOfB
  <2>2. ImmSB(w) = i.imm
    BY <1>5, DecodesB
  <2>. QED  BY <1>5, <2>1, <2>2 DEF BNames, JNames
<1>6. CASE i.name \in UNames
  <2>1. Opcode(w) \in {55, 23}
    <3>1. Opcode(w) = RowOf(i.name).opcode
      BY <1>6, FieldsU
    <3>. QED  BY <1>6, <3>1, RangesOfU
  <2>. QED  BY <1>6, <2>1 DEF UNames, JNames, BNames
<1>7. CASE i.name \in JNames
  <2>1. Opcode(w) = 111
    <3>1. Opcode(w) = RowOf(i.name).opcode
      BY <1>7, FieldsJ
    <3>. QED  BY <1>7, <3>1, RangesOfJ
  <2>2. ImmUJ(w) = i.imm
    BY <1>7, DecodesJ
  <2>. QED  BY <1>7, <2>1, <2>2 DEF BNames, JNames
<1>. QED  BY <1>1, <1>2, <1>3, <1>4, <1>5, <1>6, <1>7, FormatCases

\* The register file holds values of registers, and 0 in the first.
LEMMA RegistersAre ==
  ASSUME NEW c \in Cases, NEW r \in RegNum
  PROVE  IsRegister(registers(c, r)) /\ registers(c, 0) = 0
<1>1. IsRegister(c.x) /\ IsRegister(c.y)
  BY CasesAssumption DEF IsRegister, Int64
<1>2. IsRegister(0)
  <2>1. Pow2[0] = 1 /\ 0 \in 0 .. XLEN-1
    BY Widths, Powers
  <2>2. 0 \in 0 .. Pow2[0]-1
    BY <2>1
  <2>. QED  BY <2>1, <2>2, SmallRegister
<1>3. IsRegister(Int64(1 - r))
  <2>1. 1 - r \in Int /\ XLEN \in 1 .. XLEN
    BY Widths DEF RegNum
  <2>. QED  BY <2>1, SignedTwice DEF Int64
<1>. QED  BY <1>1, <1>2, <1>3, Zenon DEF registers

ImmediateNames == {"addi", "slti", "sltiu", "xori", "ori", "andi", "addiw"}

\* What the manual says of a case, by format.
LEMMA ManualEffect ==
  ASSUME NEW c, c.instr \in Instruction
  PROVE  LET effect(rd, next, mm) == [rd |-> rd, pc |-> next, mem |-> mm]
             i      == c.instr
             x      == registers(c, i.rs1)
             y      == registers(c, i.rs2)
             data   == c.data
             e      == Expected(c)
             next   == Signed(XLEN, c.addr + 4)
             target == Signed(XLEN, c.addr + i.imm)
         IN  /\ i.name \in RNames => e = effect(Operation(i.name, x, y), next, data)
             /\ i.name \in ShiftNames \cup ImmediateNames =>
                  e = effect(Operation(WithImmediate[i.name], x, i.imm), next, data)
             /\ i.name \in SNames => e = effect(0, next, Overwritten(i.name, data, y))
             /\ i.name \in BNames => e = effect(0, IF Condition(i.name, x, y) THEN target ELSE next, data)
             /\ i.name = "lui"    => e = effect(Signed(XLEN, i.imm), next, data)
             /\ i.name = "auipc"  => e = effect(target, next, data)
             /\ i.name = "jal"    => e = effect(next, target, data)
             /\ i.name = "jalr"   => e = effect(next, Register(Bits(x + i.imm, XLEN) \ {0}), data)
             /\ i.name = "ecall"  => e = effect(0, next, data)
             /\ i.name \in LoadNames => e = effect(Loaded(i.name, data), next, data)
<1>. DEFINE effect(rd, nextpc, mm) == [rd |-> rd, pc |-> nextpc, mem |-> mm]
            i      == c.instr
            x      == registers(c, i.rs1)
            y      == registers(c, i.rs2)
            data   == c.data
            e      == Expected(c)
            next   == Signed(XLEN, c.addr + 4)
            target == Signed(XLEN, c.addr + i.imm)
            name   == i.name
            cond   == Condition(i.name, x, y)
            regs   == Operation(i.name, x, y)
            imms   == Operation(WithImmediate[i.name], x, i.imm)
            upper  == Signed(XLEN, i.imm)
            even   == Register(Bits(x + i.imm, XLEN) \ {0})
            loaded == Loaded(i.name, data)
            stored == Overwritten(i.name, data, y)
<1>1. DOMAIN WithImmediate = ShiftNames \cup ImmediateNames
  BY DEF WithImmediate, ShiftNames, ImmediateNames
<1>2. e = CASE name \in RNames               -> effect(regs, next, data)
            [] name \in ShiftNames \cup ImmediateNames -> effect(imms, next, data)
            [] name \in SNames               -> effect(0, next, stored)
            [] name \in BNames               -> effect(0, IF cond THEN target ELSE next, data)
            [] name = "lui"                  -> effect(upper, next, data)
            [] name = "auipc"                -> effect(target, next, data)
            [] name = "jal"                  -> effect(next, target, data)
            [] name = "jalr"                 -> effect(next, even, data)
            [] name \in {"fence", "ecall"}   -> effect(0, next, data)
            [] OTHER                         -> effect(loaded, next, data)
  BY <1>1, FormatNames, Zenon DEF Executed, Expected
<1>. HIDE DEF e, next, target, name, cond, regs, imms, upper, even, loaded, stored
<1>3. CASE name \in RNames
  BY <1>2, <1>3 DEF RNames, ShiftNames, ImmediateNames, SNames, BNames, LoadNames,
                    e, next, target, name, cond, regs, imms, upper, even, loaded, stored
<1>4. CASE name \in ShiftNames \cup ImmediateNames
  BY <1>2, <1>4 DEF RNames, ShiftNames, ImmediateNames, SNames, BNames, LoadNames,
                    e, next, target, name, cond, regs, imms, upper, even, loaded, stored
<1>5. CASE name \in SNames
  BY <1>2, <1>5 DEF RNames, ShiftNames, ImmediateNames, SNames, BNames, LoadNames,
                    e, next, target, name, cond, regs, imms, upper, even, loaded, stored
<1>6. CASE name \in BNames
  BY <1>2, <1>6 DEF RNames, ShiftNames, ImmediateNames, SNames, BNames, LoadNames,
                    e, next, target, name, cond, regs, imms, upper, even, loaded, stored
<1>7. CASE name \in {"lui", "auipc", "jal", "jalr", "ecall"}
  BY <1>2, <1>7 DEF RNames, ShiftNames, ImmediateNames, SNames, BNames, LoadNames,
                    e, next, target, name, cond, regs, imms, upper, even, loaded, stored
<1>8. CASE name \in LoadNames
  BY <1>2, <1>8 DEF RNames, ShiftNames, ImmediateNames, SNames, BNames, LoadNames,
                    e, next, target, name, cond, regs, imms, upper, even, loaded, stored
<1>9. CASE name \notin RNames \cup (ShiftNames \cup ImmediateNames) \cup SNames \cup BNames
                         \cup {"lui", "auipc", "jal", "jalr", "ecall"} \cup LoadNames
  BY <1>9 DEF name
<1>. QED  BY <1>3, <1>4, <1>5, <1>6, <1>7, <1>8, <1>9

\* Where Fetch goes; of a branch it remembers which way.
FetchedPC ==
  /\ predJ \in BOOLEAN
  /\ Opcode(ival) = 99 => predPC = Int64(case.addr + (IF predJ THEN ImmSB(ival) ELSE 4))
  /\ Opcode(ival) = 111 => predPC = Int64(case.addr + ImmUJ(ival))
  /\ Opcode(ival) \notin {99, 111} => predPC = Int64(case.addr + 4)

\* What Execute leaves.
ExecutedPC ==
  LET target == ValC(ERegO.name, case.addr, valA, ERegO.imm)
  IN  /\ ERegO.name = "jalr" => predPC = target
      /\ ERegO.name \in BranchNames /\ ~(predJ <=> vE = 1) =>
           predPC = IF vE = 1 THEN target ELSE Int64(case.addr + 4)
      /\ ERegO.name # "jalr" /\ (ERegO.name \in BranchNames => (predJ <=> vE = 1)) => FetchedPC

\* The stages one after the other: what each has left where the next one finds it.
Progress ==
  /\ Decodes /\ predJ \in BOOLEAN
  /\ stage \in {"Decode", "Execute"} => FetchedPC
  /\ stage \in {"MemStage", "done"} =>
       vE \in ValE(ERegO.name, case.addr, valA, valB, ERegO.imm) /\ ExecutedPC
  /\ stage # "done" => mem = case.data
  /\ stage = "done" =>
       /\ vM = IF IsLoad(ERegO.name) THEN ValM(ERegO.name, case.data) ELSE 0
       /\ mem = IF ERegO.name \in {"sb", "sh", "sw", "sd"}
                  THEN Stored(ERegO.name, case.data, valB) ELSE case.data

\* Each stage keeps it.
LEMMA FetchProgress == Progress /\ Fetch => Progress'
<1>. SUFFICES ASSUME Progress, Fetch PROVE Progress'
  OBVIOUS
<1>1. /\ stage = "Fetch" /\ stage' = "Decode"
      /\ UNCHANGED <<case, ival, ERegO, vE, vM, mem>>
  BY DEF Fetch
<1>2. FetchedPC'
  <2>1. /\ predJ' \in BOOLEAN
        /\ predPC' = Int64(case.addr + (CASE Opcode(ival) = 111          -> ImmUJ(ival)
                                          [] Opcode(ival) = 99 /\ predJ' -> ImmSB(ival)
                                          [] OTHER                       -> 4))
    BY DEF Fetch, Progress
  <2>2. Opcode(ival) = 111 => predPC' = Int64(case.addr + ImmUJ(ival))
    BY <2>1
  <2>3. Opcode(ival) \notin {99, 111} => predPC' = Int64(case.addr + 4)
    BY <2>1
  <2>4. Opcode(ival) = 99 => predPC' = Int64(case.addr + (IF predJ' THEN ImmSB(ival) ELSE 4))
    <3>1. CASE predJ'
      BY <2>1, <3>1
    <3>2. CASE ~predJ'
      BY <2>1, <3>2
    <3>. QED  BY <3>1, <3>2
  <2>. QED  BY <1>1, <2>1, <2>2, <2>3, <2>4 DEF FetchedPC
<1>3. Decodes'
  BY <1>1 DEF Progress, Decodes
<1>. QED  BY <1>1, <1>2, <1>3 DEF Progress, FetchedPC

LEMMA DecodeProgress == Progress /\ Decode => Progress'
<1>. SUFFICES ASSUME Progress, Decode PROVE Progress'
  OBVIOUS
<1>1. /\ stage = "Decode" /\ stage' = "Execute"
      /\ UNCHANGED <<case, ival, predPC, predJ, vE, vM, mem>>
  BY DEF Decode
<1>2. Decodes'
  BY <1>1 DEF Progress, Decodes, Decode
<1>3. FetchedPC'
  BY <1>1 DEF Progress, FetchedPC
<1>. QED  BY <1>1, <1>2, <1>3 DEF Progress

LEMMA ExecuteProgress == Progress /\ Execute => Progress'
<1>. SUFFICES ASSUME Progress, Execute PROVE Progress'
  OBVIOUS
<1>1. /\ stage = "Execute" /\ stage' = "MemStage"
      /\ UNCHANGED <<case, ival, predJ, ERegO, vM, mem>>
  BY DEF Execute
<1>2. Decodes'
  BY <1>1 DEF Progress, Decodes
<1>3. valA' = valA /\ valB' = valB
  BY <1>1 DEF valA, valB
<1>4. vE' \in ValE(ERegO.name, case.addr, valA, valB, ERegO.imm)
  BY DEF Execute
<1>5. ExecutedPC'
  <2>. DEFINE target == ValC(ERegO.name, case.addr, valA, ERegO.imm)
              wrong  == ERegO.name \in BranchNames /\ ~(predJ <=> vE' = 1)
  <2>1. predPC' = CASE ERegO.name = "jalr" -> target
                    [] wrong               -> IF vE' = 1 THEN target ELSE Int64(case.addr + 4)
                    [] OTHER               -> predPC
    BY DEF Execute
  <2>2. "jalr" \notin BranchNames
    BY DEF BranchNames
  <2>. HIDE DEF target, wrong
  <2>3. /\ ERegO.name = "jalr" => predPC' = target
        /\ wrong => predPC' = IF vE' = 1 THEN target ELSE Int64(case.addr + 4)
        /\ ERegO.name # "jalr" /\ ~wrong => predPC' = predPC
    <3>1. wrong => ERegO.name # "jalr"
      BY <2>2 DEF wrong
    <3>. QED  BY <2>1, <3>1
  <2>4. ERegO.name # "jalr" /\ ~wrong => FetchedPC'
    BY <1>1, <2>3 DEF Progress, FetchedPC
  <2>5. target' = target
    BY <1>1, <1>3 DEF target
  <2>. QED  BY <1>1, <2>3, <2>4, <2>5 DEF ExecutedPC, target, wrong
<1>6. predJ' \in BOOLEAN
  BY <1>1 DEF Progress
<1>. QED  BY <1>1, <1>2, <1>3, <1>4, <1>5, <1>6 DEF Progress

LEMMA MemProgress == Progress /\ MemStage => Progress'
<1>. SUFFICES ASSUME Progress, MemStage PROVE Progress'
  OBVIOUS
<1>1. /\ stage = "MemStage" /\ stage' = "done"
      /\ UNCHANGED <<case, ival, predPC, predJ, ERegO, vE>>
  BY DEF MemStage
<1>2. Decodes'
  BY <1>1 DEF Progress, Decodes
<1>3. valA' = valA /\ valB' = valB
  BY <1>1 DEF valA, valB
<1>4. vE' \in ValE(ERegO.name, case.addr, valA, valB, ERegO.imm) /\ ExecutedPC'
  BY <1>1, <1>3 DEF Progress, ExecutedPC, FetchedPC
<1>5. mem = case.data
  BY <1>1 DEF Progress
<1>6. /\ vM' = IF IsLoad(ERegO.name) THEN ValM(ERegO.name, case.data) ELSE 0
      /\ mem' = IF ERegO.name \in {"sb", "sh", "sw", "sd"}
                  THEN Stored(ERegO.name, case.data, valB) ELSE case.data
  BY <1>5 DEF MemStage
<1>. QED  BY <1>1, <1>2, <1>3, <1>4, <1>6 DEF Progress

\* Every stage leaves what the next one relies on.
THEOREM ProgressAlways == Spec => []Progress
<1>1. Init => Progress
  BY DEF Init, Progress, Decodes
<1>2. Progress /\ [Next]_vars => Progress'
  <2>. SUFFICES ASSUME Progress, [Next]_vars PROVE Progress'
    OBVIOUS
  <2>1. CASE Fetch
    BY <2>1, FetchProgress
  <2>2. CASE Decode
    BY <2>2, DecodeProgress
  <2>3. CASE DecodeFault
    BY <2>3 DEF DecodeFault, Progress, Decodes, FetchedPC
  <2>4. CASE Execute
    BY <2>4, ExecuteProgress
  <2>5. CASE MemStage
    BY <2>5, MemProgress
  <2>6. CASE UNCHANGED vars
    BY <2>6 DEF vars, Progress, Decodes, FetchedPC, ExecutedPC, valA, valB
  <2>. QED  BY <2>1, <2>2, <2>3, <2>4, <2>5, <2>6 DEF Next
<1>. QED  BY <1>1, <1>2, PTL DEF Spec

-----------------------------------------------------------------------------
(* What the instruction leaves.                                            *)

\* What is there once the instruction has left the pipeline, for one that Decode recognises:
\* i and its operands x and y.
Ended(i, x, y) ==
  /\ i \in Instruction /\ Encodable(i) /\ i.name # "fence"
  /\ IsRegister(x) /\ IsRegister(y)
  /\ ERegO.name = i.name
  /\ Reads1(i.name) => valA = x
  /\ Reads2(i.name) => valB = y
  /\ ERegO.dstE = IF Writes(i.name) /\ ~IsLoad(i.name) THEN i.rd ELSE 0
  /\ ERegO.dstM = IF IsLoad(i.name) THEN i.rd ELSE 0
  /\ i.name \in ShiftNames => ERegO.imm = i.imm + 32 * RowOf(i.name).f7
  /\ i.name \notin RNames \cup ShiftNames => ERegO.imm = i.imm
  /\ vE \in ValE(i.name, case.addr, valA, valB, ERegO.imm)

LEMMA AtTheEnd ==
  ASSUME Progress, stage = "done", ~Misdecoded(case.instr)
  PROVE  Ended(case.instr, registers(case, case.instr.rs1), registers(case, case.instr.rs2))
<1>. DEFINE i == case.instr
            x == registers(case, i.rs1)
            y == registers(case, i.rs2)
<1>1. i \in Instruction /\ Encodable(i) /\ case \in Cases /\ ival = Encode(i)
  BY CaseInstruction DEF Progress, Decodes
<1>2. Name(Encode(i)) # "illegal"
  BY <1>1 DEF Progress, Decodes
<1>3. PICK imm \in Imm(Encode(i)) : ERegO = Decoded(Encode(i), imm)
  BY <1>1 DEF Progress, Decodes
<1>4. vE \in ValE(ERegO.name, case.addr, valA, valB, ERegO.imm)
  BY DEF Progress
<1>5. i.rs1 \in RegNum /\ i.rs2 \in RegNum
  BY <1>1 DEF Instruction
<1>6. IsRegister(x) /\ IsRegister(y)
  BY <1>1, <1>5, RegistersAre
<1>. HIDE DEF i
<1>7. /\ i.name # "fence"
      /\ ERegO.name = Name(Encode(i)) /\ ERegO.imm = imm
      /\ ERegO.srcA = IF Reads1(i.name) THEN i.rs1 ELSE 0
      /\ ERegO.srcB = IF Reads2(i.name) THEN i.rs2 ELSE 0
      /\ ERegO.dstE = IF Writes(i.name) /\ ~IsLoad(i.name) THEN i.rd ELSE 0
      /\ ERegO.dstM = IF IsLoad(i.name) THEN i.rd ELSE 0
  BY <1>1, <1>2, <1>3, DecodedRegisters
<1>8. /\ Name(Encode(i)) = i.name
      /\ i.name \in ShiftNames => imm = i.imm + 32 * RowOf(i.name).f7
      /\ i.name \notin RNames \cup ShiftNames => imm = i.imm
  BY <1>1, <1>2, <1>3, DecodedOperation DEF i
<1>9. (Reads1(i.name) => valA = x) /\ (Reads2(i.name) => valB = y)
  BY <1>7 DEF valA, valB
<1>. QED  BY <1>1, <1>4, <1>6, <1>7, <1>8, <1>9 DEF Ended, i

\* Instructions that do not jump, and those that leave the memory alone.
LEMMA Sequential ==
  ASSUME Progress, stage = "done", ERegO.name = case.instr.name,
         case.instr.name \notin BNames \cup JNames \cup {"jalr"}
  PROVE  predPC = Int64(case.addr + 4)
<1>1. case.instr \in Instruction /\ Encodable(case.instr) /\ ival = Encode(case.instr)
  BY CaseInstruction DEF Progress, Decodes
<1>2. FetchedPC
  BY DEF Progress, ExecutedPC, BranchNames, BNames
<1>3. Opcode(ival) \notin {99, 111}
  BY <1>1, OpcodeFollowed
<1>. QED  BY <1>2, <1>3 DEF FetchedPC

LEMMA MemoryKept ==
  ASSUME Progress, stage = "done", ERegO.name \notin SNames
  PROVE  mem = case.data
BY DEF Progress, SNames

\* The final state against an effect of the manual.
LEMMA Conclude ==
  ASSUME Ended(case.instr, registers(case, case.instr.rs1), registers(case, case.instr.rs2)),
         Writes(case.instr.name) /\ ~IsLoad(case.instr.name) => vE = Expected(case).rd,
         IsLoad(case.instr.name) => vM = Expected(case).rd,
         mem = Expected(case).mem, predPC = Expected(case).pc
  PROVE  ExecutesTheManual
<1>. DEFINE n == case.instr.name
            rd == case.instr.rd
<1>1. /\ ERegO.dstE = IF Writes(n) /\ ~IsLoad(n) THEN rd ELSE 0
      /\ ERegO.dstM = IF IsLoad(n) THEN rd ELSE 0
  BY DEF Ended
<1>2. ASSUME Writes(n), rd # 0
      PROVE  (IF ERegO.dstM = rd THEN vM ELSE IF ERegO.dstE = rd THEN vE ELSE 0) = Expected(case).rd
  <2>1. CASE IsLoad(n)
    BY <1>1, <2>1
  <2>2. CASE ~IsLoad(n)
    BY <1>1, <1>2, <2>2
  <2>. QED  BY <2>1, <2>2
<1>. QED  BY <1>2 DEF ExecutesTheManual, WritesRd, Has, Instr, Writes

\* The results on words that Diverges compares are numbers.
LEMMA WordResults ==
  ASSUME NEW x \in Int, NEW a \in Int
  PROVE  /\ Operation("sllw", x, a) \in Int /\ Operation("srlw", x, a) \in Int
         /\ Operation("addw", x, a) \in Int
<1>1. \A u \in Int : Int32(u) \in Int
  <2>. TAKE u \in Int
  <2>1. WLEN \in Nat /\ Pow2[WLEN] \in Nat \ {0}
    BY Widths, PowerRule
  <2>. QED  BY <2>1 DEF Int32, Signed, Unsigned
<1>2. /\ a % WLEN \in Nat /\ (a % WLEN) % XLEN \in Nat
  <2>1. WLEN \in Nat \ {0} /\ XLEN \in Nat \ {0}
    BY Widths
  <2>. QED  BY <2>1
<1>3. Left(x, a % WLEN, XLEN) \in Int
  BY <1>2, PowerRule DEF Left
<1>4. Right(UInt32(x), a, WLEN) \in Int
  <2>1. UInt32(x) \in Int
    <3>1. WLEN \in Nat /\ Pow2[WLEN] \in Nat \ {0}
      BY Widths, PowerRule
    <3>. QED  BY <3>1 DEF UInt32, Unsigned
  <2>2. Pow2[a % WLEN] \in Nat \ {0}
    BY <1>2, PowerRule
  <2>. QED  BY <2>1, <2>2 DEF Right
<1>5. Operation("addw", x, a) = Int32(x + a)
  BY DEF Operation, ExtendWord, Int32
<1>. QED  BY <1>1, <1>3, <1>4, <1>5, WordShiftUp, WordShiftsDown

\* Every group of instructions ends as the manual says: operations,
LEMMA EndOfOperation ==
  ASSUME Progress, stage = "done", ~Diverges(case),
         case.instr.name \in RNames \cup ShiftNames \cup ImmediateNames
  PROVE  ExecutesTheManual
<1>. DEFINE i == case.instr
            x == registers(case, i.rs1)
            y == registers(case, i.rs2)
            next == Signed(XLEN, case.addr + 4)
            e == Expected(case)
<1>1. Ended(i, x, y)
  BY AtTheEnd DEF Diverges
<1>2. i \in Instruction
  BY <1>1 DEF Ended
<1>3. /\ i.name \notin BNames \cup JNames \cup {"jalr"} /\ i.name \notin SNames /\ ~IsLoad(i.name)
      /\ Reads1(i.name)
  <2>1. /\ i.name \notin BNames \cup JNames \cup {"jalr"} /\ i.name \notin SNames /\ ~IsLoad(i.name)
        /\ i.name \notin UNames
    BY DEF RNames, ShiftNames, ImmediateNames, BNames, JNames, SNames, UNames, IsLoad
  <2>. QED  BY <2>1, FormatNames, Zenon DEF Reads1
<1>4. ERegO.name = i.name
  BY <1>1 DEF Ended
<1>5. mem = case.data /\ predPC = next
  BY <1>3, <1>4, Sequential, MemoryKept DEF Int64
<1>6. IsRegister(x) /\ IsRegister(y) /\ valA = x /\ (Reads2(i.name) => valB = y)
      /\ vE \in ValE(i.name, case.addr, valA, valB, ERegO.imm)
  BY <1>1, <1>3 DEF Ended
<1>7. /\ i.name \in RNames => e = [rd |-> Operation(i.name, x, y), pc |-> next, mem |-> case.data]
      /\ i.name \in ShiftNames \cup ImmediateNames =>
           e = [rd |-> Operation(WithImmediate[i.name], x, i.imm), pc |-> next, mem |-> case.data]
  BY <1>2, ManualEffect, Zenon
<1>. HIDE DEF x, y
<1>8. CASE i.name \in RNames
  <2>1. e = [rd |-> Operation(i.name, x, y), pc |-> next, mem |-> case.data]
    BY <1>8, <1>7
  <2>2. i.name \in RNames \ {"mul", "div", "rem", "subw", "srlw", "sraw"}
    BY <1>8 DEF Diverges, Misdecoded
  <2>3. Reads2(i.name)
    BY <1>8, FormatNames DEF Reads2
  <2>. HIDE DEF i
  <2>4. ValE(i.name, case.addr, x, y, ERegO.imm) = {Operation(i.name, x, y)}
    BY <1>6, <2>2, RegisterCorrect
  <2>5. vE = Operation(i.name, x, y)
    BY <1>6, <2>3, <2>4
  <2>. HIDE DEF e
  <2>6. vE = e.rd /\ mem = e.mem /\ predPC = e.pc
    BY <1>5, <2>1, <2>5
  <2>. QED  BY <1>1, <1>3, <2>6, Conclude DEF e, i, x, y
<1>9. CASE i.name \in ShiftNames \cup ImmediateNames
  <2>. DEFINE op == WithImmediate[i.name]
  <2>1. e = [rd |-> Operation(op, x, i.imm), pc |-> next, mem |-> case.data]
    BY <1>9, <1>7
  <2>2. e.rd = Operation(op, x, i.imm)
    BY <2>1
  <2>3. /\ i.name \in {"slliw", "srliw"} => ~(e.rd < 0)
        /\ i.name = "addiw" => ~(e.rd < -1)
    BY DEF Diverges
  <2>4. i.imm \in Int
    BY <1>2 DEF Instruction
  <2>5. i.name \notin RNames
    BY <1>9 DEF RNames, ShiftNames, ImmediateNames
  <2>6. ValE(i.name, case.addr, x, valB, ERegO.imm) = {Operation(op, x, i.imm)}
    <3>1. CASE i.name \in ShiftNames
      <4>1. ERegO.imm = i.imm + 32 * RowOf(i.name).f7 /\ Encodable(i)
        BY <1>1, <3>1 DEF Ended
      <4>2. ERegO.imm \in {i.imm, i.imm + 1024}
        BY <1>2, <3>1, <4>1, AmountOfShift
      <4>3. i.name \notin {"srai", "sraiw"} => RowOf(i.name).f7 = 0
        BY <3>1, RowOfShift DEF ShiftNames, Shifts, Row
      <4>4. i.name \notin {"srai", "sraiw"} => ERegO.imm = i.imm
        BY <2>4, <4>1, <4>3
      <4>5. i.name \in {"slliw", "srliw"} => Operation(op, x, i.imm) >= 0
        <5>1. i.name \in {"slliw", "srliw"} => op \in {"sllw", "srlw"}
          BY DEF WithImmediate
        <5>2. x \in Int
          BY <1>6 DEF IsRegister
        <5>. DEFINE r == Operation(op, x, i.imm)
        <5>3. i.name \in {"slliw", "srliw"} => r \in Int /\ ~(r < 0)
          <6>1. i.name \in {"slliw", "srliw"} => r \in Int
            BY <2>4, <5>1, <5>2, WordResults
          <6>2. i.name \in {"slliw", "srliw"} => ~(r < 0)
            BY <2>2, <2>3
          <6>. QED  BY <6>1, <6>2
        <5>. HIDE DEF r
        <5>4. i.name \in {"slliw", "srliw"} => r >= 0
          BY <5>3
        <5>. QED  BY <5>4 DEF r
      <4>. QED  BY <1>6, <2>4, <3>1, <4>2, <4>4, <4>5, ShiftCorrect, SMTT(60)
    <3>2. CASE i.name \in ImmediateNames
      <4>1. i.name \notin ShiftNames
        BY <3>2 DEF ShiftNames, ImmediateNames
      <4>2. ERegO.imm = i.imm
        BY <1>1, <2>5, <4>1 DEF Ended
      <4>3. i.name = "addiw" => Operation(op, x, i.imm) >= -1
        <5>1. i.name = "addiw" => op = "addw"
          BY DEF WithImmediate
        <5>2. x \in Int
          BY <1>6 DEF IsRegister
        <5>. DEFINE r == Operation(op, x, i.imm)
        <5>3. i.name = "addiw" => r \in Int
          BY <2>4, <5>1, <5>2, WordResults
        <5>4. i.name = "addiw" => ~(r < -1)
          BY <2>2, <2>3
        <5>. HIDE DEF r
        <5>5. i.name = "addiw" => r >= -1
          BY <5>3, <5>4
        <5>. QED  BY <5>5 DEF r
      <4>. QED  BY <1>6, <2>4, <3>2, <4>2, <4>3, ImmediateCorrect DEF ImmediateNames
    <3>. QED  BY <1>9, <3>1, <3>2
  <2>7. vE = Operation(op, x, i.imm)
    BY <1>6, <2>6
  <2>. HIDE DEF e
  <2>8. vE = e.rd /\ mem = e.mem /\ predPC = e.pc
    BY <1>5, <2>1, <2>7
  <2>. QED  BY <1>1, <1>3, <2>8, Conclude DEF e, x, y
<1>. QED  BY <1>8, <1>9

\* loads and stores,
LEMMA EndOfAccess ==
  ASSUME Progress, stage = "done", ~Diverges(case), case.instr.name \in SNames \cup LoadNames
  PROVE  ExecutesTheManual
<1>. DEFINE i == case.instr
            x == registers(case, i.rs1)
            y == registers(case, i.rs2)
            next == Signed(XLEN, case.addr + 4)
            e == Expected(case)
<1>1. Ended(i, x, y)
  BY AtTheEnd DEF Diverges
<1>2. i \in Instruction /\ ERegO.name = i.name
  BY <1>1 DEF Ended
<1>3. i.name \notin BNames \cup JNames \cup {"jalr"}
  BY DEF LoadNames, BNames, JNames, SNames
<1>4. predPC = next
  BY <1>2, <1>3, Sequential DEF Int64
<1>5. /\ i.name \in SNames => e = [rd |-> 0, pc |-> next, mem |-> Overwritten(i.name, case.data, y)]
      /\ i.name \in LoadNames => e = [rd |-> Loaded(i.name, case.data), pc |-> next, mem |-> case.data]
  BY <1>2, ManualEffect, Zenon
<1>6. case.data \in 0 .. Pow2[XLEN]-1 /\ case.data \in Int
  <2>1. case \in Cases
    BY DEF Progress, Decodes
  <2>2. case.data \in 0 .. Pow2[XLEN]-1
    BY <2>1, CasesAssumption
  <2>. QED  BY <2>2
<1>7. /\ vM = IF IsLoad(i.name) THEN ValM(i.name, case.data) ELSE 0
      /\ mem = IF i.name \in SNames THEN Stored(i.name, case.data, valB) ELSE case.data
  BY <1>2 DEF Progress, SNames
<1>8. y \in Int /\ (Reads2(i.name) => valB = y)
  BY <1>1 DEF Ended, IsRegister
<1>9. CASE i.name \in SNames
  <2>1. Reads2(i.name) /\ ~Writes(i.name) /\ ~IsLoad(i.name)
    <3>1. ~IsLoad(i.name)
      BY <1>9 DEF SNames, IsLoad
    <3>. QED  BY <1>9, <3>1, FormatNames, Zenon DEF Reads2, Writes
  <2>. HIDE DEF y
  <2>2. mem = Overwritten(i.name, case.data, y)
    BY <1>6, <1>7, <1>8, <1>9, <2>1, StoreCorrect
  <2>. HIDE DEF e
  <2>3. mem = e.mem /\ predPC = e.pc
    BY <1>4, <1>5, <1>9, <2>2
  <2>. QED  BY <1>1, <2>1, <2>3, Conclude DEF e, y
<1>10. CASE i.name \in LoadNames
  <2>1. IsLoad(i.name) /\ i.name \notin SNames
    BY <1>10 DEF LoadNames, IsLoad, SNames
  <2>2. vM = Loaded(i.name, case.data) /\ mem = case.data
    BY <1>6, <1>7, <2>1, LoadCorrect
  <2>. HIDE DEF e
  <2>3. vM = e.rd /\ mem = e.mem /\ predPC = e.pc
    BY <1>4, <1>5, <1>10, <2>2
  <2>. QED  BY <1>1, <2>1, <2>3, Conclude DEF e
<1>. QED  BY <1>9, <1>10

\* lui, auipc and ecall,
LEMMA EndOfUpper ==
  ASSUME Progress, stage = "done", ~Diverges(case), case.instr.name \in {"lui", "auipc", "ecall"}
  PROVE  ExecutesTheManual
<1>. DEFINE i == case.instr
            x == registers(case, i.rs1)
            y == registers(case, i.rs2)
            next == Signed(XLEN, case.addr + 4)
            e == Expected(case)
<1>1. Ended(i, x, y)
  BY AtTheEnd DEF Diverges
<1>2. i \in Instruction /\ ERegO.name = i.name
  BY <1>1 DEF Ended
<1>3. /\ i.name \notin BNames \cup JNames \cup {"jalr"} /\ i.name \notin SNames
      /\ i.name \notin RNames \cup ShiftNames /\ ~IsLoad(i.name)
  BY DEF BNames, JNames, SNames, RNames, ShiftNames, IsLoad
<1>4. mem = case.data /\ predPC = next
  BY <1>2, <1>3, Sequential, MemoryKept DEF Int64
<1>5. /\ i.name = "lui"    => e = [rd |-> Signed(XLEN, i.imm), pc |-> next, mem |-> case.data]
      /\ i.name = "auipc"  => e = [rd |-> Signed(XLEN, case.addr + i.imm), pc |-> next, mem |-> case.data]
      /\ i.name = "ecall"  => e = [rd |-> 0, pc |-> next, mem |-> case.data]
  BY <1>2, ManualEffect, Zenon
<1>6. ERegO.imm = i.imm /\ vE \in ValE(i.name, case.addr, valA, valB, ERegO.imm)
  BY <1>1, <1>3 DEF Ended
<1>. HIDE DEF e
<1>7. vE = e.rd
  <2>1. CASE i.name = "lui"
    BY <1>5, <1>6, <2>1, OtherValE DEF Int64
  <2>2. CASE i.name = "auipc"
    BY <1>5, <1>6, <2>2, OtherValE DEF Int64
  <2>3. CASE i.name = "ecall"
    BY <1>5, <1>6, <2>3, OtherValE
  <2>. QED  BY <2>1, <2>2, <2>3
<1>8. mem = e.mem /\ predPC = e.pc
  BY <1>4, <1>5
<1>. QED  BY <1>1, <1>3, <1>7, <1>8, Conclude DEF e

\* jal and jalr,
LEMMA EndOfJump ==
  ASSUME Progress, stage = "done", ~Diverges(case), case.instr.name \in {"jal", "jalr"}
  PROVE  ExecutesTheManual
<1>. DEFINE i == case.instr
            x == registers(case, i.rs1)
            y == registers(case, i.rs2)
            next == Signed(XLEN, case.addr + 4)
            e == Expected(case)
<1>1. Ended(i, x, y)
  BY AtTheEnd DEF Diverges
<1>2. i \in Instruction /\ Encodable(i) /\ ERegO.name = i.name
  BY <1>1 DEF Ended
<1>3. /\ i.name \notin SNames /\ i.name \notin RNames \cup ShiftNames /\ ~IsLoad(i.name)
  BY DEF SNames, RNames, ShiftNames, IsLoad
<1>4. mem = case.data
  BY <1>2, <1>3, MemoryKept
<1>5. /\ i.name = "jal"    => e = [rd |-> next, pc |-> Signed(XLEN, case.addr + i.imm), mem |-> case.data]
      /\ i.name = "jalr"   => e = [rd |-> next, pc |-> Register(Bits(x + i.imm, XLEN) \ {0}), mem |-> case.data]
  BY <1>2, ManualEffect, Zenon
<1>6. ERegO.imm = i.imm /\ vE \in ValE(i.name, case.addr, valA, valB, ERegO.imm)
  BY <1>1, <1>3 DEF Ended
<1>7. vE = next
  BY <1>6, OtherValE DEF Int64
<1>8. i.name = "jal" => predPC = Signed(XLEN, case.addr + i.imm)
  <2>. SUFFICES ASSUME i.name = "jal" PROVE predPC = Signed(XLEN, case.addr + i.imm)
    OBVIOUS
  <2>1. ival = Encode(i) /\ FetchedPC
    BY <1>2 DEF Progress, Decodes, ExecutedPC, BranchNames
  <2>2. Opcode(ival) = 111 /\ ImmUJ(ival) = i.imm
    BY <1>2, <2>1, OpcodeFollowed DEF JNames
  <2>. QED  BY <2>1, <2>2 DEF FetchedPC, Int64
<1>9. i.name = "jalr" => predPC = Register(Bits(x + i.imm, XLEN) \ {0})
  <2>. SUFFICES ASSUME i.name = "jalr" PROVE predPC = Register(Bits(x + i.imm, XLEN) \ {0})
    OBVIOUS
  <2>1. Reads1(i.name)
    <3>1. i.name \notin UNames /\ i.name \notin JNames
      BY DEF UNames, JNames
    <3>. QED  BY <3>1, FormatNames, Zenon DEF Reads1
  <2>2. valA = x /\ x \in Int /\ i.imm \in Int
    BY <1>1, <1>2, <2>1 DEF Ended, IsRegister, Instruction
  <2>3. predPC = Int64(2 * ((valA + ERegO.imm) \div 2))
    BY <1>2 DEF Progress, ExecutedPC, ValC
  <2>. HIDE DEF x
  <2>4. x + i.imm \in Int
    BY <2>2
  <2>. QED  BY <1>6, <2>2, <2>3, <2>4, JalrCorrect
<1>. HIDE DEF e, x
<1>10. vE = e.rd /\ mem = e.mem /\ predPC = e.pc
  BY <1>4, <1>5, <1>7, <1>8, <1>9
<1>. QED  BY <1>1, <1>3, <1>10, Conclude DEF e, x

\* and branches, whichever way Fetch went.
LEMMA EndOfBranch ==
  ASSUME Progress, stage = "done", ~Diverges(case), case.instr.name \in BNames
  PROVE  ExecutesTheManual
<1>. DEFINE i == case.instr
            x == registers(case, i.rs1)
            y == registers(case, i.rs2)
            next == Signed(XLEN, case.addr + 4)
            target == Signed(XLEN, case.addr + i.imm)
            e == Expected(case)
<1>1. Ended(i, x, y)
  BY AtTheEnd DEF Diverges
<1>2. i \in Instruction /\ ERegO.name = i.name
  BY <1>1 DEF Ended
<1>3. /\ i.name \notin SNames /\ i.name \notin RNames \cup ShiftNames /\ ~IsLoad(i.name)
      /\ i.name \notin UNames /\ i.name \notin JNames /\ i.name \in BranchNames /\ i.name # "jalr"
  BY DEF BNames, BranchNames, SNames, RNames, ShiftNames, UNames, JNames, IsLoad
<1>4. mem = case.data
  BY <1>2, <1>3, MemoryKept
<1>5. e = [rd |-> 0, pc |-> IF Condition(i.name, x, y) THEN target ELSE next, mem |-> case.data]
  BY <1>2, ManualEffect, Zenon
<1>6. Reads1(i.name) /\ Reads2(i.name) /\ ~Writes(i.name)
  BY <1>3, FormatNames, Zenon DEF Reads1, Reads2, Writes
<1>7. /\ ERegO.imm = i.imm /\ vE \in ValE(i.name, case.addr, x, y, ERegO.imm)
      /\ x \in Int /\ y \in Int
  BY <1>1, <1>3, <1>6 DEF Ended, IsRegister
<1>. HIDE DEF x, y
<1>8. vE = 1 <=> Condition(i.name, x, y)
  BY <1>7, BranchCorrect
<1>9. predPC = IF vE = 1 THEN target ELSE next
  <2>1. ival = Encode(i) /\ Encodable(i)
    BY <1>1 DEF Ended, Progress, Decodes
  <2>2. Opcode(ival) = 99 /\ ImmSB(ival) = i.imm
    BY <1>2, <2>1, OpcodeFollowed
  <2>3. CASE predJ <=> vE = 1
    <3>1. FetchedPC
      BY <1>2, <1>3, <2>3 DEF Progress, ExecutedPC
    <3>2. CASE predJ
      BY <2>2, <2>3, <3>1, <3>2 DEF FetchedPC, Int64
    <3>3. CASE ~predJ
      BY <2>2, <2>3, <3>1, <3>3 DEF FetchedPC, Int64
    <3>. QED  BY <3>2, <3>3
  <2>4. CASE ~(predJ <=> vE = 1)
    BY <1>2, <1>3, <1>7, <2>4 DEF Progress, ExecutedPC, ValC, Int64
  <2>. QED  BY <2>3, <2>4
<1>. HIDE DEF e
<1>10. mem = e.mem /\ predPC = e.pc
  BY <1>4, <1>5, <1>8, <1>9
<1>. QED  BY <1>1, <1>3, <1>6, <1>10, Conclude DEF e, x, y

\* ExecutesTheManual, for every width, instruction, address, operands, data and prediction, but for
\* those that Diverges lists: the destination register, memory and the program counter end as the
\* manual says (Fetch, Decode, Execute and MemStage of class Machine).
THEOREM ExecuteCorrect == Spec => [](~Diverges(case) => ExecutesTheManual)
<1>1. Progress => (~Diverges(case) => ExecutesTheManual)
  <2>. SUFFICES ASSUME Progress, ~Diverges(case), stage = "done"
                PROVE  ExecutesTheManual
    BY DEF ExecutesTheManual
  <2>. DEFINE n == case.instr.name
  <2>1. case.instr \in Instruction /\ n # "fence"
    BY AtTheEnd DEF Ended, Diverges
  <2>2. n \in INames => n \in ImmediateNames \cup LoadNames \cup {"jalr", "ecall"}
    BY <2>1 DEF INames, ImmediateNames, LoadNames
  <2>3. (n \in UNames => n \in {"lui", "auipc"}) /\ (n \in JNames => n = "jal")
    BY DEF UNames, JNames
  <2>4. CASE n \in RNames \cup ShiftNames \cup ImmediateNames
    BY <2>4, EndOfOperation
  <2>5. CASE n \in SNames \cup LoadNames
    BY <2>5, EndOfAccess
  <2>6. CASE n \in {"lui", "auipc", "ecall"}
    BY <2>6, EndOfUpper
  <2>7. CASE n \in {"jal", "jalr"}
    BY <2>7, EndOfJump
  <2>8. CASE n \in BNames
    BY <2>8, EndOfBranch
  <2>. QED  BY <2>1, <2>2, <2>3, <2>4, <2>5, <2>6, <2>7, <2>8, FormatCases
<1>. QED  BY <1>1, ProgressAlways, PTL

=============================================================================
