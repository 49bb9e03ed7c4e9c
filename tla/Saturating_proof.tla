-------------------------- MODULE Saturating_proof --------------------------
(***************************************************************************)
(* Saturating arithmetic is exact arithmetic seen through a cap: adding    *)
(* and multiplying capped counts gives the capped sum and the capped       *)
(* product of the counts themselves, for every size of the integers.  So   *)
(* it makes no difference where in a nest of statements a count saturates, *)
(* and a count below the cap was never changed.                            *)
(***************************************************************************)
EXTENDS Saturating, Integers, TLAPS

\* What is left of a count in an integer of the build.
Cap(n) == IF n > MaxInt THEN MaxInt ELSE n

Counts == 0 .. MaxInt

-----------------------------------------------------------------------------
(* Division and products *)

\* The quotient that the code compares with decides whether a product fits.
LEMMA QuotientDecides ==
    ASSUME NEW a \in Nat, NEW b \in Nat \ {0}, NEW m \in Nat
    PROVE  a > m \div b <=> a * b > m
<1> DEFINE q == m \div b
<1>1. q \in Int /\ q * b <= m /\ m < q * b + b
  BY SMT
<1>2. CASE a > q
  <2>1. a - q - 1 \in Nat /\ (a - q - 1) * b >= 0
    BY <1>1, <1>2
  <2>2. a * b = q * b + b + (a - q - 1) * b
    BY <1>1
  <2> QED BY <1>1, <1>2, <2>1, <2>2
<1>3. CASE a <= q
  <2>1. q - a \in Nat /\ (q - a) * b >= 0
    BY <1>1, <1>3
  <2>2. q * b = a * b + (q - a) * b
    BY <1>1
  <2> QED BY <1>1, <1>3, <2>1, <2>2
<1> QED BY <1>1, <1>2, <1>3

LEMMA ProductMonotone ==
    ASSUME NEW a \in Nat, NEW b \in Nat, NEW c \in Nat, a <= b
    PROVE  a * c <= b * c
<1>1. b - a \in Nat /\ (b - a) * c >= 0
  OBVIOUS
<1>2. b * c = a * c + (b - a) * c
  OBVIOUS
<1> QED BY <1>1, <1>2

\* A factor that does not fit caps the product, unless the other one is zero.
LEMMA LargeFactor ==
    ASSUME NEW m \in Nat, NEW n \in Nat, m > MaxInt
    PROVE  Cap(MaxInt * Cap(n)) = Cap(m * n)
<1> USE MaxIntAssumption
<1>1. CASE n = 0
  <2>1. Cap(n) = 0 /\ m * n = 0 /\ MaxInt * 0 = 0
    BY <1>1 DEF Cap
  <2> QED BY <2>1
<1>2. CASE n # 0
  <2>1. Cap(n) \in Nat /\ 1 <= Cap(n)
    BY <1>2 DEF Cap
  <2>2. MaxInt <= Cap(n) * MaxInt /\ m <= n * m
    BY <1>2, <2>1, ProductMonotone, 1 * MaxInt = MaxInt, 1 * m = m
  <2>3. Cap(n) * MaxInt = MaxInt * Cap(n) /\ n * m = m * n /\ MaxInt * Cap(n) \in Nat /\ m * n \in Nat
    BY <2>1
  <2>4. Cap(MaxInt * Cap(n)) = MaxInt
    BY <2>1, <2>2, <2>3 DEF Cap
  <2>5. Cap(m * n) = MaxInt
    BY <2>2, <2>3 DEF Cap
  <2> QED BY <2>4, <2>5
<1> QED BY <1>1, <1>2

LEMMA CapInRange == ASSUME NEW n \in Nat PROVE Cap(n) \in Counts /\ Cap(n) <= n
  BY MaxIntAssumption DEF Cap, Counts

-----------------------------------------------------------------------------
(* One operation *)

\* npathAdd (metrics.go): the sum of two counts, capped.
THEOREM AddSaturates ==
    ASSUME NEW a \in Counts, NEW b \in Counts
    PROVE  Add(a, b) = Cap(a + b) /\ Add(a, b) \in Counts
  BY MaxIntAssumption DEF Add, Cap, Counts

\* npathMul (metrics.go): the product of two counts, capped.  The test by
\* division never overflows and never caps a product that fits.
THEOREM MulSaturates ==
    ASSUME NEW a \in Counts, NEW b \in Counts
    PROVE  Mul(a, b) = Cap(a * b) /\ Mul(a, b) \in Counts
<1> USE MaxIntAssumption
<1>1. a \in Nat /\ b \in Nat /\ MaxInt \in Nat /\ a * b \in Nat
  BY DEF Counts
<1>2. CASE a = 0 \/ b = 0
  <2>1. a * b = 0
    BY <1>1, <1>2
  <2> QED BY <1>1, <1>2, <2>1 DEF Mul, Cap, Counts
<1>3. CASE ~ (a = 0 \/ b = 0)
  <2>1. a > MaxInt \div b <=> a * b > MaxInt
    BY <1>1, <1>3, QuotientDecides
  <2> HIDE MaxIntAssumption
  <2>2. Mul(a, b) = Cap(a * b)
    BY <1>3, <2>1, Zenon DEF Mul, Cap
  <2> QED BY <1>1, <2>2, CapInRange
<1> QED BY <1>2, <1>3

-----------------------------------------------------------------------------
(* Nested operations *)

\* Counts that were capped on the way add up to the capped sum.
THEOREM AddOfCapped ==
    ASSUME NEW m \in Nat, NEW n \in Nat
    PROVE  Add(Cap(m), Cap(n)) = Cap(m + n)
  BY MaxIntAssumption DEF Add, Cap

\* Counts that were capped on the way multiply to the capped product: a
\* statement sequence saturates exactly if its true number of paths does not
\* fit (NPath of a block multiplies the counts of its statements).
THEOREM MulOfCapped ==
    ASSUME NEW m \in Nat, NEW n \in Nat
    PROVE  Mul(Cap(m), Cap(n)) = Cap(m * n)
<1>1. Cap(m) \in Counts /\ Cap(n) \in Counts /\ Cap(m) <= m /\ Cap(n) <= n
  BY CapInRange
<1>2. Mul(Cap(m), Cap(n)) = Cap(Cap(m) * Cap(n))
  BY <1>1, MulSaturates
<1>3. CASE m <= MaxInt /\ n <= MaxInt
  BY <1>2, <1>3, MaxIntAssumption DEF Cap
<1>4. CASE m > MaxInt
  <2>1. Cap(m) = MaxInt
    BY <1>4 DEF Cap
  <2> QED BY <1>2, <1>4, <2>1, LargeFactor
<1>5. CASE n > MaxInt
  <2>1. Cap(n) = MaxInt
    BY <1>5 DEF Cap
  <2>2. Cap(MaxInt * Cap(m)) = Cap(n * m)
    BY <1>5, LargeFactor
  <2>3. MaxInt * Cap(m) = Cap(m) * MaxInt /\ n * m = m * n
    BY <1>1, MaxIntAssumption DEF Counts
  <2> QED BY <1>2, <2>1, <2>2, <2>3
<1> QED BY <1>3, <1>4, <1>5, MaxIntAssumption
=============================================================================
