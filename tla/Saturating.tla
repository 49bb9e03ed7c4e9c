----------------------------- MODULE Saturating -----------------------------
(***************************************************************************)
(* Arithmetic on path counts.  A count that does not fit an integer stays  *)
(* at the largest one: the test comes before the operation, so that no     *)
(* intermediate result is above MaxInt.                                    *)
(***************************************************************************)
EXTENDS Naturals, Sequences, SequencesExt

CONSTANT MaxInt    \* the largest integer of the build

ASSUME MaxIntAssumption == MaxInt \in Nat \ {0}

Add(a, b) == IF a > MaxInt - b THEN MaxInt ELSE a + b

\* Mutation: the product is computed first and wraps around.
WrappedMul(a, b) == (a * b) % (MaxInt + 1)

Mul(a, b) ==
    IF a = 0 \/ b = 0 THEN 0
    ELSE IF a > MaxInt \div b THEN MaxInt ELSE a * b

Sum(s) == FoldLeft(Add, 0, s)
Product(s) == FoldLeft(Mul, 1, s)
=============================================================================
