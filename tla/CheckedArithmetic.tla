--------------------------- MODULE CheckedArithmetic ---------------------------
(***************************************************************************)
(* Arithmetic on the unsigned words of src/include/loss_observatory/core/  *)
(* checked.hpp.  Word stands for 2^64 and Scale for the 10000 basis points *)
(* of a whole: a run takes both small, so that what happens at the top of  *)
(* a word happens in it.                                                   *)
(***************************************************************************)
EXTENDS Integers

CONSTANTS Word, Scale

ASSUME ArithmeticAssumption ==
    /\ Word \in Nat \ {0} /\ Scale \in Nat \ {0}
    /\ Scale < Word

Words == 0..(Word - 1)

Top == Word - 1

Overflows(a, b) == a + b >= Word

(* checked::add where the caller saturates when it fails.                  *)
SaturatingSum(a, b) == IF Overflows(a, b) THEN Top ELSE a + b

Smaller(a, b) == IF a < b THEN a ELSE b

(* ratio_basis_points, for a denominator that is not zero.  The product is *)
(* taken in one word: a numerator below the denominator can still be too   *)
(* large for it.                                                           *)
BasisPoints(numerator, denominator) ==
    IF numerator = 0 THEN 0
    ELSE IF numerator >= denominator THEN Scale
    ELSE Smaller(((numerator * Scale) % Word) \div denominator, Scale)

===============================================================================
