---------------------------- MODULE FloatNumbers ----------------------------
(***************************************************************************)
(* float, beside the integers of RawValues, with a short mantissa.  A      *)
(* float is counted in parts of one, and every result is the nearest count *)
(* with Mantissa significant bits, as IEEE 754 rounds it.  The compiler    *)
(* folds with the same float that the VM computes with                     *)
(* (src/src/vm/ArithmeticOps.cpp).  Infinities, NaN and the negative zero  *)
(* are left out.                                                           *)
(***************************************************************************)
EXTENDS RawValues

CONSTANTS
    Mantissa,      \* significant bits of a float, 24 in the code
    FloatOne       \* the count of one

Magnitude(n) == IF n < 0 THEN - n ELSE n

\* The integer nearest to n / d, d > 0; of two the even one.
Nearest(n, d) ==
    LET below == n \div d
        twice == 2 * (n % d)
    IN IF twice < d \/ (twice = d /\ below % 2 = 0) THEN below ELSE below + 1

\* The float nearest to n / d: neighbours of its size are 2^k apart.
Rounded(n, d) ==
    LET IsSpacing(k) == (Magnitude(n) \div d) \div 2 ^ k < 2 ^ Mantissa
        spacing == 2 ^ CHOOSE k \in 0 .. 24 : IsSpacing(k) /\ \A j \in 0 .. (k - 1) : ~ IsSpacing(j)
    IN Nearest(n, d * spacing) * spacing

FloatOf(n)      == Rounded(n * FloatOne, 1)
Exact(n)        == FloatOf(n) = n * FloatOne
TruncatedOf(f)  == Quotient(f, FloatOne)

FloatSum(f, g)        == Rounded(f + g, 1)
FloatDifference(f, g) == Rounded(f - g, 1)
FloatProduct(f, g)    == Rounded(f * g, FloatOne)
FloatQuotient(f, g)   == IF g < 0 THEN Rounded(- f * FloatOne, - g) ELSE Rounded(f * FloatOne, g)

\* std::fmod is exact.
FloatRemainder(f, g)  == Remainder(f, g)
=============================================================================
