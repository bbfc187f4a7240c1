----------------------------- MODULE ValueTypes -----------------------------
(***************************************************************************)
(* The types of values on the operand stack (src/src/include/ISA.h): which *)
(* numbers each one holds and the type that an instruction gives its       *)
(* result.  Floating-point types are left out: TLA+ has no such numbers.   *)
(***************************************************************************)
EXTENDS Integers

CONSTANT Width \* bits of i32, ui32 and ptr, 32 in the code; i64 and ui64 have
               \* twice as many

\* A shift amount is cut down with a mask of bit width - 1.
ASSUME ValueTypesAssumption == Width \in {1, 2, 4, 8, 16, 32}

IntegerType == {"i32", "ui32", "i64", "ui64"}
Type        == IntegerType \cup {"ptr"}
Narrow      == {"i32", "ui32", "ptr"}
Signed      == {"i32", "i64"}

Bits(t) == IF t \in Narrow THEN Width ELSE 2 * Width

Size(t) == 2 ^ Bits(t)

NumbersOf(t) == IF t \in Signed THEN - (Size(t) \div 2) .. (Size(t) \div 2 - 1)
                ELSE 0 .. (Size(t) - 1)

\* The number of type t that is congruent to n: integer arithmetic wraps.
Wrapped(n, t) ==
    LET u == n % Size(t)
    IN  IF u \in NumbersOf(t) THEN u ELSE u - Size(t)

\* Division that truncates towards zero, as in C++.
Quotient(a, b) ==
    LET Magnitude(n) == IF n < 0 THEN - n ELSE n
        q            == Magnitude(a) \div Magnitude(b)
    IN  IF (a < 0) = (b < 0) THEN q ELSE - q

Remainder(a, b) == a - b * Quotient(a, b)

Shifts      == {"shl", "shr", "sar"}
Comparisons == {"ceq", "cne", "clt", "cle", "cgt", "cge"}
Divisions   == {"div", "mod"}
Binary      == {"add", "sub", "mul", "and", "orr", "xor"}
                   \cup Divisions \cup Shifts \cup Comparisons

\* The type of `x op y` for x of type s and y of type t; "none" if the
\* instruction refuses them.
ResultType(op, s, t) ==
    CASE op \in Shifts ->
            IF s \in IntegerType /\ t \in IntegerType THEN s ELSE "none"
      [] op \in Comparisons ->
            IF s = t THEN "ui32" ELSE "none"
      [] op = "add" /\ {s, t} \in {{"ptr", "i32"}, {"ptr", "ui32"}} -> "ptr"
      [] op = "sub" /\ s = "ptr" ->
            IF t = "ptr" THEN "i64" ELSE IF t \in Narrow THEN "ptr" ELSE "none"
      [] OTHER ->
            IF s = t /\ s \in IntegerType THEN s ELSE "none"
=============================================================================
