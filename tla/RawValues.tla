----------------------------- MODULE RawValues ------------------------------
(***************************************************************************)
(* Values as the VM keeps them, a type and a 64-bit raw value, and what    *)
(* its instructions compute from raw values (src/src/vm/ArithmeticOps.cpp, *)
(* TypeConversions.cpp and OperandStack.h).  The upper half of a 32-bit    *)
(* value's raw value means nothing; some instructions ignore it and some   *)
(* do not.                                                                 *)
(***************************************************************************)
EXTENDS ValueTypes, Bitwise

RawSize == 2 ^ (2 * Width)

Value == [type : Type, raw : 0 .. (RawSize - 1)]

\* rawToI32, rawToUI32, rawToI64: the number of v's type in its low bits.
Meaning(v) == Wrapped(v.raw, v.type)

\* I32ToRaw, UI32ToRaw, I64ToRaw after a static_cast to the type.
Encoded(n, t) == [type |-> t, raw |-> n % Size(t)]

\* The upper half of a 32-bit value is zero.
Canonical(v) == v.raw < Size(v.type)

\* What the unsigned types, but not the signed ones, are compared by.
Compared(v) == IF v.type \in Signed THEN Meaning(v) ELSE v.raw

\* Value::isZero.
IsZero(v) == Compared(v) = 0

Sum(x, y)     == Encoded(Meaning(x) + Meaning(y), ResultType("add", x.type, y.type))
Product(x, y) == Encoded(Meaning(x) * Meaning(y), x.type)

\* Fault: the operands in the order in which they are popped.
Difference_Swapped(x, y) ==
    Encoded(Meaning(y) - Meaning(x), ResultType("sub", x.type, y.type))

Difference(x, y) ==
    Encoded(Meaning(x) - Meaning(y), ResultType("sub", x.type, y.type))

DivisionResult(x, y) == Encoded(Quotient(Meaning(x), Meaning(y)), x.type)
ModuloResult(x, y)   == Encoded(Remainder(Meaning(x), Meaning(y)), x.type)

\* No result exists: the divisor's low bits are zero although isZero found a
\* bit set above them, or the quotient overflows.  Both are undefined
\* behaviour in C++; the processor's division instruction traps.
DivisionTraps(x, y) ==
    \/ Meaning(y) = 0
    \/ x.type \in Signed /\ Meaning(y) = -1
                         /\ Meaning(x) = - (Size(x.type) \div 2)

BitwiseNot(v) == [v EXCEPT !.raw = RawSize - 1 - v.raw]

BitwiseAnd(x, y) == [x EXCEPT !.raw = x.raw & y.raw]
BitwiseOr(x, y)  == [x EXCEPT !.raw = x.raw | y.raw]
BitwiseXor(x, y) == [x EXCEPT !.raw = x.raw ^^ y.raw]

\* static_cast<uint32_t>(y) & (bit width of x - 1).
ShiftAmount(x, y) == (y.raw % 2 ^ Width) % Bits(x.type)

\* Fault: the bits shifted out of a 32-bit value are kept.
ShiftedLeft_Untruncated(x, y) ==
    [x EXCEPT !.raw = (x.raw * 2 ^ ShiftAmount(x, y)) % RawSize]

ShiftedLeft(x, y) ==
    [x EXCEPT !.raw = (x.raw * 2 ^ ShiftAmount(x, y)) % Size(x.type)]

ShiftedRight(x, y) ==
    [x EXCEPT !.raw = (x.raw \div 2 ^ ShiftAmount(x, y)) % Size(x.type)]

\* The sign is bit 31 of an i32 and bit 63 of any other type, ui32 included.
\* `\div` rounds down, as the shift of a negative number does.
ShiftedArithmetically(x, y) ==
    LET signed == IF x.type = "i32" THEN Meaning(x) ELSE Wrapped(x.raw, "i64")
    IN  [x EXCEPT !.raw = (signed \div 2 ^ ShiftAmount(x, y))
                             % (IF x.type = "i32" THEN Size("i32") ELSE RawSize)]

\* ceq and cne compare raw values, whatever the type.
Holds(op, x, y) ==
    CASE op = "ceq" -> x.raw = y.raw
      [] op = "cne" -> x.raw # y.raw
      [] op = "clt" -> Compared(x) < Compared(y)
      [] op = "cle" -> Compared(x) <= Compared(y)
      [] op = "cgt" -> Compared(x) > Compared(y)
      [] op = "cge" -> Compared(x) >= Compared(y)

\* x is the operand pushed first.
Applied(op, x, y) ==
    CASE op = "add" -> Sum(x, y)
      [] op = "sub" -> Difference(x, y)
      [] op = "mul" -> Product(x, y)
      [] op = "div" -> DivisionResult(x, y)
      [] op = "mod" -> ModuloResult(x, y)
      [] op = "and" -> BitwiseAnd(x, y)
      [] op = "orr" -> BitwiseOr(x, y)
      [] op = "xor" -> BitwiseXor(x, y)
      [] op = "shl" -> ShiftedLeft(x, y)
      [] op = "shr" -> ShiftedRight(x, y)
      [] op = "sar" -> ShiftedArithmetically(x, y)
      [] op \in Comparisons -> Encoded(IF Holds(op, x, y) THEN 1 ELSE 0, "ui32")

\* A pointer is not made from a number that no address has.
OutOfRange(v, t) ==
    t = "ptr" /\ v.type \in IntegerType /\ Meaning(v) \notin NumbersOf("ptr")

\* Value::convertToType: to the own type, nothing happens at all.
Converted(v, t) == IF v.type = t THEN v ELSE Encoded(Meaning(v), t)
=============================================================================
