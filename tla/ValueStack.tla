----------------------------- MODULE ValueStack -----------------------------
(***************************************************************************)
(* What the operand stack promises to an SVM program                       *)
(* (Instruction-Semantics 2, 5 and 6.1): a stack of typed numbers, with no *)
(* raw values behind them, and integer arithmetic that wraps.  Module      *)
(* OperandStack says which of its steps are these, and which are not.      *)
(***************************************************************************)
EXTENDS ValueTypes, Sequences, Bitwise

CONSTANTS
    Capacity,    \* 1024
    ErrorContext \* "LANGUAGE" for compiled programs, "INTERNAL" for assembly

VARIABLES stack, status

Height == Len(stack)

Init ==
    /\ stack = <<>>
    /\ status = "running"

\* The two's-complement bits of a typed number, as a natural number.
BitsOf(x) == x.n % Size(x.type)

Shift(x, y) == y.n % Bits(x.type)

\* The number whose sign is the top bit of x.
SignedBits(x) == IF x.n < Size(x.type) \div 2 THEN x.n ELSE x.n - Size(x.type)

\* The remainder has the sign of x.  An arithmetic shift copies the top bit: it
\* divides by a power of two and rounds down.
Result(op, x, y) ==
    LET Flag(b) == IF b THEN 1 ELSE 0
    IN  CASE op = "add" -> x.n + y.n
          [] op = "sub" -> x.n - y.n
          [] op = "mul" -> x.n * y.n
          [] op = "div" -> Quotient(x.n, y.n)
          [] op = "mod" -> Remainder(x.n, y.n)
          [] op = "and" -> BitsOf(x) & BitsOf(y)
          [] op = "orr" -> BitsOf(x) | BitsOf(y)
          [] op = "xor" -> BitsOf(x) ^^ BitsOf(y)
          [] op = "shl" -> x.n * 2 ^ Shift(x, y)
          [] op = "shr" -> BitsOf(x) \div 2 ^ Shift(x, y)
          [] op = "sar" -> SignedBits(x) \div 2 ^ Shift(x, y)
          [] op = "ceq" -> Flag(x.n = y.n)
          [] op = "cne" -> Flag(x.n # y.n)
          [] op = "clt" -> Flag(x.n < y.n)
          [] op = "cle" -> Flag(x.n <= y.n)
          [] op = "cgt" -> Flag(x.n > y.n)
          [] op = "cge" -> Flag(x.n >= y.n)

\* The top k values give way to new ones; the others are left alone.
Replace(k, new) ==
    /\ Height >= k
    /\ Height - k + Len(new) <= Capacity
    /\ stack' = SubSeq(stack, 1, Height - k) \o new
    /\ UNCHANGED status

\* An error ends the program; k operands are gone.
Fails(k, error) ==
    /\ stack' = SubSeq(stack, 1, Height - k)
    /\ status' = error

\* An instruction that needs n operands and has fewer.
Underflow(n) == Height < n /\ Fails(Height, "INTERNAL")

Push(v) == Replace(0, <<v>>)

PushFull == Height = Capacity /\ Fails(0, "INTERNAL")

Pop == Replace(1, <<>>)

Dup(d) ==
    \/ d < Height /\ Replace(0, <<stack[Height - d]>>)
    \/ (d >= Height \/ Height = Capacity) /\ Fails(0, "INTERNAL")

Swap == Height >= 2 /\ Replace(2, <<stack[Height], stack[Height - 1]>>)

Section(k) == SubSeq(stack, Height - k + 1, Height)

RotD(d) ==
    \/ d \in 1 .. Height /\ Replace(d, Append(Tail(Section(d)), Head(Section(d))))
    \/ Underflow(d)

RotU(d) ==
    \/ d \in 1 .. Height /\ Replace(d, <<stack[Height]>> \o SubSeq(Section(d), 1, d - 1))
    \/ Underflow(d)

\* An instruction on x and y.
Arithmetic(op, x, y) ==
    LET t == ResultType(op, x.type, y.type)
    IN  \/ op \in Divisions /\ y.n = 0 /\ Fails(2, "DIVISION_BY_ZERO")
        \/ (op \in Divisions => y.n # 0) /\ t = "none" /\ Fails(2, "INTERNAL")
        \/ /\ op \in Divisions => y.n # 0
           /\ t # "none"
           /\ Replace(2, <<[type |-> t, n |-> Wrapped(Result(op, x, y), t)]>>)

Execute(op) == Height >= 2 /\ Arithmetic(op, stack[Height - 1], stack[Height])

BitNot ==
    /\ Height >= 1
    /\ IF stack[Height].type \in IntegerType
       THEN Replace(1, <<[stack[Height] EXCEPT !.n = Wrapped(-1 - @, stack[Height].type)]>>)
       ELSE Fails(1, "INTERNAL")

\* A number that does not fit wraps, but no pointer is made from it.
Conv(t) ==
    /\ Height >= 1
    /\ IF t = "ptr" /\ stack[Height].n \notin NumbersOf("ptr")
       THEN Fails(1, IF ErrorContext = "LANGUAGE" THEN "OUT_OF_RANGE" ELSE "INTERNAL")
       ELSE Replace(1, <<[type |-> t, n |-> Wrapped(stack[Height].n, t)]>>)
=============================================================================
