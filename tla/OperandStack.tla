---------------------------- MODULE OperandStack ----------------------------
(***************************************************************************)
(* The operand stack (src/src/vm/OperandStack.cpp) and the instructions of *)
(* src/src/vm/VM.cpp that work on it alone: they pop all their operands    *)
(* before they look at them, so an instruction that fails has already      *)
(* consumed its operands, and the report of an internal error shows the    *)
(* stack without them.                                                     *)
(*                                                                         *)
(* Pushing stands for `push` and for what every other instruction but      *)
(* `loadL` brings to the stack (`load`, `loadG`, `alloc`, `addrL`), and    *)
(* popping for what the others take (stores, calls, jumps, native          *)
(* functions).  `loadL` reads the 64 bits of a slot whatever its type, and *)
(* no push cuts them: like `not` it leaves stray bits above a 32-bit one.  *)
(***************************************************************************)
EXTENDS RawValues, Sequences, FiniteSets

CONSTANTS
    Capacity,     \* MAX_OPERAND_STACK_SIZE
    ByteSize,     \* 256, to which the operand of dup, rotD and rotU is cut
    Pushed,       \* values that come to the stack, cut to their types
    Words,        \* what `loadL` finds in slots
    Operations,   \* mnemonics of the arithmetic instructions in use
    DupDepths,    \* operands of `dup` in use, in 0 .. 1023
    RotDepths,    \* operands of `rotD` and `rotU` in use, in 3 .. 1024
    ErrorContext  \* "LANGUAGE" for compiled programs, "INTERNAL" for assembly

ASSUME OperandStackAssumption ==
    /\ Capacity \in Nat \ {0} /\ ByteSize \in Nat \ {0}
    /\ Pushed \subseteq Value /\ \A v \in Pushed : Canonical(v)
    /\ Words \subseteq 0 .. (RawSize - 1)
    /\ DupDepths \subseteq Nat /\ RotDepths \subseteq Nat \ {0}
    /\ ErrorContext \in {"LANGUAGE", "INTERNAL"}

VARIABLES
    stack, \* the values, top last
    status \* "running", the RuntimeErrorType that ended the program, or
           \* "KILLED" when the operating system ended the process

vars == <<stack, status>>

Height == Len(stack)

Top(k) == stack[Height + 1 - k] \* the k-th value from the top, from 1

Below(k) == SubSeq(stack, 1, Height - k) \* the stack without the top k

Init ==
    /\ stack = <<>>
    /\ status = "running"

\* An instruction that pops n values and ends with an error.
Fails(n, error) ==
    /\ stack' = Below(n)
    /\ status' = error

\* OperandStack::pop on an empty stack, in an instruction that pops n values.
Underflow(n) ==
    /\ status = "running"
    /\ Height < n
    /\ stack' = <<>>
    /\ status' = "INTERNAL"

\* Fault: the limit is tested after one more value.
Push_OneMore(v) ==
    /\ status = "running"
    /\ Height <= Capacity
    /\ stack' = Append(stack, v)
    /\ UNCHANGED status

Push(v) ==
    /\ status = "running"
    /\ Height # Capacity
    /\ stack' = Append(stack, v)
    /\ UNCHANGED status

PushFull ==
    /\ status = "running"
    /\ Height = Capacity
    /\ Fails(0, "INTERNAL")

\* VM::executeLoadL: read64, and the type of the instruction.
LoadL(t, word) == Push([type |-> t, raw |-> word])

Pop ==
    /\ status = "running"
    /\ Height >= 1
    /\ stack' = Below(1)
    /\ UNCHANGED status

\* The two bytes of the operand are or-ed into a uint8_t: the low one remains.
Depth(d) == d % ByteSize

Dup(d) ==
    /\ status = "running"
    /\ Depth(d) < Height
    /\ Height # Capacity
    /\ stack' = Append(stack, Top(Depth(d) + 1))
    /\ UNCHANGED status

DupFails(d) ==
    /\ status = "running"
    /\ Depth(d) >= Height \/ Height = Capacity
    /\ Fails(0, "INTERNAL")

Swap ==
    /\ status = "running"
    /\ Height >= 2
    /\ stack' = Below(2) \o <<Top(1), Top(2)>>
    /\ UNCHANGED status

\* The lowest of the top d values comes to the top.
RotD(d) ==
    /\ status = "running"
    /\ Depth(d) \in 1 .. Height
    /\ stack' = Below(Depth(d)) \o [i \in 1 .. Depth(d) - 1 |-> Top(Depth(d) - i)]
                    \o <<Top(Depth(d))>>
    /\ UNCHANGED status

\* Fault: the loop stops one value short.
RotU_LosesLowest(d) ==
    /\ status = "running"
    /\ Depth(d) \in 1 .. Height
    /\ stack' = Below(Depth(d)) \o <<Top(1)>>
                    \o [i \in 1 .. Depth(d) - 2 |-> Top(Depth(d) - i)]
    /\ UNCHANGED status

\* The top value goes below the other d - 1.
RotU(d) ==
    /\ status = "running"
    /\ Depth(d) \in 1 .. Height
    /\ stack' = Below(Depth(d)) \o <<Top(1)>>
                    \o [i \in 1 .. Depth(d) - 1 |-> Top(Depth(d) + 1 - i)]
    /\ UNCHANGED status

\* Nothing is popped and an element of an empty vector is read, which is
\* undefined behaviour in C++: the vector has no storage and the read faults.
RotNothing(d) ==
    /\ status = "running"
    /\ Depth(d) = 0
    /\ Fails(0, "KILLED")

\* The arithmetic instructions but `not`: y was pushed last.
Arithmetic(op) ==
    LET x == Top(2)
        y == Top(1)
    IN  /\ status = "running"
        /\ Height >= 2
        /\ op \in Divisions => ~ IsZero(y) /\ ~ DivisionTraps(x, y)
        /\ ResultType(op, x.type, y.type) # "none"
        /\ stack' = Append(Below(2), Applied(op, x, y))
        /\ UNCHANGED status

\* The divisor is looked at before the types are.
DivisionByZero(op) ==
    /\ status = "running"
    /\ Height >= 2
    /\ op \in Divisions
    /\ IsZero(Top(1))
    /\ Fails(2, "DIVISION_BY_ZERO")

Trap(op) ==
    /\ status = "running"
    /\ Height >= 2
    /\ op \in Divisions
    /\ ~ IsZero(Top(1)) /\ DivisionTraps(Top(2), Top(1))
    /\ ResultType(op, Top(2).type, Top(1).type) # "none"
    /\ Fails(2, "KILLED")

BadOperands(op) ==
    /\ status = "running"
    /\ Height >= 2
    /\ op \in Divisions => ~ IsZero(Top(1))
    /\ ResultType(op, Top(2).type, Top(1).type) = "none"
    /\ Fails(2, "INTERNAL")

Execute(op) ==
    \/ Arithmetic(op)
    \/ DivisionByZero(op)
    \/ Trap(op)
    \/ BadOperands(op)

BitNot ==
    /\ status = "running"
    /\ Height >= 1
    /\ Top(1).type # "ptr"
    /\ stack' = Append(Below(1), BitwiseNot(Top(1)))
    /\ UNCHANGED status

BitNotPointer ==
    /\ status = "running"
    /\ Height >= 1
    /\ Top(1).type = "ptr"
    /\ Fails(1, "INTERNAL")

Conv(t) ==
    /\ status = "running"
    /\ Height >= 1
    /\ ~ OutOfRange(Top(1), t)
    /\ stack' = Append(Below(1), Converted(Top(1), t))
    /\ UNCHANGED status

ConvOutOfRange(t) ==
    /\ status = "running"
    /\ Height >= 1
    /\ OutOfRange(Top(1), t)
    /\ Fails(1, IF ErrorContext = "LANGUAGE" THEN "OUT_OF_RANGE" ELSE "INTERNAL")

Next ==
    \/ \E v \in Pushed : Push(v)
    \/ \E t \in Type, word \in Words : LoadL(t, word)
    \/ PushFull
    \/ Pop
    \/ \E n \in 1 .. 2 : Underflow(n)
    \/ \E d \in DupDepths : Dup(d) \/ DupFails(d)
    \/ Swap
    \/ \E d \in RotDepths : RotD(d) \/ RotU(d) \/ RotNothing(d) \/ Underflow(Depth(d))
    \/ \E op \in Operations \cap Binary : Execute(op)
    \/ "not" \in Operations /\ (BitNot \/ BitNotPointer)
    \/ \E t \in Type : "conv" \in Operations /\ (Conv(t) \/ ConvOutOfRange(t))

Spec == Init /\ [][Next]_vars
-----------------------------------------------------------------------------

TypeOK ==
    /\ stack \in Seq(Value) /\ Height <= Capacity
    /\ status \in {"running", "INTERNAL", "DIVISION_BY_ZERO", "OUT_OF_RANGE",
                   "KILLED"}

\* How many values of s have bits outside their type.
Strays(s) == Cardinality({i \in DOMAIN s : ~ Canonical(s[i])})

\* Stray bits come from `not`, from `loadL` and from copies alone, and only the
\* bitwise operations and the shift that copies the top bit hand them on: every
\* other instruction cuts its result to the result's type, whatever bits its
\* operands have.
StrayBitsEnter ==
    [][/\ Strays(stack') > Strays(stack) =>
             \/ BitNot
             \/ \E t \in Type, word \in Words : LoadL(t, word)
             \/ \E d \in DupDepths : Dup(d)
       /\ \A op \in (Operations \cap Binary) \ {"and", "orr", "xor", "sar"} :
             Arithmetic(op) => Canonical(stack'[Len(stack')])]_vars

\* What a value is to a program: a typed number.
Number(v) == [type |-> v.type, n |-> Meaning(v)]

Values == INSTANCE ValueStack WITH
    stack <- [i \in 1 .. Height |-> Number(stack[i])]

\* Where `x op y` is not what the documentation says of the numbers: ceq and cne
\* of one number in two raw values; the other comparisons of unsigned values
\* with stray bits; a division whose result does not exist, or whose divisor is
\* zero but for stray bits; a right shift that brings stray bits down; sar of a
\* ui32 with its top bit, which is not copied.
Departs(op, x, y) ==
    \/ op \in {"ceq", "cne"} /\ Meaning(x) = Meaning(y) /\ x.raw # y.raw
    \/ op \in Comparisons \ {"ceq", "cne"}
          /\ x.type \notin Signed /\ ~ (Canonical(x) /\ Canonical(y))
    \/ op \in Divisions /\ ~ IsZero(y) /\ DivisionTraps(x, y)
    \/ op = "shr" /\ ~ Canonical(x)
    \/ op = "sar" /\ x.type = "ui32" /\ x.raw >= Size("ui32") \div 2

DepartsIn(op) == Execute(op) /\ Height >= 2 /\ Departs(op, Top(2), Top(1))

SameInstruction ==
    /\ \A v \in Pushed : Push(v) => Values!Push(Number(v))
    /\ \A t \in Type, w \in Words :
          LoadL(t, w) => Values!Push(Number([type |-> t, raw |-> w]))
    /\ PushFull => Values!PushFull
    /\ Pop => Values!Pop
    /\ \A n \in 1 .. 2 : Underflow(n) => Values!Underflow(n)
    /\ Swap => Values!Swap
    /\ \A d \in DupDepths : Dup(d) \/ DupFails(d) => Values!Dup(Depth(d))
    /\ \A d \in RotDepths :
          /\ RotD(d) => Values!RotD(Depth(d))
          /\ RotU(d) => Values!RotU(Depth(d))
          /\ Underflow(Depth(d)) => Values!RotD(Depth(d)) /\ Values!RotU(Depth(d))
    /\ \A op \in Operations \cap Binary :
          Execute(op) => Values!Execute(op) \/ DepartsIn(op)
    /\ BitNot \/ BitNotPointer => Values!BitNot
    /\ \A t \in Type : Conv(t) \/ ConvOutOfRange(t) => Values!Conv(t)

\* Every instruction is the documented one (Instruction-Semantics 2, 5, 6.1) on
\* the numbers of its operands, stray bits or none, but for the departures
\* above, and for the operands of dup, rotD and rotU, of which the low byte
\* counts.
StepsOfValueStack == Values!Init /\ [][SameInstruction]_vars

\* How often v is on the stack.
Copies(s, v) == Cardinality({i \in DOMAIN s : s[i] = v})

\* `swap` and the rotations lose and double no value, whatever their operand
\* and however it is cut to a byte.
MovesPermute ==
    [][Swap \/ (\E d \in RotDepths : RotD(d) \/ RotU(d))
          => \A v \in Pushed : Copies(stack', v) = Copies(stack, v)]_vars
=============================================================================
