--------------------------- MODULE FoldedProgram ----------------------------
(***************************************************************************)
(* The same program without the optimiser (-O0) and with it.  The items of *)
(* one function or block are executed with numbers, as the VM does         *)
(* (src/src/vm/VM.cpp), first those of the plain tree, then those of the   *)
(* folded one; the outcomes are compared.                                  *)
(*                                                                         *)
(* Calls are not entered: they are noted with their arguments.             *)
(***************************************************************************)
EXTENDS AssemblyGenerator, ConstantFolder

CONSTANTS
    Programs,      \* as Compile makes them
    Inputs,        \* arguments that the function is called with
    Decimals       \* the smallest float that assembly text can show

VARIABLES
    program,       \* index of the compiled program
    given,         \* the arguments
    pass,          \* which items are executed
    pc,            \* index of the item that is next
    operands,      \* top first
    slots,         \* of the function's frame
    calls,         \* made so far
    status,        \* how the execution ended
    expected       \* the outcome of the plain items

machine == <<pc, operands, slots, calls, status>>
vars == <<program, given, pass, machine, expected>>

-----------------------------------------------------------------------------
(* What is fixed once a program is compiled. *)
ItemsOf(c, program_) ==
    IF program_.functions # <<>> THEN compileUserDefinedFunction(c, Head(program_.functions))
    ELSE compileScopeFunction(c, Head(program_.statements))

\* A statement with those inside it, and its own expressions with their parts.
RECURSIVE StatementsIn(_)
StatementsIn(s) ==
    {s} \cup CASE s.kind = "block" -> UNION {StatementsIn(part) : part \in ToSet(s.statements)}
               [] s.kind = "if"    -> StatementsIn(s.ifBlock) \cup StatementsIn(s.elseStm)
               [] s.kind \in {"while", "for"} -> StatementsIn(s.body)
               [] OTHER            -> {}

ExpressionsOf(s) ==
    CASE s.kind = "var"                            -> Within(s.initialiser)
      [] s.kind \in {"assignment", "return", "expr"} -> Within(s.expr)
      [] s.kind \in {"if", "while"}                -> Within(s.condition)
      [] s.kind = "for" -> Within(s.start) \cup Within(s.end) \cup Within(s.step)
      [] OTHER          -> {}

StatementsOf(program_) ==
    UNION {StatementsIn(s) : s \in ToSet(program_.statements)
                                     \cup {f.body : f \in ToSet(program_.functions)}}

Expressions(program_) == UNION {ExpressionsOf(s) : s \in StatementsOf(program_)}

AnswerTypes(functions) ==
    [label \in {LabelOf(SymbolOf(f)) : f \in ToSet(functions)} |->
        toAssemblyType((CHOOSE f \in ToSet(functions) : LabelOf(SymbolOf(f)) = label).returns)]

-----------------------------------------------------------------------------
(***************************************************************************)
(* Where the optimiser is known to change what a program does; the README  *)
(* has the lines.                                                          *)
(***************************************************************************)
Folded(c, e, op) ==
    /\ e.kind = "binary" /\ e.op \in op
    /\ IsConstant(foldExpr(c, e.left)) /\ IsConstant(foldExpr(c, e.right))

IsNegative(e) == e.type \in {"int", "char"} /\ AsInt(e.value) < 0

\* x && true is taken for true, whatever x is.
RightDecides(c, e) ==
    /\ e.kind = "binary" /\ e.op \in LogicalOperator
    /\ ~ IsConstant(foldExpr(c, e.left)) /\ IsConstant(foldExpr(c, e.right))

\* C++ compares an int with a char as unsigned numbers, the program as ints.
SignsMixed(c, e) ==
    /\ Folded(c, e, ComparisonOperator)
    /\ LET operands_ == {foldExpr(c, e.left), foldExpr(c, e.right)}
       IN {x.type : x \in operands_} \in {{"char"}, {"int", "char"}} /\ \E x \in operands_ : IsNegative(x)

\* The sign of a char is an int; the plain code has a number without sign.
SignOfChar(c, e) ==
    /\ e.kind = "unary" /\ e.op \in {"MINUS", "BITWISE_NOT"}
    /\ LET x == foldExpr(c, e.expr) IN IsConstant(x) /\ x.type = "char"

\* Integers are divided as floats, which do not hold all of them.
DividesAsFloats(c, e) ==
    /\ Folded(c, e, {"INTEGER_DIVIDE"})
    /\ \E x \in {foldExpr(c, e.left), foldExpr(c, e.right)} :
          \/ x.type # "float" /\ ~ Num!Exact(x.value)
          \/ x.type = "char" /\ IsNegative(x)

\* A branch keeps its own type: it is not converted to the one noted for
\* both, on which a sign and whoever reads a char or a float rely.
TypeLost(c, e) ==
    \/ /\ e.kind = "ternary"
       /\ LET x == foldExpr(c, e)
          IN \/ TypeAt(c, e) = "char" /\ TypeAt(c, x) = "int"
             \/ TypeAt(c, e) = "float" /\ IsConstant(x) /\ x.type # "float" /\ ~ Num!Exact(x.value)
    \/ /\ e.kind = "unary" /\ e.op \in {"PLUS", "MINUS"}
       /\ LET x == foldExpr(c, e.expr)
          IN ~ IsConstant(x) /\ TypeAt(c, x) # TypeAt(c, e.expr)

\* `not' leaves bits above the 32 of an int, which the plain code compares
\* and shifts down.
StrayBits(c, e) ==
    /\ e.kind = "binary" /\ e.op \in EqualityOperator \cup {"LOGICAL_RIGHT_SHIFT"}
    /\ \E part \in Within(e) : part.kind = "unary" /\ part.op = "BITWISE_NOT"

\* x //= 0.5 divides by 0: the number is made an int, like x, before.
ConvertedEarly(c, s) ==
    /\ s.kind = "assignment" /\ s.op = "INTEGER_DIVIDE" /\ c.symbols[s.line].type = "int"
    /\ LET x == foldExpr(c, s.expr) IN IsConstant(x) /\ x.type = "float"

\* A range that is not constant ends the compiler; its numbers become ints.
RangeConverted(c, s) ==
    /\ s.kind = "for"
    /\ \E e \in {s.start, s.end, s.step} \ {NoExpr} :
          LET x == foldExpr(c, e) IN ~ IsConstant(x) \/ x.type = "float"

\* A float is written with a fixed number of decimals (std::to_string).
Written(t, n) == IF t = "f32" THEN Num!Nearest(n, Decimals) * Decimals ELSE n

LosesDecimals(items) ==
    \E i \in DOMAIN items :
        /\ items[i].kind = "instruction" /\ items[i].op = "push"
        /\ Written(items[i].first.of, items[i].second.of) # items[i].second.of

\* A division by a constant zero is refused when it is compiled, although the
\* program may not come to it.
Guarded(s) ==
    CASE s.kind = "if"              -> StatementsIn(s.ifBlock) \cup StatementsIn(s.elseStm)
      [] s.kind \in {"while", "for"} -> StatementsIn(s.body)
      [] OTHER                      -> {}

RefusesUnreached(c, program_) ==
    \/ \E s \in UNION {Guarded(t) : t \in StatementsOf(program_)} :
          \E e \in ExpressionsOf(s) : Failures(foldExpr(c, e)) # {}
    \/ \E e \in Expressions(program_) :
          /\ e.kind = "binary" /\ e.op \in LogicalOperator
          /\ ~ IsConstant(foldExpr(c, e.left)) /\ Failures(foldExpr(c, e.right)) # {}

Changed(c, program_, items) ==
    \/ \E e \in Expressions(program_) :
          \/ RightDecides(c, e) \/ SignsMixed(c, e) \/ SignOfChar(c, e) \/ DividesAsFloats(c, e)
          \/ TypeLost(c, e) \/ StrayBits(c, e)
    \/ \E s \in StatementsOf(program_) : ConvertedEarly(c, s) \/ RangeConverted(c, s)
    \/ LosesDecimals(items)

-----------------------------------------------------------------------------
Compile(program_) ==
    LET c == processProgram(program_)
        folded == optimise(program_, c)
        failures == {e.what : e \in {x \in Expressions(folded) : x.kind = "failed"}}
        items == IF failures = {} THEN ItemsOf(c, folded) ELSE <<>>
    IN IF ~ c.ok THEN [ok |-> FALSE]
       ELSE [ok |-> TRUE, answers |-> AnswerTypes(program_.functions), failures |-> failures,
             plain |-> ItemsOf(c, program_), folded |-> items,
             isChanged |-> Changed(c, program_, items),
             refusesUnreached |-> RefusesUnreached(c, program_)]

Compiled == SelectSeq(Programs, LAMBDA p : p.ok)

Code == IF pass = "plain" THEN Compiled[program].plain ELSE Compiled[program].folded
Item == Code[pc]

Address(label) == CHOOSE n \in DOMAIN Code : Code[n].kind = "label" /\ Code[n].name = label

-----------------------------------------------------------------------------
(***************************************************************************)
(* Numbers.  The operand stack has a type and raw bits; the raw value of a *)
(* float is its count.                                                     *)
(***************************************************************************)
OfNumber(t, n) == IF t = "f32" THEN [type |-> t, raw |-> n] ELSE Num!Encoded(n, t)

\* What memory keeps of it: 32 bits, and no type but for whoever reads them.
Kept(v) == IF v.type = "f32" THEN v ELSE Num!Encoded(v.raw, v.type)
IsFloat(t) == t = "f32"
Misread(v, t) == IsFloat(v.type) # IsFloat(t)

ReadAs(v, t) == IF IsFloat(t) THEN v ELSE Num!Encoded(v.raw, t)

\* Value::convertToType.
CannotConvert(v, t) ==
    /\ IsFloat(v.type) /\ t # "f32"
    /\ \/ v.raw < Min(Num!NumbersOf(t)) * FloatOne
       \/ v.raw > Max(Num!NumbersOf(t)) * FloatOne

ConvertedTo(v, t) ==
    CASE v.type = t                         -> v
      [] v.type # t /\ t = "f32"            -> OfNumber(t, Num!FloatOf(Num!Meaning(v)))
      [] IsFloat(v.type) /\ t # "f32"       -> OfNumber(t, Num!TruncatedOf(v.raw))
      [] ~ IsFloat(v.type) /\ v.type # t /\ t # "f32" -> Num!Converted(v, t)

\* ArithmeticOps on x, pushed first, and y.
IsNought(v) == IF IsFloat(v.type) THEN v.raw = 0 ELSE Num!IsZero(v)

AppliedToFloats(op, x, y) ==
    CASE op = "add" -> Num!FloatSum(x, y)
      [] op = "sub" -> Num!FloatDifference(x, y)
      [] op = "mul" -> Num!FloatProduct(x, y)
      [] op = "div" -> Num!FloatQuotient(x, y)
      [] op = "mod" -> Num!FloatRemainder(x, y)

Refuses(op, x, y) ==
    IF IsFloat(x.type) \/ IsFloat(y.type)
    THEN x.type # y.type \/ op \in {"and", "orr", "xor"} \cup Num!Shifts
    ELSE Num!ResultType(op, x.type, y.type) = "none"

StatusOf(op, x, y) ==
    CASE op \in Num!Divisions /\ IsNought(y) -> "DIVISION_BY_ZERO"
      [] ~ (op \in Num!Divisions /\ IsNought(y)) /\ Refuses(op, x, y) -> "INTERNAL"
      [] op \in Num!Divisions /\ ~ IsNought(y) /\ ~ Refuses(op, x, y) /\ ~ IsFloat(x.type) /\ Num!DivisionTraps(x, y) -> "TRAP"
      [] OTHER -> "running"

ResultOf(op, x, y) ==
    IF IsFloat(x.type) /\ op \notin Num!Comparisons
    THEN OfNumber("f32", AppliedToFloats(op, x.raw, y.raw))
    ELSE Num!Applied(op, x, y)

-----------------------------------------------------------------------------
(* Instructions. *)
Running == status = "running"
At(kind) == Running /\ pc <= Len(Code) /\ Item.kind = kind
AtOp(ops) == At("instruction") /\ Item.op \in ops

Behind(n, s) == SubSeq(s, n + 1, Len(s))

\* To the next item, with these operands.
Pushes(stack) ==
    /\ operands' = stack /\ pc' = pc + 1
    /\ UNCHANGED <<program, given, pass, slots, calls, status, expected>>

Stops(how) ==
    /\ status' = how
    /\ UNCHANGED <<program, given, pass, pc, operands, slots, calls, expected>>

executeLabel == At("label") /\ Pushes(operands)

executePush ==
    /\ AtOp({"push"})
    /\ LET t == Item.first.of
       IN Pushes(<<OfNumber(t, Written(t, Item.second.of))>> \o operands)

executeAddrL == AtOp({"addrL"}) /\ Pushes(<<[type |-> "ptr", raw |-> Item.first.of]>> \o operands)

executeMove ==
    \/ AtOp({"pop"})  /\ Pushes(Tail(operands))
    \/ AtOp({"dup"})  /\ Pushes(<<operands[Item.first.of + 1]>> \o operands)
    \/ AtOp({"swap"}) /\ Pushes(<<operands[2], operands[1]>> \o Behind(2, operands))
    \/ AtOp({"rotU"}) /\ Pushes(SubSeq(operands, 2, Item.first.of) \o <<Head(operands)>>
                                    \o Behind(Item.first.of, operands))

\* The raw value of a pointer is the slot it points to.
executeLoad ==
    /\ AtOp({"load", "loadL"})
    /\ LET t == Item.first.of
           v == slots[IF Item.op = "loadL" THEN Item.second.of ELSE Head(operands).raw]
       IN IF Misread(v, t) THEN Stops("MISREAD")
          ELSE Pushes(<<ReadAs(v, t)>> \o (IF Item.op = "load" THEN Tail(operands) ELSE operands))

executeStore ==
    /\ AtOp({"store", "storeL"})
    /\ slots' = [slots EXCEPT ![IF Item.op = "storeL" THEN Item.first.of ELSE operands[2].raw] =
                                Kept(Head(operands))]
    /\ operands' = Behind(IF Item.op = "store" THEN 2 ELSE 1, operands)
    /\ pc' = pc + 1
    /\ UNCHANGED <<program, given, pass, calls, status, expected>>

executeConv ==
    /\ AtOp({"conv"})
    /\ LET v == Head(operands)  t == Item.first.of
       IN IF CannotConvert(v, t) THEN Stops("OUT_OF_RANGE")
          ELSE Pushes(<<ConvertedTo(v, t)>> \o Tail(operands))

executeNot == AtOp({"not"}) /\ Pushes(<<Num!BitwiseNot(Head(operands))>> \o Tail(operands))

executeOperator ==
    /\ AtOp({OpcodeOf(op) : op \in BinaryOperator \ LogicalOperator})
    /\ LET x == operands[2]  y == operands[1]  how == StatusOf(Item.op, x, y)
       IN IF how # "running" THEN Stops(how)
          ELSE Pushes(<<ResultOf(Item.op, x, y)>> \o Behind(2, operands))

executeJump ==
    /\ AtOp({"jmp", "jez", "jnz"})
    /\ LET jumps == Item.op = "jmp" \/ (Item.op = "jez") = IsNought(Head(operands))
       IN pc' = IF jumps THEN Address(Item.first.of) ELSE pc + 1
    /\ operands' = IF Item.op = "jmp" THEN operands ELSE Tail(operands)
    /\ UNCHANGED <<program, given, pass, slots, calls, status, expected>>

\* What the function returns is some number, the same at every call.
Answer == 5

executeCall ==
    /\ AtOp({"call"})
    /\ LET label == Item.first.of
           arguments == SubSeq(operands, 1, Len(label.types))
           type == Compiled[program].answers[label]
       IN /\ calls' = Append(calls, [of |-> label, arguments |-> arguments])
          /\ operands' = (IF type = "none" THEN <<>> ELSE <<OfNumber(type, Answer)>>)
                            \o Behind(Len(arguments), operands)
    /\ pc' = pc + 1
    /\ UNCHANGED <<program, given, pass, slots, status, expected>>

executeEnd == AtOp({"ret", "throw"}) /\ Stops(Item.op)

execute ==
    \/ executeLabel \/ executePush \/ executeAddrL \/ executeMove \/ executeLoad \/ executeStore
    \/ executeConv \/ executeNot \/ executeOperator \/ executeJump \/ executeCall \/ executeEnd

-----------------------------------------------------------------------------
(***************************************************************************)
(* Two executions.                                                         *)
(***************************************************************************)
Seen(v) == IF IsFloat(v.type) THEN v ELSE [type |-> "integer", raw |-> v.raw % Num!Size("i32")]

\* Of a program that fails, how it fails.
Outcome ==
    IF status # "ret" THEN [status |-> status]
    ELSE
    [status |-> status, operands |-> [i \in DOMAIN operands |-> Seen(operands[i])],
     slots |-> [slot \in DOMAIN slots |-> Seen(slots[slot])],
     calls |-> [i \in DOMAIN calls |-> [of |-> calls[i].of,
                    arguments |-> [j \in DOMAIN calls[i].arguments |-> Seen(calls[i].arguments[j])]]]]

\* Parameters and locals as a call leaves them.
SlotsOf(method, arguments) ==
    [slot \in (- method.locals) .. method.arguments |->
        IF slot > 0 THEN arguments[slot] ELSE OfNumber("i32", 0)]

Init ==
    /\ program \in DOMAIN Compiled /\ given \in Inputs
    /\ pass = "plain" /\ pc = 2 /\ operands = <<>> /\ calls = <<>> /\ status = "running"
    /\ slots = SlotsOf(Head(Compiled[program].plain), given)
    /\ expected = <<>>

\* The folded tree is compiled, or the optimiser throws.
optimiseAndRun ==
    /\ pass = "plain" /\ ~ Running
    /\ pass' = "folded" /\ expected' = Outcome
    /\ pc' = 2 /\ operands' = <<>> /\ calls' = <<>>
    /\ slots' = SlotsOf(Head(Compiled[program].plain), given)
    /\ status' \in IF Compiled[program].failures = {} THEN {"running"} ELSE Compiled[program].failures
    /\ UNCHANGED <<program, given>>

HasEnded == pass = "folded" /\ ~ Running /\ UNCHANGED vars

Next == execute \/ optimiseAndRun \/ HasEnded
Spec == Init /\ [][Next]_vars

-----------------------------------------------------------------------------
(***************************************************************************)
(* Properties.                                                             *)
(***************************************************************************)
BothEnded == pass = "folded" /\ ~ Running

\* The optimiser changes no outcome (docs/SVC/Optimisation/Constant-Folder.md
\* 29): an expression is folded only if its value does not depend on what is
\* not constant.
FoldingIsUnnoticed == BothEnded => Outcome = expected

\* The optimiser computes with C++'s types and conversions, at the node that it
\* folds, what the VM would compute with its own, after the conversions that
\* the generator puts between them: the result, the variables, the calls and
\* their arguments, and a division by zero, are the same.  Excepted are the
\* programs that it is known to change, those whose plain code ends with a
\* conversion out of range or an operation on two types, and a program with a
\* constant division that it may not come to: that one may also be refused.
Refused == Compiled[program].refusesUnreached /\ status \in Compiled[program].failures

FoldingKeepsOutcome ==
    BothEnded /\ ~ Compiled[program].isChanged /\ expected.status \notin {"OUT_OF_RANGE", "INTERNAL"}
        => Outcome = expected \/ Refused
=============================================================================
