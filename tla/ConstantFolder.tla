--------------------------- MODULE ConstantFolder ---------------------------
(***************************************************************************)
(* The optimiser (src/src/compiler/optimiser/ConstantFolder.cpp): between  *)
(* analysis and code generation, expressions that are constant are         *)
(* replaced by literals.  `c' is the analysis; a type noted at a node      *)
(* stays, whatever becomes of its parts.  Arrays are left out.             *)
(*                                                                         *)
(* foldExpr of the code says whether it made a literal: so does the kind   *)
(* of the node it leaves.  What it throws is a node of kind "failed".      *)
(***************************************************************************)
EXTENDS SemanticAnalyser, Bitwise

CONSTANTS
    Width,         \* bits of int and char, 32 in the code
    Mantissa       \* bits of a float's mantissa, 24 in the code

ASSUME ConstantFolderAssumption == Mantissa \in 1 .. 24

Num == INSTANCE FloatNumbers

IsConstant(e) == e.kind = "literal"

Failed(what) == [kind |-> "failed", line |-> 0, what |-> what]

Parts(e) ==
    CASE e.kind = "binary"                      -> {e.left, e.right}
      [] e.kind \in {"unary", "postfix", "cast"} -> {e.expr}
      [] e.kind = "ternary"                     -> {e.condition, e.trueExpr, e.falseExpr}
      [] e.kind = "call"                        -> ToSet(e.arguments)
      [] OTHER                                  -> {}

RECURSIVE Within(_)
Within(e) == {e} \cup UNION {Within(part) : part \in Parts(e)}

Failures(e) == {part \in Within(e) : part.kind = "failed"}

-----------------------------------------------------------------------------
(***************************************************************************)
(* Values.  int arithmetic wraps, as the processor's does; a shift amount  *)
(* is cut to the width.                                                    *)
(***************************************************************************)
AsInt(n)  == Num!Wrapped(n, "i32")
AsChar(n) == Num!Wrapped(n, "ui32")

\* static_cast of a float that the type does not hold is undefined: it gives
\* some number.  The VM ends the program there.
CastOfFloat(f, t) ==
    IF Num!TruncatedOf(f) \in Num!NumbersOf(t) THEN Num!TruncatedOf(f)
    ELSE CHOOSE n \in Num!NumbersOf(t) : TRUE

convertConstantValueToType(to, e) ==
    CASE e.type = to \/ e.type = "bool"       -> e.value
      [] e.type # "float" /\ to = "int"       -> AsInt(e.value)
      [] e.type # "float" /\ to = "char"      -> AsChar(e.value)
      [] e.type \in {"int", "char"} /\ to = "float" -> Num!FloatOf(e.value)
      [] e.type = "float" /\ to = "int"       -> CastOfFloat(e.value, "i32")
      [] e.type = "float" /\ to = "char"      -> CastOfFloat(e.value, "ui32")

convertLiteralToType(to, e) ==
    ExprLiteral(e.line, IF e.type = "bool" THEN "bool" ELSE to, convertConstantValueToType(to, e))

\* What the callers of foldExpr do with its result.
ConvertIfFolded(to, e) == IF IsConstant(e) THEN convertLiteralToType(to, e) ELSE e

IntegerResult(op, x, y) ==
    LET bits == AsChar(x)  mask == AsChar(y)  amount == mask % Width
    IN AsInt(CASE op = "ADD"      -> x + y
             [] op = "SUBTRACT" -> x - y
             [] op = "MULTIPLY" -> x * y
             [] op = "MODULO"   -> Num!Remainder(x, y)
             [] op = "BITWISE_AND" -> bits & mask
             [] op = "BITWISE_OR"  -> bits | mask
             [] op = "BITWISE_XOR" -> bits ^^ mask
             [] op = "LEFT_SHIFT"             -> x * 2 ^ amount
             [] op = "ARITHMETIC_RIGHT_SHIFT" -> x \div 2 ^ amount
             [] op = "LOGICAL_RIGHT_SHIFT"    -> bits \div 2 ^ amount)

FloatResult(op, x, y) ==
    CASE op = "ADD"      -> Num!FloatSum(x, y)
      [] op = "SUBTRACT" -> Num!FloatDifference(x, y)
      [] op = "MULTIPLY" -> Num!FloatProduct(x, y)
      [] op = "DIVIDE"   -> Num!FloatQuotient(x, y)
      [] op = "MODULO"   -> Num!FloatRemainder(x, y)

\* The type in which C++ compares: an int with a char as unsigned numbers.
ComparedAs(left, right) ==
    IF "float" \in {left, right} THEN "float" ELSE IF "char" \in {left, right} THEN "char" ELSE left

foldEqualityOrComparisonOperator(op, left, right) ==
    LET type == ComparedAs(left.type, right.type)
        x == convertConstantValueToType(type, left)
        y == convertConstantValueToType(type, right)
    IN CASE op = "EQUAL_EQUAL"           -> x = y
         [] op = "NOT_EQUAL"             -> x # y
         [] op = "LESS_THAN"             -> x < y
         [] op = "LESS_THAN_OR_EQUAL"    -> x <= y
         [] op = "GREATER_THAN"          -> x > y
         [] op = "GREATER_THAN_OR_EQUAL" -> x >= y

-----------------------------------------------------------------------------
(* Operators on literals. *)
TruthOf(b) == IF b THEN 1 ELSE 0

foldExprUnary(e, x) ==
    CASE e.op = "PLUS"  -> x
      [] e.op # "PLUS" /\ x.type \in {"int", "char"} ->
            ExprLiteral(e.line, "int", IF e.op = "MINUS" THEN AsInt(- x.value) ELSE AsInt(- x.value - 1))
      [] e.op # "PLUS" /\ x.type = "float" -> ExprLiteral(e.line, "float", - x.value)
      [] e.op # "PLUS" /\ x.type = "bool"  -> ExprLiteral(e.line, "bool", 1 - x.value)

\* The right operand is folded only when the left one does not decide.
foldLogical(e, left, right) ==
    LET decides == TruthOf(e.op = "LOGICAL_OR")
    IN CASE IsConstant(left) /\ left.value = decides     -> ExprLiteral(e.line, "bool", decides)
         [] Failures(left) = {} /\ ~ (IsConstant(left) /\ left.value = decides) /\ IsConstant(right) ->
                ExprLiteral(e.line, "bool", right.value)
         [] OTHER -> [e EXCEPT !.left = left, !.right = right]

\* Fault: the quotient is rounded down.
foldIntegerDivide_RoundsDown(e, left, right) ==
    LET x == convertConstantValueToType("float", left)
        y == convertConstantValueToType("float", right)
    IN IF y = 0 THEN Failed("DIVISION_BY_ZERO")
       ELSE ExprLiteral(e.line, "int", AsInt(Num!FloatQuotient(x, y) \div FloatOne))

foldIntegerDivide(e, left, right) ==
    LET x == convertConstantValueToType("float", left)
        y == convertConstantValueToType("float", right)
    IN IF y = 0 THEN Failed("DIVISION_BY_ZERO")
       ELSE ExprLiteral(e.line, "int", CastOfFloat(Num!FloatQuotient(x, y), "i32"))

foldArithmetic(e, type, left, right) ==
    LET x == convertConstantValueToType(type, left)
        y == convertConstantValueToType(type, right)
        traps == e.op = "MODULO" /\ type = "int" /\ y = -1 /\ AsInt(- x) = x /\ x # 0
    IN IF e.op \in {"DIVIDE", "MODULO"} /\ y = 0 THEN Failed("DIVISION_BY_ZERO")
       ELSE IF traps THEN Failed("TRAP")
       ELSE ExprLiteral(e.line, type,
                        IF type = "float" THEN FloatResult(e.op, x, y) ELSE IntegerResult(e.op, x, y))

foldConstants(e, type, left, right) ==
    CASE e.op \in EqualityOperator \cup ComparisonOperator ->
            ExprLiteral(e.line, "bool", TruthOf(foldEqualityOrComparisonOperator(e.op, left, right)))
      [] e.op = "INTEGER_DIVIDE" -> foldIntegerDivide(e, left, right)
      [] OTHER                   -> foldArithmetic(e, type, left, right)
-----------------------------------------------------------------------------
(* Expressions. *)
foldExprBinary(c, e, left, right) ==
    IF IsConstant(left) /\ IsConstant(right)
    THEN foldConstants(e, c.notes[e.line].type, left, right)
    ELSE [e EXCEPT !.left = left, !.right = right]

RECURSIVE foldExpr(_, _)
foldExpr(c, e) ==
    LET fold(part) == foldExpr(c, part)
    IN CASE e.kind = "unary" ->
                LET x == fold(e.expr)
                IN IF IsConstant(x) THEN foldExprUnary(e, x) ELSE [e EXCEPT !.expr = x]
         [] e.kind = "binary" /\ e.op \in LogicalOperator ->
                foldLogical(e, fold(e.left), fold(e.right))
         [] e.kind = "binary" /\ e.op \notin LogicalOperator ->
                LET left == fold(e.left)
                IN foldExprBinary(c, e, left, IF IsConstant(left) THEN fold(e.right) ELSE e.right)
         \* A branch takes the place of the whole, with the branch's own type.
         [] e.kind = "ternary" ->
                LET condition == fold(e.condition)
                IN IF IsConstant(condition)
                   THEN fold(IF condition.value = 1 THEN e.trueExpr ELSE e.falseExpr)
                   ELSE [e EXCEPT !.condition = condition]
         [] e.kind = "cast" ->
                LET x == fold(e.expr)
                IN IF IsConstant(x) THEN convertLiteralToType(e.type, x) ELSE [e EXCEPT !.expr = x]
         [] e.kind = "call" ->
                [e EXCEPT !.arguments = [i \in DOMAIN e.arguments |->
                    ConvertIfFolded(c.notes[e.line].callee.parameters[i], fold(e.arguments[i]))]]
         [] OTHER -> e

-----------------------------------------------------------------------------
(***************************************************************************)
(* Statements.  A value is converted to the type of the variable it is     *)
(* assigned to, with a compound operator too; the numbers of a range to    *)
(* int, and one that is not constant makes extractConstantValue throw.     *)
(***************************************************************************)
foldConverted(c, to, e) == IF e = NoExpr THEN NoExpr ELSE ConvertIfFolded(to, foldExpr(c, e))

foldOfRange(c, e) ==
    LET x == foldExpr(c, e)
    IN CASE e = NoExpr -> NoExpr
         [] IsConstant(x) -> convertLiteralToType("int", x)
         [] OTHER -> IF Failures(x) = {} THEN Failed("INVALID_CONST_FOLD") ELSE x

\* `returns' is the type that the function around returns.
RECURSIVE foldStm(_, _, _)
foldStm(c, s, returns) ==
    LET block(b) == [b EXCEPT !.statements = [i \in DOMAIN @ |-> foldStm(c, @[i], returns)]]
    IN CASE s.kind = "var" ->
                [s EXCEPT !.initialiser = foldConverted(c, s.type, @)]
         [] s.kind = "assignment" ->
                [s EXCEPT !.expr = foldConverted(c, c.symbols[s.line].type, @)]
         [] s.kind = "block" -> block(s)
         [] s.kind = "if" ->
                [s EXCEPT !.condition = foldExpr(c, @), !.ifBlock = block(@),
                          !.elseStm = foldStm(c, @, returns)]
         [] s.kind = "while" -> [s EXCEPT !.condition = foldExpr(c, @), !.body = block(@)]
         [] s.kind = "for" ->
                [s EXCEPT !.start = foldOfRange(c, @), !.end = foldOfRange(c, @),
                          !.step = foldOfRange(c, @), !.body = block(@)]
         [] s.kind = "return" -> [s EXCEPT !.expr = foldConverted(c, returns, @)]
         [] s.kind = "expr"   -> [s EXCEPT !.expr = foldExpr(c, @)]
         [] OTHER -> s

optimise(program, c) ==
    [program EXCEPT
        !.statements = [i \in DOMAIN @ |-> foldStm(c, @[i], "void")],
        !.functions  = [i \in DOMAIN @ |-> [@[i] EXCEPT !.body = foldStm(c, @, program.functions[i].returns)]]]
=============================================================================
