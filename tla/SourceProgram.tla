--------------------------- MODULE SourceProgram ----------------------------
(***************************************************************************)
(* Programs of the language as the compiler's parser hands them on         *)
(* (src/src/compiler/AST.h, LanguageTypes.h), without arrays: a node is a  *)
(* record with the line it stands at.  In the programs that are checked    *)
(* every node has a line of its own, so that a line names a node.          *)
(***************************************************************************)
EXTENDS Integers, Sequences

Types == {"void", "int", "float", "bool", "char"}
isNumeric(t) == t \in {"int", "float", "char"}

(***************************************************************************)
(* Operators.  A compound assignment is made with the binary operator that *)
(* assignmentOperatorToBinaryOperator gives for it; a plain one has EQUAL. *)
(***************************************************************************)
ArithmeticOperator == {"ADD", "SUBTRACT", "MULTIPLY", "MODULO"}
BitwiseOperator    == {"BITWISE_OR", "BITWISE_XOR", "BITWISE_AND", "LEFT_SHIFT",
                       "ARITHMETIC_RIGHT_SHIFT", "LOGICAL_RIGHT_SHIFT"}
LogicalOperator    == {"LOGICAL_OR", "LOGICAL_AND"}
EqualityOperator   == {"EQUAL_EQUAL", "NOT_EQUAL"}
ComparisonOperator == {"LESS_THAN", "LESS_THAN_OR_EQUAL", "GREATER_THAN",
                       "GREATER_THAN_OR_EQUAL"}
BinaryOperator == ArithmeticOperator \cup {"DIVIDE", "INTEGER_DIVIDE"} \cup BitwiseOperator
                    \cup LogicalOperator \cup EqualityOperator \cup ComparisonOperator

-----------------------------------------------------------------------------
(* Expressions. *)
NoExpr == [kind |-> "none", line |-> 0]


\* The value is an integer: 0 or 1 of a bool, a count of sixteenths of a float.
FloatOne == 16
ExprLiteral(line, type, value) ==
    [kind |-> "literal", line |-> line, type |-> type, value |-> value]

ExprIdentifier(line, name) == [kind |-> "identifier", line |-> line, name |-> name]

ExprBinary(line, op, left, right) ==
    [kind |-> "binary", line |-> line, op |-> op, left |-> left, right |-> right]

ExprUnary(line, op, expr)  == [kind |-> "unary", line |-> line, op |-> op, expr |-> expr]

\* With ++ or --.
ExprPostfix(line, op, expr) == [kind |-> "postfix", line |-> line, op |-> op, expr |-> expr]

ExprTernary(line, condition, trueExpr, falseExpr) ==
    [kind |-> "ternary", line |-> line, condition |-> condition,
     trueExpr |-> trueExpr, falseExpr |-> falseExpr]

ExprCast(line, type, expr) == [kind |-> "cast", line |-> line, type |-> type, expr |-> expr]

ExprFunctionCall(line, name, arguments) ==
    [kind |-> "call", line |-> line, name |-> name, arguments |-> arguments]

-----------------------------------------------------------------------------
(* Statements. *)
NoStm == [kind |-> "none", line |-> 0]

StmBlock(line, end, statements) ==
    [kind |-> "block", line |-> line, end |-> end, statements |-> statements]

StmVarDecl(line, type, name, initialiser) ==
    [kind |-> "var", line |-> line, type |-> type, name |-> name, initialiser |-> initialiser]

StmAssignment(line, name, op, expr) ==
    [kind |-> "assignment", line |-> line, name |-> name, op |-> op, expr |-> expr]

StmIf(line, condition, ifBlock, elseStm) ==
    [kind |-> "if", line |-> line, condition |-> condition, ifBlock |-> ifBlock,
     elseStm |-> elseStm]

StmWhile(line, condition, body) ==
    [kind |-> "while", line |-> line, condition |-> condition, body |-> body]

\* `variable' is a StmVarDecl without initialiser or an ExprIdentifier; `step'
\* may be NoExpr.  The range stands at the line of its start.
StmFor(line, variable, start, end, step, body) ==
    [kind |-> "for", line |-> line, variable |-> variable, start |-> start, end |-> end,
     step |-> step, body |-> body]

StmContinue(line)     == [kind |-> "continue", line |-> line]
StmBreak(line)        == [kind |-> "break", line |-> line]
StmReturn(line, expr) == [kind |-> "return", line |-> line, expr |-> expr]
StmExpr(line, expr)   == [kind |-> "expr", line |-> line, expr |-> expr]

-----------------------------------------------------------------------------
Parameter(type, name) == [type |-> type, name |-> name]

FunctionDecl(line, returns, name, parameters, body) ==
    [line |-> line, returns |-> returns, name |-> name, parameters |-> parameters, body |-> body]

getParameterTypes(f) == [i \in DOMAIN f.parameters |-> f.parameters[i].type]

Program(functions, statements) == [functions |-> functions, statements |-> statements]
=============================================================================
