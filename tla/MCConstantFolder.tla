-------------------------- MODULE MCConstantFolder --------------------------
(* Programs for FoldedProgram.  Most are functions                          *)
(*     R t(int x, float y, char c, bool b) { ... }                         *)
(* that return an expression.  A node is written without its line, and     *)
(* Numbered gives every node of an expression a line of its own.           *)
EXTENDS FoldedProgram

RECURSIVE Numbered(_, _)
Numbered(e, n) ==
    LET part(e_, i) == Numbered(e_, 4 * n + i)
    IN CASE e.kind = "binary"  -> [e EXCEPT !.line = n, !.left = part(@, 0), !.right = part(@, 1)]
         [] e.kind \in {"unary", "postfix", "cast"} -> [e EXCEPT !.line = n, !.expr = part(@, 0)]
         [] e.kind = "ternary" -> [e EXCEPT !.line = n, !.condition = part(@, 0),
                                            !.trueExpr = part(@, 1), !.falseExpr = part(@, 2)]
         [] e.kind = "call"    -> [e EXCEPT !.line = n,
                                            !.arguments = [i \in DOMAIN @ |-> part(@[i], i)]]
         [] OTHER              -> [e EXCEPT !.line = n]

Int_(n)   == ExprLiteral(0, "int", n)
Float(n)  == ExprLiteral(0, "float", n)      \* in sixteenths
Char(n)   == ExprLiteral(0, "char", n)
Bool(n)   == ExprLiteral(0, "bool", n)
Name(v)   == ExprIdentifier(0, v)
Bin(op, l, r)   == ExprBinary(0, op, l, r)
Un(op, e)       == ExprUnary(0, op, e)
If(condition, l, r) == ExprTernary(0, condition, l, r)
Cast(t, e)      == ExprCast(0, t, e)

\* A function's body and its expressions, the first of them numbered 2.
At1(e) == Numbered(e, 2)
At2(e) == Numbered(e, 3)
Ret(e) == StmReturn(1, At1(e))

Function(returns, statements) ==
    Program(<<FunctionDecl(10001, returns, "t",
                << Parameter("int", "x"), Parameter("float", "y"),
                   Parameter("char", "c"), Parameter("bool", "b") >>,
                StmBlock(10002, 10003, statements)),
              FunctionDecl(10004, "int", "g", <<Parameter("float", "p"), Parameter("int", "q")>>,
                StmBlock(10005, 10006, <<StmReturn(10007, ExprIdentifier(10008, "q"))>>)) >>, <<>>)

Returning(type, exprs) == {Function(type, <<Ret(e)>>) : e \in exprs}

-----------------------------------------------------------------------------
(* Expressions.  100 is near the limit of int, 33 is not exact as a float,  *)
(* and the cast gives a char whose bits are those of -3.                   *)
Negative == Un("MINUS", Int_(7))
HighChar == Cast("char", Un("MINUS", Int_(3)))
Constant == {Int_(0), Int_(33), Int_(100), Negative, Float(40), Char(97), HighChar}
Tests     == EqualityOperator \cup ComparisonOperator
Operators == BinaryOperator \ LogicalOperator

Least    == Bin("SUBTRACT", Un("MINUS", Int_(127)), Int_(1))
Extremes == {Bin(op, Least, Un("MINUS", Int_(1))) : op \in {"MULTIPLY", "MODULO", "ADD", "LEFT_SHIFT"}}

Pairs(op, l) == {Bin(op, l, r) : r \in Constant}

\* One operand is a constant; a fold inside another.
Few == {Int_(3), Float(40), Char(97)}
Mixed(op) == {Bin(op, l, Name("x")) : l \in Few} \cup {Bin(op, Name("y"), r) : r \in Few}
FewOperators == {"MULTIPLY", "DIVIDE", "INTEGER_DIVIDE", "MODULO"}
Nested(operators) == {Bin(operators[1], Bin(operators[2], l, r), k) : l \in Few, r \in Few, k \in {Int_(7), Name("x")}}

\* Only the left operand is folded.
BesideStep == {Bin("MULTIPLY", Bin("ADD", l, Int_(3)), step) : l \in Few,
                step \in {Un("INCREMENT", Name("x")), ExprPostfix(0, "DECREMENT", Name("x"))}}

\* ~7 == -8
BesideNot(op) == {Bin(op, Un("BITWISE_NOT", Int_(7)), r) : r \in {Bin("SUBTRACT", Negative, Int_(1)), Int_(3)}}

Boolean == {Bool(0), Bool(1), Name("b"), Bin("LESS_THAN", Int_(3), Int_(7)), Bin("LESS_THAN", Name("x"), Int_(3))}
Ternaries(condition) == {If(condition, l, r) :
                l \in {Int_(3), Negative, Char(97), Name("x"), Name("c")}, r \in {Float(40), Char(97), Name("y")}}
Logicals(op) == {Bin(op, l, r) : l \in Boolean, r \in Boolean}
               \cup {Bin(op, Bin("LOGICAL_AND", l, Name("b")), r) : l \in {Bool(0), Bool(1)}, r \in Boolean}

\* What is not evaluated is not folded.
Unreached == {Bin("LOGICAL_AND", Bool(0), Bin("LESS_THAN", Bin("DIVIDE", Int_(3), Int_(0)), Int_(3))),
              If(Bool(1), Bin("EQUAL_EQUAL", Int_(3), Int_(3)),
                          Bin("EQUAL_EQUAL", Bin("MODULO", Int_(3), Int_(0)), Int_(3)))}

\* A division by zero that is folded, whether or not it is reached.
ByZero(op) == Bin("EQUAL_EQUAL", Bin(op, Int_(3), Int_(0)), Int_(3))
Dividing   == {"DIVIDE", "INTEGER_DIVIDE", "MODULO"}
MaybeReached == {Bin(op, Name("b"), ByZero(division)) : op \in LogicalOperator, division \in Dividing}

Signs == {"PLUS", "MINUS", "BITWISE_NOT"}
Signed(op, operands_) == {Un(op, e) : e \in operands_}
Casts(t, operands_)   == {Cast(t, e) : e \in operands_}

-----------------------------------------------------------------------------
(* Statements. *)
\* V v = e1;  v op= e2;
Declared(type, e, op, k) ==
    Function("void", << StmVarDecl(5000, type, "v", At1(e)), StmAssignment(5001, "v", op, At2(k)) >>)

Compounds(op) ==
    {Declared(type, e, op, k) : type \in {"int", "float"}, e \in {Negative, Float(40)},
                                k \in {Int_(3), Float(8), Float(40), Char(97)}}
Conditions(op) == {Declared("bool", e, op, k) : e \in Boolean, k \in Boolean}

\* if (e) { x = 3 * 3 } else { y = 3 + 3 }   while (e) { b = false; x++; }
Branches(conditions) == {Function("void",
                << StmIf(5000, At1(e),
                    StmBlock(5001, 5002, << StmAssignment(5003, "x", "EQUAL",
                                                Numbered(Bin("MULTIPLY", Int_(3), Int_(3)), 4)) >>),
                    StmBlock(5004, 5005, << StmAssignment(5006, "y", "EQUAL",
                                                Numbered(Bin("ADD", Int_(3), Int_(3)), 5)) >>)) >>) : e \in conditions}
MaybeDivides == {Function("void",
                    << StmIf(5000, At1(Name("b")),
                        StmBlock(5001, 5002, <<StmAssignment(5003, "y", "EQUAL",
                                                    Numbered(Bin(op, Int_(3), Int_(0)), 4))>>), NoStm) >>) : op \in Dividing}
Loops == {Function("void",
            << StmWhile(5000, At1(e), StmBlock(5001, 5002,
                << StmAssignment(5003, "b", "EQUAL", ExprLiteral(5004, "bool", 0)),
                   StmExpr(5005, ExprPostfix(5006, "INCREMENT", ExprIdentifier(5007, "x"))) >>)) >>) :
                e \in {Bool(0), Name("b"), Bin("LOGICAL_AND", Bool(1), Name("b"))}}

\* x = g(e, k);
Calls == {Function("void", << StmAssignment(5000, "x", "EQUAL", At1(ExprFunctionCall(0, "g", <<e, k>>))) >>) :
            e \in {Int_(3), Negative, Float(40), Name("x"), Bin("ADD", Char(97), Int_(3))},
            k \in {Char(97), Bin("INTEGER_DIVIDE", Negative, Int_(3)), If(Bool(0), Int_(3), Name("x"))}}

\* { V t = 0;  for (V i : start .. end : step) { t += i; } }
Summing(type, start, end, step) ==
    Program(<<>>, << StmBlock(10000, 10001,
        << StmVarDecl(5000, type, "t", ExprLiteral(5001, "int", 0)),
           StmFor(5002, StmVarDecl(5003, type, "i", NoExpr), At1(start), At2(end),
                  IF step = NoExpr THEN NoExpr ELSE Numbered(step, 4),
                  StmBlock(5004, 5005, <<StmAssignment(5006, "t", "ADD", ExprIdentifier(5007, "i"))>>)) >>) >>)

Ranges(end) == {Summing(type, start, end, step) : type \in {"int", "float"},
            start \in {Int_(0), Bin("ADD", Int_(3), Int_(3))},
            step \in {NoExpr, Int_(0), Bin("SUBTRACT", Int_(0), Int_(3)), Char(2)}}

-----------------------------------------------------------------------------
\* A set is put in order by a deep recursion: families are many small sets.
Listed(programs) == FoldSet(LAMBDA p, list : Append(list, p), <<>>, programs)

\* TLC takes a definition for a constant only if it reaches the compiler by
\* way of an argument; and its statistics do not look into LET.
EachOf(F(_), list) == SubSeq([i \in DOMAIN list |-> F(list[i])], 1, Len(list))

Returned(type, F(_), list) == EachOf(LAMBDA x : Returning(type, F(x)), list)
PlusThree(exprs) == {Bin("ADD", e, Int_(3)) : e \in exprs}
Negated(exprs)   == {Un("LOGICAL_NOT", e) : e \in exprs}

Arithmetic == Listed(Operators \ Tests)
Truth      == Listed(Boolean)
AndOr      == Listed(LogicalOperator)
FewPairs   == Listed(FewOperators \X FewOperators)

OfPairs(type, op) == Returned(type, LAMBDA l : Pairs(op, l), Listed(Constant))

\* What a sign or a cast has: constants, or a branch that is chosen.
OperandSets == << Constant \cup {Name("c")}, {Un("BITWISE_NOT", e) : e \in Constant},
                  Ternaries(Bool(0)), Ternaries(Bool(1)) >>

OfSigns(op) == LET signed(operands_) == Signed(op, operands_)
               IN Returned("float", signed, OperandSets) \o Returned("int", signed, OperandSets)
                    \o Returned("float", LAMBDA operands_ : PlusThree(signed(operands_)), OperandSets)

Groups ==
    EachOf(LAMBDA op : OfPairs("float", op), Arithmetic) \o EachOf(LAMBDA op : OfPairs("bool", op), Listed(Tests))
      \o EachOf(OfSigns, Listed(Signs))
      \o EachOf(LAMBDA t : Returned(t, LAMBDA operands_ : Casts(t, operands_), OperandSets), <<"int", "float", "char">>)
      \o << Returned("float", Nested, FewPairs), Returned("int", Nested, FewPairs),
            Returned("float", Mixed, Arithmetic), Returned("bool", Mixed, Listed(Tests)),
            Returned("float", BesideNot, Arithmetic), Returned("bool", BesideNot, Listed(Tests)),
            Returned("float", Ternaries, Truth), Returned("char", Ternaries, Truth),
            Returned("float", LAMBDA condition : PlusThree(Ternaries(condition)), Truth),
            Returned("bool", Logicals, AndOr), Returned("bool", LAMBDA op : Negated(Logicals(op)), AndOr),
            EachOf(Compounds, Arithmetic \o <<"EQUAL">>), EachOf(Conditions, AndOr \o <<"EQUAL">>),
            EachOf(LAMBDA op : Branches(Logicals(op)), AndOr), EachOf(Ranges, <<Int_(3), Negative, Float(40)>>),
            << Branches(Boolean), Returning("int", Extremes \cup BesideStep), Returning("bool", Unreached \cup MaybeReached),
               MaybeDivides, Loops, Calls >> >>

\* return b && true;
RightConstants ==
    Returning("bool", {Bin(op, Name("b"), Bool(n)) : op \in LogicalOperator, n \in {0, 1}})

CompiledAll(programs) == EachOf(Compile, Listed(programs))
CompiledGroup(group)  == FlattenSeq(EachOf(CompiledAll, group))
CompiledFamily == FlattenSeq(EachOf(CompiledGroup, Groups))
CompiledRight  == CompiledAll(RightConstants)

AllPrograms   == LET compiled == CompiledFamily IN compiled
RightPrograms == LET compiled == CompiledRight IN compiled

\* x, y, c, b: numbers that a float holds.
TwoInputs == {<< OfNumber("i32", -5), OfNumber("f32", 24), OfNumber("ui32", 96), OfNumber("ui32", 1) >>,
              << OfNumber("i32", 2), OfNumber("f32", -40), OfNumber("ui32", 200), OfNumber("ui32", 0) >>}

NoLabels == {}
NoTexts  == <<>>
=============================================================================
