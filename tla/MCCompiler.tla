----------------------------- MODULE MCCompiler -----------------------------
(* Programs for CompiledProgram: together they have every kind of node.    *)
(* A number in front of a node is its line.                                *)
EXTENDS CompiledProgram

V(line, name) == ExprIdentifier(line, name)
N(line)       == ExprLiteral(line, "int", 1)
F(line)       == ExprLiteral(line, "float", 1)
C(line)       == ExprLiteral(line, "char", 1)
B(line)       == ExprLiteral(line, "bool", 1)
Bin(line, op, left, right) == ExprBinary(line, op, left, right)
Set(line, name, expr)      == StmAssignment(line, name, "EQUAL", expr)
IntVar(line, name, expr)      == StmVarDecl(line, "int", name, expr)
Increment(line, name)      == StmExpr(line, ExprPostfix(line + 1, "INCREMENT", V(line + 2, name)))

\* int x = 1 + 2 * 3;  bool b = x < 2 || !(x == 3) && true;
\* { int y = x; { char z = 'a'; y += z; x = y } int w = y; x = w; }
\* if (b) { float x; x = 1; x /= 2 } else if (x > 2) { x %= 2 }
\* while (x >= 1) { int v = x; x -= v }
Blocks == Program(<<>>, <<
    IntVar(1, "x", Bin(2, "ADD", N(3), Bin(4, "MULTIPLY", N(5), N(6)))),
    StmVarDecl(7, "bool", "b",
        Bin(8, "LOGICAL_OR", Bin(9, "LESS_THAN", V(10, "x"), N(11)),
            Bin(12, "LOGICAL_AND",
                ExprUnary(13, "LOGICAL_NOT", Bin(14, "EQUAL_EQUAL", V(15, "x"), N(16))), B(17)))),
    StmBlock(20, 21, <<
        IntVar(22, "y", V(23, "x")),
        StmBlock(24, 25, <<
            StmVarDecl(26, "char", "z", C(27)),
            StmAssignment(28, "y", "ADD", V(29, "z")),
            Set(30, "x", V(31, "y")) >>),
        IntVar(32, "w", V(33, "y")),
        Set(34, "x", V(35, "w")) >>),
    StmIf(40, V(41, "b"),
        StmBlock(42, 43, << StmVarDecl(44, "float", "x", NoExpr), Set(45, "x", N(46)),
                            StmAssignment(47, "x", "DIVIDE", N(48)) >>),
        StmIf(50, Bin(51, "GREATER_THAN", V(52, "x"), N(53)),
            StmBlock(54, 55, << StmAssignment(56, "x", "MODULO", N(57)) >>), NoStm)),
    StmWhile(60, Bin(61, "GREATER_THAN_OR_EQUAL", V(62, "x"), N(63)),
        StmBlock(64, 65, << IntVar(66, "v", V(67, "x")),
                            StmAssignment(68, "x", "SUBTRACT", V(69, "v")) >>)) >>)

\* int d = -1;  int k;  char e = 'a';
\* for (int i : 5 .. 0 : d) { if (i != 2) { continue; } int y = i; d = y; }
\* for (k : e .. 9) { for (float f : 0 .. k : 0.5) { k = 3; if (f <= 1) { break; } } k++ }
Ranges == Program(<<>>, <<
    IntVar(1, "d", ExprUnary(2, "MINUS", N(3))),
    IntVar(4, "k", NoExpr),
    StmVarDecl(5, "char", "e", C(6)),
    StmFor(10, StmVarDecl(11, "int", "i", NoExpr), N(12), N(13), V(14, "d"),
        StmBlock(15, 16, <<
            StmIf(17, Bin(18, "NOT_EQUAL", V(19, "i"), N(20)),
                StmBlock(21, 22, << StmContinue(23) >>), NoStm),
            IntVar(24, "y", V(25, "i")),
            Set(26, "d", V(27, "y")) >>)),
    StmFor(30, V(31, "k"), V(32, "e"), N(33), NoExpr,
        StmBlock(34, 35, <<
            StmFor(36, StmVarDecl(37, "float", "f", NoExpr), N(38), V(39, "k"), F(40),
                StmBlock(41, 42, <<
                    Set(43, "k", N(44)),
                    StmIf(45, Bin(46, "LESS_THAN_OR_EQUAL", V(47, "f"), N(48)),
                        StmBlock(49, 50, << StmBreak(51) >>), NoStm) >>)),
            Increment(52, "k") >>)) >>)

\* int f(int n, float q) { if (n > 1) { { int m = n; q = m; } int p = f(n - 1, n); return p; }
\*                         else { float m = q; return (int) m; } }
\* void f(int n) { while (true) { int m = n; if (m == 2) { break; } else { n = m; continue; } } print(n); }
\* bool g = false;  int total = f(3, 'a');  f(total);  println(g);
Functions == Program(
    << FunctionDecl(100, "int", "f", <<Parameter("int", "n"), Parameter("float", "q")>>,
         StmBlock(101, 102, <<
            StmIf(103, Bin(104, "GREATER_THAN", V(105, "n"), N(106)),
                StmBlock(107, 108, <<
                    StmBlock(109, 110, << IntVar(111, "m", V(112, "n")), Set(113, "q", V(114, "m")) >>),
                    IntVar(115, "p", ExprFunctionCall(116, "f",
                        << Bin(117, "SUBTRACT", V(118, "n"), N(119)), V(120, "n") >>)),
                    StmReturn(121, V(122, "p")) >>),
                StmBlock(123, 124, << StmVarDecl(125, "float", "m", V(126, "q")),
                                      StmReturn(127, ExprCast(128, "int", V(129, "m"))) >>)) >>)),
       FunctionDecl(130, "void", "f", <<Parameter("int", "n")>>,
         StmBlock(131, 132, <<
            StmWhile(133, B(134), StmBlock(135, 136, <<
                IntVar(137, "m", V(138, "n")),
                StmIf(139, Bin(140, "EQUAL_EQUAL", V(141, "m"), N(142)),
                    StmBlock(143, 144, << StmBreak(145) >>),
                    StmBlock(146, 147, << Set(148, "n", V(149, "m")), StmContinue(150) >>)) >>)),
            StmExpr(151, ExprFunctionCall(152, "print", <<V(153, "n")>>)) >>)) >>,
    << StmVarDecl(1, "bool", "g", B(2)),
       IntVar(3, "total", ExprFunctionCall(4, "f", <<N(5), C(6)>>)),
       StmExpr(7, ExprFunctionCall(8, "f", <<V(9, "total")>>)),
       StmExpr(10, ExprFunctionCall(11, "println", <<V(12, "g")>>)) >>)

\* int h(float a) { int b = (int) a; b += ++b; float c = b-- / 2; a = b < 3 ? 'c' : c;
\*                  b = ~b << 'd'; b &= +b; return b == 1.5 ? 2 // a : 'e' // b; }
\* int x = h(1);  x++;  --x;  float y = x;  y *= x;
\* bool z = y >= x;  z &&= z != true;  z ||= z;
Operations == Program(
    << FunctionDecl(100, "int", "h", <<Parameter("float", "a")>>, StmBlock(101, 102, <<
         IntVar(103, "b", ExprCast(104, "int", V(105, "a"))),
         StmAssignment(106, "b", "ADD", ExprUnary(107, "INCREMENT", V(108, "b"))),
         StmVarDecl(109, "float", "c",
            Bin(110, "DIVIDE", ExprPostfix(111, "DECREMENT", V(112, "b")), N(113))),
         Set(114, "a", ExprTernary(115, Bin(116, "LESS_THAN", V(117, "b"), N(118)), C(119), V(120, "c"))),
         Set(121, "b", Bin(122, "LEFT_SHIFT", ExprUnary(123, "BITWISE_NOT", V(124, "b")), C(125))),
         StmAssignment(126, "b", "BITWISE_AND", ExprUnary(127, "PLUS", V(128, "b"))),
         StmReturn(129, ExprTernary(130, Bin(131, "EQUAL_EQUAL", V(132, "b"), F(133)),
            Bin(134, "INTEGER_DIVIDE", N(135), V(136, "a")),
            Bin(137, "INTEGER_DIVIDE", C(138), V(139, "b")))) >>)) >>,
    << IntVar(1, "x", ExprFunctionCall(2, "h", <<N(3)>>)),
       Increment(4, "x"),
       StmExpr(7, ExprUnary(8, "DECREMENT", V(9, "x"))),
       StmVarDecl(10, "float", "y", V(11, "x")),
       StmAssignment(12, "y", "MULTIPLY", V(13, "x")),
       StmVarDecl(14, "bool", "z", Bin(15, "GREATER_THAN_OR_EQUAL", V(16, "y"), V(17, "x"))),
       StmAssignment(18, "z", "LOGICAL_AND", Bin(19, "NOT_EQUAL", V(20, "z"), B(21))),
       StmAssignment(22, "z", "LOGICAL_OR", V(23, "z")) >>)

\* int f(bool b) { if (b) { return 1; } else { b = true; } }  int x = f(true);
NoReturn == Program(
    << FunctionDecl(100, "int", "f", <<Parameter("bool", "b")>>, StmBlock(101, 102, <<
         StmIf(103, V(104, "b"), StmBlock(105, 106, <<StmReturn(107, N(108))>>),
                                 StmBlock(109, 110, <<Set(111, "b", B(112))>>)) >>)) >>,
    << IntVar(1, "x", ExprFunctionCall(2, "f", <<B(3)>>)) >>)

\* int x = 1;  { int y = x;  int x = 2;  y = x; }
LateShadow == Program(<<>>, <<
    IntVar(1, "x", N(2)),
    StmBlock(3, 4, << IntVar(5, "y", V(6, "x")), IntVar(7, "x", N(8)), Set(9, "y", V(10, "x")) >>) >>)

\* int k(int n) { { float a = n; n = (int) a; }
\*                { int b = n; bool t = b > 1; if (t) { char u = 'u'; n = u; } return b; } }
\* float s(char c, bool b) { int n = b ? 'x' : c;  float f = -(b ? n : 1.5);  f = +f;
\*                           if (b) { n = -c; n = +'y'; return -(b ? n : c); }
\*                           return +c - n; }
\* bool b = true;  float y = s('a', b);  y = k(2);  int x = +'b';
Mixtures == Program(
    << FunctionDecl(100, "int", "k", <<Parameter("int", "n")>>, StmBlock(101, 102, <<
         StmBlock(103, 104, <<
            StmVarDecl(105, "float", "a", V(106, "n")),
            Set(107, "n", ExprCast(108, "int", V(109, "a"))) >>),
         StmBlock(110, 111, <<
            IntVar(112, "b", V(113, "n")),
            StmVarDecl(114, "bool", "t", Bin(115, "GREATER_THAN", V(116, "b"), N(117))),
            StmIf(118, V(119, "t"),
                StmBlock(120, 121, << StmVarDecl(122, "char", "u", C(123)), Set(124, "n", V(125, "u")) >>),
                NoStm),
            StmReturn(126, V(127, "b")) >>) >>)),
       FunctionDecl(130, "float", "s", <<Parameter("char", "c"), Parameter("bool", "b")>>,
         StmBlock(131, 132, <<
            IntVar(133, "n", ExprTernary(134, V(135, "b"), C(136), V(137, "c"))),
            StmVarDecl(138, "float", "f", ExprUnary(139, "MINUS",
                ExprTernary(140, V(141, "b"), V(142, "n"), F(143)))),
            Set(144, "f", ExprUnary(145, "PLUS", V(146, "f"))),
            StmIf(147, V(148, "b"), StmBlock(149, 150, <<
                Set(151, "n", ExprUnary(152, "MINUS", V(153, "c"))),
                Set(154, "n", ExprUnary(155, "PLUS", C(156))),
                StmReturn(157, ExprUnary(158, "MINUS",
                    ExprTernary(159, V(160, "b"), V(161, "n"), V(162, "c")))) >>), NoStm),
            StmReturn(163, Bin(164, "SUBTRACT", ExprUnary(165, "PLUS", V(166, "c")), V(167, "n"))) >>)) >>,
    << StmVarDecl(1, "bool", "b", B(2)),
       StmVarDecl(3, "float", "y", ExprFunctionCall(4, "s", <<C(5), V(6, "b")>>)),
       Set(7, "y", ExprFunctionCall(8, "k", <<N(9)>>)),
       IntVar(10, "x", ExprUnary(11, "PLUS", C(12))) >>)

CompiledAll(programs) == FoldLeft(LAMBDA made, p : Append(made, Compile(p)), <<>>, programs)
CompiledOnce   == CompiledAll(<<Blocks, Ranges, Functions, Operations, Mixtures, NoReturn>>)
CompiledShadow == CompiledAll(<<LateShadow>>)

\* TLC's statistics do not look into LET; without it they would unfold the
\* compiler in every action.
AllPrograms == LET compiled == CompiledOnce IN compiled
Shadowing   == LET compiled == CompiledShadow IN compiled

NoLabels     == {}
NoTexts      == <<>>
NoAssignment == -1
=============================================================================
