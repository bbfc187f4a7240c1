----------------------------- MODULE MCToolchain ----------------------------
(* Compiled programs and texts written by hand for Toolchain.              *)
EXTENDS Toolchain, AssemblyGenerator

V(line, name) == ExprIdentifier(line, name)
N(line)       == ExprLiteral(line, "int", 1)

\* int x = 1;  bool b = x < f(0.5);
\* { int y = ++x; x = f(y); println(b); }
\* int f(int n) { return n // n; }    int f(float q) { return f((int) q); }
Calls == Program(
    << FunctionDecl(100, "int", "f", <<Parameter("int", "n")>>, StmBlock(101, 102, <<
         StmReturn(103, ExprBinary(104, "INTEGER_DIVIDE", V(105, "n"), V(106, "n"))) >>)),
       FunctionDecl(110, "int", "f", <<Parameter("float", "q")>>, StmBlock(111, 112, <<
         StmReturn(113, ExprFunctionCall(114, "f", <<ExprCast(115, "int", V(116, "q"))>>)) >>)) >>,
    << StmVarDecl(1, "int", "x", N(2)),
       StmVarDecl(3, "bool", "b", ExprBinary(4, "LESS_THAN", V(5, "x"),
                                    ExprFunctionCall(6, "f", <<ExprLiteral(7, "float", 8)>>))),
       StmBlock(10, 11, <<
         StmVarDecl(12, "int", "y", ExprUnary(13, "INCREMENT", V(14, "x"))),
         StmAssignment(15, "x", "EQUAL", ExprFunctionCall(16, "f", <<V(17, "y")>>)),
         StmExpr(18, ExprFunctionCall(19, "println", <<V(20, "b")>>)) >>) >>)

\* void g() { { int k = 2;  k %= k; }  exit(1); }
\* float s = 1;  for (float i : s .. 3 : s) { g();  s += i; }
Loop == Program(
    << FunctionDecl(100, "void", "g", <<>>, StmBlock(101, 102, <<
         StmBlock(103, 104, <<
            StmVarDecl(105, "int", "k", N(106)),
            StmAssignment(107, "k", "MODULO", V(108, "k")) >>),
         StmExpr(109, ExprFunctionCall(110, "exit", <<N(111)>>)) >>)) >>,
    << StmVarDecl(1, "float", "s", N(2)),
       StmFor(3, StmVarDecl(4, "float", "i", NoExpr), V(5, "s"), N(6), V(7, "s"),
         StmBlock(8, 9, <<
            StmExpr(10, ExprFunctionCall(11, "g", <<>>)),
            StmAssignment(12, "s", "ADD", V(13, "i")) >>)) >>)

CompiledPrograms ==
    LET Compile(program) == compileProgram(program, processProgram(program))
    IN << Compile(Calls), Compile(Loop) >>

\* They are as the emitter takes for granted (AssemblyEmitter.cpp).
ASSUME ProgramsGenerated ==
    \A k \in DOMAIN CompiledPrograms :
        LET program == CompiledPrograms[k]
        IN GeneratedBy(program.items, program.functions, program.data)

-----------------------------------------------------------------------------
Hand(name) == FunctionLabel("hand", name, <<>>)
Do(op) == Op(op, None, None)
Data(name, type, value) == [kind |-> "data", name |-> Hand(name), type |-> type, value |-> value]
AText(text) == [is |-> "text", of |-> text]
Begin(region) == [kind |-> "directive", section |-> region]
LabelHere(name) == [kind |-> "label", name |-> Hand(name)]

\* Operands of every width, data of every kind, and tables of its own.
Wide == <<
    Op("push", OfType("i64"), Number(7)), Op("push", OfType("i32"), Number(1)),
    Op("push", OfType("ptr"), ToLabel(Hand("name"))), Op("rotD", Number(3), None), Do("pop"),
    Op("call", ToLabel(Hand("m")), None), Op("loadG", ToLabel(Hand("long")), None),
    Op("jez", ToLabel(Hand("again")), None), Op("jmp", ToLabel(Hand("stop")), None),
    [kind |-> "method", name |-> Hand("m"), arguments |-> 1, locals |-> 1],
    Op("loadL", OfType("i32"), Number(1)), Op("addrL", Number(-1), None), Op("load", OfType("f32"), None),
    Op("storeL", Number(-1), None), Do("ret"),
    LabelHere("again"), Op("native", Native("print"), None), Op("throw", ErrorRef("ARRAY_INDEX_OUT_OF_RANGE"), None),
    LabelHere("stop"), Op("dup", Number(0), None), Do("halt"),
    Begin("DATA"), Data("long", "f64", Number(5)), Data("name", "str", AText("main.sv")),
    Data("to", "ptr", ToLabel(Hand("name"))), Data("zero", "i32", Number(0)),
    Begin("METADATA"), Begin("METADATA_SOURCE"), [kind |-> "source", path |-> "main.sv"],
    Begin("METADATA_FUNCTION"), [kind |-> "function", start |-> 47, end |-> 72, name |-> "m"],
    Begin("METADATA_LINE_TABLE"), [kind |-> "line", start |-> 0, end |-> 47, line |-> 1],
    [kind |-> "line", start |-> 47, end |-> 80, line |-> 2] >>

\* No tables: errors are internal.
Bare == << Op("call", ToLabel(Hand("m")), None), Do("halt"),
           [kind |-> "method", name |-> Hand("m"), arguments |-> 0, locals |-> 0],
           Op("call", ToLabel(Hand("m")), None), Do("div"), Do("ret") >>

\* A frame that is not there, in a text with tables.
NoCaller == << Do("ret"), Begin("DATA"), Begin("METADATA"), Begin("METADATA_SOURCE"),
               [kind |-> "source", path |-> "main.sv"], Begin("METADATA_FUNCTION"),
               Begin("METADATA_LINE_TABLE"), [kind |-> "line", start |-> 0, end |-> 1, line |-> 1] >>

\* Refused: by the parser, for a label defined twice, for one never defined,
\* for a depth, and for references behind the tables.
TwoOperands   == << Op("halt", Number(1), None) >>
DataTooLate   == << Begin("METADATA"), Begin("DATA") >>
Twice         == << LabelHere("stop"), Do("halt"), LabelHere("stop") >>
Nowhere       == << Op("jmp", ToLabel(Hand("again")), None) >>
TooDeep       == << Op("dup", Number(1024), None) >>
BehindTables  == << Begin("METADATA"), Op("jmp", ToLabel(Hand("again")), None) >>
DataBehind    == << Begin("METADATA"), Data("to", "ptr", ToLabel(Hand("again"))) >>

Texts == <<Wide, Bare, NoCaller, TwoOperands, DataTooLate, Twice, Nowhere, TooDeep, BehindTables, DataBehind>>

-----------------------------------------------------------------------------
AllLabels ==
    LET LabelsOf(text) ==
            {text[i].name : i \in {k \in DOMAIN text : text[k].kind \in {"label", "method", "data"}}}
    IN UNION {LabelsOf(CompiledPrograms[k].items) : k \in DOMAIN CompiledPrograms}
         \cup UNION {LabelsOf(Texts[k]) : k \in DOMAIN Texts}
         \cup UNION {LabelsOf(builtinFunctionAssembly(BuiltinFunctions[k])) : k \in DOMAIN BuiltinFunctions}
         \cup {TrueString, FalseString}

Names  == LET names == {l.name : l \in AllLabels} IN names \cup {"main.sv", "m"}
NameOf == LET labels == AllLabels IN [l \in labels |-> l.name]
Length == LET names == Names IN [t \in names |-> IF t \in {"main.sv", "f"} THEN 2 ELSE 3]

SourcePath == "main.sv"
TwoStatuses == {0, 1}
=============================================================================
