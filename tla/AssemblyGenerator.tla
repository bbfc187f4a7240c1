------------------------- MODULE AssemblyGenerator --------------------------
(***************************************************************************)
(* The code generator (src/src/compiler/codegen/AssemblyGenerator.cpp)     *)
(* without arrays: the items for every kind of node, as sequences.  `c' is *)
(* the program as analysed, `scope' the scope the code hands down.         *)
(*                                                                         *)
(* Two counters of the code are left out, since a node is compiled once:   *)
(* generateLabel's, whose labels are named by the node here, and the one   *)
(* of scope functions, which are named by their block or loop.  The list   *)
(* of pending scope functions is that of their calls, in the order the     *)
(* calls are emitted.                                                      *)
(***************************************************************************)
EXTENDS SemanticAnalyser

-----------------------------------------------------------------------------
(* Items. *)
Immediate(n) == [is |-> "number", of |-> n, width |-> 4]

Item2(op, first, second, line) ==
    [kind |-> "instruction", op |-> op, first |-> first, second |-> second, line |-> line]
Item1(op, first, line) == Item2(op, first, None, line)
Item0(op, line)        == Item2(op, None, None, line)

generateLabel(name, line) == [kind |-> "code", name |-> name, types |-> <<>>, n |-> line]
LabelItem(label) == [kind |-> "label", name |-> label]

ScopeFunction(line) == [kind |-> "scope", name |-> "__scope__", types |-> <<>>, n |-> line]

toAssemblyType(type) ==
    CASE type = "int"   -> "i32"
      [] type = "float" -> "f32"
      [] type \in {"bool", "char"} -> "ui32"
      [] OTHER          -> "none"

getNumber(type, n) == Immediate(IF type = "f32" THEN n * FloatOne ELSE n)

Push(type, n, line) == Item2("push", OfType(type), getNumber(type, n), line)
Dup(n, line) == Item1("dup", Immediate(n), line)

compileTypeConversionIfRequired(from, to, line) ==
    IF toAssemblyType(from) = toAssemblyType(to) THEN <<>>
    ELSE <<Item1("conv", OfType(toAssemblyType(to)), line)>>

\* A literal may have been made by the optimiser, which gives it its type.
TypeAt(c, node) == IF node.kind = "literal" THEN node.type ELSE c.notes[node.line].type
AsmTypeAt(c, node) == toAssemblyType(TypeAt(c, node))

-----------------------------------------------------------------------------
(* Variables.  The name is looked up in the complete table. *)
Variable(c, scope, name) == lookup(c.table, scope, name)
isGlobal(symbol) == symbol.scope = GlobalScope
DataName(symbol) == ToLabel(DataLabel(symbol.name))
SlotOf(c, symbol) == Immediate(localSlot(c.table, symbol))

StoreTo(c, symbol, line) ==
    IF isGlobal(symbol) THEN Item1("storeG", DataName(symbol), line)
    ELSE Item1("storeL", SlotOf(c, symbol), line)

\* compileExprIdentifier, for the value and for the pointer.
LoadOf(c, symbol, line) ==
    IF isGlobal(symbol) THEN Item1("loadG", DataName(symbol), line)
    ELSE Item2("loadL", OfType(toAssemblyType(symbol.type)), SlotOf(c, symbol), line)

PointerTo(c, symbol, line) ==
    IF isGlobal(symbol) THEN Item2("push", OfType("ptr"), DataName(symbol), line)
    ELSE Item1("addrL", SlotOf(c, symbol), line)

compileExprIdentifier(c, scope, e, result) ==
    LET symbol == Variable(c, scope, e.name)
    IN <<IF result = "VALUE" THEN LoadOf(c, symbol, e.line) ELSE PointerTo(c, symbol, e.line)>>

-----------------------------------------------------------------------------
(* Expressions. *)
OpcodeOf(op) ==
    CASE op = "ADD" -> "add"           [] op = "SUBTRACT" -> "sub"
      [] op = "MULTIPLY" -> "mul"      [] op \in {"DIVIDE", "INTEGER_DIVIDE"} -> "div"
      [] op = "MODULO" -> "mod"        [] op = "BITWISE_OR" -> "orr"
      [] op = "BITWISE_XOR" -> "xor"   [] op = "BITWISE_AND" -> "and"
      [] op = "LEFT_SHIFT" -> "shl"    [] op = "ARITHMETIC_RIGHT_SHIFT" -> "sar"
      [] op = "LOGICAL_RIGHT_SHIFT" -> "shr"
      [] op = "EQUAL_EQUAL" -> "ceq"   [] op = "NOT_EQUAL" -> "cne"
      [] op = "LESS_THAN" -> "clt"     [] op = "LESS_THAN_OR_EQUAL" -> "cle"
      [] op = "GREATER_THAN" -> "cgt"  [] op = "GREATER_THAN_OR_EQUAL" -> "cge"

compileBinaryOperator(op, line) == <<Item0(OpcodeOf(op), line)>>

\* `a' or `b', whose first is jumped to if an operand decides: 1 or 0.
compileLogical(op, right, line) ==
    LET short  == generateLabel(IF op = "LOGICAL_OR" THEN "logical_or_true" ELSE "logical_and_false", line)
        end    == generateLabel("logical_end", line)
        jump   == <<Item1(IF op = "LOGICAL_OR" THEN "jnz" ELSE "jez", ToLabel(short), line)>>
        result == IF op = "LOGICAL_OR" THEN <<0, 1>> ELSE <<1, 0>>
    IN jump \o right \o jump
         \o <<Push("ui32", result[1], line), Item1("jmp", ToLabel(end), line), LabelItem(short),
              Push("ui32", result[2], line), LabelItem(end)>>

\* The type both operands are converted to.
OperandType(op, resultType, left, right) ==
    IF op \in EqualityOperator \cup ComparisonOperator \cup {"INTEGER_DIVIDE"}
    THEN IF "float" \in {left, right} THEN "float" ELSE "int"
    ELSE resultType

compileConverted(op, resultType, left, right, leftLine, rightLine, rightCode) ==
    LET type == OperandType(op, resultType, left, right)
    IN compileTypeConversionIfRequired(left, type, leftLine)
         \o rightCode \o compileTypeConversionIfRequired(right, type, rightLine)

compileExprBinaryWithLeftExprOnStack(c, op, line, resultType, leftType, leftLine, right, rightCode) ==
    LET rightType == TypeAt(c, right)
    IN IF op \in LogicalOperator THEN compileLogical(op, rightCode, line)
       ELSE compileConverted(op, resultType, leftType, rightType, leftLine, right.line, rightCode)
              \o compileBinaryOperator(op, line)
              \o IF op = "INTEGER_DIVIDE" /\ "float" \in {leftType, rightType}
                 THEN <<Item1("conv", OfType("i32"), line)>> ELSE <<>>

compileNot(code, line) ==
    LET true == generateLabel("logical_not_true", line)
        end  == generateLabel("logical_not_end", line)
    IN code \o <<Item1("jez", ToLabel(true), line), Push("ui32", 0, line),
                 Item1("jmp", ToLabel(end), line), LabelItem(true),
                 Push("ui32", 1, line), LabelItem(end)>>

StepOf(op) == IF op = "INCREMENT" THEN "add" ELSE "sub"

\* The pointer to a variable is on the stack; prefix leaves the new value, if
\* any is wanted.  The instruction that moves it down has no source.
compilePrefix(type, op, result, line) ==
    << Dup(0, line), Item1("load", OfType(type), line), Push(type, 1, line), Item0(StepOf(op), line) >>
      \o (IF result = "DISCARD" THEN <<>>
          ELSE <<Dup(0, line), Item1("rotU", Immediate(3), NoLine)>>)
      \o <<Item0("store", line)>>

\* Postfix leaves the old value.
compileSuffix(type, op, result, line) ==
    << Dup(0, line), Item1("load", OfType(type), line) >>
      \o (IF result = "DISCARD" THEN <<>> ELSE <<Item0("swap", line), Dup(1, line)>>)
      \o << Push(type, 1, line), Item0(StepOf(op), line), Item0("store", line) >>

compileTernary(c, e, condition, trueCode, falseCode) ==
    LET true == generateLabel("ternary_true", e.line)
        end  == generateLabel("ternary_end", e.line)
        To(part) == compileTypeConversionIfRequired(TypeAt(c, part), TypeAt(c, e), part.line)
    IN condition \o <<Item1("jnz", ToLabel(true), e.line)>>
         \o falseCode \o To(e.falseExpr)
         \o <<Item1("jmp", ToLabel(end), e.line), LabelItem(true)>>
         \o trueCode \o To(e.trueExpr)
         \o <<LabelItem(end)>>

compileExprFunctionCall(c, e, arguments) ==
    LET f == c.notes[e.line].callee
        converted(i) == arguments[i]
            \o compileTypeConversionIfRequired(TypeAt(c, e.arguments[i]), f.parameters[i],
                                               e.arguments[i].line)
    IN FlattenSeq([i \in DOMAIN arguments |-> converted(i)])
         \o <<Item1("call", ToLabel(LabelOf(f)), e.line)>>

\* The push of a char has no source.
\* Fault: the type is the language's.
compileLiteral_OfLanguage(e) == <<Item2("push", OfType(e.type), Immediate(e.value), e.line)>>

compileLiteral(e) ==
    <<Item2("push", OfType(toAssemblyType(e.type)), Immediate(e.value),
            IF e.type = "char" THEN NoLine ELSE e.line)>>

\* `result' is "VALUE", "PTR" or "DISCARD".  A sign or a negation is compiled
\* for its value whatever is asked for, a prefix inside another too.
RECURSIVE compileExpr(_, _, _, _)
compileExpr(c, scope, e, result) ==
    LET value(part) == compileExpr(c, scope, part, "VALUE")
        pointer(part) == compileExpr(c, scope, part, "PTR")
    IN CASE e.kind = "literal"    -> compileLiteral(e)
         [] e.kind = "identifier" -> compileExprIdentifier(c, scope, e, result)
         [] e.kind = "binary"     ->
                value(e.left) \o compileExprBinaryWithLeftExprOnStack(c, e.op, e.line, TypeAt(c, e),
                                    TypeAt(c, e.left), e.left.line, e.right, value(e.right))
         [] e.kind = "unary" /\ e.op = "PLUS"  -> value(e.expr)
         [] e.kind = "unary" /\ e.op = "MINUS" ->
                <<Push(AsmTypeAt(c, e.expr), 0, e.line)>> \o value(e.expr) \o <<Item0("sub", e.line)>>
         [] e.kind = "unary" /\ e.op = "BITWISE_NOT" ->
                value(e.expr)
                  \o compileTypeConversionIfRequired(TypeAt(c, e.expr), TypeAt(c, e), e.line)
                  \o <<Item0("not", e.line)>>
         [] e.kind = "unary" /\ e.op = "LOGICAL_NOT" -> compileNot(value(e.expr), e.line)
         [] e.kind = "unary" /\ e.op \in {"INCREMENT", "DECREMENT"} ->
                pointer(e.expr) \o compilePrefix(AsmTypeAt(c, e.expr), e.op,
                                     IF result = "DISCARD" THEN result ELSE "VALUE", e.line)
         [] e.kind = "postfix"    ->
                pointer(e.expr) \o compileSuffix(AsmTypeAt(c, e), e.op, result, e.line)
         [] e.kind = "ternary"    ->
                compileTernary(c, e, compileExpr(c, scope, e.condition, result),
                               compileExpr(c, scope, e.trueExpr, result),
                               compileExpr(c, scope, e.falseExpr, result))
         [] e.kind = "cast"       ->
                value(e.expr) \o compileTypeConversionIfRequired(TypeAt(c, e.expr), e.type, e.line)
         [] e.kind = "call"       ->
                compileExprFunctionCall(c, e, [i \in DOMAIN e.arguments |-> value(e.arguments[i])])

-----------------------------------------------------------------------------
(* Statements. *)
compileStmVarDecl(c, scope, s) ==
    LET symbol == Variable(c, scope, s.name)
    IN IF s.initialiser = NoExpr THEN <<>>
       ELSE compileExpr(c, scope, s.initialiser, "VALUE")
              \o compileTypeConversionIfRequired(TypeAt(c, s.initialiser), symbol.type,
                                                 s.initialiser.line)
              \o <<StoreTo(c, symbol, s.line)>>

\* `=' uses the symbol that the analyser noted; a compound assignment looks
\* the name up again for the pointer.
compileStmAssignment(c, scope, s) ==
    LET symbol == c.symbols[s.line]
        value  == compileExpr(c, scope, s.expr, "VALUE")
    IN IF s.op = "EQUAL"
       THEN value \o compileTypeConversionIfRequired(TypeAt(c, s.expr), symbol.type, s.expr.line)
              \o <<StoreTo(c, symbol, s.line)>>
       ELSE <<PointerTo(c, Variable(c, scope, s.name), s.line), Dup(0, s.line),
              Item1("load", OfType(toAssemblyType(symbol.type)), s.line)>>
              \o compileExprBinaryWithLeftExprOnStack(c, s.op, s.line, TypeAt(c, s), symbol.type,
                                                      s.line, s.expr, value)
              \o compileTypeConversionIfRequired(TypeAt(c, s), symbol.type, s.expr.line)
              \o <<Item0("store", s.line)>>

compileIf(s, condition, ifBlock, elseStm) ==
    LET end   == generateLabel("if_end", s.line)
        else  == generateLabel("if_else", s.line)
    IN IF s.elseStm = NoStm
       THEN condition \o <<Item1("jez", ToLabel(end), s.line)>> \o ifBlock \o <<LabelItem(end)>>
       ELSE condition \o <<Item1("jez", ToLabel(else), s.line)>> \o ifBlock
              \o <<Item1("jmp", ToLabel(end), s.line), LabelItem(else)>>
              \o elseStm \o <<LabelItem(end)>>

\* A loop's labels, by the line of the node that opened its scope.
WhileStart(line)  == generateLabel("while_start", line)
WhileEnd(line)    == generateLabel("while_end", line)
ForContinue(line) == generateLabel("for_continue", line)
ForEnd(line)      == generateLabel("for_end", line)

loopContext(c, id) ==
    IF c.nodes[id].kind = "for" THEN [continueLabel |-> ForContinue(id), breakLabel |-> ForEnd(id)]
    ELSE [continueLabel |-> WhileStart(id), breakLabel |-> WhileEnd(id)]

compileWhile(s, condition, body) ==
    LET id == s.body.line
    IN <<LabelItem(WhileStart(id))>> \o condition
         \o <<Item1("jez", ToLabel(WhileEnd(id)), s.line)>> \o body
         \o <<Item1("jmp", ToLabel(WhileStart(id)), s.line), LabelItem(WhileEnd(id))>>

compileStmContinue(c, scope, s) ==
    <<Item1("jmp", ToLabel(loopContext(c, lookupLoopScope(c.table, scope)).continueLabel), s.line)>>

compileStmBreak(c, scope, s) ==
    <<Item1("jmp", ToLabel(loopContext(c, lookupLoopScope(c.table, scope)).breakLabel), s.line)>>

\* compileStmFor.  While it runs the stack holds, from the bottom: whether
\* the step is positive, if there is one; step; end; pointer to the variable;
\* current value.
forStep(s, step, type, line) ==
    LET valid == generateLabel("for_step_valid", s.line)
    IN IF s.step = NoExpr THEN <<Push(type, 1, s.line)>>
       ELSE step \o << Dup(0, line), Item1("jnz", ToLabel(valid), line),
                       Item1("throw", ErrorRef("ZERO_RANGE_STEP"), line), LabelItem(valid),
                       Dup(0, line), Push(type, 0, line), Item0("cge", line), Item0("swap", s.line) >>

\* Fault: the sign of the step is taken from one place further up.
forCondition_WrongDepth(s) ==
    LET negative == generateLabel("for_negative_step_condition", s.line)
        join     == generateLabel("for_condition_join", s.line)
        end(op)  == <<Item0(op, s.line), Item1("jnz", ToLabel(ForEnd(s.line)), s.line)>>
    IN <<Dup(2, s.line), Dup(1, s.line)>>
         \o IF s.step = NoExpr THEN end("cle")
            ELSE <<Dup(5, s.line), Item1("jez", ToLabel(negative), s.line)>> \o end("cle")
                   \o <<Item1("jmp", ToLabel(join), s.line), LabelItem(negative)>> \o end("cge")
                   \o <<LabelItem(join)>>

forCondition(s) ==
    LET negative == generateLabel("for_negative_step_condition", s.line)
        join     == generateLabel("for_condition_join", s.line)
        end(op)  == <<Item0(op, s.line), Item1("jnz", ToLabel(ForEnd(s.line)), s.line)>>
    IN <<Dup(2, s.line), Dup(1, s.line)>>
         \o IF s.step = NoExpr THEN end("cle")
            ELSE <<Dup(6, s.line), Item1("jez", ToLabel(negative), s.line)>> \o end("cle")
                   \o <<Item1("jmp", ToLabel(join), s.line), LabelItem(negative)>> \o end("cge")
                   \o <<LabelItem(join)>>

forAdvance(s, start) ==
    << LabelItem(ForContinue(s.line)), Dup(3, s.line), Item0("add", s.line),
       Item1("jmp", ToLabel(start), s.line), LabelItem(ForEnd(s.line)) >>

\* Fault: whether the step is positive stays on the stack.
forCleanUp_LeavesSign(s) == [i \in 1 .. 4 |-> Item0("pop", s.line)]

forCleanUp(s) == [i \in 1 .. (IF s.step = NoExpr THEN 4 ELSE 5) |-> Item0("pop", s.line)]

compileFor(c, scope, s, body) ==
    LET start == generateLabel("for_start", s.line)
        type  == TypeAt(c, s.variable)
        To(e, line) == compileExpr(c, scope, e, "VALUE")
                         \o compileTypeConversionIfRequired(TypeAt(c, e), type, line)
        in    == IF s.variable.kind = "var" THEN s.body.line ELSE scope
    IN forStep(s, IF s.step = NoExpr THEN <<>> ELSE To(s.step, s.step.line),
               toAssemblyType(type), s.step.line)
         \o To(s.end, s.start.line)
         \o <<PointerTo(c, Variable(c, in, s.variable.name), s.variable.line)>>
         \o To(s.start, s.start.line)
         \o <<LabelItem(start)>> \o forCondition(s)
         \o <<Dup(1, s.line), Dup(1, s.line), Item0("store", s.line)>>
         \o body \o forAdvance(s, start) \o forCleanUp(s)

compileStmReturn(c, scope, s, f) ==
    (IF s.expr = NoExpr THEN <<>>
     ELSE compileExpr(c, scope, s.expr, "VALUE")
            \o compileTypeConversionIfRequired(TypeAt(c, s.expr), f.returns, s.expr.line))
      \o <<Item0("ret", s.line)>>

registerScopeFunction(line, endLine) == <<Item1("call", ToLabel(ScopeFunction(line)), endLine)>>

\* `inScopeFunctions' is isCompilingScopeFunctions, f the function around.
RECURSIVE compileStm(_, _, _, _, _)
compileStm(c, scope, s, inScopeFunctions, f) ==
    LET stms(id, statements) ==
            FlattenSeq([i \in DOMAIN statements |->
                            compileStm(c, id, statements[i], inScopeFunctions, f)])
        block(b) == IF c.table.scopes[b.line].parent = GlobalScope
                    THEN registerScopeFunction(b.line, b.end)
                    ELSE stms(b.line, b.statements)
    IN CASE s.kind = "none"       -> <<>>
         [] s.kind = "var"        -> compileStmVarDecl(c, scope, s)
         [] s.kind = "assignment" -> compileStmAssignment(c, scope, s)
         [] s.kind = "block"      -> block(s)
         [] s.kind = "if"         ->
                compileIf(s, compileExpr(c, scope, s.condition, "VALUE"), block(s.ifBlock),
                          compileStm(c, scope, s.elseStm, inScopeFunctions, f))
         [] s.kind = "while"      ->
                compileWhile(s, compileExpr(c, scope, s.condition, "VALUE"), block(s.body))
         [] s.kind = "for"        ->
                IF inScopeFunctions THEN compileFor(c, scope, s, block(s.body))
                ELSE registerScopeFunction(s.line, s.body.end)
         [] s.kind = "continue"   -> compileStmContinue(c, scope, s)
         [] s.kind = "break"      -> compileStmBreak(c, scope, s)
         [] s.kind = "return"     -> compileStmReturn(c, scope, s, f)
         [] s.kind = "expr"       -> compileExpr(c, scope, s.expr, "DISCARD")

-----------------------------------------------------------------------------
(* Functions and the program. *)
MethodItem(label, arguments, locals, type, line) ==
    [kind |-> "method", name |-> label, arguments |-> arguments, locals |-> locals,
     type |-> type, line |-> line]

MethodDefEnd == [kind |-> "METHOD_DEF_END"]

compileFunctionDeclaration(method, body, includeDefaultReturn, endLine) ==
    <<method>> \o body \o (IF includeDefaultReturn THEN <<Item0("ret", endLine)>> ELSE <<>>)
      \o <<MethodDefEnd>>

compileBody(c, b, inScopeFunctions, f) ==
    FlattenSeq([i \in DOMAIN b.statements |->
                    compileStm(c, b.line, b.statements[i], inScopeFunctions, f)])

compileUserDefinedFunction(c, f) ==
    LET symbol == SymbolOf(f)
        method == MethodItem(LabelOf(symbol), Len(f.parameters),
                            calculateNumberOfLocalSlots(c.table, f.body.line), "USER", f.line)
    IN compileFunctionDeclaration(method, compileBody(c, f.body, FALSE, symbol),
                                  f.returns = "void", f.body.end)

\* A block, or a loop, which is compiled in the scope of its own body.
compileScopeFunction(c, node) ==
    LET b == IF node.kind = "for" THEN node.body ELSE node
        method == MethodItem(ScopeFunction(node.line), 0,
                            calculateNumberOfLocalSlots(c.table, b.line), "SCOPE", node.line)
        code == IF node.kind = "for" THEN compileStm(c, b.line, node, TRUE, NoFunction)
                ELSE compileBody(c, b, TRUE, NoFunction)
    IN compileFunctionDeclaration(method, code, TRUE, b.end)

IsScopeCall(item) ==
    item.kind = "instruction" /\ item.op = "call" /\ item.first.of.kind = "scope"

pendingScopeFunctions(c, code) ==
    LET calls == SelectSeq(code, IsScopeCall)
    IN [i \in DOMAIN calls |-> c.nodes[calls[i].first.of.n]]

\* The loop over the list goes on through what is added to it.
RECURSIVE compilePendingScopeFunctions(_, _)
compilePendingScopeFunctions(c, pending) ==
    IF pending = <<>> THEN <<>>
    ELSE LET code == compileScopeFunction(c, Head(pending))
         IN code \o compilePendingScopeFunctions(c, Tail(pending) \o pendingScopeFunctions(c, code))

compileGlobalVariables(c) ==
    LET symbols == c.table.scopes[GlobalScope].symbols
    IN <<[kind |-> "directive", section |-> "DATA"]>>
         \o [i \in DOMAIN symbols |->
                [kind |-> "data", name |-> DataLabel(symbols[i].name),
                 type |-> toAssemblyType(symbols[i].type), value |-> Immediate(0)]]

\* What is given to the emitter: items, and the builtins they call.
compileProgram(program, c) ==
    LET global == FlattenSeq([i \in DOMAIN program.statements |->
                                compileStm(c, GlobalScope, program.statements[i], FALSE, NoFunction)])
        scopes == compilePendingScopeFunctions(c, pendingScopeFunctions(c, global))
        users  == FlattenSeq([i \in DOMAIN program.functions |->
                                compileUserDefinedFunction(c, program.functions[i])])
        code   == global \o <<Item0("halt", NoLine)>> \o scopes \o users
        called == {f \in ToSet(BuiltinFunctions) :
                        \E i \in DOMAIN code : /\ code[i].kind = "instruction"
                                               /\ code[i].op = "call"
                                               /\ code[i].first.of = LabelOf(f)}
        functions == called \cup UNION {requiredFunctionsOf(f) : f \in called}
    IN [items |-> code \o compileGlobalVariables(c), functions |-> functions,
        data |-> UNION {requiredDataOf(f) : f \in functions}]
=============================================================================
