-------------------------- MODULE SemanticAnalyser --------------------------
(***************************************************************************)
(* The semantic analyser (src/src/compiler/semantic/SemanticAnalyser.cpp): *)
(* one walk over the program fills the symbol table and notes, at every    *)
(* expression, its type and, at a call, the function.  What is noted at an *)
(* assignment or a loop variable is the symbol that the name means there.  *)
(* An error makes the type "error" or the analysis not `ok'; the code      *)
(* throws.  Arrays are left out.                                           *)
(***************************************************************************)
EXTENDS SymbolTable, TLC

NoFunction == FunctionSymbol("", <<>>, "error", FALSE)

-----------------------------------------------------------------------------
(* Types. *)
canImplicitlyConvert(from, to) ==
    \/ from = to
    \/ from = "int" /\ to = "float"
    \/ from = "char" /\ to \in {"int", "float"}

canCastToType(from, to) ==
    (isNumeric(from) /\ isNumeric(to)) \/ (from = "bool" /\ to = "bool")

Widest(left, right) == IF "float" \in {left, right} THEN "float" ELSE "int"

OnNumbers(left, right, type) ==
    IF isNumeric(left) /\ isNumeric(right) THEN type ELSE "error"

processBinaryOperator(op, left, right) ==
    CASE "error" \in {left, right}  -> "error"
      [] op \in ArithmeticOperator  -> OnNumbers(left, right, Widest(left, right))
      [] op = "DIVIDE"              -> OnNumbers(left, right, "float")
      [] op = "INTEGER_DIVIDE"      -> OnNumbers(left, right, "int")
      [] op \in ComparisonOperator  -> OnNumbers(left, right, "bool")
      [] op \in BitwiseOperator     ->
            IF {left, right} \subseteq {"int", "char"} THEN "int" ELSE "error"
      [] op \in LogicalOperator     -> IF {left, right} = {"bool"} THEN "bool" ELSE "error"
      [] op \in EqualityOperator    ->
            IF left = right THEN "bool" ELSE OnNumbers(left, right, "bool")

\* Fault: the type of the right operand is not looked at for float.
processTernaryOperator_LeftFloat(left, right) ==
    CASE left = "bool" /\ right = "bool" -> "bool"
      [] isNumeric(left) /\ isNumeric(right) ->
            IF left = "float" THEN "float"
            ELSE IF "char" \in {left, right} THEN "char" ELSE "int"
      [] OTHER -> "error"

processTernaryOperator(left, right) ==
    CASE left = "bool" /\ right = "bool" -> "bool"
      [] isNumeric(left) /\ isNumeric(right) ->
            IF "float" \in {left, right} THEN "float"
            ELSE IF "char" \in {left, right} THEN "char" ELSE "int"
      [] OTHER -> "error"

processUnaryOperator(op, type) ==
    CASE op \in {"PLUS", "MINUS"} ->
            IF type = "char" THEN "int" ELSE IF isNumeric(type) THEN type ELSE "error"
      [] op = "LOGICAL_NOT"       -> IF type = "bool" THEN "bool" ELSE "error"
      [] op = "BITWISE_NOT"       -> IF type \in {"int", "char"} THEN "int" ELSE "error"
      [] op \in {"INCREMENT", "DECREMENT"} -> IF isNumeric(type) THEN type ELSE "error"

-----------------------------------------------------------------------------
(***************************************************************************)
(* Calls: the function with exactly these types, or else the only one they *)
(* convert to.                                                             *)
(***************************************************************************)
Fits(f, types) ==
    /\ Len(f.parameters) = Len(types)
    /\ \A i \in DOMAIN types : canImplicitlyConvert(types[i], f.parameters[i])

resolveFunctionCall(symbols, types) ==
    LET exact  == {f \in symbols : f.parameters = types}
        fitting == {f \in symbols : Fits(f, types)}
    IN IF exact # {} THEN CHOOSE f \in exact : TRUE
       ELSE IF Cardinality(fitting) = 1 THEN CHOOSE f \in fitting : TRUE
       ELSE NoFunction

-----------------------------------------------------------------------------
(***************************************************************************)
(* Expressions: type, assignability, and the notes on it and its parts.    *)
(***************************************************************************)
Noted(e, type, assignable, callee, parts) ==
    LET failed == \E i \in DOMAIN parts : parts[i].type = "error"
        note   == [type |-> IF failed THEN "error" ELSE type, callee |-> callee]
    IN [type |-> note.type, assignable |-> assignable,
        notes |-> FoldLeft(LAMBDA notes, part : notes @@ part.notes, e.line :> note, parts)]

Of(e, type, assignable, parts) == Noted(e, type, assignable, NoFunction, parts)

processExprIdentifier(table, scope, e) ==
    LET symbol == lookup(table, scope, e.name)
    IN Of(e, IF symbol.isInitialised THEN symbol.type ELSE "error", TRUE, <<>>)

\* A sign or a negation leaves an operand assignable that needs no conversion.
processExprUnary(e, operand) ==
    LET type     == processUnaryOperator(e.op, operand.type)
        changing == e.op \in {"INCREMENT", "DECREMENT"}
    IN Of(e, IF changing /\ ~ operand.assignable THEN "error" ELSE type,
          operand.assignable /\ type = operand.type /\ e.op # "BITWISE_NOT", <<operand>>)

processExprFunctionCall(table, e, arguments) ==
    LET f == resolveFunctionCall(getFunctionSymbols(table, e.name),
                                 [i \in DOMAIN arguments |-> arguments[i].type])
    IN Noted(e, f.returns, FALSE, f, arguments)

RECURSIVE processExpr(_, _, _)
processExpr(table, scope, e) ==
    LET process(part) == processExpr(table, scope, part)
    IN CASE e.kind = "literal"    -> Of(e, e.type, FALSE, <<>>)
         [] e.kind = "identifier" -> processExprIdentifier(table, scope, e)
         [] e.kind = "unary"      -> processExprUnary(e, process(e.expr))
         [] e.kind = "postfix"    ->
                LET operand == process(e.expr)
                IN Of(e, IF operand.assignable /\ isNumeric(operand.type) THEN operand.type
                         ELSE "error", FALSE, <<operand>>)
         [] e.kind = "binary"     ->
                LET left == process(e.left)  right == process(e.right)
                IN Of(e, processBinaryOperator(e.op, left.type, right.type), FALSE, <<left, right>>)
         [] e.kind = "ternary"    ->
                LET condition == process(e.condition)
                    left == process(e.trueExpr)  right == process(e.falseExpr)
                IN Of(e, IF condition.type = "bool" THEN processTernaryOperator(left.type, right.type)
                         ELSE "error", FALSE, <<condition, left, right>>)
         [] e.kind = "cast"       ->
                LET operand == process(e.expr)
                IN Of(e, IF canCastToType(operand.type, e.type) THEN e.type ELSE "error",
                      FALSE, <<operand>>)
         [] e.kind = "call"       ->
                processExprFunctionCall(table, e, [i \in DOMAIN e.arguments |-> process(e.arguments[i])])

-----------------------------------------------------------------------------
(***************************************************************************)
(* Statements.  The analysis so far: the table, the notes on expressions,  *)
(* the symbols noted, the nodes that opened scopes, whether there was no   *)
(* error, and whether the statements walked last always return.            *)
(***************************************************************************)
NewAnalysis ==
    [table |-> NewTable, notes |-> <<>>, symbols |-> <<>>, nodes |-> <<>>,
     ok |-> TRUE, returns |-> FALSE]

Check(a, condition) == [a EXCEPT !.ok = @ /\ condition]

\* Expression e is walked and must have one of the types.
Walk(a, scope, e, types) ==
    LET walked == processExpr(a.table, scope, e)
    IN [Check(a, walked.type \in types) EXCEPT !.notes = @ @@ walked.notes]

Convertible(type) == {t \in Types : canImplicitlyConvert(t, type)}

Means(a, line, symbol) == [a EXCEPT !.symbols = @ @@ (line :> symbol)]
Opens(a, node, id, parent, kind) ==
    [a EXCEPT !.table = enterScope(@, id, parent, kind), !.nodes = @ @@ (id :> node)]
DoesReturn(a, returns) == [a EXCEPT !.returns = returns]

processStmVarDecl(a, scope, s, markAsInitialised) ==
    LET fresh    == Check(a, ~ declaredIn(a.table, scope, s.name))
        declared == [fresh EXCEPT !.table = declareSymbol(@, scope, s.name, s.type, 0, markAsInitialised)]
        walked   == Walk(declared, scope, s.initialiser, Convertible(s.type))
    IN IF s.initialiser = NoExpr THEN declared
       ELSE [walked EXCEPT !.table = initialise(@, SymbolIn(@, scope, s.name))]

processStmAssignment(a, scope, s) ==
    LET symbol    == lookup(a.table, scope, s.name)
        Result(t) == IF s.op = "EQUAL" THEN t ELSE processBinaryOperator(s.op, symbol.type, t)
        walked    == Walk(a, scope, s.expr, {t \in Types : canImplicitlyConvert(Result(t), symbol.type)})
        checked   == Check(walked, symbol # NoSymbol /\ (s.op # "EQUAL" => symbol.isInitialised))
    IN [Means(checked, s.line, symbol) EXCEPT
            !.table = initialise(@, symbol),
            !.notes = @ @@ (s.line :> [type |-> Result(@[s.expr.line].type), callee |-> NoFunction])]

RECURSIVE processStm(_, _, _, _)

processStatements(a, scope, statements, f) ==
    FoldLeft(LAMBDA b, s : LET c == processStm(b, scope, s, f)
                           IN DoesReturn(c, b.returns \/ c.returns),
             DoesReturn(a, FALSE), statements)

processStmBlock(a, parent, kind, block, f) ==
    processStatements(Opens(a, block, block.line, parent, kind), block.line, block.statements, f)

\* Fault: one branch that returns is enough.
processStmIf_OneBranch(a, scope, s, f) ==
    LET condition == Walk(a, scope, s.condition, {"bool"})
        ifBlock   == processStmBlock(condition, scope, "BLOCK", s.ifBlock, f)
        elseStm   == processStm(ifBlock, scope, s.elseStm, f)
    IN IF s.elseStm = NoStm THEN ifBlock
       ELSE DoesReturn(elseStm, ifBlock.returns \/ elseStm.returns)

processStmIf(a, scope, s, f) ==
    LET condition == Walk(a, scope, s.condition, {"bool"})
        ifBlock   == processStmBlock(condition, scope, "BLOCK", s.ifBlock, f)
        elseStm   == processStm(ifBlock, scope, s.elseStm, f)
    IN IF s.elseStm = NoStm THEN DoesReturn(ifBlock, FALSE)
       ELSE DoesReturn(elseStm, ifBlock.returns /\ elseStm.returns)

processStmWhile(a, scope, s, f) ==
    LET condition == Walk(a, scope, s.condition, {"bool"})
    IN DoesReturn(processStmBlock(condition, scope, "LOOP", s.body, f), FALSE)

\* The loop's variable: a declaration in the scope of the body, or a variable
\* of the scope around.
processForVariable(a, scope, s) ==
    LET v == s.variable
        symbol   == lookup(a.table, scope, v.name)
        declared == processStmVarDecl(a, s.body.line, v, TRUE)
        assigned == [Check(a, symbol # NoSymbol) EXCEPT !.table = initialise(@, symbol)]
        after    == IF v.kind = "var" THEN declared ELSE assigned
        type     == IF v.kind = "var" THEN v.type ELSE symbol.type
    IN [Check(after, isNumeric(type)) EXCEPT
            !.notes = @ @@ (v.line :> [type |-> type, callee |-> NoFunction])]

\* The scope of the loop has no symbols; the body's is inside it, with the
\* variable.  The range is walked in the scope around.
processStmFor(a, scope, s, f) ==
    LET loop   == Opens(a, s, s.line, scope, "LOOP")
        body   == Opens(loop, s.body, s.body.line, s.line, "BLOCK")
        range  == Walk(Walk(body, scope, s.start, Types), scope, s.end, Types)
        step   == IF s.step = NoExpr THEN range ELSE Walk(range, scope, s.step, Types)
        var    == processForVariable(step, scope, s)
        Fitting(e) == e = NoExpr \/ canImplicitlyConvert(var.notes[e.line].type,
                                                        var.notes[s.variable.line].type)
        checked == Check(var, Fitting(s.start) /\ Fitting(s.end) /\ Fitting(s.step))
    IN DoesReturn(processStatements(checked, s.body.line, s.body.statements, f), FALSE)

processStmReturn(a, scope, s, f) ==
    LET walked == Walk(a, scope, s.expr, Convertible(f.returns) \ {"void"})
    IN DoesReturn(Check(IF s.expr = NoExpr THEN Check(a, f.returns = "void") ELSE walked,
                        f # NoFunction), TRUE)

\* A call of a void function, or an expression that changes a variable.
processStmExpr(a, scope, s) ==
    LET changing == s.expr.kind = "postfix"
                      \/ (s.expr.kind = "unary" /\ s.expr.op \in {"INCREMENT", "DECREMENT"})
    IN IF s.expr.kind = "call" THEN Walk(a, scope, s.expr, {"void"})
       ELSE Check(Walk(a, scope, s.expr, Types), changing)

processStm(a, scope, s, f) ==
    LET one == DoesReturn(a, FALSE)
    IN CASE s.kind = "var"        -> processStmVarDecl(one, scope, s, FALSE)
         [] s.kind = "assignment" -> processStmAssignment(one, scope, s)
         [] s.kind = "block"      -> processStmBlock(one, scope, "BLOCK", s, f)
         [] s.kind = "if"         -> processStmIf(one, scope, s, f)
         [] s.kind = "while"      -> processStmWhile(one, scope, s, f)
         [] s.kind = "for"        -> processStmFor(one, scope, s, f)
         [] s.kind \in {"continue", "break"} ->
                Check(one, lookupLoopScope(a.table, scope) # NoLoop)
         [] s.kind = "return"     -> processStmReturn(one, scope, s, f)
         [] s.kind = "expr"       -> processStmExpr(one, scope, s)

-----------------------------------------------------------------------------
(* The program: declarations, statements, bodies. *)
SymbolOf(f) == FunctionSymbol(f.name, getParameterTypes(f), f.returns, FALSE)

processFunctionDecl(a, f) ==
    [Check(a, CanDeclare(a.table, SymbolOf(f))) EXCEPT !.table = declareFunction(@, SymbolOf(f))]

processFunctionBody(a, f) ==
    LET opened   == Opens(a, f.body, f.body.line, GlobalScope, "FUNCTION")
        declared == [opened EXCEPT !.table =
                        FoldLeftDomain(LAMBDA t, i : declareSymbol(t, f.body.line,
                                            f.parameters[i].name, f.parameters[i].type, i, TRUE),
                                       @, f.parameters)]
        walked   == processStatements(declared, f.body.line, f.body.statements, SymbolOf(f))
    IN Check(walked, f.returns # "void" => walked.returns)

processProgram(program) ==
    LET declared == FoldLeft(processFunctionDecl, NewAnalysis, program.functions)
        global   == FoldLeft(LAMBDA a, s : processStm(a, GlobalScope, s, NoFunction),
                             declared, program.statements)
    IN FoldLeft(processFunctionBody, global, program.functions)
=============================================================================
