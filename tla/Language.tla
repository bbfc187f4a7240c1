------------------------------ MODULE Language ------------------------------
(***************************************************************************)
(* What a program means (docs/Language/Semantics.md 5 and 7 to 10): the    *)
(* promise that the compiled program is compared with.  It is an evaluator *)
(* on the syntax tree, with scopes as they are open while it runs, the     *)
(* types that the document gives (3.7 and 6), and no slots or jumps.       *)
(*                                                                         *)
(* A value is its type and the line of the node that computed it.  What a  *)
(* test decides is not known from that: it is a parameter.  Evaluation     *)
(* goes from one event to the next: an access to a variable, an operation, *)
(* a test, a call, a return, an error or the end.                          *)
(***************************************************************************)
EXTENDS SourceProgram, SequencesExt, TLC

CONSTANT Unset          \* of a variable without a value

-----------------------------------------------------------------------------
(***************************************************************************)
(* Values.  One is not exact when the compiler is known to give its type   *)
(* otherwise: the sign of a char (SemanticAnalyser.cpp:661) and `?:' of an *)
(* int and a char (:1066), and what is computed from them.                 *)
(***************************************************************************)
Meant(line, type) == [line |-> line, type |-> type, exact |-> TRUE]

\* 6.3, 6.4, 6.6, 6.7: the type both operands are taken in, and the result's.
\* Two bools are compared as ints.
CommonType(s, t)   == IF "float" \in {s, t} THEN "float" ELSE "int"
TakenIn(op, s, t)  == IF op = "DIVIDE" THEN "float" ELSE CommonType(s, t)
ResultOf(op, type) ==
    IF op \in EqualityOperator \cup ComparisonOperator \cup LogicalOperator THEN "bool"
    ELSE IF op = "INTEGER_DIVIDE" THEN "int" ELSE type

\* 6.8 and 6.10.
UnaryType(op, t)  == IF op \in {"PLUS", "MINUS", "BITWISE_NOT"} /\ t = "char" THEN "int" ELSE t
TernaryType(s, t) == IF s = t THEN s ELSE CommonType(s, t)

-----------------------------------------------------------------------------
(* What is left to do. *)
Evaluate(e)           == [do |-> "evaluate", e |-> e]
Execute(s)            == [do |-> "execute", s |-> s]
PushValue(v)          == [do |-> "push", v |-> v]
Copy                  == [do |-> "copy"]
Drop                  == [do |-> "drop"]
Enter                 == [do |-> "enter"]
Leave                 == [do |-> "leave"]
Typed(type, exact)    == [do |-> "typed", type |-> type, exact |-> exact]
Declare(name, type)   == [do |-> "declare", name |-> name, type |-> type]
Repeat(s)             == [do |-> "repeat", s |-> s]         \* of while
BeginRange(s)         == [do |-> "begin", s |-> s]          \* of for
Advance(s, range)     == [do |-> "advance", s |-> s, range |-> range]
Iterate(s, range)     == [do |-> "iterate", s |-> s, range |-> range]
EndLoop               == [do |-> "end loop"]
EndCall               == [do |-> "end call"]

Read(line, name)      == [do |-> "read", line |-> line, name |-> name]
Assign(line, name)    == [do |-> "assign", line |-> line, name |-> name]
Apply(op, line, n)    == [do |-> "apply", op |-> op, line |-> line, n |-> n, type |-> "any"]
ApplyIn(type, op, line) == [Apply(op, line, 2) EXCEPT !.type = type]
Test(line, yes, no)   == [do |-> "test", line |-> line, yes |-> yes, no |-> no]
Call(line, f, n)      == [do |-> "call", line |-> line, f |-> f, n |-> n]
Return(line, n)       == [do |-> "return", line |-> line, n |-> n]
Throw(line)           == [do |-> "throw", line |-> line]
End                   == [do |-> "end"]
NoResult              == [do |-> "no result"]

IsEvent(task) ==
    task.do \in {"read", "assign", "apply", "test", "call", "return", "throw", "end", "no result"}

Each(Task(_), parts) == [i \in DOMAIN parts |-> Task(parts[i])]

-----------------------------------------------------------------------------
(***************************************************************************)
(* Variables: their declared types and the lines of their values, by name, *)
(* in the globals and in the open scopes, innermost first.                 *)
(***************************************************************************)
Unassigned(type) == [type |-> type, value |-> Unset]

\* The nearest enclosing declaration, or 0 for that of the globals.
ScopeOf(l, name) ==
    LET declaring == {i \in DOMAIN l.scopes : name \in DOMAIN l.scopes[i]}
    IN IF declaring = {} THEN 0 ELSE CHOOSE i \in declaring : \A j \in declaring : i <= j

VariableOf(l, name) ==
    LET i == ScopeOf(l, name)
    IN IF i = 0 THEN l.globals[name] ELSE l.scopes[i][name]

Declared(l, name, type) ==
    IF l.scopes = <<>> THEN [l EXCEPT !.globals[name] = Unassigned(type)]
    ELSE [l EXCEPT !.scopes[1] = (name :> Unassigned(type)) @@ @]

WithValue(l, name, line) ==
    LET i == ScopeOf(l, name)
    IN IF i = 0 THEN [l EXCEPT !.globals[name].value = line]
       ELSE [l EXCEPT !.scopes[i][name].value = line]

RECURSIVE TypeOf(_, _, _)
TypeOf(l, e, notes) ==
    LET type(part) == TypeOf(l, part, notes)
    IN CASE e.kind = "literal"    -> e.type
         [] e.kind = "identifier" -> VariableOf(l, e.name).type
         [] e.kind = "binary"     -> ResultOf(e.op, TakenIn(e.op, type(e.left), type(e.right)))
         [] e.kind = "unary"      -> UnaryType(e.op, type(e.expr))
         [] e.kind = "postfix"    -> type(e.expr)
         [] e.kind = "ternary"    -> TernaryType(type(e.trueExpr), type(e.falseExpr))
         [] e.kind = "cast"       -> e.type
         [] e.kind = "call"       -> notes[e.line].callee.returns

-----------------------------------------------------------------------------
(* Expressions.  The left operand of Operation is evaluated already. *)
Truth(line) == <<PushValue(Meant(line, "bool"))>>

Operation(op, line, right) ==
    CASE op = "LOGICAL_OR"  ->
            <<Test(line, Truth(line), <<Evaluate(right), Test(line, Truth(line), Truth(line))>>)>>
      [] op = "LOGICAL_AND" ->
            <<Test(line, <<Evaluate(right), Test(line, Truth(line), Truth(line))>>, Truth(line))>>
      [] OTHER              -> <<Evaluate(right), Apply(op, line, 2)>>

ByOne(op) == IF op = "INCREMENT" THEN "ADD" ELSE "SUBTRACT"

\* In the type of the variable, a char's too.
Changed(e, type) == <<PushValue(Meant(e.line, type)), ApplyIn(type, ByOne(e.op), e.line)>>

UnaryTasks(e, type) ==
    LET sign == Typed(UnaryType(e.op, type), type # "char")
    IN CASE e.op = "PLUS"        -> <<Evaluate(e.expr), sign>>
         [] e.op = "MINUS"       ->
                <<PushValue(Meant(e.line, type)), sign, Evaluate(e.expr), Apply("SUBTRACT", e.line, 2)>>
         [] e.op = "BITWISE_NOT" -> <<Evaluate(e.expr), Apply("BITWISE_NOT", e.line, 1)>>
         [] e.op = "LOGICAL_NOT" -> <<Evaluate(e.expr), Test(e.line, Truth(e.line), Truth(e.line))>>
         [] OTHER -> <<Read(e.line, e.expr.name)>> \o Changed(e, type)
                        \o <<Copy, Assign(e.line, e.expr.name)>>

TernaryTasks(e, left, right) ==
    LET joined == Typed(TernaryType(left, right), {left, right} # {"int", "char"})
    IN <<Evaluate(e.condition),
         Test(e.line, <<Evaluate(e.trueExpr), joined>>, <<Evaluate(e.falseExpr), joined>>)>>

\* `notes' have the function that each call means.  Nothing is known of the
\* line of a char literal.
Evaluation(l, e, notes) ==
    LET type(part) == TypeOf(l, part, notes)
    IN CASE e.kind = "literal"    ->
                <<PushValue(Meant(IF e.type = "char" THEN 0 ELSE e.line, e.type))>>
         [] e.kind = "identifier" -> <<Read(e.line, e.name)>>
         [] e.kind = "binary"     -> <<Evaluate(e.left)>> \o Operation(e.op, e.line, e.right)
         [] e.kind = "unary"      -> UnaryTasks(e, type(e.expr))
         [] e.kind = "postfix"    ->
                <<Read(e.line, e.expr.name), Copy>> \o Changed(e, type(e.expr))
                  \o <<Assign(e.line, e.expr.name)>>
         [] e.kind = "ternary"    -> TernaryTasks(e, type(e.trueExpr), type(e.falseExpr))
         [] e.kind = "cast"       -> <<Evaluate(e.expr), Typed(e.type, TRUE)>>
         [] e.kind = "call"       ->
                Each(Evaluate, e.arguments) \o <<Call(e.line, notes[e.line].callee, Len(e.arguments))>>

-----------------------------------------------------------------------------
(* Statements. *)
InScope(tasks) == <<Enter>> \o tasks \o <<Leave>>

DeclareIt(s) == Declare(s.name, s.type)

\* Step, end and start are evaluated once, outside of the loop's scope, in the
\* type of its variable.
ForTasks(l, s) ==
    LET new   == s.variable.kind = "var"
        type  == IF new THEN s.variable.type ELSE VariableOf(l, s.variable.name).type
        In(e) == <<Evaluate(e), Typed(type, TRUE)>>
    IN (IF s.step = NoExpr THEN <<PushValue(Meant(s.line, type)), PushValue(Meant(s.line, "bool"))>>
        ELSE In(s.step)
               \o << Copy, Test(s.step.line, <<>>, <<Throw(s.step.line)>>), Copy,
                     PushValue(Meant(s.step.line, type)),
                     ApplyIn(type, "GREATER_THAN_OR_EQUAL", s.step.line) >>)
         \o In(s.end) \o In(s.start)
         \o InScope((IF new THEN <<DeclareIt(s.variable)>> ELSE <<>>) \o <<BeginRange(s), EndLoop>>)

\* Whether `end' is reached, then the body with the current value.
IterateTasks(s, range) ==
    LET body == <<PushValue(range.current), Assign(s.line, s.variable.name)>>
                  \o Each(Execute, s.body.statements) \o <<Advance(s, range)>>
        Until(op) == << PushValue(range.end), PushValue(range.current),
                        ApplyIn(range.end.type, op, s.line), Test(s.line, <<>>, body) >>
    IN IF s.step = NoExpr THEN Until("LESS_THAN_OR_EQUAL")
       ELSE <<PushValue(range.rising),
              Test(s.line, Until("LESS_THAN_OR_EQUAL"), Until("GREATER_THAN_OR_EQUAL"))>>

AdvanceTasks(s, range) ==
    << PushValue(range.current), PushValue(range.step), ApplyIn(range.step.type, "ADD", s.line),
       Iterate(s, range) >>

\* `break' and `continue' are tasks: they drop others.
Execution(l, s) ==
    CASE s.kind = "none"       -> <<>>
      [] s.kind = "var"        ->
            <<DeclareIt(s)>> \o (IF s.initialiser = NoExpr THEN <<>>
                                    ELSE <<Evaluate(s.initialiser), Assign(s.line, s.name)>>)
      [] s.kind = "assignment" ->
            (IF s.op = "EQUAL" THEN <<Evaluate(s.expr)>>
             ELSE <<Read(s.line, s.name)>> \o Operation(s.op, s.line, s.expr))
              \o <<Assign(s.line, s.name)>>
      [] s.kind = "block"      -> InScope(Each(Execute, s.statements))
      [] s.kind = "if"         ->
            <<Evaluate(s.condition), Test(s.line, <<Execute(s.ifBlock)>>, <<Execute(s.elseStm)>>)>>
      [] s.kind = "while"      -> <<Repeat(s), EndLoop>>
      [] s.kind = "for"        -> ForTasks(l, s)
      [] s.kind = "return"     ->
            IF s.expr = NoExpr THEN <<Return(s.line, 0)>>
            ELSE <<Evaluate(s.expr), Return(s.line, 1)>>
      [] s.kind = "expr"       ->
            IF s.expr.kind = "call" THEN <<Evaluate(s.expr)>> ELSE <<Evaluate(s.expr), Drop>>

RepeatTasks(s) ==
    <<Evaluate(s.condition), Test(s.line, <<Execute(s.body), Repeat(s)>>, <<>>)>>

-----------------------------------------------------------------------------
(***************************************************************************)
(* The state: tasks, operands (top first), the open scopes of the active   *)
(* call, the globals, and of each active call its result's type and the    *)
(* scopes of its caller.  Global variables are there from the beginning:   *)
(* functions may be called before they are declared.                       *)
(***************************************************************************)
Begun(program) ==
    LET declarations == {s \in ToSet(program.statements) : s.kind = "var"}
    IN [tasks |-> Each(Execute, program.statements) \o <<End>>, operands |-> <<>>, scopes |-> <<>>,
        globals |-> [name \in {s.name : s \in declarations} |->
                        Unassigned((CHOOSE s \in declarations : s.name = name).type)],
        callers |-> <<>>]

\* Drops tasks, and closes the scopes they would have closed, up to one of
\* `kinds'.
DropTasksTo(l, kinds) ==
    LET last == CHOOSE i \in DOMAIN l.tasks :
                    /\ l.tasks[i].do \in kinds
                    /\ \A j \in 1 .. (i - 1) : l.tasks[j].do \notin kinds
        closed == Len(SelectSeq(SubSeq(l.tasks, 1, last - 1), LAMBDA t : t.do = "leave"))
    IN [l EXCEPT !.tasks = SubSeq(@, last, Len(@)), !.scopes = SubSeq(@, closed + 1, Len(@))]

Top(l) == Head(l.operands)
First(n, s) == SubSeq(s, 1, n)
Behind(n, s) == SubSeq(s, n + 1, Len(s))

Begins(s, values) ==
    [current |-> values[1], end |-> values[2], rising |-> values[3], step |-> values[4]]

\* One task that is no event.
Settled(l, notes) ==
    LET task == Head(l.tasks)
        rest == [l EXCEPT !.tasks = Tail(@)]
        Then(tasks) == [l EXCEPT !.tasks = tasks \o Tail(@)]
    IN CASE task.do = "evaluate" -> Then(Evaluation(l, task.e, notes))
         [] task.do = "execute" /\ task.s.kind = "break"    -> DropTasksTo(rest, {"end loop"})
         [] task.do = "execute" /\ task.s.kind = "continue" -> DropTasksTo(rest, {"repeat", "advance"})
         [] task.do = "execute" /\ task.s.kind \notin {"break", "continue"} -> Then(Execution(l, task.s))
         [] task.do = "push"     -> [rest EXCEPT !.operands = <<task.v>> \o @]
         [] task.do = "copy"     -> [rest EXCEPT !.operands = <<Top(l)>> \o @]
         [] task.do = "drop"     -> [rest EXCEPT !.operands = Tail(@)]
         [] task.do = "enter"    -> [rest EXCEPT !.scopes = <<(<<>>)>> \o @]
         [] task.do = "leave"    -> [rest EXCEPT !.scopes = Tail(@)]
         [] task.do = "declare"  -> Declared(rest, task.name, task.type)
         [] task.do = "typed"    ->
                [rest EXCEPT !.operands[1] = [@ EXCEPT !.type = task.type,
                                                       !.exact = @ /\ task.exact]]
         [] task.do = "repeat"   -> Then(RepeatTasks(task.s))
         [] task.do = "begin"    ->
                LET begun == Begins(task.s, l.operands)
                IN [Then(IterateTasks(task.s, begun)) EXCEPT !.operands = Behind(4, @)]
         [] task.do = "advance"  -> Then(AdvanceTasks(task.s, task.range))
         [] task.do = "iterate"  ->
                LET range == [task.range EXCEPT !.current = Top(l)]
                IN [Then(IterateTasks(task.s, range)) EXCEPT !.operands = Tail(@)]
         [] task.do \in {"end loop", "end call"} -> rest

RECURSIVE UpToEvent(_, _)
UpToEvent(l, notes) ==
    IF IsEvent(Head(l.tasks)) THEN l ELSE UpToEvent(Settled(l, notes), notes)

-----------------------------------------------------------------------------
(* Events. *)
NextEvent(l) == Head(l.tasks)

\* The values it is about, the last operand first.
EventValues(l) ==
    LET event == NextEvent(l)
    IN CASE event.do = "read" ->
                LET variable == VariableOf(l, event.name)
                IN <<Meant(variable.value, variable.type)>>
         [] event.do \in {"assign", "test"}        -> <<Top(l)>>
         [] event.do \in {"apply", "call", "return"} -> First(event.n, l.operands)
         [] OTHER                                  -> <<>>

\* The types that they are converted to.
AppliedIn(event, values) ==
    IF event.type # "any" THEN event.type
    ELSE TakenIn(event.op, values[event.n].type, values[1].type)

EventTypes(l) ==
    LET event  == NextEvent(l)
        values == EventValues(l)
    IN CASE event.do \in {"read", "assign"} -> <<VariableOf(l, event.name).type>>
         [] event.do = "apply"  -> [i \in 1 .. event.n |-> AppliedIn(event, values)]
         [] event.do = "call"   -> Reverse(event.f.parameters)
         [] event.do = "return" -> [i \in 1 .. event.n |-> Head(l.callers).returns]
         [] OTHER               -> [i \in DOMAIN values |-> values[i].type]

\* A function's parameters and the variables of its body share a scope.  The
\* end of one that has a result is never reached: there is no event for it.
CallTasks(f, body) ==
    Each(Execute, body.statements) \o (IF f.returns = "void" THEN <<Return(body.end, 0)>> ELSE <<NoResult>>)
      \o <<EndCall>>

\* The event happens: a test finds `truth', a call finds the declaration
\* `f', or one with a line of -1 for a builtin, which has no effect here.
Happened(l, truth, f) ==
    LET event  == NextEvent(l)
        values == EventValues(l)
        rest   == [l EXCEPT !.tasks = Tail(@)]
        result == ResultOf(event.op, AppliedIn(event, values))
        exact  == result = "bool" \/ \A i \in DOMAIN values : values[i].exact
        Argument(name) ==
            LET i == CHOOSE i \in 1 .. event.n : f.parameters[i].name = name
            IN [type |-> f.parameters[i].type, value |-> values[event.n + 1 - i].line]
    IN CASE event.do = "read"   -> [rest EXCEPT !.operands = values \o @]
         [] event.do = "assign" -> [WithValue(rest, event.name, Top(l).line) EXCEPT !.operands = Tail(@)]
         [] event.do = "apply"  -> [rest EXCEPT !.operands =
                <<[Meant(event.line, result) EXCEPT !.exact = exact]>> \o Behind(event.n, @)]
         [] event.do = "test"   -> [rest EXCEPT !.operands = Tail(@),
                                                !.tasks = (IF truth THEN event.yes ELSE event.no) \o @]
         [] event.do = "call" /\ f.line = -1 -> [rest EXCEPT !.operands = Behind(event.n, @)]
         [] event.do = "call" /\ f.line # -1 ->
                [rest EXCEPT !.tasks = CallTasks(f, f.body) \o @,
                             !.operands = Behind(event.n, @),
                             !.callers = <<[scopes |-> l.scopes, returns |-> f.returns]>> \o @,
                             !.scopes = <<[name \in {p.name : p \in ToSet(f.parameters)} |->
                                            Argument(name)]>>]
         [] event.do = "return" -> [DropTasksTo([rest EXCEPT !.scopes = <<>>], {"end call"}) EXCEPT
                                        !.scopes = Head(l.callers).scopes, !.callers = Tail(@)]
         [] OTHER -> l
=============================================================================
