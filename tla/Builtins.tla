------------------------------ MODULE Builtins ------------------------------
(***************************************************************************)
(* The functions every program can call (src/src/compiler/codegen/         *)
(* Builtins.h, Builtins.cpp), as the analyser sees them and as assembly.   *)
(* A label is a record, so that labels of different origin never meet.     *)
(***************************************************************************)
EXTENDS AssemblyCode

FunctionLabel(kind, name, types) == [kind |-> kind, name |-> name, types |-> types, n |-> 0]

\* FunctionSymbol; a builtin has a label of its own.
FunctionSymbol(name, parameters, returns, builtin) ==
    [name |-> name, parameters |-> parameters, returns |-> returns, builtin |-> builtin]

LabelOf(f) ==
    FunctionLabel(IF f.builtin THEN "__builtin__" ELSE "function", f.name, f.parameters)

DataLabel(name) == FunctionLabel("data", name, <<>>)
TrueString  == DataLabel("$__true__string")
FalseString == DataLabel("$__false__string")

Printer(name, type) == FunctionSymbol(name, <<type>>, "void", TRUE)
PrintTypes == <<"int", "float", "bool", "char">>

BuiltinFunctions ==
    <<Printer("exit", "int")>> \o [i \in 1 .. 4 |-> Printer("print", PrintTypes[i])]
                               \o [i \in 1 .. 4 |-> Printer("println", PrintTypes[i])]

requiredFunctionsOf(f) == IF f.name = "println" THEN {Printer("print", f.parameters[1])} ELSE {}
requiredDataOf(f) ==
    IF f.name = "print" /\ f.parameters = <<"bool">> THEN {TrueString, FalseString} ELSE {}

-----------------------------------------------------------------------------
Inside(f, name) == [kind |-> "code", name |-> name, types |-> f.parameters, n |-> 0]

\* print(bool) chooses a string.
PrintBool(f) ==
    << Op("loadL", OfType("ui32"), Number(1)),
       Op("jez", ToLabel(Inside(f, "false")), None),
       Op("push", OfType("ptr"), ToLabel(TrueString)),
       Op("jmp", ToLabel(Inside(f, "print")), None),
       [kind |-> "label", name |-> Inside(f, "false")],
       Op("push", OfType("ptr"), ToLabel(FalseString)),
       [kind |-> "label", name |-> Inside(f, "print")],
       Op("native", Native("print_str"), None) >>

\* println prints, then a newline.
PrintLine(f) ==
    << Op("loadL", OfType(IF f.parameters[1] = "float" THEN "f32" ELSE "i32"), Number(1)),
       Op("call", ToLabel(LabelOf(Printer("print", f.parameters[1]))), None),
       Op("push", OfType("ui32"), Number(10)),
       Op("native", Native("print_char"), None) >>

Passed(type, native) ==
    << Op("loadL", OfType(type), Number(1)), Op("native", Native(native), None) >>

functionBodyAssembly(f) ==
    CASE f.name = "exit"                                  -> Passed("i32", "exit")
      [] f.name = "print" /\ f.parameters[1] = "int"      -> Passed("i32", "print")
      [] f.name = "print" /\ f.parameters[1] = "float"    -> Passed("f32", "print")
      [] f.name = "print" /\ f.parameters[1] = "char"     -> Passed("ui32", "print_char")
      [] f.name = "print" /\ f.parameters[1] = "bool"     -> PrintBool(f)
      [] f.name = "println"                               -> PrintLine(f)

builtinFunctionAssembly(f) ==
    <<[kind |-> "method", name |-> LabelOf(f), arguments |-> 1, locals |-> 0]>>
      \o Append(functionBodyAssembly(f), Op("ret", None, None))

builtinData(label) ==
    [kind |-> "data", name |-> label, type |-> "str",
     value |-> [is |-> "text", of |-> label.name]]
=============================================================================
