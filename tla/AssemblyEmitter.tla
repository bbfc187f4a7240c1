-------------------------- MODULE AssemblyEmitter ---------------------------
(***************************************************************************)
(* The compiler's emitter (src/src/compiler/codegen/AssemblyEmitter.cpp):  *)
(* it writes the items the generator made as assembly, and keeps an        *)
(* address of its own to note which addresses come from which line and     *)
(* function.  The assembler will decide the addresses; nothing compares    *)
(* the two counts.                                                         *)
(*                                                                         *)
(* Items are statements, with the line an instruction or a method comes    *)
(* from and, for a method, whether the user wrote it; and the marker at a  *)
(* method's end.  The number of an immediate has a width, that of the C++  *)
(* type the generator chose for it.                                        *)
(***************************************************************************)
EXTENDS Builtins, SequencesExt

VARIABLES
    assemblyIR,            \* the generator's items
    requiredBuiltinFunctions, requiredBuiltinData,
    item,                  \* index of the item that is emitted
    currentAddress,
    startAddressOfCurrentMethodDecl, currentMethodDef,
    functionMetadata, lineTableMetadata,
    assembly,              \* the statements written so far
    origin                 \* history: line and method of each of them

metadata == <<functionMetadata, lineTableMetadata>>
current  == <<startAddressOfCurrentMethodDecl, currentMethodDef>>
required == <<requiredBuiltinFunctions, requiredBuiltinData>>
emitVars == <<assemblyIR, required, item, currentAddress, current, metadata, assembly, origin>>

NoMethod == [kind |-> "none"]

NewEmitter ==
    /\ assemblyIR = <<>> /\ item = 1
    /\ requiredBuiltinFunctions = {} /\ requiredBuiltinData = {}
    /\ currentAddress = 0
    /\ startAddressOfCurrentMethodDecl = 0 /\ currentMethodDef = NoMethod
    /\ functionMetadata = <<>> /\ lineTableMetadata = <<>>
    /\ assembly = <<>> /\ origin = <<>>

\* A program of the generator: its items and the builtins they need.
emitAssembly(program) ==
    /\ assemblyIR' = program.items
    /\ requiredBuiltinFunctions' = program.functions
    /\ requiredBuiltinData' = program.data
    /\ UNCHANGED <<item, currentAddress, current, metadata, assembly, origin>>

AtItem(kind) == item <= Len(assemblyIR) /\ assemblyIR[item].kind = kind
Item == assemblyIR[item]
NextItem == item' = item + 1 /\ UNCHANGED <<assemblyIR, required>>

\* Where the item belongs: the name of a user's function, or the statements
\* outside of all.
Builtin == "<builtin>"
Global  == "<global>"

FunctionOf(m) == IF m # NoMethod /\ m.type = "USER" THEN IdentifierOf[m.name] ELSE Global

Written(statement, line, method) ==
    /\ assembly' = Append(assembly, statement)
    /\ origin' = Append(origin, [line |-> line, in |-> FunctionOf(method)])

-----------------------------------------------------------------------------
(***************************************************************************)
(* Counting.                                                               *)
(***************************************************************************)
\* Fault: a slot is taken to be as short as a depth.
EmittedBytes_ShortSlots(op, o) ==
    CASE o.is = "number" -> IF op \in TakesDepth \cup {"loadL", "storeL"} THEN 2 ELSE o.width
      [] o.is = "label"  -> 4
      [] o.is = "none"   -> 0
      [] OTHER           -> 1

\* emitNumber: the operand of an instruction.  addrL is not among the opcodes
\* whose immediate has a width of its own.
EmittedBytes(op, o) ==
    CASE o.is = "number" -> IF op \in TakesDepth THEN 2
                            ELSE IF op \in {"loadL", "storeL"} THEN 4
                            ELSE o.width
      [] o.is = "label"  -> 4
      [] o.is = "none"   -> 0
      [] OTHER           -> 1

AddressAfter(i) ==
    currentAddress + 1 + EmittedBytes(i.op, i.first) + EmittedBytes(i.op, i.second)

\* As text, a number has no width.
AsText(o) == IF o.is = "number" THEN Number(o.of) ELSE o

FromLine(start, end, line) == [start |-> start, end |-> end, line |-> line]

-----------------------------------------------------------------------------
(***************************************************************************)
(* Items.                                                                  *)
(***************************************************************************)
emitInstruction ==
    /\ AtItem("instruction")
    /\ Written(Op(Item.op, AsText(Item.first), AsText(Item.second)), Item.line, currentMethodDef)
    /\ currentAddress' = AddressAfter(Item)
    /\ lineTableMetadata' =
          IF Item.line = NoLine THEN lineTableMetadata
          ELSE Append(lineTableMetadata, FromLine(currentAddress, AddressAfter(Item), Item.line))
    /\ NextItem
    /\ UNCHANGED <<current, functionMetadata>>

emitLabelDef ==
    /\ AtItem("label")
    /\ Written(Item, NoLine, currentMethodDef)
    /\ NextItem
    /\ UNCHANGED <<currentAddress, current, metadata>>

emitMethodDef ==
    /\ AtItem("method")
    /\ startAddressOfCurrentMethodDecl' = currentAddress
    /\ currentMethodDef' = Item
    /\ currentAddress' = currentAddress + 5
    /\ Written([kind |-> "method", name |-> Item.name, arguments |-> Item.arguments,
                locals |-> Item.locals], Item.line, Item)
    /\ lineTableMetadata' =
          Append(lineTableMetadata, FromLine(currentAddress, currentAddress + 5, Item.line))
    /\ NextItem
    /\ UNCHANGED functionMetadata

\* METHOD_DEF_END: functions of the user get an entry, scope functions none.
handleIRMarker ==
    /\ AtItem("METHOD_DEF_END")
    /\ functionMetadata' =
          IF currentMethodDef # NoMethod /\ currentMethodDef.type = "USER"
          THEN Append(functionMetadata,
                      [start |-> startAddressOfCurrentMethodDecl, end |-> currentAddress,
                       name |-> IdentifierOf[currentMethodDef.name]])
          ELSE functionMetadata
    /\ NextItem
    /\ UNCHANGED <<currentAddress, current, lineTableMetadata, assembly, origin>>

\* Fault: the builtins are forgotten.
emitDirective_NoBuiltins ==
    /\ AtItem("directive")
    /\ assembly' = Append(assembly, [kind |-> "directive", section |-> "DATA"])
    /\ origin' = Append(origin, [line |-> NoLine, in |-> Builtin])
    /\ NextItem
    /\ UNCHANGED <<currentAddress, current, metadata>>

\* emitBuiltinFunctions writes their text in any order and counts nothing.
emitDirective ==
    /\ AtItem("directive")
    /\ \E functions \in SetToSeqs(requiredBuiltinFunctions) :
          LET text == FlattenSeq([i \in DOMAIN functions |-> builtinFunctionAssembly(functions[i])])
          IN /\ assembly' = assembly \o text \o <<[kind |-> "directive", section |-> "DATA"]>>
             /\ origin' = origin \o [i \in 1 .. (Len(text) + 1) |-> [line |-> NoLine, in |-> Builtin]]
    /\ NextItem
    /\ UNCHANGED <<currentAddress, current, metadata>>

emitDataDef ==
    /\ AtItem("data")
    /\ currentAddress' = currentAddress + 1 + IF Item.value.is = "number" THEN Item.value.width ELSE 0
    /\ Written([kind |-> "data", name |-> Item.name, type |-> Item.type,
                value |-> AsText(Item.value)], NoLine, NoMethod)
    /\ NextItem
    /\ UNCHANGED <<current, metadata>>

-----------------------------------------------------------------------------
(***************************************************************************)
(* Metadata, once the items are written: emitLineTableMetadataSection.     *)
(***************************************************************************)
\* The entry behind the entries that are merged with the one at i.
Joins(lines, first, i) ==
    lines[i - 1].end = lines[i].start /\ lines[first].line = lines[i].line

GroupEnd(lines, first) ==
    CHOOSE last \in first .. Len(lines) :
        /\ \A i \in (first + 1) .. last : Joins(lines, first, i)
        /\ last = Len(lines) \/ ~ Joins(lines, first, last + 1)

\* The loop, entered for the entry at `first': a group that ends the table is
\* written by the loop if it was merged and behind it if it is one entry.
Merged(lines) ==
    LET from[first \in 1 .. (Len(lines) + 1)] ==
            IF first > Len(lines) THEN <<>>
            ELSE LET last == GroupEnd(lines, first)
                 IN <<FromLine(lines[first].start, lines[last].end, lines[first].line)>>
                      \o from[last + 1]
    IN from[1]

LineStatement(e) == [kind |-> "line", start |-> e.start, end |-> e.end, line |-> e.line]
FunctionStatement(f) == [kind |-> "function", start |-> f.start, end |-> f.end, name |-> f.name]

MetadataStatements(path) ==
    LET region(r) == <<[kind |-> "directive", section |-> r]>>
        functions == [i \in DOMAIN functionMetadata |-> FunctionStatement(functionMetadata[i])]
        merged    == Merged(lineTableMetadata)
    IN region("METADATA") \o region("METADATA_SOURCE") \o <<[kind |-> "source", path |-> path]>>
         \o region("METADATA_FUNCTION") \o functions
         \o region("METADATA_LINE_TABLE") \o [i \in DOMAIN merged |-> LineStatement(merged[i])]

\* emitBuiltinData, then the metadata if there is a line table: the text that
\* the assembler is given.
Assembly(path) ==
    {assembly \o [i \in DOMAIN data |-> builtinData(data[i])]
        \o (IF lineTableMetadata = <<>> THEN <<>> ELSE MetadataStatements(path)) :
        data \in SetToSeqs(requiredBuiltinData)}

emitProgram ==
    \/ emitInstruction \/ emitLabelDef \/ emitMethodDef \/ handleIRMarker
    \/ emitDirective \/ emitDataDef

Emitted == item > Len(assemblyIR)

-----------------------------------------------------------------------------
(***************************************************************************)
(* What the emitter takes for granted, and does not check, of what the     *)
(* generator (AssemblyGenerator.cpp) hands to it.                          *)
(***************************************************************************)
\* The immediate of an instruction has the width that its type takes in
\* bytecode; without a type, four bytes.
Measured(i) ==
    \A o \in {i.first, i.second} :
        /\ o.is \in {"type", "label", "number", "native", "error", "none"}
        /\ o.is = "number" /\ i.op \notin TakesDepth \cup {"loadL", "storeL"} =>
              o.width = IF i.first.is = "type" THEN calculateBytesFromType(i.first.of) ELSE 4

Brackets == {"method", "METHOD_DEF_END"}

\* Item n belongs to the method that begins with item i.
Encloses(t, i, n) ==
    /\ i \in 1 .. (n - 1) /\ t[i].kind = "method"
    /\ \A j \in (i + 1) .. (n - 1) : t[j].kind \notin Brackets

\* Methods and their ends alternate; instructions are in a method, or in front
\* of all of them.
Bracketed(t) ==
    \A n \in 1 .. Len(t) :
        /\ t[n].kind = "METHOD_DEF_END" => \E i \in 1 .. (n - 1) : Encloses(t, i, n)
        /\ t[n].kind = "method" =>
              \E e \in (n + 1) .. Len(t) : t[e].kind = "METHOD_DEF_END" /\ Encloses(t, n, e)
        /\ t[n].kind = "instruction" => \/ \E i \in 1 .. (n - 1) : Encloses(t, i, n)
                                        \/ \A j \in 1 .. (n - 1) : t[j].kind \notin Brackets

\* The items before n are code.
CodeSoFar(t, n) == \A j \in 1 .. (n - 1) : t[j].kind # "directive"

\* The data, and only the data, is behind the directive.
DataLast(t) == \A n \in 1 .. Len(t) : (t[n].kind = "data") = ~ CodeSoFar(t, n)

\* No function of a user is called "<global>": the tokeniser takes no such name.
GeneratedItems(t) ==
    /\ IsSeq(t) /\ Bracketed(t) /\ DataLast(t)
    /\ \A n \in 1 .. Len(t) :
          /\ t[n].kind = "instruction" => Measured(t[n])
          /\ t[n].kind = "method" /\ t[n].type = "USER" => IdentifierOf[t[n].name] # Global

KnownBuiltin(f) ==
    \/ f.name \in {"exit", "println"}
    \/ f.name = "print" /\ f.parameters[1] \in {"int", "float", "char", "bool"}

GeneratedBy(items, functions, data) ==
    /\ GeneratedItems(items)
    /\ IsFiniteSet(functions) /\ IsFiniteSet(data)
    /\ \A f \in functions : KnownBuiltin(f)

Generated == GeneratedBy(assemblyIR, requiredBuiltinFunctions, requiredBuiltinData)
=============================================================================
