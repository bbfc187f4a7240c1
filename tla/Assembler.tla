----------------------------- MODULE Assembler ------------------------------
(***************************************************************************)
(* The assembler (src/src/assembler/Assembler.cpp): one pass over the      *)
(* statements gives every label its address, a second one writes the       *)
(* bytes.  The two never meet: pass 1 counts what pass 2 will write.  The  *)
(* parser in front of them (src/src/assembler/Parser.cpp) only decides     *)
(* which statements may follow which.                                      *)
(***************************************************************************)
EXTENDS AssemblyCode

VARIABLES
    statements,    \* the program
    pass,          \* "idle", "parse", "lay", "encode", "done" or "error"
    next,          \* index of the statement that is looked at
    section,       \* region of the statement
    labelTable,    \* the address of every label defined so far, by key
    unhandledLabelRefs,
    codeSectionLength, dataSectionLength,
    bytecode,      \* behind the header of 20 bytes
    metadataLength, \* bytes of source, function and line entries
    header,        \* its five fields
    placed         \* history: where pass 1 put each statement

tables == <<labelTable, unhandledLabelRefs, codeSectionLength, dataSectionLength, placed>>
output == <<bytecode, metadataLength, header>>
asmVars == <<statements, pass, next, section, tables, output>>

HeaderLength == 20

AtStatement(kind) == next <= Len(statements) /\ statements[next].kind = kind
This == statements[next]
Step == next' = next + 1 /\ UNCHANGED <<statements, pass>>
Fail == pass' = "error" /\ UNCHANGED <<statements, next, section, tables, output>>

NewAssembler ==
    /\ statements = <<>>
    /\ pass = "idle" /\ next = 1 /\ section = "CODE"
    /\ labelTable = <<>> /\ unhandledLabelRefs = {} /\ placed = <<>>
    /\ codeSectionLength = 0 /\ dataSectionLength = 0
    /\ bytecode = <<>> /\ header = <<>>
    /\ metadataLength = [source |-> 0, function |-> 0, line |-> 0]

\* A program is given to the assembler.
assembleString(program) ==
    /\ pass = "idle"
    /\ statements' = program /\ pass' = "parse"
    /\ UNCHANGED <<next, section, tables, output>>

-----------------------------------------------------------------------------
(***************************************************************************)
(* Parser: which statements a region takes.  A label is a code label in    *)
(* the code region and the beginning of a definition in every other one;   *)
(* instructions and methods are taken everywhere.                          *)
(***************************************************************************)
\* The offset 0 is refused as it is spelled: `0', and neither `00' nor `-0'
\* (Parser.cpp:606).  Here it has one spelling.
OperandsFit(s) ==
    /\ s.first.is = FirstOperand(s.op)
    /\ s.second.is = SecondOperand(s.op, s.first.of)
    /\ s.op \in {"storeL", "addrL"} => s.first.of # 0
    /\ s.op = "loadL" => s.second.of # 0

RegionBefore(r) ==
    CASE r = "CODE"                -> {}
      [] r = "DATA"                -> {"CODE"}
      [] r = "METADATA"            -> {"CODE", "DATA"}
      [] r = "METADATA_SOURCE"     -> {"METADATA"}
      [] r = "METADATA_FUNCTION"   -> {"METADATA_SOURCE"}
      [] r = "METADATA_LINE_TABLE" -> {"METADATA_FUNCTION"}

Accepted(s) ==
    CASE s.kind = "instruction" -> OperandsFit(s)
      [] s.kind = "label"       -> section = "CODE"
      [] s.kind = "method"      -> s.arguments <= 255
      [] s.kind = "data"        -> section # "CODE"
      [] s.kind = "directive"   -> section \in RegionBefore(s.section)
      [] s.kind = "source"      -> section = "METADATA_SOURCE"
      [] s.kind = "function"    -> section = "METADATA_FUNCTION"
      [] s.kind = "line"        -> section = "METADATA_LINE_TABLE"

Region(s) == IF s.kind = "directive" THEN s.section ELSE section

parseToken ==
    /\ pass = "parse" /\ next <= Len(statements)
    /\ \/ /\ Accepted(This)
          /\ section' = Region(This)
          /\ Step
          /\ UNCHANGED <<tables, output>>
       \/ ~ Accepted(This) /\ Fail

Parsed ==
    /\ pass = "parse" /\ next > Len(statements)
    /\ pass' = "lay" /\ next' = 1 /\ section' = "CODE"
    /\ UNCHANGED <<statements, tables, output>>

-----------------------------------------------------------------------------
(***************************************************************************)
(* Pass 1: constructLabelTable.  Code labels, methods and data have name   *)
(* spaces of their own.                                                    *)
(***************************************************************************)
getKey(name, type) == <<name, type>>

Undefined(keys) == {k \in keys : k \notin DOMAIN labelTable}

\* processLabelDef and processLabelRef of one statement: the definition of
\* `defs' (none or one key) at `location', then the references `refs'.
Labels(defs, location, refs) ==
    /\ labelTable' = [k \in DOMAIN labelTable \cup defs |->
                        IF k \in defs THEN location ELSE labelTable[k]]
    /\ unhandledLabelRefs' = (unhandledLabelRefs \ defs) \cup (Undefined(refs) \ defs)

NotDefinedYet(key) == key \notin DOMAIN labelTable

Place(location) == placed' = Append(placed, location)

getOperandLabelType(op) ==
    CASE op \in {"push", "loadG", "storeG"} -> "DATA"
      [] op \in Jumps                       -> "CODE"
      [] OTHER                              -> "METHOD"

\* processInstruction: the bytes of one operand.
\* Fault: a slot takes as many bytes as a depth.
CountedBytes_ShortSlots(s, o) ==
    CASE o.is = "type"               -> 1
      [] o.is = "label"              -> 4
      [] o.is \in {"native", "error"} -> 1
      [] o.is = "number"             ->
            IF s.op \in TakesDepth \cup {"storeL"} THEN 2
            ELSE IF s.first.is = "type" THEN calculateBytesFromType(s.first.of)
            ELSE 4
      [] OTHER                       -> 0

CountedBytes(s, o) ==
    CASE o.is = "type"               -> 1
      [] o.is = "label"              -> 4
      [] o.is \in {"native", "error"} -> 1
      [] o.is = "number"             ->
            IF s.op \in TakesDepth THEN 2
            ELSE IF s.op \in {"loadL", "storeL"} THEN 4
            ELSE IF s.first.is = "type" THEN calculateBytesFromType(s.first.of)
            ELSE 4
      [] OTHER                       -> 0

References(s) ==
    LET operands == <<s.first, s.second>>
    IN {getKey(operands[i].of, getOperandLabelType(s.op)) : i \in {k \in 1 .. 2 : operands[k].is = "label"}}

\* The length of a definition is a uint8_t.
calculateBytesOfData(s) ==
    IF s.type = "str" THEN (1 + 4 + TextLength[s.value.of]) % 256
                      ELSE 1 + calculateBytesFromType(s.type)

DataReferences(s) ==
    IF s.type = "ptr" /\ s.value.is = "label" THEN {getKey(s.value.of, "DATA")} ELSE {}

Laying(kind) == pass = "lay" /\ AtStatement(kind)

ProcessLabel ==
    /\ Laying("label") /\ NotDefinedYet(getKey(This.name, "CODE"))
    /\ Labels({getKey(This.name, "CODE")}, codeSectionLength, {})
    /\ Place(codeSectionLength)
    /\ Step
    /\ UNCHANGED <<section, codeSectionLength, dataSectionLength, output>>

ProcessMethod ==
    /\ Laying("method") /\ NotDefinedYet(getKey(This.name, "METHOD"))
    /\ Labels({getKey(This.name, "METHOD")}, codeSectionLength, {})
    /\ Place(codeSectionLength)
    /\ codeSectionLength' = codeSectionLength + 5
    /\ Step
    /\ UNCHANGED <<section, dataSectionLength, output>>

ProcessInstruction ==
    /\ Laying("instruction")
    /\ Labels({}, 0, References(This))
    /\ Place(codeSectionLength)
    /\ codeSectionLength' = codeSectionLength + 1 + CountedBytes(This, This.first)
                                                  + CountedBytes(This, This.second)
    /\ Step
    /\ UNCHANGED <<section, dataSectionLength, output>>

\* The label of a definition names the byte behind its type.
ProcessData ==
    /\ Laying("data") /\ NotDefinedYet(getKey(This.name, "DATA"))
    /\ Labels({getKey(This.name, "DATA")}, codeSectionLength + dataSectionLength + 1,
              DataReferences(This))
    /\ Place(codeSectionLength + dataSectionLength)
    /\ dataSectionLength' = dataSectionLength + calculateBytesOfData(This)
    /\ Step
    /\ UNCHANGED <<section, codeSectionLength, output>>

ProcessDirective ==
    /\ Laying("directive") /\ This.section # "METADATA"
    /\ section' = This.section
    /\ Place(codeSectionLength + dataSectionLength)
    /\ Step
    /\ UNCHANGED <<labelTable, unhandledLabelRefs, codeSectionLength, dataSectionLength, output>>

DuplicateLabel ==
    /\ pass = "lay" /\ next <= Len(statements)
    /\ \E kind \in {<<"label", "CODE">>, <<"method", "METHOD">>, <<"data", "DATA">>} :
          This.kind = kind[1] /\ ~ NotDefinedYet(getKey(This.name, kind[2]))
    /\ Fail

\* The first pass ends at the metadata.
LabelTableComplete ==
    next > Len(statements) \/ (AtStatement("directive") /\ This.section = "METADATA")

UndefinedLabel ==
    pass = "lay" /\ LabelTableComplete /\ unhandledLabelRefs # {} /\ Fail

LabelTableConstructed ==
    /\ pass = "lay" /\ LabelTableComplete /\ unhandledLabelRefs = {}
    /\ header' = [codeEnd |-> HeaderLength + codeSectionLength - 1,
                  dataEnd |-> HeaderLength + codeSectionLength + dataSectionLength - 1]
    /\ pass' = "encode" /\ next' = 1 /\ section' = "CODE"
    /\ Place(codeSectionLength + dataSectionLength)
    /\ UNCHANGED <<statements, labelTable, unhandledLabelRefs, codeSectionLength,
                   dataSectionLength, bytecode, metadataLength>>
-----------------------------------------------------------------------------
(***************************************************************************)
(* Pass 2: generateBytecode.                                               *)
(***************************************************************************)
Address(key) == Encode("number", labelTable[key], 4)

EncodedOperand(s, o) ==
    CASE o.is = "label"  -> Address(getKey(o.of, getOperandLabelType(s.op)))
      [] o.is = "number" ->
            Encode("number", o.of, IF s.op \in TakesDepth THEN 2
                                   ELSE IF s.op = "push" THEN calculateBytesFromType(s.first.of)
                                   ELSE 4)
      [] o.is = "none"   -> <<>>
      [] OTHER           -> Encode(o.is, o.of, 1)

convertInstructionToBytes(s) ==
    Encode("opcode", s.op, 1) \o EncodedOperand(s, s.first) \o EncodedOperand(s, s.second)

convertMethodDefToBytes(s) == Encode("number", s.arguments, 1) \o Encode("number", s.locals, 4)

convertStringToBytes(t) == Encode("number", TextLength[t], 4) \o Encode("text", t, TextLength[t])

convertDataStatementToBytes(s) ==
    Encode("type", s.type, 1) \o
    CASE s.value.is = "text"   -> convertStringToBytes(s.value.of)
      [] s.value.is = "label"  -> Address(getKey(s.value.of, "DATA"))
      [] s.value.is = "number" -> Encode("number", s.value.of, calculateBytesFromType(s.type))

\* The one source has id 0; line and column are one thing of six bytes.
convertSourceMetadata(s) == Encode("number", 0, 2) \o convertStringToBytes(s.path)

convertFunctionMetadata(s) ==
    Encode("number", s.start, 4) \o Encode("number", s.end, 4) \o Encode("number", 0, 2)
      \o convertStringToBytes(s.name)

convertLineTableMetadata(s) ==
    Encode("number", s.start, 4) \o Encode("number", s.end, 4) \o Encode("number", 0, 2)
      \o Encode("line", s.line, 6)

\* What the code adds to a metadata section's length.
\* Fault: the length of the name is forgotten.
CountedMetadata_NoName(s) ==
    CASE s.kind = "source"   -> 2 + 4 + TextLength[s.path]
      [] s.kind = "function" -> 14
      [] s.kind = "line"     -> 16

CountedMetadata(s) ==
    CASE s.kind = "source"   -> 2 + 4 + TextLength[s.path]
      [] s.kind = "function" -> 14 + TextLength[s.name]
      [] s.kind = "line"     -> 16

DepthInRange(s) ==
    CASE s.op = "dup"              -> s.first.of \in 0 .. 1023
      [] s.op \in {"rotD", "rotU"} -> s.first.of \in 3 .. 1024
      [] OTHER                     -> TRUE

Encoding(kind) == pass = "encode" /\ AtStatement(kind)

Emit(bytes) ==
    /\ bytecode' = bytecode \o bytes
    /\ Step
    /\ UNCHANGED <<section, tables, header>>

EncodeLabel == Encoding("label") /\ Emit(<<>>) /\ UNCHANGED metadataLength

EncodeDirective ==
    /\ Encoding("directive")
    /\ section' = This.section
    /\ Step
    /\ UNCHANGED <<tables, output>>

EncodeMethod ==
    Encoding("method") /\ Emit(convertMethodDefToBytes(This)) /\ UNCHANGED metadataLength

Resolved(s) == References(s) \subseteq DOMAIN labelTable

EncodeInstruction ==
    /\ Encoding("instruction") /\ DepthInRange(This) /\ Resolved(This)
    /\ Emit(convertInstructionToBytes(This))
    /\ UNCHANGED metadataLength

DataResolved(s) == DataReferences(s) \subseteq DOMAIN labelTable

\* An AssemblerError, or the exception of labelTable.at for a reference
\* behind `.metadata', where the first pass did not look; in data that one is
\* caught and made an AssemblerError too.
EncodeFails ==
    /\ \/ Encoding("instruction") /\ (~ DepthInRange(This) \/ ~ Resolved(This))
       \/ Encoding("data") /\ ~ DataResolved(This)
    /\ Fail

EncodeData ==
    /\ Encoding("data") /\ DataResolved(This)
    /\ Emit(convertDataStatementToBytes(This))
    /\ UNCHANGED metadataLength

EncodeMetadata ==
    /\ \/ Encoding("source")   /\ Emit(convertSourceMetadata(This))
       \/ Encoding("function") /\ Emit(convertFunctionMetadata(This))
       \/ Encoding("line")     /\ Emit(convertLineTableMetadata(This))
    /\ metadataLength' = [metadataLength EXCEPT ![This.kind] = @ + CountedMetadata(This)]

BytecodeGenerated ==
    /\ pass = "encode" /\ next > Len(statements)
    /\ LET sourceEnd   == header.dataEnd + metadataLength.source
           functionEnd == sourceEnd + metadataLength.function
       IN header' = [codeEnd |-> header.codeEnd, dataEnd |-> header.dataEnd,
                     sourceEnd |-> sourceEnd, functionEnd |-> functionEnd,
                     lineEnd |-> functionEnd + metadataLength.line]
    /\ pass' = "done"
    /\ UNCHANGED <<statements, next, section, tables, bytecode, metadataLength>>

-----------------------------------------------------------------------------
parse == parseToken \/ Parsed

constructLabelTable ==
    \/ ProcessLabel \/ ProcessMethod \/ ProcessInstruction \/ ProcessData
    \/ ProcessDirective \/ DuplicateLabel \/ UndefinedLabel \/ LabelTableConstructed

generateBytecode ==
    \/ EncodeLabel \/ EncodeDirective \/ EncodeMethod \/ EncodeInstruction
    \/ EncodeFails \/ EncodeData \/ EncodeMetadata \/ BytecodeGenerated

assemble == parse \/ constructLabelTable \/ generateBytecode

\* The assembler on its own, given any program.
AsmSpec ==
    NewAssembler /\ [][assemble \/ \E program \in Seq(Statement) : assembleString(program)]_asmVars

-----------------------------------------------------------------------------
(***************************************************************************)
(* Properties.                                                             *)
(***************************************************************************)
AsmTypeOK ==
    /\ pass \in {"idle", "parse", "lay", "encode", "done", "error"}
    /\ next \in 1 .. (Len(statements) + 1) /\ section \in Sections
    /\ \A k \in DOMAIN labelTable : labelTable[k] \in Nat
    /\ codeSectionLength \in Nat /\ dataSectionLength \in Nat

\* Instructions and methods come before the data, as
\* docs/SVA/Assembly-Language.md asks for and the parser does not enforce.
CodeFirst ==
    \A i \in 1 .. Len(statements) : \A j \in 1 .. (i - 1) :
        statements[i].kind \in {"instruction", "method"} => statements[j].kind # "directive"

\* No definition is longer than a uint8_t can count.
ShortTexts ==
    \A i \in 1 .. Len(statements) :
        statements[i].kind = "data" /\ statements[i].type = "str" =>
            TextLength[statements[i].value.of] <= 250

\* Pass 2 stands at the byte where pass 1 put the statement, up to the end of
\* the data: the two passes count alike.
PassesAgree ==
    CodeFirst /\ ShortTexts /\ pass = "encode" /\ next <= Len(placed) =>
        Len(bytecode) = placed[next]

KeyOf(s) ==
    getKey(s.name, CASE s.kind = "label"  -> "CODE"
                     [] s.kind = "method" -> "METHOD"
                     [] s.kind = "data"   -> "DATA")

\* When pass 2 comes to a definition, its label's address, which pass 1 chose
\* and the references before and behind it carry, is where the bytes of the
\* definition begin, behind the type byte of data.  The two passes
\* (src/src/assembler/Assembler.cpp:40 and :229) count the same bytes in two
\* ways for every kind of operand; where they differ, every jump is wrong.
LabelsNameTheirBytes ==
    CodeFirst /\ ShortTexts /\ pass = "encode" /\ next < Len(placed)
      /\ This.kind \in {"label", "method", "data"} =>
        labelTable[KeyOf(This)] = Len(bytecode) + IF This.kind = "data" THEN 1 ELSE 0
=============================================================================
