---------------------------- MODULE AssemblyCode ----------------------------
(***************************************************************************)
(* Assembly statements, as the compiler's emitter writes them and the      *)
(* assembler reads them, and the bytes of bytecode                         *)
(* (src/src/assembler/AssemblerDefs.h, Parser.cpp).  The text between the  *)
(* two is left out: a statement of the emitter is one of the assembler.    *)
(***************************************************************************)
EXTENDS Integers, Sequences

CONSTANTS
    Label,       \* names of methods, code labels and data
    Text,        \* string literals, paths and names of functions
    TextLength,  \* how many bytes each of them has
    IdentifierOf \* the text in front of a label's '(' : f(int) and f(float)
                 \* are both called f

ASSUME TextAssumption == /\ TextLength \in [Text -> Nat]
                         /\ \A t \in Text : TextLength[t] = 0 => t = ""
                         /\ IdentifierOf \in [Label -> Text]

\* s is a sequence, of whatever its elements are.
IsSeq(s) == s \in Seq({s[i] : i \in DOMAIN s})

Type == {"i32", "ui32", "i64", "ui64", "f32", "f64", "ptr"}

TakesType == {"push", "load", "loadL", "conv"}
Jumps     == {"jmp", "jez", "jnz"}
TakesLabel     == {"loadG", "storeG", "call"} \cup Jumps
TakesDepth     == {"dup", "rotD", "rotU"}
TakesSlot      == {"loadL", "storeL", "addrL"}
TakesNothing   ==
    {"nop", "halt", "pop", "swap", "loadB", "store", "storeB", "alloc", "free",
     "ret", "add", "sub", "mul", "div", "mod", "not", "and", "orr", "xor", "shl",
     "shr", "sar", "ceq", "cne", "clt", "cle", "cgt", "cge"}

Opcode == TakesType \cup TakesLabel \cup TakesDepth \cup TakesSlot
            \cup TakesNothing \cup {"native", "throw"}

None == [is |-> "none", of |-> 0]

Operand == [is : {"type"}, of : Type] \cup [is : {"label"}, of : Label]
             \cup [is : {"number"}, of : Int] \cup [is : {"native", "error"}, of : STRING]

\* The operands an opcode is written with, by kind; at most two.
FirstOperand(op) ==
    CASE op \in TakesType               -> "type"
      [] op \in TakesLabel              -> "label"
      [] op \in TakesDepth \cup (TakesSlot \ TakesType) -> "number"
      [] op = "native"                  -> "native"
      [] op = "throw"                   -> "error"
      [] OTHER                          -> "none"

SecondOperand(op, type) ==
    CASE op = "push" /\ type = "ptr" -> "label"
      [] op = "push" /\ type # "ptr" -> "number"
      [] op = "loadL"                -> "number"
      [] OTHER                       -> "none"

(***************************************************************************)
(* Statements.  `second' of an instruction is None unless it has two       *)
(* operands; the value of a data definition is a number, a label or a text.*)
(***************************************************************************)
Instruction == [kind : {"instruction"}, op : Opcode, first : Operand \cup {None},
                second : Operand \cup {None}]
LabelDef    == [kind : {"label"}, name : Label]
MethodDef   == [kind : {"method"}, name : Label, arguments : Nat, locals : Nat]

DataDef     ==
    [kind : {"data"}, name : Label, type : Type, value : [is : {"number"}, of : Int]]
    \cup [kind : {"data"}, name : Label, type : {"ptr"}, value : [is : {"label"}, of : Label]]
    \cup [kind : {"data"}, name : Label, type : {"str"}, value : [is : {"text"}, of : Text]]

Sections    == {"CODE", "DATA", "METADATA", "METADATA_SOURCE", "METADATA_FUNCTION",
                "METADATA_LINE_TABLE"}
Directive   == [kind : {"directive"}, section : Sections]

SourceEntry   == [kind : {"source"}, path : Text]
FunctionEntry == [kind : {"function"}, start : Nat, end : Nat, name : Text]
LineEntry     == [kind : {"line"}, start : Nat, end : Nat, line : Nat]

Statement == Instruction \cup LabelDef \cup MethodDef \cup DataDef \cup Directive
               \cup SourceEntry \cup FunctionEntry \cup LineEntry

NoLine == 0            \* of an instruction without a source

IsInstruction(s) == s.kind = "instruction"

\* An instruction with up to two operands.
Op(op, first, second) ==
    [kind |-> "instruction", op |-> op, first |-> first, second |-> second]

OfType(t)   == [is |-> "type", of |-> t]
ToLabel(l)  == [is |-> "label", of |-> l]
Number(n)   == [is |-> "number", of |-> n]
Native(n)   == [is |-> "native", of |-> n]
ErrorRef(e) == [is |-> "error", of |-> e]

(***************************************************************************)
(* Bytes.  Byte k of something that was encoded: `(v >> (8 * k)) & 0xFF',  *)
(* which tells v only together with its other bytes.                       *)
(***************************************************************************)
Encode(is, of, n) == [k \in 1 .. n |-> [is |-> is, of |-> of, byte |-> k]]

\* Whether `n' bytes of `code' from position p on are one thing of kind `is'.
Encodes(code, p, is, n) ==
    /\ p >= 1 /\ p + n - 1 <= Len(code)
    /\ \A k \in 1 .. n : /\ code[p + k - 1].is = is
                         /\ code[p + k - 1].byte = k
                         /\ code[p + k - 1].of = code[p].of

\* How many bytes a value of type t takes in code and data.
calculateBytesFromType(t) == IF t \in {"i64", "ui64", "f64"} THEN 8 ELSE 4
=============================================================================
