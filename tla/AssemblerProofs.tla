-------------------------- MODULE AssemblerProofs ---------------------------
(***************************************************************************)
(* Proofs about Assembler, for every program.  The two passes reckon the   *)
(* bytes of a statement each in a way of its own; the lemmas of the first  *)
(* part show kind by kind of statement and operand that they agree         *)
(* (Counted is what pass 1 counts).  The inductive invariant then says     *)
(* what the first pass leaves for the second:                              *)
(*   - what the parser let through (AcceptedUpTo): instructions with the   *)
(*     operands of their opcode, code labels before the first directive    *)
(*     only and data behind it only;                                       *)
(*   - `placed' is a chain from byte 0 on in which every statement begins  *)
(*     where the one before it ends.  Code is placed at codeSectionLength  *)
(*     and data at codeSectionLength + dataSectionLength, so this is true  *)
(*     only because nothing was counted as data while code is placed, and  *)
(*     for that CodeFirst is needed;                                       *)
(*   - the table holds every definition that was placed, with its place.   *)
(* The second pass follows the chain, statement by statement.              *)
(***************************************************************************)
EXTENDS Assembler, SequenceTheorems, TLAPS

-----------------------------------------------------------------------------
(***************************************************************************)
(* Bytes.                                                                  *)
(***************************************************************************)
\* Every sequence is one of its own elements.
LEMMA AnySequence ==
    ASSUME NEW S, NEW s \in Seq(S)
    PROVE  IsSeq(s) /\ Len(s) \in Nat
  <1>1. Len(s) \in Nat /\ DOMAIN s = 1 .. Len(s) /\ s \in [1 .. Len(s) -> S]
    BY LenProperties
  <1>2. PICK n \in Nat : n = Len(s)
    BY <1>1
  <1>3. s \in [1 .. n -> {s[i] : i \in DOMAIN s}]
    BY <1>1, <1>2
  <1>4. s \in Seq({s[i] : i \in DOMAIN s})
    BY <1>2, <1>3, SeqDef
  <1> QED BY <1>1, <1>4 DEF IsSeq

\* A concatenation is as long as its parts.
LEMMA Concatenated ==
    ASSUME NEW s, IsSeq(s), NEW t, IsSeq(t)
    PROVE  IsSeq(s \o t) /\ Len(s \o t) = Len(s) + Len(t)
           /\ Len(s) \in Nat /\ Len(t) \in Nat
  <1> DEFINE A == {s[i] : i \in DOMAIN s}
             B == {t[i] : i \in DOMAIN t}
  <1>1. s \in Seq(A) /\ t \in Seq(B)
    BY DEF IsSeq
  <1> HIDE DEF A, B
  <1>2. /\ Len(s) \in Nat /\ s \in [1 .. Len(s) -> A]
        /\ Len(t) \in Nat /\ t \in [1 .. Len(t) -> B]
    BY <1>1, LenProperties
  <1>3. PICK m \in Nat, n \in Nat : m = Len(s) /\ n = Len(t)
    BY <1>2
  <1>4. s \in [1 .. m -> A \cup B] /\ t \in [1 .. n -> A \cup B]
    BY <1>2, <1>3
  <1>5. s \in Seq(A \cup B) /\ t \in Seq(A \cup B)
    BY <1>3, <1>4, SeqDef
  <1>6. s \o t \in Seq(A \cup B) /\ Len(s \o t) = Len(s) + Len(t)
    BY <1>5, ConcatProperties
  <1> QED BY <1>2, <1>6, AnySequence

\* Encode makes n bytes.
LEMMA EncodeFacts ==
    ASSUME NEW is, NEW of, NEW n \in Nat
    PROVE  IsSeq(Encode(is, of, n)) /\ Len(Encode(is, of, n)) = n
  <1> DEFINE e == Encode(is, of, n)
  <1>1. e \in [1 .. n -> {e[i] : i \in 1 .. n}]
    BY DEF Encode
  <1> HIDE DEF e
  <1>2. PICK S : S = {e[i] : i \in 1 .. n}
    OBVIOUS
  <1>3. e \in Seq(S)
    BY <1>1, <1>2, SeqDef
  <1>4. Len(e) \in Nat /\ DOMAIN e = 1 .. Len(e) /\ DOMAIN e = 1 .. n
    BY <1>1, <1>3, LenProperties
  <1>5. Len(e) = n
    <2>1. PICK m \in Nat : m = Len(e) /\ 1 .. m = 1 .. n
      BY <1>4
    <2>2. m \in 1 .. n \/ m = 0
      <3>1. m \in 1 .. m \/ m = 0
        OBVIOUS
      <3> QED BY <2>1, <3>1
    <2>3. n \in 1 .. m \/ n = 0
      <3>1. n \in 1 .. n \/ n = 0
        OBVIOUS
      <3> QED BY <2>1, <3>1
    <2>4. m <= n /\ n <= m
      BY <2>2, <2>3
    <2>5. m = n
      BY <2>4
    <2> QED BY <2>1, <2>5
  <1> QED BY <1>3, <1>5, AnySequence DEF e

\* Nothing has no bytes.
LEMMA EmptyFacts == IsSeq(<<>>) /\ Len(<<>>) = 0
  <1>1. PICK e : e = <<>>
    OBVIOUS
  <1>2. e \in Seq({}) /\ Len(e) = 0
    BY <1>1, EmptySeq
  <1>3. IsSeq(e)
    BY <1>2, AnySequence
  <1> QED BY <1>1, <1>2, <1>3

-----------------------------------------------------------------------------

\* Both passes give an operand the same width
\* (src/src/assembler/Assembler.cpp:119 and :301), if it is one that its
\* opcode takes.
LEMMA OperandBytes ==
    ASSUME NEW s \in Instruction, OperandsFit(s), NEW o \in {s.first, s.second}
    PROVE  /\ IsSeq(EncodedOperand(s, o))
           /\ Len(EncodedOperand(s, o)) = CountedBytes(s, o)
           /\ CountedBytes(s, o) \in Nat
  <1>1. /\ s.first.is \in {"type", "label", "number", "native", "error", "none"}
        /\ s.second.is \in {"type", "label", "number", "native", "error", "none"}
    BY DEF Instruction, Operand, None
  <1>2. CASE o.is = "label"
    <2>1. PICK v : v = labelTable[getKey(o.of, getOperandLabelType(s.op))]
      OBVIOUS
    <2> PICK n \in Nat : n = 4
      OBVIOUS
    <2>2. EncodedOperand(s, o) = Encode("number", v, n)
      BY <1>2, <2>1 DEF EncodedOperand, Address
    <2>3. CountedBytes(s, o) = n
      BY <1>2, <2>1 DEF CountedBytes
    <2>4. IsSeq(Encode("number", v, n)) /\ Len(Encode("number", v, n)) = n
      BY EncodeFacts
    <2> QED BY <2>2, <2>3, <2>4
  <1>3. CASE o.is = "none"
    BY <1>3, EmptyFacts DEF EncodedOperand, CountedBytes
  <1>4. CASE o.is \in {"type", "native", "error"}
    <2>1. PICK n \in Nat : n = 1
      OBVIOUS
    <2>2. EncodedOperand(s, o) = Encode(o.is, o.of, n)
      BY <1>4, <2>1 DEF EncodedOperand
    <2>3. CountedBytes(s, o) = n
      BY <1>4, <2>1 DEF CountedBytes
    <2> QED BY <2>2, <2>3, EncodeFacts
  <1>5. CASE o.is = "number"
    <2> DEFINE w == IF s.op \in TakesDepth THEN 2
                    ELSE IF s.op = "push" THEN calculateBytesFromType(s.first.of) ELSE 4
    <2>1. w \in Nat
      BY DEF calculateBytesFromType
    <2>2. EncodedOperand(s, o) = Encode("number", o.of, w)
      BY <1>5 DEF EncodedOperand
    <2>3. CountedBytes(s, o) = IF s.op \in TakesDepth THEN 2
                               ELSE IF s.op \in {"loadL", "storeL"} THEN 4
                               ELSE IF s.first.is = "type"
                                    THEN calculateBytesFromType(s.first.of) ELSE 4
      BY <1>5 DEF CountedBytes
    <2>4. CASE o = s.first
      <3>1. FirstOperand(s.op) = "number"
        BY <1>5, <2>4 DEF OperandsFit
      <3>2. s.op \in TakesDepth \cup (TakesSlot \ TakesType)
        BY <3>1 DEF FirstOperand
      <3>3. s.op # "push"
        BY <3>2 DEF TakesDepth, TakesSlot
      <3> QED BY <1>5, <2>1, <2>2, <2>3, <2>4, <3>3, EncodeFacts
    <2>5. CASE o = s.second
      <3>1. SecondOperand(s.op, s.first.of) = "number"
        BY <1>5, <2>5 DEF OperandsFit
      <3>2. s.op = "push" \/ s.op = "loadL"
        BY <3>1 DEF SecondOperand
      <3>3. s.op \in TakesType
        BY <3>2 DEF TakesType
      <3>4. FirstOperand(s.op) = "type"
        BY <3>3 DEF FirstOperand, TakesType, TakesLabel, Jumps, TakesDepth, TakesSlot
      <3>5. s.first.is = "type"
        BY <3>4 DEF OperandsFit
      <3>6. s.op \notin TakesDepth
        BY <3>2 DEF TakesDepth
      <3>7. CountedBytes(s, o) = w
        <4>1. CASE s.op = "push"
          BY <2>3, <3>5, <3>6, <4>1
        <4>2. CASE s.op = "loadL"
          BY <2>3, <3>6, <4>2
        <4> QED BY <3>2, <4>1, <4>2
      <3> QED BY <2>1, <2>2, <3>7, EncodeFacts
    <2> QED BY <2>4, <2>5
  <1> QED BY <1>1, <1>2, <1>3, <1>4, <1>5

\* What pass 1 counts for a statement.
Counted(s) ==
    CASE s.kind = "instruction" -> 1 + CountedBytes(s, s.first) + CountedBytes(s, s.second)
      [] s.kind = "method"      -> 5
      [] s.kind = "data"        -> calculateBytesOfData(s)
      [] OTHER                  -> 0

\* Both passes give an instruction the same width.
LEMMA InstructionBytes ==
    ASSUME NEW s \in Instruction, OperandsFit(s)
    PROVE  /\ IsSeq(convertInstructionToBytes(s))
           /\ Len(convertInstructionToBytes(s)) = Counted(s)
           /\ Counted(s) \in Nat
  <1>1. PICK a, b, c : /\ a = Encode("opcode", s.op, 1)
                       /\ b = EncodedOperand(s, s.first)
                       /\ c = EncodedOperand(s, s.second)
    OBVIOUS
  <1>2. IsSeq(a) /\ Len(a) = 1
    BY <1>1, EncodeFacts
  <1>3. /\ IsSeq(b) /\ Len(b) = CountedBytes(s, s.first) /\ Len(b) \in Nat
        /\ IsSeq(c) /\ Len(c) = CountedBytes(s, s.second) /\ Len(c) \in Nat
    BY <1>1, OperandBytes
  <1>4. IsSeq(a \o b) /\ Len(a \o b) = 1 + Len(b)
    BY <1>2, <1>3, Concatenated
  <1>5. IsSeq((a \o b) \o c) /\ Len((a \o b) \o c) = 1 + Len(b) + Len(c)
    BY <1>3, <1>4, Concatenated
  <1>6. convertInstructionToBytes(s) = (a \o b) \o c
    BY <1>1 DEF convertInstructionToBytes
  <1>7. s.kind = "instruction"
    BY DEF Instruction
  <1> QED BY <1>3, <1>5, <1>6, <1>7 DEF Counted

\* The five bytes of a method.
LEMMA MethodBytes ==
    ASSUME NEW s \in MethodDef
    PROVE  /\ IsSeq(convertMethodDefToBytes(s))
           /\ Len(convertMethodDefToBytes(s)) = 5 /\ Counted(s) = 5
  BY EncodeFacts, Concatenated DEF convertMethodDefToBytes, Counted, MethodDef

\* Both passes give a definition the same width, unless its text is too long
\* for the first.
LEMMA DataBytes ==
    ASSUME NEW s \in DataDef
    PROVE  /\ IsSeq(convertDataStatementToBytes(s))
           /\ Counted(s) = calculateBytesOfData(s) /\ Counted(s) \in Nat
           /\ (s.type = "str" => TextLength[s.value.of] <= 250)
                => Len(convertDataStatementToBytes(s)) = Counted(s)
  <1>1. s.kind = "data" /\ Counted(s) = calculateBytesOfData(s)
    BY DEF DataDef, Counted
  <1>2. PICK a : a = Encode("type", s.type, 1) /\ IsSeq(a) /\ Len(a) = 1
    BY EncodeFacts
  <1>3. CASE s \in [kind : {"data"}, name : Label, type : Type, value : [is : {"number"}, of : Int]]
    <2>1. s.value.is = "number" /\ s.type # "str"
      BY <1>3 DEF Type
    <2>2. PICK w \in Nat : w = calculateBytesFromType(s.type)
      BY DEF calculateBytesFromType
    <2>3. PICK b : b = Encode("number", s.value.of, w) /\ IsSeq(b) /\ Len(b) = w
      BY EncodeFacts
    <2>4. convertDataStatementToBytes(s) = a \o b
      BY <1>2, <2>1, <2>2, <2>3 DEF convertDataStatementToBytes
    <2>5. Counted(s) = 1 + w
      BY <1>1, <2>1, <2>2 DEF calculateBytesOfData
    <2>6. IsSeq(a \o b) /\ Len(a \o b) = 1 + w
      BY <1>2, <2>3, Concatenated
    <2> QED BY <1>1, <2>4, <2>5, <2>6
  <1>4. CASE s \in [kind : {"data"}, name : Label, type : {"ptr"}, value : [is : {"label"}, of : Label]]
    <2>1. s.value.is = "label" /\ s.type = "ptr"
      BY <1>4
    <2>2. PICK b : b = Address(getKey(s.value.of, "DATA")) /\ IsSeq(b) /\ Len(b) = 4
      BY EncodeFacts DEF Address
    <2>3. convertDataStatementToBytes(s) = a \o b
      BY <1>2, <2>1, <2>2 DEF convertDataStatementToBytes
    <2>4. Counted(s) = 5
      BY <1>1, <2>1 DEF calculateBytesOfData, calculateBytesFromType
    <2>5. IsSeq(a \o b) /\ Len(a \o b) = 1 + 4
      BY <1>2, <2>2, Concatenated
    <2> QED BY <1>1, <2>3, <2>4, <2>5
  <1>5. CASE s \in [kind : {"data"}, name : Label, type : {"str"}, value : [is : {"text"}, of : Text]]
    <2>1. s.value.is = "text" /\ s.type = "str" /\ s.value.of \in Text
      BY <1>5
    <2>2. PICK n \in Nat : n = TextLength[s.value.of]
      BY <2>1, TextAssumption
    <2>3. PICK b : b = Encode("number", n, 4) /\ IsSeq(b) /\ Len(b) = 4
      <3>1. PICK four \in Nat : four = 4
        OBVIOUS
      <3>2. IsSeq(Encode("number", n, four)) /\ Len(Encode("number", n, four)) = four
        BY EncodeFacts
      <3> QED BY <3>1, <3>2, Zenon
    <2>4. PICK c : c = Encode("text", s.value.of, n) /\ IsSeq(c) /\ Len(c) = n
      BY EncodeFacts
    <2>5. IsSeq(b \o c) /\ Len(b \o c) = 4 + n
      BY <2>3, <2>4, Concatenated
    <2>6. IsSeq(a \o (b \o c)) /\ Len(a \o (b \o c)) = 1 + (4 + n)
      BY <1>2, <2>5, Concatenated
    <2>7. convertDataStatementToBytes(s) = a \o (b \o c)
      BY <1>2, <2>1, <2>2, <2>3, <2>4 DEF convertDataStatementToBytes, convertStringToBytes
    <2>8. Counted(s) = (1 + 4 + n) % 256
      BY <1>1, <2>1, <2>2 DEF calculateBytesOfData
    <2>9. (1 + 4 + n) % 256 \in Nat /\ (n <= 250 => (1 + 4 + n) % 256 = 1 + (4 + n))
      OBVIOUS
    <2>10. Len(convertDataStatementToBytes(s)) = 1 + (4 + n)
      BY <2>6, <2>7
    <2>11. n <= 250 => Len(convertDataStatementToBytes(s)) = Counted(s)
      BY <2>8, <2>9, <2>10
    <2>12. IsSeq(convertDataStatementToBytes(s)) /\ Counted(s) \in Nat
      BY <2>6, <2>7, <2>8, <2>9
    <2> QED BY <1>1, <2>1, <2>2, <2>11, <2>12
  <1> QED BY <1>3, <1>4, <1>5 DEF DataDef

(***************************************************************************)
(* The inductive invariant.                                                *)
(***************************************************************************)
\* What may be in front of the metadata.
LaidKinds == {"label", "method", "instruction", "data", "directive"}

Defines(s) == s.kind \in {"label", "method", "data"}

\* Statement n is in the code region.
NoDirective(t, n) == \A j \in 1 .. (n - 1) : t[j].kind # "directive"

\* What the parser knows of the statements before n.
AcceptedUpTo(t, n) ==
    \A j \in 1 .. (n - 1) :
        /\ t[j].kind = "instruction" => OperandsFit(t[j])
        /\ t[j].kind = "label" => NoDirective(t, j)
        /\ t[j].kind = "data"  => ~ NoDirective(t, j)

\* q holds the places of the first statements and the end of the last of them.
LaidOnly(q, t) == \A i \in 1 .. (Len(q) - 1) : t[i].kind \in LaidKinds

\* Every statement begins where the one before it ends.
Chain(q, t) == q[1] = 0 /\ \A i \in 1 .. (Len(q) - 1) : q[i + 1] = q[i] + Counted(t[i])

\* Every definition that has a place has it in the table.
Labelled(table, q, t) ==
    \A i \in 1 .. (Len(q) - 1) :
        Defines(t[i]) => /\ KeyOf(t[i]) \in DOMAIN table
                         /\ table[KeyOf(t[i])] = q[i] + IF t[i].kind = "data" THEN 1 ELSE 0

Typed ==
    /\ statements \in Seq(Statement)
    /\ pass \in {"idle", "parse", "lay", "encode", "done", "error"}
    /\ next \in 1 .. (Len(statements) + 1) /\ section \in Sections
    /\ codeSectionLength \in Nat /\ dataSectionLength \in Nat
    /\ placed \in Seq(Nat)
    /\ \A k \in DOMAIN labelTable : labelTable[k] \in Nat

NothingLaid ==
    /\ placed = <<>> /\ labelTable = <<>> /\ bytecode = <<>>
    /\ codeSectionLength = 0 /\ dataSectionLength = 0

\* The places so far and where the next statement would begin.
LaidSoFar == Append(placed, codeSectionLength + dataSectionLength)

IInv ==
    /\ Typed
    /\ pass = "idle" => next = 1 /\ section = "CODE"
    /\ pass \in {"idle", "parse"} => NothingLaid
    /\ pass = "parse" => /\ AcceptedUpTo(statements, next)
                         /\ section = "CODE" <=> NoDirective(statements, next)
    /\ pass \in {"lay", "encode"} => AcceptedUpTo(statements, Len(statements) + 1)
    /\ pass = "lay" =>
          /\ bytecode = <<>> /\ Len(placed) = next - 1
          /\ NoDirective(statements, next) => dataSectionLength = 0
          /\ LaidOnly(LaidSoFar, statements)
          /\ CodeFirst => /\ Chain(LaidSoFar, statements)
                          /\ Labelled(labelTable, LaidSoFar, statements)
    /\ pass = "encode" =>
          /\ Len(placed) \in 1 .. (Len(statements) + 1)
          /\ LaidOnly(placed, statements)
          /\ CodeFirst => Chain(placed, statements) /\ Labelled(labelTable, placed, statements)
          /\ next <= Len(placed) =>
                /\ IsSeq(bytecode)
                /\ CodeFirst /\ ShortTexts => Len(bytecode) = placed[next]

-----------------------------------------------------------------------------
\* The initial states.
LEMMA Initially == NewAssembler => IInv
  <1> SUFFICES ASSUME NewAssembler PROVE IInv
    OBVIOUS
  <1>1. statements = <<>> /\ Len(statements) = 0 /\ placed = <<>> /\ labelTable = <<>>
    BY EmptySeq DEF NewAssembler
  <1>2. statements \in Seq(Statement) /\ placed \in Seq(Nat) /\ DOMAIN labelTable = {}
    BY <1>1, EmptySeq
  <1>3. Typed
    BY <1>1, <1>2 DEF NewAssembler, Typed, Sections
  <1> QED BY <1>3 DEF NewAssembler, IInv, NothingLaid

\* A program comes in.
LEMMA Given ==
    ASSUME IInv, NEW program \in Seq(Statement), assembleString(program)
    PROVE  IInv'
  <1> USE DEF assembleString, tables, output
  <1>1. next = 1 /\ section = "CODE" /\ NothingLaid /\ Typed
    BY DEF IInv
  <1>2. Len(program) \in Nat
    BY LenProperties
  <1>3. Typed'
    BY <1>1, <1>2 DEF Typed
  <1>4. NothingLaid'
    BY <1>1 DEF NothingLaid
  <1>5. AcceptedUpTo(statements', next') /\ NoDirective(statements', next')
    BY <1>1 DEF AcceptedUpTo, NoDirective
  <1> QED BY <1>1, <1>3, <1>4, <1>5 DEF IInv

\* The end, or an error, asks for nothing but types.
LEMMA Stopped ==
    ASSUME IInv, pass' \in {"done", "error"},
           UNCHANGED <<statements, next, section, labelTable, codeSectionLength,
                       dataSectionLength, placed>>
    PROVE  IInv'
  BY DEF IInv, Typed

\* Stuttering.
LEMMA Idle ==
    ASSUME IInv, UNCHANGED asmVars
    PROVE  IInv'
  BY DEF IInv, Typed, NothingLaid, LaidSoFar, CodeFirst, ShortTexts, asmVars, tables, output

-----------------------------------------------------------------------------
\* The parser takes a statement or refuses it.
LEMMA ParsedToken ==
    ASSUME IInv, parseToken
    PROVE  IInv'
  <1>1. CASE ~ Accepted(This) /\ Fail
    BY <1>1, Stopped DEF Fail, tables, output
  <1>2. CASE /\ Accepted(This) /\ section' = Region(This) /\ Step
             /\ UNCHANGED <<tables, output>>
    <2> DEFINE n == next
               t == statements
    <2>1. /\ pass = "parse" /\ pass' = "parse" /\ next' = n + 1 /\ statements' = t
          /\ n <= Len(t) /\ n \in Nat /\ n >= 1 /\ t \in Seq(Statement) /\ Len(t) \in Nat
      BY <1>2, LenProperties DEF parseToken, Step, IInv, Typed
    <2>2. t[n] \in Statement
      BY <2>1, ElementOfSeq
    <2>3. section' \in Sections
      <3>1. section \in Sections
        BY DEF IInv, Typed
      <3>2. t[n].kind = "directive" => t[n].section \in Sections
        BY <2>2 DEF Statement, Instruction, LabelDef, MethodDef, DataDef, Directive, SourceEntry,
                    FunctionEntry, LineEntry
      <3> QED BY <1>2, <3>1, <3>2 DEF Region, This
    <2>4. Typed'
      BY <1>2, <2>1, <2>3 DEF IInv, Typed, tables
    <2>5. AcceptedUpTo(t, n) /\ (section = "CODE" <=> NoDirective(t, n)) /\ NothingLaid
      BY <2>1 DEF IInv
    <2>6. NoDirective(t, n + 1) <=> NoDirective(t, n) /\ t[n].kind # "directive"
      BY <2>1 DEF NoDirective
    <2>7. section' = "CODE" <=> NoDirective(t, n + 1)
      <3>1. CASE t[n].kind = "directive"
        <4>1. section \in RegionBefore(t[n].section) /\ section' = t[n].section
          BY <1>2, <3>1 DEF Accepted, Region, This
        <4>2. section' # "CODE"
          BY <4>1 DEF RegionBefore
        <4> QED BY <2>6, <3>1, <4>2
      <3>2. CASE t[n].kind # "directive"
        BY <1>2, <2>5, <2>6, <3>2 DEF Region, This
      <3> QED BY <3>1, <3>2
    <2>8. /\ t[n].kind = "instruction" => OperandsFit(t[n])
          /\ t[n].kind = "label" => section = "CODE"
          /\ t[n].kind = "data"  => section # "CODE"
      BY <1>2 DEF Accepted, This
    <2>9. AcceptedUpTo(t, n + 1)
      <3> SUFFICES ASSUME NEW j \in 1 .. n
                   PROVE  /\ t[j].kind = "instruction" => OperandsFit(t[j])
                          /\ t[j].kind = "label" => NoDirective(t, j)
                          /\ t[j].kind = "data"  => ~ NoDirective(t, j)
        BY <2>1 DEF AcceptedUpTo
      <3>1. CASE j = n
        BY <2>5, <2>8, <3>1
      <3>2. CASE j \in 1 .. (n - 1)
        BY <2>5, <3>2 DEF AcceptedUpTo
      <3> QED BY <2>1, <3>1, <3>2
    <2>10. NothingLaid'
      BY <1>2, <2>5 DEF NothingLaid, tables, output
    <2> HIDE DEF n, t
    <2>11. AcceptedUpTo(statements', next') /\ (section' = "CODE" <=> NoDirective(statements', next'))
      BY <2>1, <2>7, <2>9
    <2> QED BY <2>1, <2>4, <2>10, <2>11 DEF IInv
  <1> QED BY <1>1, <1>2 DEF parseToken

\* The parser is done: the chain is empty and ends at byte 0.
LEMMA EndOfParse ==
    ASSUME IInv, Parsed
    PROVE  IInv'
  <1> USE DEF tables, output
  <1>1. /\ pass = "parse" /\ pass' = "lay" /\ next' = 1 /\ section' = "CODE"
        /\ statements' = statements /\ NothingLaid /\ Typed /\ next > Len(statements)
        /\ next \in 1 .. (Len(statements) + 1) /\ Len(statements) \in Nat
        /\ AcceptedUpTo(statements, next)
    BY LenProperties DEF Parsed, IInv, Typed
  <1>2. next = Len(statements) + 1
    BY <1>1
  <1>3. AcceptedUpTo(statements', Len(statements') + 1)
    BY <1>1, <1>2
  <1>4. NothingLaid'
    BY <1>1 DEF NothingLaid, Parsed
  <1>5. Typed'
    BY <1>1, <1>4, EmptySeq DEF Typed, NothingLaid, Sections
  <1>6. PICK q : q = Append(placed', codeSectionLength' + dataSectionLength')
    OBVIOUS
  <1>7. q = Append(<<>>, 0)
    BY <1>4, <1>6 DEF NothingLaid
  <1>8. Len(q) = 1 /\ q[1] = 0
    <2>1. PICK e \in Seq(Nat) : e = <<>> /\ Len(e) = 0
      BY EmptySeq
    <2>2. q = Append(e, 0)
      BY <1>7, <2>1
    <2>3. Len(q) = Len(e) + 1 /\ q[Len(e) + 1] = 0
      BY <2>2, AppendProperties
    <2> QED BY <2>1, <2>3
  <1>9. LaidOnly(q, statements') /\ Chain(q, statements') /\ Labelled(labelTable', q, statements')
    BY <1>8 DEF LaidOnly, Chain, Labelled
  <1>10. Len(placed') = next' - 1 /\ bytecode' = <<>> /\ dataSectionLength' = 0
    BY <1>1, <1>4, EmptySeq DEF NothingLaid
  <1> QED BY <1>1, <1>3, <1>5, <1>6, <1>9, <1>10 DEF IInv, LaidSoFar

-----------------------------------------------------------------------------
\* What the parser let through has bytes that can be counted.
LEMMA Fits ==
    ASSUME NEW t \in Seq(Statement), AcceptedUpTo(t, Len(t) + 1), NEW n \in 1 .. Len(t)
    PROVE  /\ t[n] \in Statement
           /\ t[n].kind = "instruction" => t[n] \in Instruction /\ OperandsFit(t[n])
           /\ t[n].kind = "method" => t[n] \in MethodDef
           /\ t[n].kind = "data" => t[n] \in DataDef /\ ~ NoDirective(t, n)
           /\ t[n].kind = "label" => NoDirective(t, n)
           /\ t[n].kind \in LaidKinds => Counted(t[n]) \in Nat
  <1>1. t[n] \in Statement /\ Len(t) \in Nat
    BY ElementOfSeq, LenProperties
  <1>2. /\ t[n].kind = "instruction" => t[n] \in Instruction
        /\ t[n].kind = "method" => t[n] \in MethodDef
        /\ t[n].kind = "data" => t[n] \in DataDef
    BY <1>1 DEF Statement, Instruction, LabelDef, MethodDef, DataDef, Directive, SourceEntry,
                FunctionEntry, LineEntry
  <1>3. n \in 1 .. ((Len(t) + 1) - 1)
    BY <1>1
  <1>4. /\ t[n].kind = "instruction" => OperandsFit(t[n])
        /\ t[n].kind = "label" => NoDirective(t, n)
        /\ t[n].kind = "data"  => ~ NoDirective(t, n)
    BY <1>3 DEF AcceptedUpTo
  <1>5. t[n].kind \in LaidKinds => Counted(t[n]) \in Nat
    <2>1. CASE t[n].kind \in {"label", "directive"}
      BY <2>1 DEF Counted
    <2>2. CASE t[n].kind = "instruction"
      BY <1>2, <1>4, <2>2, InstructionBytes
    <2>3. CASE t[n].kind = "method"
      BY <1>2, <2>3, MethodBytes
    <2>4. CASE t[n].kind = "data"
      BY <1>2, <2>4, DataBytes
    <2> QED BY <2>1, <2>2, <2>3, <2>4 DEF LaidKinds
  <1> QED BY <1>1, <1>2, <1>4, <1>5

\* One statement more: its place and its end lengthen the chain.
LEMMA Extended ==
    ASSUME NEW t \in Seq(Statement), NEW q \in Seq(Nat), NEW n \in Nat, n >= 1, Len(q) = n,
           NEW d \in Nat
    PROVE  /\ Append(q, d) \in Seq(Nat) /\ Len(Append(q, d)) = n + 1
           /\ LaidOnly(q, t) /\ t[n].kind \in LaidKinds => LaidOnly(Append(q, d), t)
           /\ Chain(q, t) /\ d = q[n] + Counted(t[n]) => Chain(Append(q, d), t)
           /\ \A i \in 1 .. n : Append(q, d)[i] = q[i]
           /\ Append(q, d)[n + 1] = d
  <1>1. PICK r : r = Append(q, d)
    OBVIOUS
  <1>2. r \in Seq(Nat) /\ Len(r) = n + 1 /\ r[n + 1] = d /\ \A i \in 1 .. n : r[i] = q[i]
    BY <1>1, AppendProperties
  <1>3. ASSUME LaidOnly(q, t), t[n].kind \in LaidKinds PROVE LaidOnly(r, t)
    BY <1>2, <1>3 DEF LaidOnly
  <1>4. ASSUME Chain(q, t), d = q[n] + Counted(t[n]) PROVE Chain(r, t)
    <2>1. r[1] = 0
      BY <1>2, <1>4 DEF Chain
    <2>2. ASSUME NEW i \in 1 .. n PROVE r[i + 1] = r[i] + Counted(t[i])
      <3>1. CASE i = n
        BY <1>2, <1>4, <3>1
      <3>2. CASE i \in 1 .. (n - 1)
        <4>1. q[i + 1] = q[i] + Counted(t[i])
          BY <1>4, <3>2 DEF Chain
        <4>2. r[i] = q[i] /\ r[i + 1] = q[i + 1]
          BY <1>2, <3>2
        <4> QED BY <4>1, <4>2
      <3> QED BY <3>1, <3>2
    <2> QED BY <1>2, <2>1, <2>2 DEF Chain
  <1> QED BY <1>1, <1>2, <1>3, <1>4

\* What the label of a statement at `location' stands for.
Locates(s, location) == location + IF s.kind = "data" THEN 1 ELSE 0

\* A new label.
\* The table with one label more, or as it was.
LabelAdded(key, location) ==
    labelTable' = [k \in DOMAIN labelTable \cup {key} |->
                      IF k \in {key} THEN location ELSE labelTable[k]]

SameLabels ==
    /\ DOMAIN labelTable' = DOMAIN labelTable
    /\ \A k \in DOMAIN labelTable : labelTable'[k] = labelTable[k]

\* What every step of pass 1 has in common: it places `This' at `location'.
Processes(location, width) ==
    /\ pass = "lay" /\ next <= Len(statements) /\ This.kind \in LaidKinds
    /\ location = IF This.kind \in {"data", "directive"}
                  THEN codeSectionLength + dataSectionLength ELSE codeSectionLength
    /\ placed' = Append(placed, location)
    /\ width = Counted(This)
    /\ codeSectionLength' = codeSectionLength + IF This.kind = "data" THEN 0 ELSE width
    /\ dataSectionLength' = dataSectionLength + IF This.kind = "data" THEN width ELSE 0
    /\ next' = next + 1 /\ statements' = statements /\ pass' = pass /\ bytecode' = bytecode
    /\ section' \in Sections
    /\ Defines(This) => /\ KeyOf(This) \notin DOMAIN labelTable
                        /\ LabelAdded(KeyOf(This), Locates(This, location))
    /\ ~ Defines(This) => SameLabels

\* Such a step lengthens the chain by what the statement was counted for.
LEMMA Processed ==
    ASSUME IInv, NEW location, NEW width, Processes(location, width)
    PROVE  IInv'
  <1>1. PICK t \in Seq(Statement), n \in Nat :
           /\ t = statements /\ n = next /\ n >= 1 /\ n <= Len(t) /\ Len(t) \in Nat
           /\ statements' = t /\ next' = n + 1 /\ pass = "lay" /\ pass' = "lay"
    <2>1. statements \in Seq(Statement) /\ next \in 1 .. (Len(statements) + 1)
      BY DEF IInv, Typed
    <2>2. Len(statements) \in Nat
      BY <2>1, LenProperties
    <2>3. /\ pass = "lay" /\ pass' = "lay" /\ next <= Len(statements)
          /\ next' = next + 1 /\ statements' = statements
      BY DEF Processes
    <2> QED BY <2>1, <2>2, <2>3
  <1>2. PICK c \in Nat, d \in Nat : c = codeSectionLength /\ d = dataSectionLength
    BY DEF IInv, Typed
  <1>3. PICK q \in Seq(Nat) : q = LaidSoFar
    <2>1. PICK o \in Seq(Nat), g \in Nat : o = placed /\ g = c + d
      BY DEF IInv, Typed
    <2>2. LaidSoFar = Append(o, g)
      BY <1>2, <2>1 DEF LaidSoFar
    <2>3. Append(o, g) \in Seq(Nat)
      BY AppendProperties
    <2> QED BY <2>2, <2>3
  <1>5. /\ AcceptedUpTo(t, Len(t) + 1) /\ Len(placed) = n - 1 /\ LaidOnly(q, t)
        /\ (NoDirective(t, n) => d = 0)
        /\ CodeFirst => Chain(q, t) /\ Labelled(labelTable, q, t)
    <2>1. /\ AcceptedUpTo(statements, Len(statements) + 1) /\ Len(placed) = next - 1
          /\ NoDirective(statements, next) => dataSectionLength = 0
          /\ LaidOnly(LaidSoFar, statements)
          /\ CodeFirst => Chain(LaidSoFar, statements) /\ Labelled(labelTable, LaidSoFar, statements)
      BY <1>1 DEF IInv
    <2> QED BY <1>1, <1>2, <1>3, <2>1, Zenon
  <1>4. Len(q) = n /\ q[n] = c + d
    <2>1. PICK p \in Seq(Nat) : p = placed /\ Len(p) = n - 1
      BY <1>5 DEF IInv, Typed
    <2>2. q = Append(p, c + d)
      BY <1>2, <1>3, <2>1 DEF LaidSoFar
    <2>3. Len(q) = Len(p) + 1 /\ q[Len(p) + 1] = c + d
      BY <2>2, AppendProperties
    <2> QED BY <2>1, <2>3
  <1>6. PICK s : s = t[n] /\ s = This /\ s.kind \in LaidKinds
    BY <1>1 DEF This, Processes
  <1>7. /\ s.kind = "data" => ~ NoDirective(t, n)
        /\ s.kind = "label" => NoDirective(t, n)
        /\ Counted(s) \in Nat
    <2>1. n \in 1 .. Len(t)
      BY <1>1
    <2>2. /\ t[n].kind = "data" => ~ NoDirective(t, n)
          /\ t[n].kind = "label" => NoDirective(t, n)
          /\ t[n].kind \in LaidKinds => Counted(t[n]) \in Nat
      BY <1>5, <2>1, Fits
    <2> QED BY <1>6, <2>2
  <1>8. PICK w \in Nat : w = width /\ w = Counted(s)
    BY <1>6, <1>7 DEF Processes
  <1>9. PICK l \in Nat : /\ l = location
                         /\ l = IF s.kind \in {"data", "directive"} THEN c + d ELSE c
    BY <1>2, <1>6 DEF Processes
  <1>10. PICK e \in Nat, f \in Nat :
            /\ e = codeSectionLength' /\ f = dataSectionLength'
            /\ e = c + IF s.kind = "data" THEN 0 ELSE w
            /\ f = d + IF s.kind = "data" THEN w ELSE 0
    <2>1. /\ codeSectionLength' = c + IF s.kind = "data" THEN 0 ELSE w
          /\ dataSectionLength' = d + IF s.kind = "data" THEN w ELSE 0
      BY <1>2, <1>6, <1>8 DEF Processes
    <2>2. CASE s.kind = "data"
      BY <2>1, <2>2
    <2>3. CASE s.kind # "data"
      BY <2>1, <2>3
    <2> QED BY <2>2, <2>3
  <1>11. PICK p \in Seq(Nat) : p = placed' /\ p = Append(placed, l) /\ Len(p) = n
    <2>1. PICK o \in Seq(Nat) : o = placed /\ Len(o) = n - 1
      BY <1>5 DEF IInv, Typed
    <2>2. placed' = Append(o, l)
      BY <1>9, <2>1 DEF Processes
    <2>3. Append(o, l) \in Seq(Nat) /\ Len(Append(o, l)) = Len(o) + 1
      BY AppendProperties
    <2>4. placed' = Append(placed, l)
      BY <2>1, <2>2
    <2>5. placed' \in Seq(Nat) /\ Len(placed') = n
      BY <2>1, <2>2, <2>3
    <2> QED BY <2>4, <2>5
  <1>12. PICK r \in Seq(Nat) : r = LaidSoFar' /\ r = Append(p, e + f) /\ Len(r) = n + 1
    <2>1. LaidSoFar' = Append(p, e + f)
      BY <1>10, <1>11 DEF LaidSoFar
    <2>2. PICK g \in Nat : g = e + f
      OBVIOUS
    <2>3. Append(p, g) \in Seq(Nat) /\ Len(Append(p, g)) = Len(p) + 1
      BY AppendProperties
    <2> QED BY <1>11, <2>1, <2>2, <2>3
  <1>13. NoDirective(t, n + 1) => f = 0
    <2>1. NoDirective(t, n + 1) => NoDirective(t, n)
      BY DEF NoDirective
    <2> QED BY <1>5, <1>7, <1>10, <2>1
  <1>14. LaidOnly(r, t)
    <2>1. \A i \in 1 .. (n - 1) : t[i].kind \in LaidKinds
      BY <1>4, <1>5 DEF LaidOnly
    <2>2. t[n].kind \in LaidKinds
      BY <1>6
    <2>3. \A i \in 1 .. n : t[i].kind \in LaidKinds
      BY <2>1, <2>2
    <2> QED BY <1>12, <2>3 DEF LaidOnly
  <1>15. /\ Defines(s) => KeyOf(s) \notin DOMAIN labelTable /\ LabelAdded(KeyOf(s), Locates(s, l))
         /\ ~ Defines(s) => SameLabels
    BY <1>6, <1>9 DEF Processes
  <1>16. \A k \in DOMAIN labelTable' : labelTable'[k] \in Nat
    <2>1. \A k \in DOMAIN labelTable : labelTable[k] \in Nat
      BY DEF IInv, Typed
    <2>2. Locates(s, l) \in Nat
      BY DEF Locates
    <2> QED BY <1>15, <2>1, <2>2 DEF LabelAdded, SameLabels
  <1>17. ASSUME CodeFirst PROVE Chain(r, t) /\ Labelled(labelTable', r, t)
    <2>1. Chain(q, t) /\ Labelled(labelTable, q, t)
      BY <1>5, <1>17
    <2>2. l = c + d
      <3>1. CASE s.kind \in {"data", "directive"}
        BY <1>9, <3>1
      <3>2. CASE s.kind \in {"instruction", "method", "label"}
        <4>1. s.kind \in {"instruction", "method"} => NoDirective(t, n)
          <5>1. \A j \in 1 .. (n - 1) : t[n].kind \in {"instruction", "method"} =>
                                           t[j].kind # "directive"
            BY <1>1, <1>17 DEF CodeFirst
          <5>2. t[n] = s
            BY <1>6
          <5> QED BY <5>1, <5>2 DEF NoDirective
        <4>2. d = 0
          BY <1>5, <1>7, <3>2, <4>1
        <4> QED BY <1>9, <3>2, <4>2
      <3> QED BY <1>6, <3>1, <3>2 DEF LaidKinds
    <2>3. p = q
      BY <1>2, <1>3, <1>11, <2>2 DEF LaidSoFar
    <2>4. PICK g \in Nat : g = e + f /\ g = (c + d) + w
      BY <1>10
    <2>5. r = Append(q, g)
      BY <1>12, <2>3, <2>4
    <2>6. g = q[n] + Counted(t[n])
      BY <1>4, <1>6, <1>8, <2>4
    <2>7. Chain(r, t)
      BY <1>1, <1>4, <2>1, <2>5, <2>6, Extended
    <2>8. ASSUME NEW i \in 1 .. n, Defines(t[i])
          PROVE  /\ KeyOf(t[i]) \in DOMAIN labelTable'
                 /\ labelTable'[KeyOf(t[i])] = r[i] + IF t[i].kind = "data" THEN 1 ELSE 0
      <3>1. r[i] = q[i]
        BY <1>1, <1>4, <2>5, Extended
      <3>2. CASE i = n
        <4>1. LabelAdded(KeyOf(s), Locates(s, l)) /\ t[i] = s
          BY <1>6, <1>15, <2>8, <3>2
        <4>2. labelTable'[KeyOf(s)] = Locates(s, l) /\ KeyOf(s) \in DOMAIN labelTable'
          BY <4>1 DEF LabelAdded
        <4>3. r[i] = l
          BY <1>4, <2>2, <3>1, <3>2
        <4> QED BY <4>1, <4>2, <4>3 DEF Locates
      <3>3. CASE i \in 1 .. (n - 1)
        <4>1. /\ KeyOf(t[i]) \in DOMAIN labelTable
              /\ labelTable[KeyOf(t[i])] = q[i] + IF t[i].kind = "data" THEN 1 ELSE 0
          BY <1>4, <2>1, <2>8, <3>3 DEF Labelled
        <4>2. /\ KeyOf(t[i]) \in DOMAIN labelTable'
              /\ labelTable'[KeyOf(t[i])] = labelTable[KeyOf(t[i])]
          <5>1. CASE Defines(s)
            BY <1>15, <4>1, <5>1 DEF LabelAdded
          <5>2. CASE ~ Defines(s)
            BY <1>15, <4>1, <5>2 DEF SameLabels
          <5> QED BY <5>1, <5>2
        <4> QED BY <3>1, <4>1, <4>2
      <3> QED BY <3>2, <3>3
    <2>9. Labelled(labelTable', r, t)
      BY <1>12, <2>8 DEF Labelled
    <2> QED BY <2>7, <2>9
  <1>18. Typed'
    <2>1. section' \in Sections
      BY DEF Processes
    <2>2. next' \in 1 .. (Len(statements') + 1)
      BY <1>1
    <2> QED BY <1>1, <1>10, <1>11, <1>16, <2>1, <2>2 DEF Typed
  <1>19. CodeFirst' <=> CodeFirst
    BY <1>1 DEF CodeFirst
  <1>20. bytecode' = <<>>
    BY <1>1 DEF IInv, Processes
  <1> QED BY <1>1, <1>5, <1>10, <1>11, <1>12, <1>13, <1>14, <1>17, <1>18, <1>19, <1>20 DEF IInv

\* The steps of pass 1 are of this form.
LEMMA Laid ==
    ASSUME IInv, \/ ProcessLabel \/ ProcessMethod \/ ProcessInstruction
                 \/ ProcessData \/ ProcessDirective
    PROVE  IInv'
  <1>1. pass = "lay" /\ next <= Len(statements) /\ pass' = pass /\ next' = next + 1
        /\ statements' = statements /\ bytecode' = bytecode
    BY DEF ProcessLabel, ProcessMethod, ProcessInstruction, ProcessData, ProcessDirective, Laying,
           AtStatement, Step, output
  <1>2. next \in 1 .. Len(statements) /\ codeSectionLength \in Nat /\ dataSectionLength \in Nat
        /\ section \in Sections
    BY <1>1 DEF IInv, Typed
  <1>3. This \in Statement /\ (This.kind = "instruction" => This \in Instruction /\ OperandsFit(This))
        /\ (This.kind = "data" => This \in DataDef)
    <2>1. statements \in Seq(Statement) /\ AcceptedUpTo(statements, Len(statements) + 1)
      BY <1>1 DEF IInv, Typed
    <2> QED BY <1>2, <2>1, Fits DEF This
  <1>4. CASE ProcessLabel
    <2>1. This.kind = "label" /\ KeyOf(This) = getKey(This.name, "CODE")
      BY <1>4 DEF ProcessLabel, Laying, AtStatement, This, KeyOf
    <2>2. KeyOf(This) \notin DOMAIN labelTable
      BY <1>4, <2>1 DEF ProcessLabel, NotDefinedYet
    <2>3. LabelAdded(KeyOf(This), Locates(This, codeSectionLength))
      BY <1>2, <1>4, <2>1 DEF ProcessLabel, Labels, Locates, LabelAdded
    <2>4. Counted(This) = 0
      BY <2>1 DEF Counted
    <2>5. section' \in Sections /\ placed' = Append(placed, codeSectionLength)
          /\ codeSectionLength' = codeSectionLength + 0
          /\ dataSectionLength' = dataSectionLength + 0
      BY <1>2, <1>4 DEF ProcessLabel, Place
    <2>6. Processes(codeSectionLength, 0)
      BY <1>1, <2>1, <2>2, <2>3, <2>4, <2>5 DEF Processes, LaidKinds, Defines
    <2> QED BY <2>6, Processed
  <1>5. CASE ProcessMethod
    <2>1. This.kind = "method" /\ KeyOf(This) = getKey(This.name, "METHOD")
      BY <1>5 DEF ProcessMethod, Laying, AtStatement, This, KeyOf
    <2>2. KeyOf(This) \notin DOMAIN labelTable
      BY <1>5, <2>1 DEF ProcessMethod, NotDefinedYet
    <2>3. LabelAdded(KeyOf(This), Locates(This, codeSectionLength))
      BY <1>2, <1>5, <2>1 DEF ProcessMethod, Labels, Locates, LabelAdded
    <2>4. Counted(This) = 5
      BY <2>1 DEF Counted
    <2>5. section' \in Sections /\ placed' = Append(placed, codeSectionLength)
          /\ codeSectionLength' = codeSectionLength + 5
          /\ dataSectionLength' = dataSectionLength + 0
      BY <1>2, <1>5 DEF ProcessMethod, Place
    <2>6. Processes(codeSectionLength, 5)
      BY <1>1, <2>1, <2>2, <2>3, <2>4, <2>5 DEF Processes, LaidKinds, Defines
    <2> QED BY <2>6, Processed
  <1>6. CASE ProcessInstruction
    <2>1. This.kind = "instruction"
      BY <1>6 DEF ProcessInstruction, Laying, AtStatement, This
    <2>2. PICK a \in Nat, b \in Nat : a = CountedBytes(This, This.first) /\ b = CountedBytes(This, This.second)
      BY <1>3, <2>1, OperandBytes
    <2>3. SameLabels
      BY <1>6 DEF ProcessInstruction, Labels, SameLabels
    <2>4. Counted(This) = 1 + a + b
      BY <2>1, <2>2 DEF Counted
    <2>5. section' \in Sections /\ placed' = Append(placed, codeSectionLength)
          /\ codeSectionLength' = codeSectionLength + (1 + a + b)
          /\ dataSectionLength' = dataSectionLength + 0
      BY <1>2, <1>6, <2>2 DEF ProcessInstruction, Place
    <2>6. ~ Defines(This) /\ This.kind \in LaidKinds
      BY <2>1 DEF Defines, LaidKinds
    <2>7. Processes(codeSectionLength, Counted(This))
      BY <1>1, <2>1, <2>3, <2>4, <2>5, <2>6 DEF Processes
    <2> QED BY <2>7, Processed
  <1>7. CASE ProcessData
    <2>1. This.kind = "data" /\ KeyOf(This) = getKey(This.name, "DATA")
      BY <1>7 DEF ProcessData, Laying, AtStatement, This, KeyOf
    <2>2. KeyOf(This) \notin DOMAIN labelTable
      BY <1>7, <2>1 DEF ProcessData, NotDefinedYet
    <2>3. PICK l \in Nat : l = codeSectionLength + dataSectionLength
      BY <1>2
    <2>4. LabelAdded(KeyOf(This), Locates(This, l))
      BY <1>7, <2>1, <2>3 DEF ProcessData, Labels, Locates, LabelAdded
    <2>5. Counted(This) = calculateBytesOfData(This)
      BY <2>1 DEF Counted
    <2>6. section' \in Sections /\ placed' = Append(placed, l)
          /\ codeSectionLength' = codeSectionLength + 0
          /\ dataSectionLength' = dataSectionLength + Counted(This)
      BY <1>2, <1>7, <2>3, <2>5 DEF ProcessData, Place
    <2>7. Processes(l, Counted(This))
      BY <1>1, <2>1, <2>2, <2>3, <2>4, <2>6 DEF Processes, LaidKinds, Defines
    <2> QED BY <2>7, Processed
  <1>8. CASE ProcessDirective
    <2>1. This.kind = "directive" /\ This.section \in Sections
      <3>1. This.kind = "directive"
        BY <1>8 DEF ProcessDirective, Laying, AtStatement, This
      <3> QED BY <1>3, <3>1 DEF Statement, Instruction, LabelDef, MethodDef, DataDef, Directive,
                               SourceEntry, FunctionEntry, LineEntry
    <2>2. PICK l \in Nat : l = codeSectionLength + dataSectionLength
      BY <1>2
    <2>3. ~ Defines(This) /\ This.kind \in LaidKinds
      BY <2>1 DEF Defines, LaidKinds
    <2>4. Counted(This) = 0
      BY <2>1 DEF Counted
    <2>5. section' \in Sections /\ placed' = Append(placed, l)
          /\ codeSectionLength' = codeSectionLength + 0
          /\ dataSectionLength' = dataSectionLength + 0
      BY <1>2, <1>8, <2>1, <2>2 DEF ProcessDirective, Place
    <2>6. SameLabels
      BY <1>8 DEF ProcessDirective, SameLabels
    <2>7. Processes(l, 0)
      BY <1>1, <2>1, <2>2, <2>3, <2>4, <2>5, <2>6 DEF Processes
    <2> QED BY <2>7, Processed
  <1> QED BY <1>4, <1>5, <1>6, <1>7, <1>8

\* Pass 2 begins at the beginning of the chain.
LEMMA LaidOut ==
    ASSUME IInv, LabelTableConstructed
    PROVE  IInv'
  <1>1. /\ pass = "lay" /\ pass' = "encode" /\ next' = 1 /\ section' = "CODE"
        /\ statements' = statements /\ labelTable' = labelTable /\ bytecode' = bytecode
        /\ codeSectionLength' = codeSectionLength /\ dataSectionLength' = dataSectionLength
        /\ placed' = LaidSoFar
    BY DEF LabelTableConstructed, Place, LaidSoFar
  <1>2. /\ AcceptedUpTo(statements, Len(statements) + 1) /\ Typed
        /\ bytecode = <<>> /\ Len(placed) = next - 1
        /\ LaidOnly(LaidSoFar, statements)
        /\ CodeFirst => Chain(LaidSoFar, statements) /\ Labelled(labelTable, LaidSoFar, statements)
    BY <1>1 DEF IInv
  <1>3. statements \in Seq(Statement) /\ Len(statements) \in Nat /\ next \in 1 .. (Len(statements) + 1)
    BY <1>2, LenProperties DEF Typed
  <1>4. placed' \in Seq(Nat) /\ Len(placed') = next
    <2>1. PICK p \in Seq(Nat), d \in Nat : p = placed /\ d = codeSectionLength + dataSectionLength
      BY <1>2 DEF Typed
    <2>2. Append(p, d) \in Seq(Nat) /\ Len(Append(p, d)) = Len(p) + 1
      BY AppendProperties
    <2> QED BY <1>1, <1>2, <1>3, <2>1, <2>2 DEF LaidSoFar
  <1>5. Typed'
    BY <1>1, <1>2, <1>3, <1>4 DEF Typed, Sections
  <1>6. CodeFirst' <=> CodeFirst
    BY <1>1 DEF CodeFirst
  <1>7. IsSeq(bytecode') /\ Len(bytecode') = 0
    BY <1>1, <1>2, EmptyFacts
  <1>8. LaidOnly(placed', statements') /\ AcceptedUpTo(statements', Len(statements') + 1)
        /\ (CodeFirst' => Chain(placed', statements') /\ Labelled(labelTable', placed', statements'))
    BY <1>1, <1>2, <1>6
  <1>9. CodeFirst' => Len(bytecode') = placed'[next']
    <2>1. CodeFirst' => placed'[1] = 0
      BY <1>8 DEF Chain
    <2> QED BY <1>1, <1>7, <2>1
  <1>10. Len(placed') \in 1 .. (Len(statements') + 1)
    BY <1>1, <1>3, <1>4
  <1> QED BY <1>1, <1>5, <1>7, <1>8, <1>9, <1>10 DEF IInv

-----------------------------------------------------------------------------
\* What every step of pass 2 has in common: it writes the bytes of `This'.
Writes(bytes) ==
    /\ pass = "encode" /\ next <= Len(statements)
    /\ next' = next + 1 /\ pass' = pass /\ statements' = statements
    /\ section' \in Sections
    /\ UNCHANGED <<labelTable, codeSectionLength, dataSectionLength, placed>>
    /\ bytecode' = bytecode \o bytes \/ (bytes = <<>> /\ bytecode' = bytecode)
    /\ This.kind \in LaidKinds => IsSeq(bytes) /\ (ShortTexts => Len(bytes) = Counted(This))

\* Such a step goes from one place of the chain to the next.
LEMMA BytesWritten ==
    ASSUME IInv, NEW bytes, Writes(bytes)
    PROVE  IInv'
  <1>1. /\ pass = "encode" /\ pass' = "encode" /\ next' = next + 1 /\ next <= Len(statements)
        /\ statements' = statements /\ labelTable' = labelTable /\ placed' = placed
        /\ codeSectionLength' = codeSectionLength /\ dataSectionLength' = dataSectionLength
        /\ section' \in Sections
    BY DEF Writes
  <1>2. /\ AcceptedUpTo(statements, Len(statements) + 1) /\ Typed
        /\ Len(placed) \in 1 .. (Len(statements) + 1)
        /\ LaidOnly(placed, statements)
        /\ CodeFirst => Chain(placed, statements) /\ Labelled(labelTable, placed, statements)
        /\ next <= Len(placed) =>
              /\ IsSeq(bytecode)
              /\ CodeFirst /\ ShortTexts => Len(bytecode) = placed[next]
    BY <1>1 DEF IInv
  <1>3. /\ statements \in Seq(Statement) /\ Len(statements) \in Nat
        /\ next \in 1 .. Len(statements) /\ placed \in Seq(Nat) /\ Len(placed) \in Nat
    BY <1>1, <1>2, LenProperties DEF Typed
  <1>4. Typed'
    <2>1. next' \in 1 .. (Len(statements') + 1)
      BY <1>1, <1>3
    <2> QED BY <1>1, <1>2, <1>3, <2>1 DEF Typed
  <1>5. (CodeFirst' <=> CodeFirst) /\ (ShortTexts' <=> ShortTexts)
    BY <1>1 DEF CodeFirst, ShortTexts
  <1>6. ASSUME next + 1 <= Len(placed)
        PROVE  /\ IsSeq(bytecode')
               /\ CodeFirst /\ ShortTexts => Len(bytecode') = placed[next + 1]
    <2>1. PICK n \in Nat : n = next /\ n >= 1 /\ n \in 1 .. (Len(placed) - 1) /\ n <= Len(placed)
      BY <1>3, <1>6
    <2>2. This.kind \in LaidKinds
      BY <1>2, <2>1 DEF LaidOnly, This
    <2>3. IsSeq(bytes) /\ (ShortTexts => Len(bytes) = Counted(This))
      BY <2>2 DEF Writes
    <2>4. IsSeq(bytecode) /\ (CodeFirst /\ ShortTexts => Len(bytecode) = placed[n])
      BY <1>2, <2>1
    <2>5. IsSeq(bytecode') /\ Len(bytecode') = Len(bytecode) + Len(bytes)
      <3>1. CASE bytecode' = bytecode \o bytes
        BY <2>3, <2>4, <3>1, Concatenated
      <3>2. CASE bytes = <<>> /\ bytecode' = bytecode
        <4>1. Len(bytecode) \in Nat /\ Len(bytes) = 0
          BY <2>4, <3>2, EmptyFacts, LenProperties DEF IsSeq
        <4> QED BY <2>4, <3>2, <4>1
      <3> QED BY <3>1, <3>2 DEF Writes
    <2>6. ASSUME CodeFirst, ShortTexts PROVE Len(bytecode') = placed[n + 1]
      <3>1. placed[n + 1] = placed[n] + Counted(statements[n])
        BY <1>2, <2>1, <2>6 DEF Chain
      <3>2. Counted(statements[n]) = Len(bytes)
        BY <2>1, <2>3, <2>6 DEF This
      <3> QED BY <2>4, <2>5, <2>6, <3>1, <3>2
    <2> QED BY <2>1, <2>5, <2>6
  <1> QED BY <1>1, <1>2, <1>4, <1>5, <1>6 DEF IInv

\* The steps of pass 2 are of this form.
LEMMA Encoded ==
    ASSUME IInv, \/ EncodeLabel \/ EncodeDirective \/ EncodeMethod \/ EncodeInstruction
                 \/ EncodeData \/ EncodeMetadata
    PROVE  IInv'
  <1>1. /\ pass = "encode" /\ next <= Len(statements) /\ pass' = pass /\ next' = next + 1
        /\ statements' = statements
        /\ UNCHANGED <<labelTable, codeSectionLength, dataSectionLength, placed>>
    BY DEF EncodeLabel, EncodeDirective, EncodeMethod, EncodeInstruction, EncodeData,
           EncodeMetadata, Encoding, AtStatement, Step, Emit, tables
  <1>2. next \in 1 .. Len(statements) /\ section \in Sections
    BY <1>1 DEF IInv, Typed
  <1>3. /\ This \in Statement
        /\ This.kind = "instruction" => This \in Instruction /\ OperandsFit(This)
        /\ This.kind = "method" => This \in MethodDef
        /\ This.kind = "data" => This \in DataDef
    <2>1. statements \in Seq(Statement) /\ AcceptedUpTo(statements, Len(statements) + 1)
      BY <1>1 DEF IInv, Typed
    <2> QED BY <1>2, <2>1, Fits DEF This
  <1>4. CASE EncodeLabel
    <2>1. This.kind = "label" /\ bytecode' = bytecode \o <<>> /\ section' = section
      BY <1>4 DEF EncodeLabel, Encoding, AtStatement, This, Emit
    <2>2. Counted(This) = 0
      BY <2>1 DEF Counted
    <2>3. Writes(<<>>)
      BY <1>1, <1>2, <2>1, <2>2, EmptyFacts DEF Writes
    <2> QED BY <2>3, BytesWritten
  <1>5. CASE EncodeDirective
    <2>1. This.kind = "directive" /\ bytecode' = bytecode /\ section' = This.section
      BY <1>5 DEF EncodeDirective, Encoding, AtStatement, This, output
    <2>2. This.section \in Sections
      BY <1>3, <2>1 DEF Statement, Instruction, LabelDef, MethodDef, DataDef, Directive,
                        SourceEntry, FunctionEntry, LineEntry
    <2>3. Counted(This) = 0
      BY <2>1 DEF Counted
    <2>4. Writes(<<>>)
      BY <1>1, <2>1, <2>2, <2>3, EmptyFacts DEF Writes
    <2> QED BY <2>4, BytesWritten
  <1>6. CASE EncodeMethod
    <2>1. /\ This.kind = "method" /\ bytecode' = bytecode \o convertMethodDefToBytes(This)
          /\ section' = section
      BY <1>6 DEF EncodeMethod, Encoding, AtStatement, This, Emit
    <2>2. /\ IsSeq(convertMethodDefToBytes(This))
          /\ Len(convertMethodDefToBytes(This)) = Counted(This)
      BY <1>3, <2>1, MethodBytes
    <2>3. Writes(convertMethodDefToBytes(This))
      BY <1>1, <1>2, <2>1, <2>2 DEF Writes
    <2> QED BY <2>3, BytesWritten
  <1>7. CASE EncodeInstruction
    <2>1. /\ This.kind = "instruction" /\ bytecode' = bytecode \o convertInstructionToBytes(This)
          /\ section' = section
      BY <1>7 DEF EncodeInstruction, Encoding, AtStatement, This, Emit
    <2>2. /\ IsSeq(convertInstructionToBytes(This))
          /\ Len(convertInstructionToBytes(This)) = Counted(This)
      BY <1>3, <2>1, InstructionBytes
    <2>3. Writes(convertInstructionToBytes(This))
      BY <1>1, <1>2, <2>1, <2>2 DEF Writes
    <2> QED BY <2>3, BytesWritten
  <1>8. CASE EncodeData
    <2>1. /\ This.kind = "data" /\ bytecode' = bytecode \o convertDataStatementToBytes(This)
          /\ section' = section
      BY <1>8 DEF EncodeData, Encoding, AtStatement, This, Emit
    <2>2. /\ IsSeq(convertDataStatementToBytes(This))
          /\ (This.type = "str" => TextLength[This.value.of] <= 250)
                => Len(convertDataStatementToBytes(This)) = Counted(This)
      BY <1>3, <2>1, DataBytes
    <2>3. ShortTexts => (This.type = "str" => TextLength[This.value.of] <= 250)
      BY <1>2, <2>1 DEF ShortTexts, This
    <2>4. Writes(convertDataStatementToBytes(This))
      BY <1>1, <1>2, <2>1, <2>2, <2>3 DEF Writes
    <2> QED BY <2>4, BytesWritten
  <1>9. CASE EncodeMetadata
    <2>1. PICK bytes : /\ This.kind \in {"source", "function", "line"}
                       /\ bytecode' = bytecode \o bytes /\ section' = section
      <3>1. CASE Encoding("source") /\ Emit(convertSourceMetadata(This))
        BY <3>1 DEF Encoding, AtStatement, This, Emit
      <3>2. CASE Encoding("function") /\ Emit(convertFunctionMetadata(This))
        BY <3>2 DEF Encoding, AtStatement, This, Emit
      <3>3. CASE Encoding("line") /\ Emit(convertLineTableMetadata(This))
        BY <3>3 DEF Encoding, AtStatement, This, Emit
      <3> QED BY <1>9, <3>1, <3>2, <3>3 DEF EncodeMetadata
    <2>2. Writes(bytes)
      BY <1>1, <1>2, <2>1 DEF Writes, LaidKinds
    <2> QED BY <2>2, BytesWritten
  <1> QED BY <1>4, <1>5, <1>6, <1>7, <1>8, <1>9

-----------------------------------------------------------------------------
\* Every step of the assembler.
LEMMA Assembled ==
    ASSUME IInv, assemble
    PROVE  IInv'
  <1>1. CASE parse
    BY <1>1, ParsedToken, EndOfParse DEF parse
  <1>2. CASE DuplicateLabel \/ UndefinedLabel \/ EncodeFails
    BY <1>2, Stopped DEF DuplicateLabel, UndefinedLabel, EncodeFails, Fail, tables, output
  <1>3. CASE BytecodeGenerated
    BY <1>3, Stopped DEF BytecodeGenerated, tables
  <1> QED BY <1>1, <1>2, <1>3, Laid, LaidOut, Encoded
          DEF assemble, constructLabelTable, generateBytecode

\* What the invariant is for.
LEMMA Sound == IInv => AsmTypeOK /\ PassesAgree /\ LabelsNameTheirBytes
  <1> SUFFICES ASSUME IInv PROVE AsmTypeOK /\ PassesAgree /\ LabelsNameTheirBytes
    OBVIOUS
  <1>1. ASSUME CodeFirst, ShortTexts, pass = "encode", next <= Len(placed)
        PROVE  Len(bytecode) = placed[next]
    BY <1>1 DEF IInv
  <1>2. PassesAgree
    BY <1>1 DEF PassesAgree
  <1>3. ASSUME CodeFirst, ShortTexts, pass = "encode", next < Len(placed),
               This.kind \in {"label", "method", "data"}
        PROVE  labelTable[KeyOf(This)] = Len(bytecode) + IF This.kind = "data" THEN 1 ELSE 0
    <2>1. /\ Labelled(labelTable, placed, statements) /\ Len(placed) \in 1 .. (Len(statements) + 1)
          /\ next \in 1 .. (Len(statements) + 1) /\ statements \in Seq(Statement)
      BY <1>3 DEF IInv, Typed
    <2>2. Len(statements) \in Nat
      BY <2>1, LenProperties
    <2>3. next \in 1 .. (Len(placed) - 1) /\ next <= Len(placed)
      BY <1>3, <2>1, <2>2
    <2>4. labelTable[KeyOf(This)] = placed[next] + IF This.kind = "data" THEN 1 ELSE 0
      BY <1>3, <2>1, <2>3 DEF Labelled, Defines, This
    <2> QED BY <1>1, <1>3, <2>3, <2>4
  <1>4. AsmTypeOK
    BY DEF IInv, Typed, AsmTypeOK
  <1> QED BY <1>2, <1>3, <1>4 DEF LabelsNameTheirBytes

\* The invariant is one.
LEMMA Invariance == AsmSpec => []IInv
  <1> DEFINE Any == assemble \/ \E program \in Seq(Statement) : assembleString(program)
  <1>1. IInv /\ [Any]_asmVars => IInv'
    BY Idle, Given, Assembled
  <1> QED BY Initially, <1>1, PTL DEF AsmSpec

-----------------------------------------------------------------------------
\* Whatever the program, pass 2 stands at the byte where pass 1 put the
\* statement it writes (constructLabelTable and generateBytecode,
\* src/src/assembler/Assembler.cpp:40 and :229), up to the end of the data.
THEOREM PassesCountAlike == AsmSpec => [](AsmTypeOK /\ PassesAgree)
  BY Invariance, Sound, PTL

\* Whatever the program, the address that the table gives a method, a code
\* label or a definition of data is where pass 2 writes its bytes
\* (src/src/assembler/Assembler.cpp:102 and :172): no jump, call or load
\* goes to any other byte.
THEOREM LabelsRight == AsmSpec => []LabelsNameTheirBytes
  BY Invariance, Sound, PTL
=============================================================================
