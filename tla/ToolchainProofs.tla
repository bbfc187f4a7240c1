-------------------------- MODULE ToolchainProofs ---------------------------
(***************************************************************************)
(* Proofs about Toolchain, for every text that the assembler is given.     *)
(* AssemblerProofs says where statements are placed; here is what follows  *)
(* for the VM: the bytes at an instruction's place are that instruction's  *)
(* (WrittenIn), the loader keeps all of them (CodeLoaded), they decode as  *)
(* the run loop reads them (InstructionDecodes), and from the beginning of *)
(* one instruction the loop comes to the beginning of another (OnItsWay):  *)
(* to the next one (LeadsOn), or to the one behind a label (LabelStarts),  *)
(* or back behind a call.  The second part is about the tables: the        *)
(* entries that the bytes hold (EntriesIn), and that the loader's reading, *)
(* which has only the header's lengths to go by, finds each of them and    *)
(* nothing else (EntriesAlong, SectionRead).  The third is about what the  *)
(* tables say: the emitter's addresses are the assembler's (Emission,      *)
(* PlacesAgree), merging keeps what was said (Merging), and the search     *)
(* finds the entry of an address (LookUpFinds).                            *)
(***************************************************************************)
EXTENDS Toolchain, AssemblerProofs, FiniteSetTheorems, WellFoundedInduction

\* Behind statement i, labels aside, an instruction comes.
Leads(t, i) ==
    \E j \in (i + 1) .. Len(t) :
        IsInstruction(t[j]) /\ \A l \in (i + 1) .. (j - 1) : t[l].kind = "label"

\* Behind these the loop does not go on to what comes next in memory.
Leaving == {"jmp", "ret", "throw", "halt"}

\* A text that the two passes count alike.
Ordered == statements \in Seq(Statement) /\ CodeFirst /\ ShortTexts

\* A text of the assembly language in the order that its documentation gives,
\* whose methods do not run off their end.
WellFormed ==
    /\ Ordered
    /\ Leads(statements, 0)
    /\ \A i \in 1 .. Len(statements) :
          \/ statements[i].kind \in {"label", "method"}
          \/ IsInstruction(statements[i]) /\ statements[i].op \notin Leaving
          => Leads(statements, i)

-----------------------------------------------------------------------------
(***************************************************************************)
(* The invariant.                                                          *)
(***************************************************************************)
\* The bytes e stand in b behind position p.
Holds(b, p, e) == p + Len(e) <= Len(b) /\ \A k \in 1 .. Len(e) : b[p + k] = e[k]

\* Every label in the table is that of a statement before n.
KnownBefore(n) ==
    \A k \in DOMAIN labelTable :
        \E i \in 1 .. (n - 1) : Defines(statements[i]) /\ KeyOf(statements[i]) = k

End == placed[Len(placed)]

\* What pass 1 has left behind.
Chained ==
    /\ AcceptedUpTo(statements, Len(statements) + 1)
    /\ Len(placed) \in 1 .. (Len(statements) + 1)
    /\ Len(placed) <= Len(statements) => statements[Len(placed)].kind = "directive"
    /\ LaidOnly(placed, statements)
    /\ Chain(placed, statements)
    /\ Labelled(labelTable, placed, statements)
    /\ KnownBefore(Len(placed))
    /\ header.dataEnd = HeaderLength + End - 1

\* The bytes b are what pass 2 writes of the statements before n.
WrittenIn(b, n) ==
    /\ IsSeq(b)
    /\ \A i \in 1 .. Len(placed) : i <= n => placed[i] <= Len(b)
    /\ \A i \in 1 .. (n - 1) :
          i < Len(placed) /\ IsInstruction(statements[i]) =>
             /\ Resolved(statements[i])
             /\ Holds(b, placed[i], convertInstructionToBytes(statements[i]))

\* What the assembler has done so far, besides AssemblerProofs' invariant.
Assembling ==
    Ordered =>
        /\ IInv
        /\ pass = "lay" => KnownBefore(next)
        /\ pass \in {"encode", "done"} => Chained /\ WrittenIn(bytecode, next)
        /\ pass = "done" => next = Len(statements) + 1

\* The addresses at which an instruction begins.
Starts == {placed[i] : i \in Instructions}

\* The VM holds the code and stands, or comes back to, where one begins.
Executing ==
    /\ pass = "done"
    /\ WellFormed =>
          /\ IsSeq(code)
          /\ \A i \in Instructions :
                Holds(code, placed[i], convertInstructionToBytes(statements[i]))
          /\ frames \in Seq(Starts)
          /\ Looping => PC \in Starts

\* The inductive invariant.
TInv ==
    /\ tool \in {"driver", "emitter"} => NewAssembler
    /\ tool \in {"driver", "emitter", "assembler"} => NewVM
    /\ pass = "idle" => NewAssembler
    /\ Assembling
    /\ tool = "vm" => Executing

-----------------------------------------------------------------------------
(***************************************************************************)
(* Places.                                                                 *)
(***************************************************************************)
\* A set of naturals that is not empty has a least element.
LEMMA LeastOfNaturals ==
    ASSUME NEW T, T \subseteq Nat, T # {}
    PROVE  \E x \in T : \A y \in T : x <= y
  <1> DEFINE R == OpToRel(<, Nat)
  <1>1. IsWellFoundedOn(R, Nat)
    BY NatLessThanWellFounded
  <1>2. \A x, y \in Nat : y < x => <<y, x>> \in R
    BY DEF OpToRel
  <1> HIDE DEF R
  <1>3. PICK x \in T : \A y \in T : ~ (<<y, x>> \in R)
    BY <1>1, WFMin
  <1>4. \A y \in T : ~ (y < x)
    BY <1>2, <1>3
  <1> QED BY <1>3, <1>4

\* What places are: those of an accepted text.
ChainOf(q, t) ==
    /\ t \in Seq(Statement) /\ AcceptedUpTo(t, Len(t) + 1)
    /\ q \in Seq(Nat) /\ Len(q) \in 1 .. (Len(t) + 1)
    /\ LaidOnly(q, t) /\ Chain(q, t)

\* One link of the chain.
LEMMA ChainStep ==
    ASSUME NEW q, NEW t, ChainOf(q, t), NEW i \in 1 .. (Len(q) - 1)
    PROVE  /\ q[i] \in Nat /\ q[i + 1] \in Nat /\ Counted(t[i]) \in Nat
           /\ q[i + 1] = q[i] + Counted(t[i])
           /\ i \in 1 .. Len(t) /\ Len(q) \in Nat /\ Len(t) \in Nat
  <1>1. PICK m \in Nat, n \in Nat : m = Len(q) /\ n = Len(t) /\ m <= n + 1
    BY LenProperties DEF ChainOf
  <1>2. i \in 1 .. m /\ i + 1 \in 1 .. m /\ i \in 1 .. n
    BY <1>1
  <1>3. q[i] \in Nat /\ q[i + 1] \in Nat
    BY <1>1, <1>2, ElementOfSeq DEF ChainOf
  <1>4. t[i].kind \in LaidKinds
    BY DEF ChainOf, LaidOnly
  <1>5. Counted(t[i]) \in Nat
    BY <1>1, <1>2, <1>4, Fits DEF ChainOf
  <1> QED BY <1>1, <1>2, <1>3, <1>5 DEF ChainOf, Chain

\* Later statements are not placed before earlier ones, and not behind them
\* if there are only labels in between.
LEMMA ChainGrows ==
    ASSUME NEW q, NEW t, ChainOf(q, t), NEW i \in 1 .. Len(q), NEW j \in i .. Len(q)
    PROVE  /\ q[i] <= q[j]
           /\ (\A l \in i .. (j - 1) : t[l].kind = "label") => q[i] = q[j]
  <1>1. PICK m \in Nat : m = Len(q) /\ i \in 1 .. m /\ j \in i .. m
    BY LenProperties DEF ChainOf
  <1>2. q[i] \in Nat
    BY <1>1, ElementOfSeq DEF ChainOf
  <1> DEFINE Good(x) == /\ q[i] <= q[x]
                        /\ (\A l \in i .. (x - 1) : t[l].kind = "label") => q[i] = q[x]
             T == {x \in i .. m : ~ Good(x)}
  <1> SUFFICES ASSUME T # {} PROVE FALSE
    BY <1>1
  <1>3. PICK x \in T : \A y \in T : x <= y
    <2>1. T \subseteq Nat
      BY <1>1
    <2> HIDE DEF T
    <2> QED BY <2>1, LeastOfNaturals
  <1>4. x \in i .. m /\ x # i
    BY <1>2, <1>3
  <1>5. x - 1 \in i .. m /\ x - 1 \in 1 .. (m - 1) /\ (x - 1) + 1 = x /\ ~ (x <= x - 1)
    BY <1>1, <1>4
  <1>6. Good(x - 1)
    BY <1>3, <1>5
  <1>7. q[x - 1] \in Nat /\ q[x] \in Nat /\ Counted(t[x - 1]) \in Nat
        /\ q[x] = q[x - 1] + Counted(t[x - 1])
    BY <1>1, <1>5, ChainStep
  <1>8. q[i] <= q[x]
    BY <1>2, <1>6, <1>7
  <1>9. ASSUME \A l \in i .. (x - 1) : t[l].kind = "label" PROVE q[i] = q[x]
    <2>1. x - 1 \in i .. (x - 1) /\ \A l \in i .. ((x - 1) - 1) : l \in i .. (x - 1)
      BY <1>1, <1>5
    <2>2. t[x - 1].kind = "label" /\ q[i] = q[x - 1]
      BY <1>6, <1>9, <2>1
    <2>3. Counted(t[x - 1]) = 0
      BY <2>2 DEF Counted
    <2> QED BY <1>7, <2>2, <2>3
  <1> QED BY <1>3, <1>8, <1>9

-----------------------------------------------------------------------------
(***************************************************************************)
(* Bytes at a position.                                                    *)
(***************************************************************************)
\* A concatenation begins with its first part and goes on with the second.
LEMMA ConcatElements ==
    ASSUME NEW s, IsSeq(s), NEW t, IsSeq(t)
    PROVE  /\ \A k \in 1 .. Len(s) : (s \o t)[k] = s[k]
           /\ \A k \in 1 .. Len(t) : (s \o t)[Len(s) + k] = t[k]
  <1> DEFINE A == {s[i] : i \in DOMAIN s}
             B == {t[i] : i \in DOMAIN t}
  <1>1. s \in Seq(A) /\ t \in Seq(B)
    BY DEF IsSeq
  <1> HIDE DEF A, B
  <1>2. /\ Len(s) \in Nat /\ s \in [1 .. Len(s) -> A]
        /\ Len(t) \in Nat /\ t \in [1 .. Len(t) -> B]
    BY <1>1, LenProperties
  <1>3. PICK m \in Nat, n \in Nat : m = Len(s) /\ n = Len(t)
    BY <1>2
  <1>4. s \in [1 .. m -> A \cup B] /\ t \in [1 .. n -> A \cup B]
    BY <1>2, <1>3
  <1>5. s \in Seq(A \cup B) /\ t \in Seq(A \cup B)
    BY <1>3, <1>4, SeqDef
  <1>6. \A k \in 1 .. (m + n) : (s \o t)[k] = IF k <= m THEN s[k] ELSE t[k - m]
    BY <1>3, <1>5, ConcatProperties
  <1>7. ASSUME NEW k \in 1 .. m PROVE (s \o t)[k] = s[k]
    <2>1. k \in 1 .. (m + n) /\ k <= m
      OBVIOUS
    <2> QED BY <1>6, <2>1
  <1>8. ASSUME NEW k \in 1 .. n PROVE (s \o t)[m + k] = t[k]
    <2>1. m + k \in 1 .. (m + n) /\ ~ (m + k <= m) /\ (m + k) - m = k
      OBVIOUS
    <2> QED BY <1>6, <2>1
  <1> QED BY <1>3, <1>7, <1>8

\* What is written behind bytes leaves them alone, and stands behind them.
LEMMA HoldsBehind ==
    ASSUME NEW b, IsSeq(b), NEW e, IsSeq(e)
    PROVE  /\ Holds(b \o e, Len(b), e)
           /\ \A p \in Nat : \A x : IsSeq(x) /\ Holds(b, p, x) => Holds(b \o e, p, x)
  <1>1. PICK m \in Nat, n \in Nat : m = Len(b) /\ n = Len(e) /\ Len(b \o e) = m + n
    BY Concatenated
  <1>2. /\ \A k \in 1 .. m : (b \o e)[k] = b[k]
        /\ \A k \in 1 .. n : (b \o e)[m + k] = e[k]
    BY <1>1, ConcatElements
  <1>3. Holds(b \o e, Len(b), e)
    BY <1>1, <1>2 DEF Holds
  <1>4. ASSUME NEW p \in Nat, NEW x, IsSeq(x), Holds(b, p, x)
        PROVE  Holds(b \o e, p, x)
    <2>1. PICK l \in Nat : l = Len(x)
      BY <1>4, LenProperties DEF IsSeq
    <2>2. p + l <= m /\ \A k \in 1 .. l : b[p + k] = x[k]
      BY <1>1, <1>4, <2>1 DEF Holds
    <2>3. \A k \in 1 .. l : p + k \in 1 .. m
      BY <2>2
    <2> QED BY <1>1, <1>2, <2>1, <2>2, <2>3 DEF Holds
  <1> QED BY <1>3, <1>4

\* What ends in a prefix is in it.
LEMMA HoldsInPrefix ==
    ASSUME NEW b, IsSeq(b), NEW n \in Nat, n <= Len(b), NEW p \in Nat, NEW e, IsSeq(e),
           Holds(b, p, e), p + Len(e) <= n
    PROVE  Holds(SubSeq(b, 1, n), p, e)
  <1>1. PICK m \in Nat, l \in Nat : m = Len(b) /\ l = Len(e)
    BY LenProperties DEF IsSeq
  <1>2. PICK S : b \in Seq(S)
    BY DEF IsSeq
  <1>3. PICK c : c = SubSeq(b, 1, n)
    OBVIOUS
  <1>4. Len(c) = n /\ \A k \in 1 .. n : c[k] = b[k]
    <2>1. \A k \in 1 .. n : k \in DOMAIN b
      BY <1>1, <1>2, LenProperties
    <2> QED BY <1>1, <1>2, <1>3, SubSeqProperties
  <1>5. \A k \in 1 .. l : b[p + k] = e[k] /\ p + k \in 1 .. n
    BY <1>1 DEF Holds
  <1> QED BY <1>1, <1>3, <1>4, <1>5 DEF Holds

-----------------------------------------------------------------------------
(***************************************************************************)
(* Reading instructions.                                                   *)
(***************************************************************************)
\* What holds both parts holds each at its place.
LEMMA HoldsParts ==
    ASSUME NEW c, NEW p \in Nat, NEW x, IsSeq(x), NEW y, IsSeq(y), Holds(c, p, x \o y)
    PROVE  Holds(c, p, x) /\ Holds(c, p + Len(x), y)
  <1>1. PICK m \in Nat, n \in Nat : m = Len(x) /\ n = Len(y) /\ Len(x \o y) = m + n
    BY Concatenated
  <1>2. /\ \A k \in 1 .. m : (x \o y)[k] = x[k]
        /\ \A k \in 1 .. n : (x \o y)[m + k] = y[k]
    BY <1>1, ConcatElements
  <1>3. p + (m + n) <= Len(c) /\ \A k \in 1 .. (m + n) : c[p + k] = (x \o y)[k]
    BY <1>1 DEF Holds
  <1>4. PICK z : z = Len(c) /\ p + (m + n) <= z
    BY <1>3
  <1>5. ASSUME NEW k \in 1 .. m PROVE c[p + k] = x[k]
    <2>1. k \in 1 .. (m + n)
      OBVIOUS
    <2> QED BY <1>2, <1>3, <2>1
  <1>6. ASSUME NEW k \in 1 .. n PROVE c[(p + m) + k] = y[k]
    <2>1. m + k \in 1 .. (m + n) /\ p + (m + k) = (p + m) + k
      OBVIOUS
    <2> QED BY <1>2, <1>3, <2>1
  <1> QED BY <1>1, <1>4, <1>5, <1>6 DEF Holds

\* What Encode has made is found as such.
LEMMA HoldsEncoded ==
    ASSUME NEW c, IsSeq(c), NEW p \in Nat, NEW is, NEW of, NEW n \in Nat \ {0},
           Holds(c, p, Encode(is, of, n))
    PROVE  Encodes(c, p + 1, is, n) /\ c[p + 1].of = of
  <1>1. Len(c) \in Nat
    BY LenProperties DEF IsSeq
  <1>2. Len(Encode(is, of, n)) = n
    BY EncodeFacts
  <1>3. p + n <= Len(c) /\ \A k \in 1 .. n : c[p + k] = Encode(is, of, n)[k]
    BY <1>2 DEF Holds
  <1>4. \A k \in 1 .. n : c[p + k].is = is /\ c[p + k].of = of /\ c[p + k].byte = k
    BY <1>3 DEF Encode
  <1>5. c[p + 1].of = of
    BY <1>4
  <1>6. PICK q \in Nat : q = p + 1
    OBVIOUS
  <1>7. q >= 1 /\ q + n - 1 <= Len(c) /\ c[q].of = of
    BY <1>1, <1>3, <1>5, <1>6
  <1>8. ASSUME NEW k \in 1 .. n
        PROVE  c[q + k - 1].is = is /\ c[q + k - 1].byte = k /\ c[q + k - 1].of = c[q].of
    <2>1. q + k - 1 = p + k
      BY <1>6
    <2> QED BY <1>4, <1>7, <2>1
  <1> QED BY <1>6, <1>7, <1>8 DEF Encodes

\* The instruction s can be read from position p on.
Decodes(c, p, s) ==
    /\ Encodes(c, p + 1, "opcode", 1) /\ c[p + 1].of = s.op
    /\ s.op = "push" => c[p + 2].of = s.first.of
    /\ s.first.is = "label" =>
          /\ Encodes(c, p + 2, "number", 4)
          /\ c[p + 2].of = labelTable[getKey(s.first.of, getOperandLabelType(s.op))]

LEMMA InstructionDecodes ==
    ASSUME NEW c, IsSeq(c), NEW p \in Nat, NEW s \in Instruction, OperandsFit(s),
           Holds(c, p, convertInstructionToBytes(s))
    PROVE  Decodes(c, p, s)
  <1>1. PICK a, b, d : /\ a = Encode("opcode", s.op, 1)
                       /\ b = EncodedOperand(s, s.first)
                       /\ d = EncodedOperand(s, s.second)
    OBVIOUS
  <1>2. IsSeq(a) /\ Len(a) = 1
    BY <1>1, EncodeFacts
  <1>3. IsSeq(b) /\ IsSeq(d)
    BY <1>1, OperandBytes
  <1>4. IsSeq(a \o b)
    BY <1>2, <1>3, Concatenated
  <1>5. convertInstructionToBytes(s) = (a \o b) \o d
    BY <1>1 DEF convertInstructionToBytes
  <1>6. Holds(c, p, a \o b)
    BY <1>3, <1>4, <1>5, HoldsParts
  <1>7. Holds(c, p, a) /\ Holds(c, p + 1, b)
    BY <1>2, <1>3, <1>6, HoldsParts
  <1>8. Encodes(c, p + 1, "opcode", 1) /\ c[p + 1].of = s.op
    BY <1>1, <1>7, HoldsEncoded
  <1>9. (p + 1) + 1 = p + 2 /\ p + 1 \in Nat
    OBVIOUS
  <1>10. ASSUME s.op = "push" PROVE c[p + 2].of = s.first.of
    <2>1. s.first.is = "type"
      BY <1>10 DEF OperandsFit, FirstOperand, TakesType, TakesLabel, Jumps, TakesDepth, TakesSlot
    <2>2. b = Encode("type", s.first.of, 1)
      BY <1>1, <2>1 DEF EncodedOperand
    <2> QED BY <1>7, <1>9, <2>2, HoldsEncoded
  <1>11. ASSUME s.first.is = "label"
         PROVE  /\ Encodes(c, p + 2, "number", 4)
                /\ c[p + 2].of = labelTable[getKey(s.first.of, getOperandLabelType(s.op))]
    <2>1. b = Encode("number", labelTable[getKey(s.first.of, getOperandLabelType(s.op))], 4)
      BY <1>1, <1>11 DEF EncodedOperand, Address
    <2> QED BY <1>7, <1>9, <2>1, HoldsEncoded
  <1> QED BY <1>8, <1>10, <1>11 DEF Decodes

\* The run loop steps over as many bytes as the assembler counted
\* (src/src/vm/VM.cpp:300 and src/src/assembler/Assembler.cpp:119).
LEMMA StepsOver ==
    ASSUME NEW s \in Instruction, OperandsFit(s), Decodes(code, PC, s), PC \in Nat
    PROVE  Behind(s.op) = PC + Counted(s)
  <1>1. s.kind = "instruction" /\ s.op \in Opcode
    BY DEF Instruction
  <1>2. PICK x \in Nat, y \in Nat : x = CountedBytes(s, s.first) /\ y = CountedBytes(s, s.second)
    BY OperandBytes
  <1>3. Counted(s) = 1 + x + y
    BY <1>1, <1>2 DEF Counted
  <1>4. SUFFICES OperandSize(s.op) = x + y
    BY <1>3 DEF Behind
  <1>5. s.first.is = FirstOperand(s.op) /\ s.second.is = SecondOperand(s.op, s.first.of)
    BY DEF OperandsFit
  <1>6. CASE s.op \in TakesLabel
    <2>1. s.first.is = "label" /\ s.second.is = "none" /\ s.op \notin {"push", "loadL"}
      BY <1>5, <1>6 DEF TakesLabel, Jumps, TakesType, TakesDepth, TakesSlot, FirstOperand, SecondOperand
    <2>2. x = 4 /\ y = 0
      BY <1>2, <2>1 DEF CountedBytes
    <2> QED BY <1>6, <2>2 DEF OperandSize, TakesDepth, TakesLabel, Jumps
  <1>7. CASE s.op \in {"storeL", "addrL"}
    <2>1. s.first.is = "number" /\ s.second.is = "none" /\ s.op \notin TakesDepth
      BY <1>5, <1>7 DEF TakesLabel, Jumps, TakesType, TakesDepth, TakesSlot, FirstOperand, SecondOperand
    <2>2. x = 4 /\ y = 0
      BY <1>2, <1>7, <2>1 DEF CountedBytes
    <2> QED BY <1>7, <2>2 DEF OperandSize, TakesDepth, TakesLabel, Jumps
  <1>8. CASE s.op \in TakesDepth
    <2>1. s.first.is = "number" /\ s.second.is = "none"
      BY <1>5, <1>8 DEF TakesLabel, Jumps, TakesType, TakesDepth, TakesSlot, FirstOperand, SecondOperand
    <2>2. x = 2 /\ y = 0
      BY <1>2, <1>8, <2>1 DEF CountedBytes
    <2> QED BY <1>8, <2>2 DEF OperandSize, TakesDepth, TakesLabel, Jumps
  <1>9. CASE s.op \in {"load", "conv", "native", "throw"}
    <2>1. s.first.is \in {"type", "native", "error"} /\ s.second.is = "none"
      BY <1>5, <1>9 DEF TakesLabel, Jumps, TakesType, TakesDepth, TakesSlot, FirstOperand, SecondOperand
    <2>2. x = 1 /\ y = 0
      BY <1>2, <2>1 DEF CountedBytes
    <2> QED BY <1>9, <2>2 DEF OperandSize, TakesDepth, TakesLabel, Jumps
  <1>10. CASE s.op = "loadL"
    <2>1. s.first.is = "type" /\ s.second.is = "number"
      BY <1>5, <1>10 DEF TakesLabel, Jumps, TakesType, TakesDepth, TakesSlot, FirstOperand, SecondOperand
    <2>2. x = 1 /\ y = 4
      BY <1>2, <1>10, <2>1 DEF CountedBytes, TakesDepth
    <2> QED BY <1>10, <2>2 DEF OperandSize, TakesDepth, TakesLabel, Jumps
  <1>11. CASE s.op = "push"
    <2>1. s.first.is = "type" /\ s.second.is = IF s.first.of = "ptr" THEN "label" ELSE "number"
      <3>1. FirstOperand("push") = "type"
        BY DEF TakesType, TakesLabel, Jumps, TakesDepth, TakesSlot, FirstOperand
      <3>2. \A type : SecondOperand("push", type) = IF type = "ptr" THEN "label" ELSE "number"
        BY DEF SecondOperand
      <3> QED BY <1>5, <1>11, <3>1, <3>2
    <2>2. x = 1
      BY <1>2, <2>1 DEF CountedBytes
    <2>3. y = calculateBytesFromType(s.first.of)
      <3>1. CASE s.first.of = "ptr"
        BY <1>2, <2>1, <3>1 DEF CountedBytes, calculateBytesFromType
      <3>2. CASE s.first.of # "ptr"
        BY <1>2, <1>11, <2>1, <3>2 DEF CountedBytes, TakesDepth
      <3> QED BY <3>1, <3>2
    <2>4. code[PC + 2].of = s.first.of
      BY <1>11 DEF Decodes
    <2>5. OperandSize("push") = 1 + calculateBytesFromType(code[PC + 2].of)
      BY DEF OperandSize, TakesDepth, TakesLabel, Jumps
    <2> QED BY <1>11, <2>2, <2>3, <2>4, <2>5
  <1>12. CASE s.op \in TakesNothing
    <2>1. s.first.is = "none" /\ s.second.is = "none"
      BY <1>5, <1>12 DEF TakesLabel, Jumps, TakesType, TakesDepth, TakesSlot, TakesNothing,
                         FirstOperand, SecondOperand
    <2>2. x = 0 /\ y = 0
      BY <1>2, <2>1 DEF CountedBytes
    <2>3. OperandSize(s.op) = 0
      BY <1>12 DEF OperandSize, TakesDepth, TakesLabel, Jumps, TakesNothing
    <2> QED BY <2>2, <2>3
  <1> QED BY <1>1, <1>6, <1>7, <1>8, <1>9, <1>10, <1>11, <1>12 DEF Opcode, TakesType, TakesSlot

-----------------------------------------------------------------------------
(***************************************************************************)
(* The two passes again.                                                   *)
(***************************************************************************)
\* The keys that a step of pass 1 adds are those of the statement.
LEMMA KnownOnward ==
    ASSUME NEW n \in Nat, n = next, n >= 1, KnownBefore(next), statements' = statements, next' = n + 1,
           \A k \in DOMAIN labelTable' :
              k \in DOMAIN labelTable \/ (Defines(statements[n]) /\ KeyOf(statements[n]) = k)
    PROVE  KnownBefore(next)'
  <1> DEFINE Known(k, m) == \E i \in 1 .. (m - 1) : Defines(statements[i]) /\ KeyOf(statements[i]) = k
  <1>1. ASSUME NEW k \in DOMAIN labelTable' PROVE Known(k, n + 1)
    <2>1. CASE k \in DOMAIN labelTable
      <3>1. PICK i \in 1 .. (n - 1) : Defines(statements[i]) /\ KeyOf(statements[i]) = k
        BY <2>1 DEF KnownBefore
      <3>2. i \in 1 .. ((n + 1) - 1)
        OBVIOUS
      <3> QED BY <3>1, <3>2
    <2>2. CASE Defines(statements[n]) /\ KeyOf(statements[n]) = k
      <3>1. n \in 1 .. ((n + 1) - 1)
        OBVIOUS
      <3> QED BY <2>2, <3>1
    <2> QED BY <1>1, <2>1, <2>2
  <1>2. \A i : Defines(statements'[i]) <=> Defines(statements[i])
    BY DEF Defines
  <1>3. \A i : KeyOf(statements'[i]) = KeyOf(statements[i])
    BY DEF KeyOf
  <1> QED BY <1>1, <1>2, <1>3 DEF KnownBefore

\* So after every step of pass 1.
LEMMA LayingKnows ==
    ASSUME IInv, KnownBefore(next),
           ProcessLabel \/ ProcessMethod \/ ProcessInstruction \/ ProcessData \/ ProcessDirective
    PROVE  pass' = "lay" /\ KnownBefore(next)'
  <1>1. /\ pass = "lay" /\ pass' = "lay" /\ next' = next + 1 /\ statements' = statements
    BY DEF ProcessLabel, ProcessMethod, ProcessInstruction, ProcessData, ProcessDirective, Laying, Step
  <1>2. PICK n \in Nat : n = next /\ n >= 1
    BY DEF IInv, Typed
  <1>3. ASSUME NEW k \in DOMAIN labelTable'
        PROVE  k \in DOMAIN labelTable \/ (Defines(This) /\ KeyOf(This) = k)
    <2>1. CASE ProcessLabel
      BY <1>3, <2>1 DEF ProcessLabel, Laying, AtStatement, Labels, This, Defines, KeyOf
    <2>2. CASE ProcessMethod
      BY <1>3, <2>2 DEF ProcessMethod, Laying, AtStatement, Labels, This, Defines, KeyOf
    <2>3. CASE ProcessInstruction
      BY <1>3, <2>3 DEF ProcessInstruction, Labels
    <2>4. CASE ProcessData
      BY <1>3, <2>4 DEF ProcessData, Laying, AtStatement, Labels, This, Defines, KeyOf
    <2>5. CASE ProcessDirective
      BY <1>3, <2>5 DEF ProcessDirective
    <2> QED BY <2>1, <2>2, <2>3, <2>4, <2>5
  <1>4. KnownBefore(next)'
    BY <1>1, <1>2, <1>3, KnownOnward DEF This
  <1> QED BY <1>1, <1>4

\* What pass 1 leaves behind.
LEMMA LaidChain ==
    ASSUME IInv, CodeFirst, KnownBefore(next), LabelTableConstructed
    PROVE  pass' = "encode" /\ next' = 1 /\ Chained'
  <1>1. /\ pass = "lay" /\ pass' = "encode" /\ next' = 1
        /\ statements' = statements /\ labelTable' = labelTable /\ bytecode' = bytecode
        /\ placed' = LaidSoFar
        /\ LabelTableComplete
        /\ header'.dataEnd = HeaderLength + codeSectionLength + dataSectionLength - 1
    BY DEF LabelTableConstructed, Place, LaidSoFar
  <1>2. PICK c \in Nat, d \in Nat : c = codeSectionLength /\ d = dataSectionLength
    BY DEF IInv, Typed
  <1>3. PICK n \in Nat, m \in Nat : n = next /\ m = Len(statements) /\ n \in 1 .. (m + 1)
    <2>1. /\ statements \in Seq(Statement) /\ next \in 1 .. (Len(statements) + 1)
      BY DEF IInv, Typed
    <2>2. Len(statements) \in Nat
      BY <2>1, LenProperties
    <2> QED BY <2>1, <2>2
  <1>4. /\ AcceptedUpTo(statements, Len(statements) + 1)
        /\ Len(placed) = n - 1
        /\ LaidOnly(LaidSoFar, statements)
        /\ Chain(LaidSoFar, statements) /\ Labelled(labelTable, LaidSoFar, statements)
    BY <1>1, <1>3 DEF IInv
  <1>5. PICK p \in Seq(Nat) : p = placed
    BY DEF IInv, Typed
  <1>6. PICK g \in Nat : g = c + d
    OBVIOUS
  <1>7. PICK r : r = LaidSoFar /\ r = Append(p, g)
    BY <1>2, <1>5, <1>6 DEF LaidSoFar
  <1>8. Len(r) = n /\ r[n] = g
    <2>1. Len(p) = n - 1
      BY <1>4, <1>5
    <2>2. Len(r) = Len(p) + 1 /\ r[Len(p) + 1] = g
      BY <1>7, AppendProperties
    <2> QED BY <2>1, <2>2
  <1>9. PICK t : t = statements
    OBVIOUS
  <1>10. placed' = r /\ statements' = t
    BY <1>1, <1>7, <1>9
  <1>11. AcceptedUpTo(t, Len(t) + 1) /\ LaidOnly(r, t) /\ Chain(r, t) /\ Labelled(labelTable', r, t)
    BY <1>1, <1>4, <1>7, <1>9
  <1>12. Len(r) \in 1 .. (Len(t) + 1)
    BY <1>3, <1>8, <1>9
  <1>13. Len(r) <= Len(t) => t[Len(r)].kind = "directive"
    BY <1>1, <1>3, <1>8, <1>9 DEF LabelTableComplete, AtStatement
  <1>14. (\A k \in DOMAIN labelTable' : \E i \in 1 .. (n - 1) : Defines(t[i]) /\ KeyOf(t[i]) = k)
    BY <1>1, <1>3, <1>9 DEF KnownBefore
  <1>15. KnownBefore(Len(placed))'
    BY <1>8, <1>10, <1>14 DEF KnownBefore, Defines, KeyOf
  <1>16. header'.dataEnd = HeaderLength + End' - 1
    <2>1. End' = g
      BY <1>8, <1>10 DEF End
    <2>2. header'.dataEnd = HeaderLength + c + d - 1
      BY <1>2, <1>1
    <2> QED BY <1>6, <2>1, <2>2 DEF HeaderLength
  <1> QED BY <1>1, <1>10, <1>11, <1>12, <1>13, <1>15, <1>16 DEF Chained

\* The table entries are bytes too.
LEMMA EntryBytes ==
    ASSUME NEW s
    PROVE  /\ s \in SourceEntry => IsSeq(convertSourceMetadata(s))
           /\ s \in FunctionEntry => IsSeq(convertFunctionMetadata(s))
           /\ s \in LineEntry => IsSeq(convertLineTableMetadata(s))
  <1>1. ASSUME NEW t \in Text PROVE IsSeq(convertStringToBytes(t))
    <2>1. PICK n \in Nat : n = TextLength[t]
      BY TextAssumption
    <2>2. IsSeq(Encode("number", n, 4)) /\ IsSeq(Encode("text", t, n))
      BY EncodeFacts
    <2> QED BY <2>1, <2>2, Concatenated DEF convertStringToBytes
  <1>2. PICK a, b, c, d : /\ a = Encode("number", 0, 2) /\ b = Encode("number", s.start, 4)
                          /\ c = Encode("number", s.end, 4) /\ d = Encode("line", s.line, 6)
    OBVIOUS
  <1>3. IsSeq(a) /\ IsSeq(b) /\ IsSeq(c) /\ IsSeq(d)
    BY <1>2, EncodeFacts
  <1>4. IsSeq(b \o c) /\ IsSeq((b \o c) \o a)
    BY <1>3, Concatenated
  <1>5. ASSUME s \in SourceEntry PROVE IsSeq(convertSourceMetadata(s))
    <2>1. IsSeq(convertStringToBytes(s.path))
      BY <1>1, <1>5 DEF SourceEntry
    <2> QED BY <1>2, <1>3, <2>1, Concatenated DEF convertSourceMetadata
  <1>6. ASSUME s \in FunctionEntry PROVE IsSeq(convertFunctionMetadata(s))
    <2>1. IsSeq(convertStringToBytes(s.name))
      BY <1>1, <1>6 DEF FunctionEntry
    <2> QED BY <1>2, <1>4, <2>1, Concatenated DEF convertFunctionMetadata
  <1>7. IsSeq(convertLineTableMetadata(s))
    BY <1>2, <1>3, <1>4, Concatenated DEF convertLineTableMetadata
  <1> QED BY <1>5, <1>6, <1>7

\* One step of pass 2 writes the bytes e, which are those of its statement.
Appends(e) ==
    /\ IsSeq(e)
    /\ bytecode' = bytecode \o e \/ (e = <<>> /\ bytecode' = bytecode)
    /\ IsInstruction(This) => /\ e = convertInstructionToBytes(This) /\ Resolved(This)
                              /\ bytecode' = bytecode \o e

LEMMA EncodingAppends ==
    ASSUME IInv, \/ EncodeLabel \/ EncodeDirective \/ EncodeMethod \/ EncodeInstruction
                 \/ EncodeData \/ EncodeMetadata
    PROVE  /\ pass = "encode" /\ next <= Len(statements) /\ pass' = pass /\ next' = next + 1
           /\ statements' = statements /\ labelTable' = labelTable /\ placed' = placed
           /\ header' = header
           /\ \E e : Appends(e)
  <1>1. /\ pass = "encode" /\ next <= Len(statements) /\ pass' = pass /\ next' = next + 1
        /\ statements' = statements /\ labelTable' = labelTable /\ placed' = placed
        /\ header' = header
    BY DEF EncodeLabel, EncodeDirective, EncodeMethod, EncodeInstruction, EncodeData,
           EncodeMetadata, Encoding, AtStatement, Step, Emit, tables, output
  <1>2. next \in 1 .. Len(statements)
    BY <1>1 DEF IInv, Typed
  <1>3. /\ This \in Statement
        /\ This.kind = "instruction" => This \in Instruction /\ OperandsFit(This)
        /\ This.kind = "method" => This \in MethodDef
        /\ This.kind = "data" => This \in DataDef
    <2>1. statements \in Seq(Statement) /\ AcceptedUpTo(statements, Len(statements) + 1)
      BY <1>1 DEF IInv, Typed
    <2> QED BY <1>2, <2>1, Fits DEF This
  <1>4. CASE EncodeLabel
    <2>1. This.kind = "label" /\ bytecode' = bytecode \o <<>>
      BY <1>4 DEF EncodeLabel, Encoding, AtStatement, This, Emit
    <2>2. Appends(<<>>)
      BY <2>1, EmptyFacts DEF Appends, IsInstruction
    <2> QED BY <1>1, <2>2
  <1>5. CASE EncodeDirective
    <2>1. This.kind = "directive" /\ bytecode' = bytecode
      BY <1>5 DEF EncodeDirective, Encoding, AtStatement, This, output
    <2>2. Appends(<<>>)
      BY <2>1, EmptyFacts DEF Appends, IsInstruction
    <2> QED BY <1>1, <2>2
  <1>6. CASE EncodeMethod
    <2>1. This.kind = "method" /\ bytecode' = bytecode \o convertMethodDefToBytes(This)
      BY <1>6 DEF EncodeMethod, Encoding, AtStatement, This, Emit
    <2>2. IsSeq(convertMethodDefToBytes(This))
      BY <1>3, <2>1, MethodBytes
    <2>3. Appends(convertMethodDefToBytes(This))
      BY <2>1, <2>2 DEF Appends, IsInstruction
    <2> QED BY <1>1, <2>3
  <1>7. CASE EncodeInstruction
    <2>1. /\ This.kind = "instruction" /\ bytecode' = bytecode \o convertInstructionToBytes(This)
          /\ Resolved(This)
      BY <1>7 DEF EncodeInstruction, Encoding, AtStatement, This, Emit
    <2>2. IsSeq(convertInstructionToBytes(This))
      BY <1>3, <2>1, InstructionBytes
    <2>3. Appends(convertInstructionToBytes(This))
      BY <2>1, <2>2 DEF Appends
    <2> QED BY <1>1, <2>3
  <1>8. CASE EncodeData
    <2>1. This.kind = "data" /\ bytecode' = bytecode \o convertDataStatementToBytes(This)
      BY <1>8 DEF EncodeData, Encoding, AtStatement, This, Emit
    <2>2. IsSeq(convertDataStatementToBytes(This))
      BY <1>3, <2>1, DataBytes
    <2>3. Appends(convertDataStatementToBytes(This))
      BY <2>1, <2>2 DEF Appends, IsInstruction
    <2> QED BY <1>1, <2>3
  <1>9. CASE EncodeMetadata
    <2> USE DEF EncodeMetadata, Encoding, AtStatement, This, Emit
    <2>1. /\ This.kind = "source" => This \in SourceEntry
          /\ This.kind = "function" => This \in FunctionEntry
          /\ This.kind = "line" => This \in LineEntry
      BY <1>3 DEF Statement, Instruction, LabelDef, MethodDef, DataDef, Directive,
                  SourceEntry, FunctionEntry, LineEntry
    <2>2. PICK e : /\ This.kind \in {"source", "function", "line"} /\ bytecode' = bytecode \o e
                   /\ IsSeq(e)
      <3>1. CASE Encoding("source") /\ Emit(convertSourceMetadata(This))
        BY <2>1, <3>1, EntryBytes
      <3>2. CASE Encoding("function") /\ Emit(convertFunctionMetadata(This))
        BY <2>1, <3>2, EntryBytes
      <3>3. CASE Encoding("line") /\ Emit(convertLineTableMetadata(This))
        BY <2>1, <3>3, EntryBytes
      <3> QED BY <1>9, <3>1, <3>2, <3>3
    <2>3. Appends(e)
      BY <2>2 DEF Appends, IsInstruction
    <2> QED BY <1>1, <2>3
  <1> QED BY <1>4, <1>5, <1>6, <1>7, <1>8, <1>9

\* The encoding looks at nothing but the table.
LEMMA SameCode ==
    ASSUME labelTable' = labelTable, statements' = statements
    PROVE  \A i : /\ (convertInstructionToBytes(statements[i]))' = convertInstructionToBytes(statements[i])
                  /\ (Resolved(statements[i]))' <=> Resolved(statements[i])
                  /\ (IsInstruction(statements[i]))' <=> IsInstruction(statements[i])
  BY Zenon DEF convertInstructionToBytes, EncodedOperand, Address, Resolved, References, IsInstruction

\* One statement more is written.
LEMMA WrittenOnward ==
    ASSUME IInv, CodeFirst, ShortTexts, Chained, WrittenIn(bytecode, next), pass = "encode",
           NEW n \in Nat, n = next, n <= Len(statements),
           NEW e, IsSeq(e), NEW b, b = bytecode \o e \/ (e = <<>> /\ b = bytecode),
           n + 1 <= Len(placed) => Len(b) = placed[n + 1],
           IsInstruction(This) => /\ e = convertInstructionToBytes(This) /\ Resolved(This)
                                  /\ b = bytecode \o e
    PROVE  WrittenIn(b, n + 1)
  <1>1. IsSeq(bytecode) /\ Len(bytecode) \in Nat /\ Len(e) \in Nat
    BY Concatenated DEF WrittenIn
  <1>2. IsSeq(b) /\ Len(bytecode) <= Len(b) /\ Len(b) \in Nat
    <2>1. CASE b = bytecode \o e
      <3>1. PICK k \in Nat, l \in Nat : k = Len(bytecode) /\ l = Len(e)
        BY <1>1
      <3>2. IsSeq(b) /\ Len(b) = k + l
        BY <1>1, <2>1, <3>1, Concatenated
      <3>3. k <= k + l /\ k + l \in Nat
        OBVIOUS
      <3> QED BY <3>1, <3>2, <3>3
    <2>2. CASE b = bytecode
      BY <1>1, <2>2
    <2> QED BY <2>1, <2>2
  <1>3. PICK m \in Nat : m = Len(placed)
    BY LenProperties DEF IInv, Typed
  <1>4. \A i \in 1 .. m : placed[i] \in Nat
    BY <1>3, ElementOfSeq DEF IInv, Typed
  <1>5. ASSUME NEW i \in 1 .. m, i <= n + 1 PROVE placed[i] <= Len(b)
    <2>1. CASE i = n + 1
      <3>1. Len(b) = placed[i]
        BY <1>3, <1>5, <2>1
      <3> QED BY <1>2, <3>1
    <2>2. CASE i <= n
      <3>1. placed[i] <= Len(bytecode)
        BY <1>3, <1>5, <2>2 DEF WrittenIn
      <3> QED BY <1>1, <1>2, <1>4, <3>1
    <2> QED BY <1>5, <2>1, <2>2
  <1>6. ASSUME NEW i \in 1 .. n, i < m, IsInstruction(statements[i])
        PROVE  /\ Resolved(statements[i])
               /\ Holds(b, placed[i], convertInstructionToBytes(statements[i]))
    <2>1. CASE i = n
      <3>1. statements[i] = This
        BY <2>1 DEF This
      <3>2. Len(bytecode) = placed[n]
        BY <1>3, <1>6, <2>1 DEF IInv
      <3>3. Resolved(This) /\ e = convertInstructionToBytes(This) /\ b = bytecode \o e
        BY <1>6, <3>1
      <3>4. Holds(b, Len(bytecode), e)
        BY <1>1, <3>3, HoldsBehind
      <3> QED BY <2>1, <3>1, <3>2, <3>3, <3>4
    <2>2. CASE i \in 1 .. (n - 1)
      <3>1. PICK x : x = convertInstructionToBytes(statements[i])
        OBVIOUS
      <3>2. Resolved(statements[i]) /\ Holds(bytecode, placed[i], x)
        BY <1>3, <1>6, <2>2, <3>1 DEF WrittenIn
      <3>3. IsSeq(x)
        <4>1. statements \in Seq(Statement) /\ AcceptedUpTo(statements, Len(statements) + 1)
          BY DEF IInv, Typed
        <4>2. i \in 1 .. Len(statements)
          <5>1. Len(statements) \in Nat
            BY <4>1, LenProperties
          <5> QED BY <5>1
        <4>3. statements[i] \in Instruction /\ OperandsFit(statements[i])
          BY <1>6, <4>1, <4>2, Fits DEF IsInstruction
        <4> QED BY <3>1, <4>3, InstructionBytes
      <3>4. placed[i] \in Nat
        BY <1>4, <1>6
      <3>5. Holds(b, placed[i], x)
        <4>1. CASE b = bytecode \o e
          BY <1>1, <3>2, <3>3, <3>4, <4>1, HoldsBehind
        <4>2. CASE b = bytecode
          BY <3>2, <4>2
        <4> QED BY <4>1, <4>2
      <3> QED BY <3>1, <3>2, <3>5
    <2> QED BY <1>6, <2>1, <2>2
  <1>7. (n + 1) - 1 = n
    OBVIOUS
  <1> QED BY <1>2, <1>3, <1>5, <1>6, <1>7 DEF WrittenIn

\* So after every step of pass 2 but the last.
LEMMA EncodingWrites ==
    ASSUME IInv, CodeFirst, ShortTexts, Chained, WrittenIn(bytecode, next),
           \/ EncodeLabel \/ EncodeDirective \/ EncodeMethod \/ EncodeInstruction
           \/ EncodeData \/ EncodeMetadata
    PROVE  pass' = "encode" /\ Chained' /\ WrittenIn(bytecode, next)'
  <1>1. /\ pass = "encode" /\ next <= Len(statements) /\ pass' = pass /\ next' = next + 1
        /\ statements' = statements /\ labelTable' = labelTable /\ placed' = placed
        /\ header' = header
    BY EncodingAppends
  <1>2. PICK e : Appends(e)
    BY EncodingAppends
  <1>3. PICK n \in Nat : n = next /\ n <= Len(statements)
    BY <1>1 DEF IInv, Typed
  <1>4. PICK b : b = bytecode'
    OBVIOUS
  <1>5. /\ IsSeq(e)
        /\ b = bytecode \o e \/ (e = <<>> /\ b = bytecode)
        /\ IsInstruction(This) => /\ e = convertInstructionToBytes(This) /\ Resolved(This)
                                  /\ b = bytecode \o e
    BY <1>2, <1>4 DEF Appends
  <1>6. n + 1 <= Len(placed) => Len(b) = placed[n + 1]
    <2>1. IInv'
      BY Encoded
    <2>2. CodeFirst' /\ ShortTexts'
      BY <1>1 DEF CodeFirst, ShortTexts
    <2>3. next' <= Len(placed') => Len(bytecode') = placed'[next']
      BY <1>1, <2>1, <2>2 DEF IInv
    <2> QED BY <1>1, <1>3, <1>4, <2>3
  <1>7. WrittenIn(b, n + 1)
    BY <1>1, <1>3, <1>5, <1>6, WrittenOnward
  <1>8. WrittenIn(bytecode, next)'
    <2>1. \A i : /\ (convertInstructionToBytes(statements[i]))' = convertInstructionToBytes(statements[i])
                 /\ (Resolved(statements[i]))' <=> Resolved(statements[i])
                 /\ (IsInstruction(statements[i]))' <=> IsInstruction(statements[i])
      BY <1>1, SameCode
    <2>2. bytecode' = b /\ next' = n + 1
      BY <1>1, <1>3, <1>4
    <2> QED BY <1>1, <1>7, <2>1, <2>2 DEF WrittenIn
  <1>9. Chained'
    BY <1>1 DEF Chained, AcceptedUpTo, LaidOnly, Chain, Labelled, KnownBefore, End
  <1> QED BY <1>1, <1>8, <1>9

\* A new assembler has assembled nothing, and a text that it is given is
\* unparsed.
LEMMA NothingAssembled ==
    ASSUME NewAssembler
    PROVE  /\ pass = "idle" /\ Assembling
           /\ \A program : assembleString(program) => pass' = "parse" /\ Assembling'
  <1>1. IInv /\ pass = "idle"
    BY Initially DEF NewAssembler
  <1>2. Assembling
    BY <1>1 DEF Assembling
  <1>3. ASSUME NEW program, assembleString(program) PROVE pass' = "parse" /\ Assembling'
    <2>1. pass' = "parse" /\ statements' = program
      BY <1>3 DEF assembleString
    <2>2. CASE program \in Seq(Statement)
      <3>1. IInv'
        BY <1>1, <1>3, <2>2, Given
      <3> QED BY <2>1, <3>1 DEF Assembling
    <2>3. CASE program \notin Seq(Statement)
      BY <2>1, <2>3 DEF Assembling, Ordered
    <2> QED BY <2>1, <2>2, <2>3
  <1> QED BY <1>1, <1>2, <1>3

\* While the assembler waits, what it has done stays done.
LEMMA AssemblingIdle ==
    ASSUME Assembling, UNCHANGED asmVars
    PROVE  Assembling'
  <1>1. /\ statements' = statements /\ pass' = pass /\ next' = next /\ labelTable' = labelTable
        /\ placed' = placed /\ bytecode' = bytecode /\ header' = header
    BY DEF asmVars, tables, output
  <1>2. Ordered' <=> Ordered
    BY <1>1 DEF Ordered, CodeFirst, ShortTexts
  <1>3. IInv => IInv'
    BY Idle
  <1>4. KnownBefore(next) => KnownBefore(next)'
    BY <1>1 DEF KnownBefore, Defines, KeyOf
  <1>5. Chained => Chained'
    BY <1>1 DEF Chained, AcceptedUpTo, LaidOnly, Chain, Labelled, KnownBefore, End
  <1>6. WrittenIn(bytecode, next) => WrittenIn(bytecode, next)'
    BY <1>1, SameCode DEF WrittenIn
  <1> QED BY <1>1, <1>2, <1>3, <1>4, <1>5, <1>6 DEF Assembling

\* Every step of the assembler.
LEMMA AssemblingOn ==
    ASSUME Assembling, assemble
    PROVE  Assembling'
  <1>1. statements' = statements
    BY DEF assemble, parse, parseToken, Parsed, constructLabelTable, generateBytecode, ProcessLabel,
           ProcessMethod, ProcessInstruction, ProcessData, ProcessDirective, DuplicateLabel,
           UndefinedLabel, LabelTableConstructed, EncodeLabel, EncodeDirective, EncodeMethod,
           EncodeInstruction, EncodeFails, EncodeData, EncodeMetadata, BytecodeGenerated,
           Fail, Step, Emit
  <1>2. Ordered' <=> Ordered
    BY <1>1 DEF Ordered, CodeFirst, ShortTexts
  <1> SUFFICES ASSUME Ordered
               PROVE  /\ IInv'
                      /\ pass' = "lay" => KnownBefore(next)'
                      /\ pass' \in {"encode", "done"} => Chained' /\ WrittenIn(bytecode, next)'
                      /\ pass' = "done" => next' = Len(statements') + 1
    BY <1>2 DEF Assembling
  <1>3. /\ IInv
        /\ pass = "lay" => KnownBefore(next)
        /\ pass = "encode" => Chained /\ WrittenIn(bytecode, next)
    BY DEF Assembling
  <1>4. IInv'
    BY <1>3, Assembled
  <1>5. CASE parseToken \/ DuplicateLabel \/ UndefinedLabel \/ EncodeFails
    <2>1. pass' \in {"parse", "error"}
      BY <1>5 DEF parseToken, Step, Fail, DuplicateLabel, UndefinedLabel, EncodeFails
    <2> QED BY <1>4, <2>1
  <1>6. CASE Parsed
    <2>1. pass' = "lay" /\ labelTable' = <<>>
      BY <1>3, <1>6 DEF Parsed, IInv, NothingLaid, tables
    <2>2. DOMAIN labelTable' = {}
      BY <2>1, EmptySeq
    <2>3. KnownBefore(next)'
      BY <2>2 DEF KnownBefore
    <2> QED BY <1>4, <2>1, <2>3
  <1>7. CASE ProcessLabel \/ ProcessMethod \/ ProcessInstruction \/ ProcessData \/ ProcessDirective
    <2>1. KnownBefore(next)
      BY <1>3, <1>7 DEF ProcessLabel, ProcessMethod, ProcessInstruction, ProcessData,
                        ProcessDirective, Laying
    <2>2. pass' = "lay" /\ KnownBefore(next)'
      BY <1>3, <1>7, <2>1, LayingKnows
    <2> QED BY <1>4, <2>2
  <1>8. CASE LabelTableConstructed
    <2>1. pass = "lay" /\ bytecode = <<>> /\ bytecode' = bytecode
      BY <1>3, <1>8 DEF LabelTableConstructed, IInv
    <2>2. pass' = "encode" /\ next' = 1 /\ Chained'
      BY <1>3, <1>8, <2>1, LaidChain DEF Ordered
    <2>3. WrittenIn(bytecode, next)'
      <3>1. IsSeq(bytecode') /\ Len(bytecode') = 0
        BY <2>1, EmptyFacts
      <3>2. placed'[1] = 0
        BY <2>2 DEF Chained, Chain
      <3>3. PICK b, q : b = bytecode' /\ q = placed'
        OBVIOUS
      <3>4. \A i \in 1 .. Len(q) : i <= 1 => q[i] <= Len(b)
        <4>1. Len(b) = 0 /\ q[1] = 0
          BY <3>1, <3>2, <3>3
        <4>2. \A i \in 1 .. Len(q) : i <= 1 => i = 1
          OBVIOUS
        <4> QED BY <4>1, <4>2
      <3>5. 1 .. (1 - 1) = {}
        OBVIOUS
      <3> QED BY <2>2, <3>1, <3>3, <3>4, <3>5 DEF WrittenIn
    <2> QED BY <1>4, <2>2, <2>3
  <1>9. CASE \/ EncodeLabel \/ EncodeDirective \/ EncodeMethod \/ EncodeInstruction
             \/ EncodeData \/ EncodeMetadata
    <2>1. pass = "encode"
      BY <1>9 DEF EncodeLabel, EncodeDirective, EncodeMethod, EncodeInstruction, EncodeData,
                  EncodeMetadata, Encoding
    <2>2. pass' = "encode" /\ Chained' /\ WrittenIn(bytecode, next)'
      BY <1>3, <1>9, <2>1, EncodingWrites DEF Ordered
    <2> QED BY <1>4, <2>2
  <1>10. CASE BytecodeGenerated
    <2>1. /\ pass = "encode" /\ pass' = "done" /\ next > Len(statements) /\ next' = next
          /\ labelTable' = labelTable /\ placed' = placed /\ bytecode' = bytecode
          /\ header'.dataEnd = header.dataEnd
      BY <1>10 DEF BytecodeGenerated, tables
    <2>2. next' = Len(statements') + 1
      <3>1. statements \in Seq(Statement) /\ next \in 1 .. (Len(statements) + 1)
        BY <1>3 DEF IInv, Typed
      <3>2. Len(statements) \in Nat
        BY <3>1, LenProperties
      <3> QED BY <1>1, <2>1, <3>1, <3>2
    <2>3. Chained'
      BY <1>1, <1>3, <2>1 DEF Chained, AcceptedUpTo, LaidOnly, Chain, Labelled, KnownBefore, End
    <2>4. WrittenIn(bytecode, next)'
      BY <1>1, <1>3, <2>1, SameCode DEF WrittenIn
    <2> QED BY <1>4, <2>1, <2>2, <2>3, <2>4
  <1> QED BY <1>5, <1>6, <1>7, <1>8, <1>9, <1>10 DEF assemble, parse, constructLabelTable,
                                                    generateBytecode

-----------------------------------------------------------------------------
(***************************************************************************)
(* An assembled text.                                                      *)
(***************************************************************************)
LEMMA Finished ==
    ASSUME Assembling, pass = "done", Ordered
    PROVE  /\ ChainOf(placed, statements) /\ Chained
           /\ WrittenIn(bytecode, Len(statements) + 1)
           /\ Len(statements) \in Nat /\ Len(placed) \in 1 .. (Len(statements) + 1)
  <1>1. IInv /\ Chained /\ WrittenIn(bytecode, Len(statements) + 1)
    BY DEF Assembling
  <1>2. statements \in Seq(Statement) /\ placed \in Seq(Nat)
    BY <1>1 DEF IInv, Typed
  <1>3. ChainOf(placed, statements)
    BY <1>1, <1>2 DEF Chained, ChainOf
  <1> QED BY <1>1, <1>2, <1>3, LenProperties DEF Chained

\* Every instruction has been placed.
LEMMA AllPlaced ==
    ASSUME Assembling, pass = "done", Ordered,
           NEW j \in 1 .. Len(statements), IsInstruction(statements[j])
    PROVE  j \in Instructions /\ j \in 1 .. (Len(placed) - 1)
  <1>1. PICK m \in Nat, d \in Nat : m = Len(statements) /\ d = Len(placed) /\ d \in 1 .. (m + 1)
    BY Finished
  <1>2. d <= m => statements[d].kind = "directive"
    BY <1>1, Finished DEF Chained
  <1>3. statements[j].kind = "instruction"
    BY DEF IsInstruction
  <1>4. ~ (d < j)
    <2> SUFFICES ASSUME d < j PROVE FALSE
      OBVIOUS
    <2>1. d \in 1 .. (j - 1) /\ d <= m /\ j \in 1 .. m
      BY <1>1
    <2>2. statements[d].kind # "directive"
      BY <1>1, <1>3, <2>1 DEF Ordered, CodeFirst
    <2> QED BY <1>2, <2>1, <2>2
  <1>5. d # j
    BY <1>1, <1>2, <1>3
  <1>6. j \in 1 .. (d - 1) /\ j \in 1 .. d
    BY <1>1, <1>4, <1>5
  <1> QED BY <1>1, <1>6 DEF Instructions

\* Where a statement leads to, an instruction begins.
LEMMA LeadsOn ==
    ASSUME Assembling, pass = "done", Ordered,
           NEW i \in Nat, i < Len(placed), Leads(statements, i)
    PROVE  placed[i + 1] \in Starts
  <1>1. PICK j \in (i + 1) .. Len(statements) :
           /\ IsInstruction(statements[j])
           /\ \A l \in (i + 1) .. (j - 1) : statements[l].kind = "label"
    BY DEF Leads
  <1>2. PICK m \in Nat, d \in Nat : m = Len(statements) /\ d = Len(placed)
    BY Finished
  <1>3. j \in 1 .. m
    BY <1>2
  <1>4. j \in Instructions /\ j \in 1 .. (d - 1)
    BY <1>1, <1>2, <1>3, AllPlaced
  <1>5. i + 1 \in 1 .. d /\ j \in (i + 1) .. d
    BY <1>2, <1>4
  <1>6. ChainOf(placed, statements)
    BY Finished
  <1>7. placed[i + 1] = placed[j]
    <2>1. PICK k \in 1 .. d : k = i + 1
      BY <1>5
    <2>2. j \in k .. d /\ \A l \in k .. (j - 1) : statements[l].kind = "label"
      BY <1>1, <1>5, <2>1
    <2>3. placed[k] = placed[j]
      BY <1>2, <1>6, <2>2, ChainGrows
    <2> QED BY <2>1, <2>3
  <1> QED BY <1>4, <1>7 DEF Starts

\* What is known of the instruction at a place.
LEMMA Placed ==
    ASSUME Assembling, pass = "done", Ordered, NEW i \in Instructions
    PROVE  /\ i \in 1 .. Len(statements) /\ i \in 1 .. (Len(placed) - 1)
           /\ statements[i] \in Instruction /\ OperandsFit(statements[i])
           /\ Resolved(statements[i])
           /\ Holds(bytecode, placed[i], convertInstructionToBytes(statements[i]))
           /\ placed[i] \in Nat /\ Counted(statements[i]) \in Nat
           /\ placed[i + 1] = placed[i] + Counted(statements[i])
  <1>1. PICK m \in Nat, d \in Nat : m = Len(statements) /\ d = Len(placed)
    BY Finished
  <1>2. i \in 1 .. m /\ IsInstruction(statements[i])
    BY <1>1 DEF Instructions
  <1>3. i \in 1 .. (d - 1)
    BY <1>1, <1>2, AllPlaced
  <1>4. ChainOf(placed, statements)
    BY Finished
  <1>5. statements[i] \in Instruction /\ OperandsFit(statements[i])
    BY <1>1, <1>2, <1>4, Fits DEF ChainOf, IsInstruction
  <1>6. /\ placed[i] \in Nat /\ Counted(statements[i]) \in Nat
        /\ placed[i + 1] = placed[i] + Counted(statements[i])
    BY <1>1, <1>3, <1>4, ChainStep
  <1>7. /\ Resolved(statements[i])
        /\ Holds(bytecode, placed[i], convertInstructionToBytes(statements[i]))
    <2>1. WrittenIn(bytecode, m + 1)
      BY <1>1, Finished
    <2>2. i \in 1 .. ((m + 1) - 1) /\ i < d
      BY <1>2, <1>3
    <2> QED BY <1>1, <1>2, <2>1, <2>2 DEF WrittenIn
  <1> QED BY <1>1, <1>2, <1>3, <1>5, <1>6, <1>7

\* An instruction that the loop does not leave for good is followed by another.
LEMMA NextStarts ==
    ASSUME Assembling, pass = "done", WellFormed,
           NEW i \in Instructions, statements[i].op \notin Leaving
    PROVE  placed[i] + Counted(statements[i]) \in Starts
  <1>0. Ordered
    BY DEF WellFormed
  <1>1. PICK m \in Nat, d \in Nat : m = Len(statements) /\ d = Len(placed)
    BY <1>0, Finished
  <1>2. i \in 1 .. m /\ i \in 1 .. (d - 1) /\ placed[i + 1] = placed[i] + Counted(statements[i])
    BY <1>0, <1>1, Placed
  <1>3. Leads(statements, i)
    BY <1>1, <1>2 DEF WellFormed, Instructions
  <1>4. placed[i + 1] \in Starts
    BY <1>0, <1>1, <1>2, <1>3, LeadsOn
  <1> QED BY <1>2, <1>4

\* The first instruction is the one at address 0.
LEMMA BeginningStarts ==
    ASSUME Assembling, pass = "done", WellFormed
    PROVE  0 \in Starts
  <1>1. Ordered /\ Leads(statements, 0)
    BY DEF WellFormed
  <1>2. Len(placed) \in Nat /\ 0 < Len(placed) /\ placed[1] = 0
    BY <1>1, Finished DEF ChainOf, Chain
  <1>3. placed[0 + 1] \in Starts
    BY <1>1, <1>2, LeadsOn
  <1> QED BY <1>2, <1>3

\* What the label of a jump or a call stands for, and the VM's way on from it.
LEMMA LabelStarts ==
    ASSUME Assembling, pass = "done", WellFormed, NEW k \in DOMAIN labelTable
    PROVE  /\ k[2] = "CODE" => labelTable[k] \in Starts
           /\ k[2] = "METHOD" => labelTable[k] + 5 \in Starts
  <1>0. Ordered
    BY DEF WellFormed
  <1>1. PICK m \in Nat, d \in Nat : m = Len(statements) /\ d = Len(placed) /\ d \in 1 .. (m + 1)
    BY <1>0, Finished
  <1>2. Chained /\ ChainOf(placed, statements)
    BY <1>0, Finished
  <1>3. PICK i \in 1 .. (d - 1) : Defines(statements[i]) /\ KeyOf(statements[i]) = k
    BY <1>1, <1>2 DEF Chained, KnownBefore
  <1>4. labelTable[k] = placed[i] + IF statements[i].kind = "data" THEN 1 ELSE 0
    BY <1>1, <1>2, <1>3 DEF Chained, Labelled
  <1>5. /\ placed[i] \in Nat /\ placed[i + 1] = placed[i] + Counted(statements[i])
        /\ i \in 1 .. m
    BY <1>1, <1>2, <1>3, ChainStep
  <1>6. ASSUME statements[i].kind \in {"label", "method"} PROVE placed[i + 1] \in Starts
    <2>1. Leads(statements, i)
      BY <1>1, <1>5, <1>6 DEF WellFormed
    <2> QED BY <1>0, <1>1, <1>3, <2>1, LeadsOn
  <1>7. CASE statements[i].kind = "label"
    <2>1. k[2] = "CODE" /\ Counted(statements[i]) = 0
      BY <1>3, <1>7 DEF KeyOf, getKey, Counted
    <2>2. labelTable[k] = placed[i + 1]
      BY <1>4, <1>5, <1>7, <2>1
    <2> QED BY <1>6, <1>7, <2>1, <2>2
  <1>8. CASE statements[i].kind = "method"
    <2>1. k[2] = "METHOD" /\ Counted(statements[i]) = 5
      BY <1>3, <1>8 DEF KeyOf, getKey, Counted
    <2>2. labelTable[k] + 5 = placed[i + 1]
      BY <1>4, <1>5, <1>8, <2>1
    <2> QED BY <1>6, <1>8, <2>1, <2>2
  <1>9. CASE statements[i].kind = "data"
    <2>1. k[2] = "DATA"
      BY <1>3, <1>9 DEF KeyOf, getKey
    <2> QED BY <2>1
  <1> QED BY <1>3, <1>7, <1>8, <1>9 DEF Defines

-----------------------------------------------------------------------------
(***************************************************************************)
(* The run.                                                                *)
(***************************************************************************)
\* The text stays what it is while it runs.
LEMMA SameText ==
    ASSUME UNCHANGED asmVars
    PROVE  /\ WellFormed' <=> WellFormed
           /\ Instructions' = Instructions /\ Starts' = Starts
           /\ \A i : (convertInstructionToBytes(statements[i]))' = convertInstructionToBytes(statements[i])
  <1>1. statements' = statements /\ placed' = placed /\ labelTable' = labelTable
    BY DEF asmVars, tables
  <1>2. WellFormed' <=> WellFormed
    BY <1>1 DEF WellFormed, Ordered, CodeFirst, ShortTexts, Leads, IsInstruction
  <1>3. Instructions' = Instructions
    BY <1>1 DEF Instructions, IsInstruction
  <1>4. Starts' = Starts
    BY <1>1, <1>3 DEF Starts
  <1> QED BY <1>1, <1>2, <1>3, <1>4, SameCode

\* The loader takes the code up to the end of the data, which holds every
\* instruction (src/src/vm/VM.cpp:51).
LEMMA CodeLoaded ==
    ASSUME Assembling, pass = "done", Ordered
    PROVE  LET c == SubSeq(bytecode, 1, At(header.dataEnd))
           IN /\ IsSeq(c)
              /\ \A i \in Instructions : Holds(c, placed[i], convertInstructionToBytes(statements[i]))
  <1>1. PICK m \in Nat, d \in Nat : m = Len(statements) /\ d = Len(placed) /\ d \in 1 .. (m + 1)
    BY Finished
  <1>2. Chained /\ ChainOf(placed, statements) /\ WrittenIn(bytecode, m + 1)
    BY <1>1, Finished
  <1>3. PICK n \in Nat : n = End /\ n = placed[d]
    BY <1>1, <1>2, ElementOfSeq DEF ChainOf, End
  <1>4. At(header.dataEnd) = n
    <2>1. header.dataEnd = 20 + n - 1
      BY <1>2, <1>3 DEF Chained, HeaderLength
    <2> QED BY <2>1 DEF At, BYTECODE_HEADER_SIZE
  <1>5. IsSeq(bytecode) /\ n <= Len(bytecode)
    BY <1>1, <1>2, <1>3 DEF WrittenIn
  <1>6. PICK c : c = SubSeq(bytecode, 1, n)
    OBVIOUS
  <1>7. IsSeq(c)
    <2>1. PICK S : bytecode \in Seq(S)
      BY <1>5 DEF IsSeq
    <2>2. \A k \in 1 .. n : bytecode[k] \in S
      <3>1. PICK l \in Nat : l = Len(bytecode)
        BY <2>1, LenProperties
      <3>2. \A k \in 1 .. n : k \in 1 .. l
        BY <1>5, <3>1
      <3> QED BY <2>1, <3>1, <3>2, ElementOfSeq
    <2>3. c \in Seq(S)
      BY <1>6, <2>1, <2>2, SubSeqProperties
    <2> QED BY <2>3, AnySequence
  <1>8. ASSUME NEW i \in Instructions
        PROVE  Holds(c, placed[i], convertInstructionToBytes(statements[i]))
    <2>1. PICK e : e = convertInstructionToBytes(statements[i])
      OBVIOUS
    <2>2. /\ i \in 1 .. (d - 1) /\ placed[i] \in Nat
          /\ statements[i] \in Instruction /\ OperandsFit(statements[i])
          /\ Holds(bytecode, placed[i], e)
          /\ placed[i + 1] = placed[i] + Counted(statements[i])
      BY <1>1, <2>1, Placed
    <2>3. IsSeq(e) /\ Len(e) = Counted(statements[i])
      BY <2>1, <2>2, InstructionBytes
    <2>4. placed[i + 1] <= n
      <3>1. PICK k \in 1 .. d : k = i + 1 /\ d \in k .. d
        BY <2>2
      <3>2. placed[k] <= placed[d]
        BY <1>1, <1>2, <3>1, ChainGrows
      <3> QED BY <1>3, <3>1, <3>2
    <2>5. placed[i] + Len(e) <= n
      BY <2>2, <2>3, <2>4
    <2>6. Holds(c, placed[i], e)
      BY <1>5, <1>6, <2>2, <2>3, <2>5, HoldsInPrefix
    <2> QED BY <2>1, <2>6
  <1> QED BY <1>4, <1>6, <1>7, <1>8

\* The VM begins with the first instruction.
LEMMA Begins ==
    ASSUME Assembling, pass = "done", NewVM, readBytecode(bytecode, header), UNCHANGED asmVars
    PROVE  Executing'
  <1>1. /\ pass' = "done"
        /\ code' = SubSeq(bytecode, 1, At(header.dataEnd)) /\ frames' = <<>> /\ PC' = 0
    BY DEF asmVars, readBytecode, machine, NewVM
  <1>2. ASSUME WellFormed
        PROVE  /\ IsSeq(code')
               /\ \A i \in Instructions : Holds(code', placed[i], convertInstructionToBytes(statements[i]))
               /\ frames' \in Seq(Starts) /\ PC' \in Starts
    <2>1. Ordered
      BY <1>2 DEF WellFormed
    <2>2. /\ IsSeq(code')
          /\ \A i \in Instructions : Holds(code', placed[i], convertInstructionToBytes(statements[i]))
      BY <1>1, <2>1, CodeLoaded
    <2>3. frames' \in Seq(Starts)
      BY <1>1, EmptySeq
    <2>4. PC' \in Starts
      BY <1>1, <1>2, BeginningStarts
    <2> QED BY <2>2, <2>3, <2>4
  <1>3. placed' = placed
    BY DEF asmVars, tables
  <1> QED BY <1>1, <1>2, <1>3, SameText DEF Executing

\* What the loop finds at the program counter, and where it can go from there.
Ways(s) ==
    /\ Encodes(code, PC + 1, "opcode", 1) /\ code[PC + 1].of = s.op
    /\ s.op \notin Leaving => Behind(s.op) \in Starts
    /\ s.op \in Jumps => JumpAddress \in Starts
    /\ s.op = "call" => JumpAddress + 5 \in Starts

LEMMA OnItsWay ==
    ASSUME Assembling, Executing, WellFormed, Looping
    PROVE  \E s : Ways(s)
  <1>0. pass = "done" /\ Ordered
    BY DEF Executing, WellFormed
  <1>1. PICK i \in Instructions : PC = placed[i]
    BY DEF Executing, Starts
  <1>2. PICK s : s = statements[i]
    OBVIOUS
  <1>3. s \in Instruction /\ OperandsFit(s) /\ Resolved(s) /\ PC \in Nat
    BY <1>0, <1>1, <1>2, Placed
  <1>4. IsSeq(code) /\ Holds(code, PC, convertInstructionToBytes(s))
    BY <1>1, <1>2 DEF Executing
  <1>5. Decodes(code, PC, s)
    BY <1>3, <1>4, InstructionDecodes
  <1>6. Behind(s.op) = PC + Counted(s)
    BY <1>3, <1>5, StepsOver
  <1>7. s.op \notin Leaving => Behind(s.op) \in Starts
    BY <1>0, <1>1, <1>2, <1>6, NextStarts
  <1>8. ASSUME s.op \in Jumps \cup {"call"}
        PROVE  \E k \in DOMAIN labelTable : /\ JumpAddress = labelTable[k]
                                            /\ k[2] = IF s.op = "call" THEN "METHOD" ELSE "CODE"
    <2>1. s.op \in TakesLabel
      BY <1>8 DEF TakesLabel
    <2>2. s.first.is = "label"
      BY <1>3, <2>1 DEF OperandsFit, FirstOperand, TakesLabel, Jumps, TakesType, TakesDepth, TakesSlot
    <2>3. PICK k : k = getKey(s.first.of, getOperandLabelType(s.op))
      OBVIOUS
    <2>4. k \in DOMAIN labelTable
      <3>1. k \in References(s)
        <4>1. 1 \in {l \in 1 .. 2 : (<<s.first, s.second>>)[l].is = "label"}
          BY <2>2
        <4> QED BY <2>3, <4>1 DEF References
      <3> QED BY <1>3, <3>1 DEF Resolved
    <2>5. JumpAddress = labelTable[k]
      BY <1>5, <2>2, <2>3 DEF Decodes, JumpAddress
    <2>6. k[2] = IF s.op = "call" THEN "METHOD" ELSE "CODE"
      BY <1>8, <2>3 DEF getKey, getOperandLabelType, Jumps
    <2> QED BY <2>4, <2>5, <2>6
  <1>9. s.op \in Jumps => JumpAddress \in Starts
    BY <1>0, <1>8, LabelStarts DEF Jumps
  <1>10. s.op = "call" => JumpAddress + 5 \in Starts
    BY <1>0, <1>8, LabelStarts
  <1>11. Ways(s)
    BY <1>5, <1>7, <1>9, <1>10 DEF Ways, Decodes
  <1> QED BY <1>11

\* Every step of the run loop.
LEMMA Steps ==
    ASSUME Assembling, Executing, WellFormed, execute
    PROVE  frames' \in Seq(Starts) /\ (Looping' => PC' \in Starts)
  <1>1. Looping
    BY DEF execute, executePlain, executeFails, executeJump, executeNoJump, executeCall,
           executeCallOverflow, executeRet, executeRetWithoutFrame, executeNative, executeExit,
           executeHalt, Fetched
  <1>2. PICK s : Ways(s)
    BY <1>1, OnItsWay
  <1>3. \A op : Fetched(op) => op = s.op
    BY <1>2 DEF Fetched, Ways
  <1>4. frames \in Seq(Starts)
    BY DEF Executing
  <1>5. CASE executePlain
    <2>1. PICK op \in Plain : Fetched(op) /\ GoesOn(Behind(op))
      BY <1>5 DEF executePlain
    <2>2. op = s.op /\ s.op \notin Leaving
      BY <1>3, <2>1 DEF Plain, Leaving, Jumps
    <2> QED BY <1>2, <1>4, <1>5, <2>1, <2>2 DEF executePlain, GoesOn, Ways
  <1>6. CASE executeFails
    <2>1. PICK op : Throws(Behind(op))
      BY <1>6 DEF executeFails
    <2> QED BY <1>4, <2>1 DEF Throws, Looping
  <1>7. CASE executeJump
    <2>1. PICK op \in Jumps : Fetched(op) /\ GoesOn(JumpAddress)
      BY <1>7 DEF executeJump
    <2>2. s.op \in Jumps
      BY <1>3, <2>1
    <2> QED BY <1>2, <1>4, <1>7, <2>1, <2>2 DEF executeJump, GoesOn, Ways
  <1>8. CASE executeNoJump
    <2>1. PICK op \in Jumps \ {"jmp"} : Fetched(op) /\ GoesOn(Behind(op))
      BY <1>8 DEF executeNoJump
    <2>2. op = s.op /\ s.op \notin Leaving
      BY <1>3, <2>1 DEF Leaving, Jumps
    <2> QED BY <1>2, <1>4, <1>8, <2>1, <2>2 DEF executeNoJump, GoesOn, Ways
  <1>9. CASE executeCall
    <2>1. s.op = "call" /\ s.op \notin Leaving
      BY <1>3, <1>9 DEF executeCall, Leaving
    <2>2. PC' \in Starts /\ frames' = <<Behind(s.op)>> \o frames /\ Behind(s.op) \in Starts
      BY <1>2, <1>9, <2>1 DEF executeCall, GoesOn, Ways
    <2>3. PICK o \in Seq(Starts) : o = <<Behind(s.op)>>
      <3>1. <<Behind(s.op)>> \in Seq(Starts)
        BY <2>2
      <3> QED BY <3>1
    <2>4. o \o frames \in Seq(Starts)
      BY <1>4, ConcatProperties
    <2> QED BY <2>2, <2>3, <2>4
  <1>10. CASE executeCallOverflow
    BY <1>4, <1>10 DEF executeCallOverflow, Throws, Looping
  <1>11. CASE executeRet
    <2>1. frames # <<>> /\ PC' = Head(frames) /\ frames' = Tail(frames)
      BY <1>11 DEF executeRet, GoesOn
    <2>2. Head(frames) \in Starts /\ Tail(frames) \in Seq(Starts)
      BY <1>4, <2>1, HeadTailProperties
    <2> QED BY <2>1, <2>2
  <1>12. CASE executeNative \/ executeExit
    <2>1. s.op = "native" /\ s.op \notin Leaving
      BY <1>3, <1>12 DEF executeNative, executeExit, Leaving
    <2> QED BY <1>2, <1>4, <1>12, <2>1 DEF executeNative, executeExit, GoesOn, Ways
  <1>13. CASE executeHalt
    BY <1>4, <1>13 DEF executeHalt, Looping
  <1>14. CASE executeRetWithoutFrame
    BY <1>4, <1>14 DEF executeRetWithoutFrame, Looping
  <1> QED BY <1>5, <1>6, <1>7, <1>8, <1>9, <1>10, <1>11, <1>12, <1>13, <1>14 DEF execute

-----------------------------------------------------------------------------
\* The initial states.
LEMMA DriverStarts == Init => TInv
  <1> SUFFICES ASSUME Init PROVE TInv
    OBVIOUS
  <1>1. tool = "driver" /\ NewAssembler /\ NewVM
    BY DEF Init
  <1>2. Assembling
    BY <1>1, NothingAssembled
  <1> QED BY <1>1, <1>2 DEF TInv

\* The assembler does not begin again.
LEMMA NotIdle == ASSUME assemble PROVE pass' # "idle"
  BY DEF assemble, parse, parseToken, Parsed, constructLabelTable, generateBytecode, ProcessLabel,
         ProcessMethod, ProcessInstruction, ProcessData, ProcessDirective, DuplicateLabel,
         UndefinedLabel, LabelTableConstructed, EncodeLabel, EncodeDirective, EncodeMethod,
         EncodeInstruction, EncodeFails, EncodeData, EncodeMetadata, BytecodeGenerated,
         Laying, Encoding, Fail, Step, Emit

\* What is new stays new until it is used.
LEMMA StillNew ==
    /\ UNCHANGED asmVars => (NewAssembler => NewAssembler')
    /\ UNCHANGED vmVars => (NewVM => NewVM')
  BY DEF NewAssembler, asmVars, tables, output, NewVM, vmVars, loaded, machine

\* Every step of the toolchain.
LEMMA ToolchainStep ==
    ASSUME TInv, [Next]_vars
    PROVE  TInv'
  <1>0. /\ tool \in {"driver", "emitter"} => NewAssembler
        /\ tool \in {"driver", "emitter", "assembler"} => NewVM
        /\ pass = "idle" => NewAssembler
        /\ Assembling
        /\ tool = "vm" => Executing
    BY DEF TInv
  <1>1. CASE runSV \/ Emits
    <2>1. /\ UNCHANGED asmVars /\ UNCHANGED vmVars /\ tool \in {"driver", "emitter"}
          /\ tool' = "emitter"
      BY <1>1 DEF runSV, Emits
    <2> QED BY <1>0, <2>1, StillNew, AssemblingIdle DEF TInv
  <1>2. ASSUME NEW program, assembleString(program), UNCHANGED vmVars,
               tool \in {"driver", "emitter"}, tool' = "assembler"
        PROVE  TInv'
    <2>1. pass' = "parse" /\ Assembling'
      BY <1>0, <1>2, NothingAssembled
    <2> QED BY <1>0, <1>2, <2>1, StillNew DEF TInv
  <1>3. CASE runSVA
    BY <1>2, <1>3 DEF runSVA
  <1>4. CASE AssembleEmitted
    BY <1>2, <1>4 DEF AssembleEmitted
  <1>5. CASE Assembles
    <2>1. assemble /\ UNCHANGED vmVars /\ tool = "assembler" /\ tool' = "assembler"
      BY <1>5 DEF Assembles
    <2> QED BY <1>0, <2>1, NotIdle, StillNew, AssemblingOn DEF TInv
  <1>6. CASE Refuse
    <2>1. UNCHANGED asmVars /\ tool' = "refused"
      BY <1>6 DEF Refuse
    <2>2. pass' = pass
      BY <2>1 DEF asmVars
    <2> QED BY <1>0, <2>1, <2>2, StillNew, AssemblingIdle DEF TInv
  <1>7. CASE runVM
    <2>1. /\ UNCHANGED asmVars /\ tool = "assembler" /\ tool' = "vm" /\ pass = "done"
          /\ readBytecode(bytecode, header)
      BY <1>7 DEF runVM
    <2>2. pass' = "done"
      BY <2>1 DEF asmVars
    <2>3. Executing'
      BY <1>0, <2>1, Begins
    <2> QED BY <1>0, <2>1, <2>2, <2>3, AssemblingIdle DEF TInv
  <1>8. CASE Executes
    <2>1. UNCHANGED asmVars /\ tool = "vm" /\ tool' = "vm" /\ execute /\ code' = code
      BY <1>8 DEF Executes, execute, loaded
    <2>2. pass' = "done" /\ placed' = placed
      BY <1>0, <2>1 DEF asmVars, tables, Executing
    <2>3. WellFormed => frames' \in Seq(Starts) /\ (Looping' => PC' \in Starts)
      BY <1>0, <2>1, Steps
    <2>4. Executing'
      BY <1>0, <2>1, <2>2, <2>3, SameText DEF Executing
    <2> QED BY <1>0, <2>1, <2>2, <2>4, AssemblingIdle DEF TInv
  <1>9. CASE Ended \/ UNCHANGED vars
    <2>1. UNCHANGED asmVars /\ UNCHANGED vmVars /\ tool' = tool
      BY <1>9 DEF Ended, vars
    <2>2. pass' = pass
      BY <2>1 DEF asmVars
    <2>3. Executing => Executing'
      <3>1. code' = code /\ frames' = frames /\ PC' = PC /\ (Looping' <=> Looping)
        BY <2>1 DEF vmVars, loaded, machine, Looping
      <3>2. placed' = placed
        BY <2>1 DEF asmVars, tables
      <3> QED BY <2>1, <2>2, <3>1, <3>2, SameText DEF Executing
    <2> QED BY <1>0, <2>1, <2>2, <2>3, StillNew, AssemblingIdle DEF TInv
  <1> QED BY <1>1, <1>3, <1>4, <1>5, <1>6, <1>7, <1>8, <1>9 DEF Next, Builds

\* What the invariant is for.
LEMMA Fetches == TInv => (WellFormed => FetchesInstructions)
  <1> SUFFICES ASSUME TInv, WellFormed, tool = "vm", Looping PROVE StatementAt(PC) # {}
    BY DEF FetchesInstructions
  <1>1. PICK i \in Instructions : PC = placed[i]
    BY DEF TInv, Executing, Starts
  <1>2. i \in StatementAt(PC)
    BY <1>1 DEF StatementAt
  <1> QED BY <1>2

\* The instruction at the program counter, as the loop reads it.
ReadsWhatStands ==
    tool = "vm" /\ Looping =>
        \E i \in StatementAt(PC) :
            /\ statements[i].op \in Opcode /\ Fetched(statements[i].op)
            /\ statements[i].first.is = "label" =>
                  JumpAddress = labelTable[getKey(statements[i].first.of,
                                                  getOperandLabelType(statements[i].op))]
            /\ Behind(statements[i].op) = placed[i] + Counted(statements[i])

LEMMA Reads == TInv => (WellFormed => ReadsWhatStands)
  <1> SUFFICES ASSUME TInv, WellFormed, tool = "vm", Looping
               PROVE  \E i \in StatementAt(PC) :
                         /\ statements[i].op \in Opcode /\ Fetched(statements[i].op)
                         /\ statements[i].first.is = "label" =>
                               JumpAddress = labelTable[getKey(statements[i].first.of,
                                                               getOperandLabelType(statements[i].op))]
                         /\ Behind(statements[i].op) = placed[i] + Counted(statements[i])
    BY DEF ReadsWhatStands
  <1>1. Assembling /\ Executing /\ pass = "done" /\ Ordered
    BY DEF TInv, Executing, WellFormed
  <1>2. PICK i \in Instructions : PC = placed[i]
    BY <1>1 DEF Executing, Starts
  <1>3. PICK s : s = statements[i]
    OBVIOUS
  <1>4. s \in Instruction /\ OperandsFit(s) /\ PC \in Nat
    BY <1>1, <1>2, <1>3, Placed
  <1>5. IsSeq(code) /\ Holds(code, PC, convertInstructionToBytes(s))
    BY <1>1, <1>2, <1>3 DEF Executing
  <1>6. Decodes(code, PC, s)
    BY <1>4, <1>5, InstructionDecodes
  <1>7. Behind(s.op) = PC + Counted(s)
    BY <1>4, <1>6, StepsOver
  <1>8. i \in StatementAt(PC) /\ s.op \in Opcode
    BY <1>2, <1>4 DEF StatementAt, Instruction
  <1>9. Fetched(s.op)
    BY <1>6 DEF Fetched, Decodes
  <1>10. s.first.is = "label" =>
           JumpAddress = labelTable[getKey(s.first.of, getOperandLabelType(s.op))]
    BY <1>6 DEF Decodes, JumpAddress
  <1> QED BY <1>2, <1>3, <1>7, <1>8, <1>9, <1>10

-----------------------------------------------------------------------------
\* Whatever well-formed text is assembled, compiled or written by hand, the
\* run loop (src/src/vm/VM.cpp:300) always stands where the assembler placed
\* an instruction: it never takes an operand, the header of a method, data or
\* what is behind them for one, wherever it jumps, calls or returns to.
THEOREM NeverMidInstruction == Spec => [](WellFormed => FetchesInstructions)
  <1>1. Spec => []TInv
    BY DriverStarts, ToolchainStep, PTL DEF Spec
  <1> QED BY <1>1, Fetches, PTL

\* And what it reads there is that instruction: its opcode, the address that
\* the table gives its label, and as many bytes as the assembler counted
\* (src/src/assembler/Assembler.cpp:119 and :301, src/src/vm/VM.cpp:300), so
\* that the loop never stops for an opcode that it does not know.
THEOREM ReadsInstructions == Spec => [](WellFormed => ReadsWhatStands)
  <1>1. Spec => []TInv
    BY DriverStarts, ToolchainStep, PTL DEF Spec
  <1> QED BY <1>1, Reads, PTL

-----------------------------------------------------------------------------
(***************************************************************************)
(* The tables of a text.                                                   *)
(***************************************************************************)
EntryKinds == {"source", "function", "line"}

\* Behind the beginning of the metadata a text has nothing but its tables.
\* The parser would take instructions and data there, too, whose bytes the
\* loader would read as entries.
TablesHoldEntries ==
    \A i \in 1 .. Len(statements) : \A j \in 1 .. (i - 1) :
        statements[j].kind = "directive" /\ statements[j].section = "METADATA" =>
            statements[i].kind \in EntryKinds \cup {"directive"}

\* The regions of the statements before n, as the parser goes through them:
\* r[j] is the one in front of statement j.
Regions(r, t, n) ==
    /\ r \in [1 .. n -> Sections] /\ r[1] = "CODE"
    /\ \A j \in 1 .. (n - 1) :
          /\ r[j + 1] = IF t[j].kind = "directive" THEN t[j].section ELSE r[j]
          /\ t[j].kind = "directive" => r[j] \in RegionBefore(t[j].section)
          /\ t[j].kind = "source"   => r[j] = "METADATA_SOURCE"
          /\ t[j].kind = "function" => r[j] = "METADATA_FUNCTION"
          /\ t[j].kind = "line"     => r[j] = "METADATA_LINE_TABLE"

\* The regions follow each other.
Rank(r) ==
    CASE r = "CODE" -> 0 [] r = "DATA" -> 1 [] r = "METADATA" -> 2 [] r = "METADATA_SOURCE" -> 3
      [] r = "METADATA_FUNCTION" -> 4 [] r = "METADATA_LINE_TABLE" -> 5

LEMMA RankStep ==
    ASSUME NEW r \in Sections, NEW s \in Sections, r \in RegionBefore(s)
    PROVE  Rank(r) \in Nat /\ Rank(s) \in Nat /\ Rank(r) < Rank(s)
  BY DEF Sections, RegionBefore, Rank

LEMMA RankGrows ==
    ASSUME NEW t, NEW n \in Nat, NEW r, Regions(r, t, n), NEW i \in 1 .. n, NEW j \in i .. n
    PROVE  Rank(r[i]) \in Nat /\ Rank(r[j]) \in Nat /\ Rank(r[i]) <= Rank(r[j])
  <1>1. \A k \in 1 .. n : r[k] \in Sections
    BY DEF Regions
  <1>2. \A k \in 1 .. n : Rank(r[k]) \in Nat
    BY <1>1 DEF Sections, Rank
  <1> DEFINE T == {k \in i .. n : ~ (Rank(r[i]) <= Rank(r[k]))}
  <1> SUFFICES ASSUME T # {} PROVE FALSE
    BY <1>2
  <1>3. PICK x \in T : \A y \in T : x <= y
    <2>1. T \subseteq Nat
      OBVIOUS
    <2> HIDE DEF T
    <2> QED BY <2>1, LeastOfNaturals
  <1>4. x # i
    BY <1>2, <1>3
  <1>5. PICK w \in Nat : w \in i .. n /\ w \in 1 .. (n - 1) /\ w + 1 = x /\ ~ (x <= w)
    <2>1. x - 1 \in Nat /\ x - 1 \in i .. n /\ x - 1 \in 1 .. (n - 1) /\ (x - 1) + 1 = x /\ ~ (x <= x - 1)
      BY <1>3, <1>4
    <2> QED BY <2>1
  <1>6. Rank(r[i]) <= Rank(r[w])
    BY <1>3, <1>5
  <1>7. Rank(r[w]) <= Rank(r[w + 1])
    <2>1. CASE t[w].kind = "directive"
      <3>1. r[w + 1] = t[w].section /\ r[w] \in RegionBefore(t[w].section)
        BY <1>5, <2>1 DEF Regions
      <3>2. r[w] \in Sections /\ r[w + 1] \in Sections
        BY <1>1, <1>5
      <3> QED BY <3>1, <3>2, RankStep
    <2>2. CASE t[w].kind # "directive"
      <3>1. r[w + 1] = r[w]
        BY <1>5, <2>2 DEF Regions
      <3>2. Rank(r[w]) \in Nat
        BY <1>2, <1>5
      <3> QED BY <3>1, <3>2
    <2> QED BY <2>1, <2>2
  <1> QED BY <1>2, <1>3, <1>5, <1>6, <1>7

\* So the sources come first, then the functions and then the lines, and no
\* directive stands between two entries of a kind.
InOrder(t) ==
    /\ \A i, j \in 1 .. Len(t) :
          /\ t[i].kind = "source" /\ t[j].kind \in {"function", "line"} => i < j
          /\ t[i].kind = "function" /\ t[j].kind = "line" => i < j
    /\ \A i \in 1 .. Len(t) : \A j \in i .. Len(t) : \A k \in i .. j :
          t[i].kind \in EntryKinds /\ t[j].kind = t[i].kind => t[k].kind # "directive"

LEMMA TablesInOrder ==
    ASSUME NEW t, Len(t) \in Nat, NEW r, Regions(r, t, Len(t) + 1)
    PROVE  InOrder(t)
  <1>1. PICK n \in Nat : n = Len(t)
    OBVIOUS
  <1>2. Regions(r, t, n + 1)
    BY <1>1
  <1> DEFINE RankOf(k) == CASE k = "source" -> 3 [] k = "function" -> 4 [] k = "line" -> 5
  <1>3. ASSUME NEW i \in 1 .. n, t[i].kind \in EntryKinds PROVE Rank(r[i]) = RankOf(t[i].kind)
    <2>1. i \in 1 .. ((n + 1) - 1)
      OBVIOUS
    <2>2. /\ t[i].kind = "source"   => r[i] = "METADATA_SOURCE"
          /\ t[i].kind = "function" => r[i] = "METADATA_FUNCTION"
          /\ t[i].kind = "line"     => r[i] = "METADATA_LINE_TABLE"
      BY <1>2, <2>1 DEF Regions
    <2> QED BY <1>3, <2>2 DEF EntryKinds, Rank
  <1>4. ASSUME NEW i \in 1 .. n, NEW j \in 1 .. n, Rank(r[i]) < Rank(r[j]) PROVE i < j
    <2> SUFFICES ASSUME ~ (i < j) PROVE FALSE
      OBVIOUS
    <2>1. j \in 1 .. (n + 1) /\ i \in j .. (n + 1)
      OBVIOUS
    <2>2. n + 1 \in Nat
      OBVIOUS
    <2>3. Rank(r[j]) \in Nat /\ Rank(r[i]) \in Nat /\ Rank(r[j]) <= Rank(r[i])
      BY <1>2, <2>1, <2>2, RankGrows
    <2> QED BY <1>4, <2>3
  <1>5. ASSUME NEW i \in 1 .. n, NEW j \in 1 .. n
        PROVE  /\ t[i].kind = "source" /\ t[j].kind \in {"function", "line"} => i < j
               /\ t[i].kind = "function" /\ t[j].kind = "line" => i < j
    BY <1>3, <1>4 DEF EntryKinds
  <1>6. ASSUME NEW i \in 1 .. n, NEW j \in i .. n, NEW k \in i .. j,
               t[i].kind \in EntryKinds, t[j].kind = t[i].kind, t[k].kind = "directive"
        PROVE  FALSE
    <2>1. j \in 1 .. n /\ k \in 1 .. n /\ n + 1 \in Nat
      OBVIOUS
    <2>2. Rank(r[i]) = Rank(r[j])
      BY <1>3, <1>6, <2>1
    <2>3. i \in 1 .. (n + 1) /\ k \in 1 .. (n + 1) /\ k + 1 \in 1 .. (n + 1)
          /\ k \in i .. (n + 1) /\ k \in 1 .. ((n + 1) - 1)
      BY <2>1
    <2>4. k # j
      BY <1>6 DEF EntryKinds
    <2>5. k + 1 \in 1 .. (n + 1) /\ j \in 1 .. (n + 1) /\ j \in (k + 1) .. (n + 1)
      BY <2>1, <2>4
    <2>6. Rank(r[i]) \in Nat /\ Rank(r[k]) \in Nat /\ Rank(r[i]) <= Rank(r[k])
      BY <1>2, <2>1, <2>3, RankGrows
    <2>7. Rank(r[k + 1]) \in Nat /\ Rank(r[k + 1]) <= Rank(r[j])
      BY <1>2, <2>1, <2>5, RankGrows
    <2>8. r[k + 1] = t[k].section /\ r[k] \in RegionBefore(t[k].section)
      BY <1>2, <1>6, <2>3 DEF Regions
    <2>9. r[k] \in Sections /\ r[k + 1] \in Sections
      BY <1>2, <2>3 DEF Regions
    <2>10. Rank(r[k]) < Rank(r[k + 1])
      BY <2>8, <2>9, RankStep
    <2> QED BY <2>2, <2>6, <2>7, <2>10
  <1> QED BY <1>1, <1>5, <1>6 DEF InOrder

-----------------------------------------------------------------------------
(***************************************************************************)
(* The bytes of the tables.                                                *)
(***************************************************************************)
Counts == [source : Nat, function : Nat, line : Nat]
NoEntries == [source |-> 0, function |-> 0, line |-> 0]
Total(c) == c.source + c.function + c.line

\* What is counted once statement s has been, too.
CountedWith(c, s) ==
    [source   |-> c.source   + IF s.kind = "source"   THEN CountedMetadata(s) ELSE 0,
     function |-> c.function + IF s.kind = "function" THEN CountedMetadata(s) ELSE 0,
     line     |-> c.line     + IF s.kind = "line"     THEN CountedMetadata(s) ELSE 0]

\* c[j] is what has been counted before statement j, from statement d on.
Tally(c, t, d, n) ==
    /\ c \in [d .. n -> Counts] /\ c[d] = NoEntries
    /\ \A j \in d .. (n - 1) : /\ t[j].kind \in EntryKinds \cup {"directive"}
                               /\ c[j + 1] = CountedWith(c[j], t[j])

EntryCode(s) ==
    CASE s.kind = "source"   -> convertSourceMetadata(s)
      [] s.kind = "function" -> convertFunctionMetadata(s)
      [] s.kind = "line"     -> convertLineTableMetadata(s)

\* The bytes b end with the entries among the statements d .. n-1, from
\* position e on.
EntriesIn(b, counts, t, d, e, n) ==
    \E c : /\ Tally(c, t, d, n) /\ c[n] = counts
           /\ Len(b) = e + Total(counts)
           /\ \A j \in d .. (n - 1) :
                 t[j].kind \in EntryKinds => Holds(b, e + Total(c[j]), EntryCode(t[j]))

\* An entry has as many bytes as are counted for it
\* (src/src/assembler/Assembler.cpp:434, :456 and :488).
LEMMA EntryLength ==
    ASSUME NEW s \in Statement, s.kind \in EntryKinds
    PROVE  /\ IsSeq(EntryCode(s)) /\ CountedMetadata(s) \in Nat
           /\ Len(EntryCode(s)) = CountedMetadata(s)
  <1> USE DEF EntryKinds
  <1>1. /\ s.kind = "source" => s \in SourceEntry
        /\ s.kind = "function" => s \in FunctionEntry
        /\ s.kind = "line" => s \in LineEntry
    BY DEF Statement, Instruction, LabelDef, MethodDef, DataDef, Directive,
           SourceEntry, FunctionEntry, LineEntry
  <1>2. ASSUME NEW x \in Text
        PROVE  /\ IsSeq(convertStringToBytes(x)) /\ TextLength[x] \in Nat
               /\ Len(convertStringToBytes(x)) = 4 + TextLength[x]
    <2>1. PICK n \in Nat : n = TextLength[x]
      BY TextAssumption
    <2>2. /\ IsSeq(Encode("number", n, 4)) /\ IsSeq(Encode("text", x, n))
          /\ Len(Encode("number", n, 4)) = 4 /\ Len(Encode("text", x, n)) = n
      BY EncodeFacts
    <2> QED BY <2>1, <2>2, Concatenated DEF convertStringToBytes
  <1>3. PICK a, b, c, l : /\ a = Encode("number", 0, 2) /\ b = Encode("number", s.start, 4)
                          /\ c = Encode("number", s.end, 4) /\ l = Encode("line", s.line, 6)
    OBVIOUS
  <1>4. IsSeq(a) /\ Len(a) = 2 /\ IsSeq(b) /\ Len(b) = 4 /\ IsSeq(c) /\ Len(c) = 4
        /\ IsSeq(l) /\ Len(l) = 6
    <2>1. PICK two \in Nat, four \in Nat, six \in Nat : two = 2 /\ four = 4 /\ six = 6
      OBVIOUS
    <2>2. /\ IsSeq(a) /\ Len(a) = two
      BY <1>3, <2>1, EncodeFacts
    <2>3. IsSeq(b) /\ Len(b) = four
      BY <1>3, <2>1, EncodeFacts
    <2>4. IsSeq(c) /\ Len(c) = four
      BY <1>3, <2>1, EncodeFacts
    <2>5. IsSeq(l) /\ Len(l) = six
      BY <1>3, <2>1, EncodeFacts
    <2> QED BY <2>1, <2>2, <2>3, <2>4, <2>5
  <1>5. /\ IsSeq(b \o c) /\ Len(b \o c) = 8
        /\ IsSeq((b \o c) \o a) /\ Len((b \o c) \o a) = 10
    <2>1. IsSeq(b \o c) /\ Len(b \o c) = Len(b) + Len(c)
      BY <1>4, Concatenated
    <2>2. IsSeq((b \o c) \o a) /\ Len((b \o c) \o a) = Len(b \o c) + Len(a)
      BY <1>4, <2>1, Concatenated
    <2> QED BY <1>4, <2>1, <2>2
  <1>6. CASE s.kind = "source"
    <2>0. s.path \in Text
      BY <1>1, <1>6 DEF SourceEntry
    <2>1. PICK n, x : /\ x = convertStringToBytes(s.path) /\ n = TextLength[s.path]
                              /\ n \in Nat /\ IsSeq(x) /\ Len(x) = 4 + n
      BY <1>2, <2>0
    <2>2. EntryCode(s) = a \o x /\ CountedMetadata(s) = 2 + 4 + n
      BY <1>3, <1>6, <2>1 DEF EntryCode, convertSourceMetadata, CountedMetadata
    <2>3. IsSeq(a \o x) /\ Len(a \o x) = 2 + (4 + n)
      BY <1>4, <2>1, Concatenated
    <2> QED BY <2>1, <2>2, <2>3
  <1>7. CASE s.kind = "function"
    <2>0. s.name \in Text
      BY <1>1, <1>7 DEF FunctionEntry
    <2>1. PICK n, x : /\ x = convertStringToBytes(s.name) /\ n = TextLength[s.name]
                              /\ n \in Nat /\ IsSeq(x) /\ Len(x) = 4 + n
      BY <1>2, <2>0
    <2>2. EntryCode(s) = ((b \o c) \o a) \o x /\ CountedMetadata(s) = 14 + n
      BY <1>3, <1>7, <2>1 DEF EntryCode, convertFunctionMetadata, CountedMetadata
    <2>3. IsSeq(((b \o c) \o a) \o x) /\ Len(((b \o c) \o a) \o x) = 10 + (4 + n)
      BY <1>5, <2>1, Concatenated
    <2> QED BY <2>1, <2>2, <2>3
  <1>8. CASE s.kind = "line"
    <2>1. EntryCode(s) = ((b \o c) \o a) \o l /\ CountedMetadata(s) = 16
      BY <1>3, <1>8 DEF EntryCode, convertLineTableMetadata, CountedMetadata
    <2>2. IsSeq(((b \o c) \o a) \o l) /\ Len(((b \o c) \o a) \o l) = 10 + 6
      BY <1>4, <1>5, Concatenated
    <2> QED BY <2>1, <2>2
  <1> QED BY <1>6, <1>7, <1>8

\* Counting goes on.
LEMMA CountsGo ==
    ASSUME NEW s \in Statement, NEW c \in Counts
    PROVE  /\ s.kind \in EntryKinds =>
                /\ CountedWith(c, s) \in Counts
                /\ Total(CountedWith(c, s)) = Total(c) + CountedMetadata(s)
                /\ [c EXCEPT ![s.kind] = @ + CountedMetadata(s)] = CountedWith(c, s)
           /\ s.kind \notin EntryKinds => CountedWith(c, s) = c
           /\ Total(c) \in Nat
  <1>1. c = [source |-> c.source, function |-> c.function, line |-> c.line]
        /\ c.source \in Nat /\ c.function \in Nat /\ c.line \in Nat
    BY DEF Counts
  <1>4. DOMAIN c = EntryKinds
    BY DEF Counts, EntryKinds
  <1>2. ASSUME s.kind \in EntryKinds
        PROVE  /\ CountedWith(c, s) \in Counts
               /\ Total(CountedWith(c, s)) = Total(c) + CountedMetadata(s)
               /\ [c EXCEPT ![s.kind] = @ + CountedMetadata(s)] = CountedWith(c, s)
    <2>1. PICK k \in Nat : k = CountedMetadata(s)
      BY <1>2, EntryLength
    <2>2. CASE s.kind = "source"
      <3>1. CountedWith(c, s) = [source |-> c.source + k, function |-> c.function, line |-> c.line]
        BY <1>1, <2>1, <2>2 DEF CountedWith
      <3>2. [c EXCEPT !["source"] = @ + k] = [source |-> c.source + k, function |-> c.function, line |-> c.line]
        <4>1. [c EXCEPT !["source"] = @ + k] = [x \in EntryKinds |-> IF x = "source" THEN c[x] + k ELSE c[x]]
          BY <1>4
        <4>2. [source |-> c.source + k, function |-> c.function, line |-> c.line]
                = [x \in EntryKinds |-> IF x = "source" THEN c.source + k
                                         ELSE IF x = "function" THEN c.function ELSE c.line]
          BY DEF EntryKinds
        <4> QED BY <4>1, <4>2 DEF EntryKinds
      <3> QED BY <1>1, <2>1, <2>2, <3>1, <3>2 DEF Counts, Total
    <2>3. CASE s.kind = "function"
      <3>1. CountedWith(c, s) = [source |-> c.source, function |-> c.function + k, line |-> c.line]
        BY <1>1, <2>1, <2>3 DEF CountedWith
      <3>2. [c EXCEPT !["function"] = @ + k] = [source |-> c.source, function |-> c.function + k, line |-> c.line]
        <4>1. [c EXCEPT !["function"] = @ + k] = [x \in EntryKinds |-> IF x = "function" THEN c[x] + k ELSE c[x]]
          BY <1>4
        <4>2. [source |-> c.source, function |-> c.function + k, line |-> c.line]
                = [x \in EntryKinds |-> IF x = "source" THEN c.source
                                         ELSE IF x = "function" THEN c.function + k ELSE c.line]
          BY DEF EntryKinds
        <4> QED BY <4>1, <4>2 DEF EntryKinds
      <3> QED BY <1>1, <2>1, <2>3, <3>1, <3>2 DEF Counts, Total
    <2>4. CASE s.kind = "line"
      <3>1. CountedWith(c, s) = [source |-> c.source, function |-> c.function, line |-> c.line + k]
        BY <1>1, <2>1, <2>4 DEF CountedWith
      <3>2. [c EXCEPT !["line"] = @ + k] = [source |-> c.source, function |-> c.function, line |-> c.line + k]
        <4>1. [c EXCEPT !["line"] = @ + k] = [x \in EntryKinds |-> IF x = "line" THEN c[x] + k ELSE c[x]]
          BY <1>4
        <4>2. [source |-> c.source, function |-> c.function, line |-> c.line + k]
                = [x \in EntryKinds |-> IF x = "source" THEN c.source
                                         ELSE IF x = "function" THEN c.function ELSE c.line + k]
          BY DEF EntryKinds
        <4> QED BY <4>1, <4>2 DEF EntryKinds
      <3> QED BY <1>1, <2>1, <2>4, <3>1, <3>2 DEF Counts, Total
    <2> QED BY <1>2, <2>2, <2>3, <2>4 DEF EntryKinds
  <1>3. ASSUME s.kind \notin EntryKinds PROVE CountedWith(c, s) = c
    BY <1>1, <1>3 DEF CountedWith, EntryKinds
  <1> QED BY <1>1, <1>2, <1>3 DEF Total

\* Where there is no entry of a kind, its count stands still.
LEMMA TallyStands ==
    ASSUME NEW t, NEW d \in Nat, NEW n \in Nat, NEW c, Tally(c, t, d, n),
           \A j \in d .. (n - 1) : t[j] \in Statement,
           NEW kind \in EntryKinds, NEW i \in d .. n, NEW j \in i .. n,
           \A k \in i .. (j - 1) : t[k].kind # kind
    PROVE  c[i][kind] = c[j][kind]
  <1> DEFINE T == {k \in i .. j : c[i][kind] # c[k][kind]}
  <1> SUFFICES ASSUME T # {} PROVE FALSE
    OBVIOUS
  <1>1. PICK x \in T : \A y \in T : x <= y
    <2>1. T \subseteq Nat
      OBVIOUS
    <2> HIDE DEF T
    <2> QED BY <2>1, LeastOfNaturals
  <1>2. PICK w \in Nat : w \in i .. (j - 1) /\ w \in i .. j /\ w \in d .. (n - 1) /\ w \in d .. n
                         /\ w + 1 = x /\ ~ (x <= w)
    <2>1. x # i
      BY <1>1
    <2>2. x - 1 \in Nat /\ x - 1 \in i .. (j - 1) /\ x - 1 \in d .. (n - 1) /\ (x - 1) + 1 = x
      BY <1>1, <2>1
    <2> QED BY <2>2
  <1>3. c[i][kind] = c[w][kind]
    BY <1>1, <1>2
  <1>4. c[w + 1] = CountedWith(c[w], t[w]) /\ c[w] \in Counts /\ t[w].kind # kind
    BY <1>2 DEF Tally
  <1>5. c[w + 1][kind] = c[w][kind]
    <2>1. PICK a : a = c[w] /\ a \in Counts
      BY <1>4
    <2>2. a.source \in Nat /\ a.function \in Nat /\ a.line \in Nat
      BY <2>1 DEF Counts
    <2>3. CASE kind = "source"
      <3>1. c[w + 1].source = a.source
        BY <1>4, <2>1, <2>2, <2>3 DEF CountedWith
      <3> QED BY <2>1, <2>3, <3>1
    <2>4. CASE kind = "function"
      <3>1. c[w + 1].function = a.function
        BY <1>4, <2>1, <2>2, <2>4 DEF CountedWith
      <3> QED BY <2>1, <2>4, <3>1
    <2>5. CASE kind = "line"
      <3>1. c[w + 1].line = a.line
        BY <1>4, <2>1, <2>2, <2>5 DEF CountedWith
      <3> QED BY <2>1, <2>5, <3>1
    <2> QED BY <2>3, <2>4, <2>5 DEF EntryKinds
  <1> QED BY <1>1, <1>2, <1>3, <1>5

-----------------------------------------------------------------------------
(***************************************************************************)
(* Reading tables.                                                         *)
(***************************************************************************)
\* Index i of the file is position i - 20 of the bytes.
LEMMA NumberRead ==
    ASSUME NEW b, IsSeq(b), NEW p \in Nat, NEW x \in Nat, x = p + BYTECODE_HEADER_SIZE,
           NEW v, NEW n \in Nat \ {0}, Holds(b, p, Encode("number", v, n))
    PROVE  ReadNumber(b, x, n) = v
  <1>1. Encodes(b, p + 1, "number", n) /\ b[p + 1].of = v
    BY HoldsEncoded
  <1>2. At(x) = p + 1
    BY DEF At, BYTECODE_HEADER_SIZE
  <1> QED BY <1>1, <1>2 DEF ReadNumber

LEMMA StringRead ==
    ASSUME NEW b, IsSeq(b), NEW p \in Nat, NEW x \in Nat, x = p + BYTECODE_HEADER_SIZE,
           NEW t \in Text, Holds(b, p, convertStringToBytes(t))
    PROVE  ReadNumber(b, x, 4) = TextLength[t] /\ ReadString(b, x) = t
  <1>1. PICK n \in Nat : n = TextLength[t]
    BY TextAssumption
  <1>2. PICK four \in Nat \ {0} : four = 4
    OBVIOUS
  <1>3. PICK c, d : c = Encode("number", n, four) /\ d = Encode("text", t, n)
    OBVIOUS
  <1>4. IsSeq(c) /\ Len(c) = four
    BY <1>3, EncodeFacts
  <1>5. IsSeq(d) /\ Len(d) = n
    BY <1>3, EncodeFacts
  <1>6. convertStringToBytes(t) = c \o d
    BY <1>1, <1>2, <1>3 DEF convertStringToBytes
  <1>7. Holds(b, p, c) /\ Holds(b, p + four, d)
    BY <1>4, <1>5, <1>6, HoldsParts
  <1>8. ReadNumber(b, x, four) = n
    BY <1>3, <1>7, NumberRead
  <1>9. CASE n = 0
    <2>1. t = ""
      BY <1>1, <1>9, TextAssumption
    <2>2. ReadNumber(b, x, 4) = 0
      BY <1>2, <1>8, <1>9
    <2>3. ReadString(b, x) = ""
      <3>1. ~ (ReadNumber(b, x, 4) > 0)
        BY <2>2
      <3> QED BY <3>1, Zenon DEF ReadString
    <2> QED BY <1>1, <1>9, <2>1, <2>2, <2>3
  <1>10. CASE n # 0
    <2>1. p + four \in Nat /\ n \in Nat \ {0} /\ n > 0
      BY <1>10
    <2>2. Encodes(b, (p + four) + 1, "text", n) /\ b[(p + four) + 1].of = t
      BY <1>3, <1>7, <2>1, HoldsEncoded
    <2>3. At(x + 4) = (p + four) + 1
      BY <1>2 DEF At, BYTECODE_HEADER_SIZE
    <2> QED BY <1>1, <1>2, <1>8, <2>1, <2>2, <2>3 DEF ReadString
  <1> QED BY <1>1, <1>2, <1>8, <1>9, <1>10

\* What the loader finds where an entry stands (src/src/vm/VM.cpp:126).
LEMMA SourceRead ==
    ASSUME NEW b, IsSeq(b), NEW p \in Nat, NEW x \in Nat, x = p + BYTECODE_HEADER_SIZE,
           NEW s \in SourceEntry, Holds(b, p, EntryCode(s))
    PROVE  /\ 6 + ReadNumber(b, x + 2, 4) = CountedMetadata(s)
           /\ ReadString(b, x + 2) = s.path
  <1>1. s.kind = "source" /\ s.path \in Text
    BY DEF SourceEntry
  <1>2. PICK n \in Nat : n = TextLength[s.path]
    BY <1>1, TextAssumption
  <1>3. PICK two \in Nat : two = 2
    OBVIOUS
  <1>4. PICK a, y : a = Encode("number", 0, two) /\ y = convertStringToBytes(s.path)
    OBVIOUS
  <1>5. IsSeq(a) /\ Len(a) = two
    BY <1>4, EncodeFacts
  <1>6. EntryCode(s) = a \o y
    BY <1>1, <1>3, <1>4 DEF EntryCode, convertSourceMetadata
  <1>7. IsSeq(y)
    <2>1. IsSeq(Encode("number", n, 4)) /\ IsSeq(Encode("text", s.path, n))
      BY EncodeFacts
    <2> QED BY <1>2, <1>4, <2>1, Concatenated DEF convertStringToBytes
  <1>8. Holds(b, p + two, y)
    BY <1>5, <1>6, <1>7, HoldsParts
  <1>9. PICK q \in Nat, z \in Nat : q = p + two /\ z = x + two /\ z = q + BYTECODE_HEADER_SIZE
    BY DEF BYTECODE_HEADER_SIZE
  <1>10. ReadNumber(b, z, 4) = n /\ ReadString(b, z) = s.path
    BY <1>1, <1>2, <1>4, <1>8, <1>9, StringRead
  <1>11. CountedMetadata(s) = 2 + 4 + n
    BY <1>1, <1>2 DEF CountedMetadata
  <1> QED BY <1>3, <1>9, <1>10, <1>11

LEMMA FunctionRead ==
    ASSUME NEW b, IsSeq(b), NEW p \in Nat, NEW x \in Nat, x = p + BYTECODE_HEADER_SIZE,
           NEW s \in FunctionEntry, Holds(b, p, EntryCode(s))
    PROVE  /\ 14 + ReadNumber(b, x + 10, 4) = CountedMetadata(s)
           /\ ReadNumber(b, x, 4) = s.start /\ ReadNumber(b, x + 4, 4) = s.end
           /\ ReadString(b, x + 10) = s.name
  <1>1. s.kind = "function" /\ s.name \in Text
    BY DEF FunctionEntry
  <1>2. PICK n \in Nat : n = TextLength[s.name]
    BY <1>1, TextAssumption
  <1>3. PICK two \in Nat \ {0}, four \in Nat \ {0} : two = 2 /\ four = 4
    OBVIOUS
  <1>4. PICK a, c, d, y : /\ a = Encode("number", s.start, four) /\ c = Encode("number", s.end, four)
                          /\ d = Encode("number", 0, two) /\ y = convertStringToBytes(s.name)
    OBVIOUS
  <1>5. IsSeq(a) /\ Len(a) = four
    BY <1>4, EncodeFacts
  <1>6. IsSeq(c) /\ Len(c) = four
    BY <1>4, EncodeFacts
  <1>7. IsSeq(d) /\ Len(d) = two
    BY <1>4, EncodeFacts
  <1>8. EntryCode(s) = ((a \o c) \o d) \o y
    BY <1>1, <1>3, <1>4 DEF EntryCode, convertFunctionMetadata
  <1>9. IsSeq(y)
    <2>1. IsSeq(Encode("number", n, 4)) /\ IsSeq(Encode("text", s.name, n))
      BY EncodeFacts
    <2> QED BY <1>2, <1>4, <2>1, Concatenated DEF convertStringToBytes
  <1>10. IsSeq(a \o c) /\ Len(a \o c) = four + four
    BY <1>5, <1>6, Concatenated
  <1>11. IsSeq((a \o c) \o d) /\ Len((a \o c) \o d) = (four + four) + two
    BY <1>7, <1>10, Concatenated
  <1>12. Holds(b, p, (a \o c) \o d) /\ Holds(b, p + ((four + four) + two), y)
    BY <1>8, <1>9, <1>11, HoldsParts
  <1>13. Holds(b, p, a \o c)
    BY <1>7, <1>10, <1>12, HoldsParts
  <1>14. Holds(b, p, a) /\ Holds(b, p + four, c)
    BY <1>5, <1>6, <1>13, HoldsParts
  <1>15. PICK q \in Nat, z \in Nat : q = p + four /\ z = x + 4 /\ z = q + BYTECODE_HEADER_SIZE
    BY <1>3 DEF BYTECODE_HEADER_SIZE
  <1>16. PICK r \in Nat, w \in Nat : /\ r = p + ((four + four) + two) /\ w = x + 10
                                     /\ w = r + BYTECODE_HEADER_SIZE
    BY <1>3 DEF BYTECODE_HEADER_SIZE
  <1>17. ReadNumber(b, x, four) = s.start
    BY <1>4, <1>14, NumberRead
  <1>18. ReadNumber(b, z, four) = s.end
    BY <1>4, <1>14, <1>15, NumberRead
  <1>19. ReadNumber(b, w, 4) = n /\ ReadString(b, w) = s.name
    BY <1>1, <1>2, <1>4, <1>12, <1>16, StringRead
  <1>20. CountedMetadata(s) = 14 + n
    BY <1>1, <1>2 DEF CountedMetadata
  <1> QED BY <1>3, <1>15, <1>16, <1>17, <1>18, <1>19, <1>20

LEMMA LineRead ==
    ASSUME NEW b, IsSeq(b), NEW p \in Nat, NEW x \in Nat, x = p + BYTECODE_HEADER_SIZE,
           NEW s \in LineEntry, Holds(b, p, EntryCode(s))
    PROVE  /\ CountedMetadata(s) = 16
           /\ ReadNumber(b, x, 4) = s.start /\ ReadNumber(b, x + 4, 4) = s.end
           /\ b[At(x + 10)].of = s.line
  <1>1. s.kind = "line"
    BY DEF LineEntry
  <1>3. PICK two \in Nat \ {0}, four \in Nat \ {0} : two = 2 /\ four = 4
    OBVIOUS
  <1>2. PICK six \in Nat \ {0} : six = 6
    OBVIOUS
  <1>4. PICK a, c, d, y : /\ a = Encode("number", s.start, four) /\ c = Encode("number", s.end, four)
                          /\ d = Encode("number", 0, two) /\ y = Encode("line", s.line, six)
    OBVIOUS
  <1>5. IsSeq(a) /\ Len(a) = four
    BY <1>4, EncodeFacts
  <1>6. IsSeq(c) /\ Len(c) = four
    BY <1>4, EncodeFacts
  <1>7. IsSeq(d) /\ Len(d) = two
    BY <1>4, EncodeFacts
  <1>8. EntryCode(s) = ((a \o c) \o d) \o y
    BY <1>1, <1>2, <1>3, <1>4 DEF EntryCode, convertLineTableMetadata
  <1>9. IsSeq(y)
    BY <1>4, EncodeFacts
  <1>10. IsSeq(a \o c) /\ Len(a \o c) = four + four
    BY <1>5, <1>6, Concatenated
  <1>11. IsSeq((a \o c) \o d) /\ Len((a \o c) \o d) = (four + four) + two
    BY <1>7, <1>10, Concatenated
  <1>12. Holds(b, p, (a \o c) \o d) /\ Holds(b, p + ((four + four) + two), y)
    BY <1>8, <1>9, <1>11, HoldsParts
  <1>13. Holds(b, p, a \o c)
    BY <1>7, <1>10, <1>12, HoldsParts
  <1>14. Holds(b, p, a) /\ Holds(b, p + four, c)
    BY <1>5, <1>6, <1>13, HoldsParts
  <1>15. PICK q \in Nat, z \in Nat : q = p + four /\ z = x + 4 /\ z = q + BYTECODE_HEADER_SIZE
    BY <1>3 DEF BYTECODE_HEADER_SIZE
  <1>16. PICK r \in Nat : r = p + ((four + four) + two) /\ At(x + 10) = r + 1
    BY <1>3 DEF BYTECODE_HEADER_SIZE, At
  <1>17. ReadNumber(b, x, four) = s.start
    BY <1>4, <1>14, NumberRead
  <1>18. ReadNumber(b, z, four) = s.end
    BY <1>4, <1>14, <1>15, NumberRead
  <1>19. b[r + 1].of = s.line
    BY <1>4, <1>12, <1>16, HoldsEncoded
  <1>20. CountedMetadata(s) = 16
    BY <1>1 DEF CountedMetadata
  <1> QED BY <1>3, <1>15, <1>16, <1>17, <1>18, <1>19, <1>20

\* The recursive function of the loop that reads a section is defined, and is
\* what its equation says: index k takes what it finds, and goes on behind it.
EntriesFrom(f, i, end, size, entry) ==
    \A k \in i .. (end + 1) :
        f[k] = IF k >= end THEN <<>>
               ELSE <<entry[k]>> \o IF k + size[k] \in (k + 1) .. (end + 1) THEN f[k + size[k]] ELSE <<>>

LEMMA EntriesEquation ==
    ASSUME NEW i \in Nat, NEW end \in Nat, i <= end + 1, NEW size, NEW entry
    PROVE  \E f : EntriesFrom(f, i, end, size, entry) /\ Entries(i, end, size, entry) = f[i]
  <1> DEFINE Right(k, f) ==
                 IF k >= end THEN <<>>
                 ELSE <<entry[k]>> \o IF k + size[k] \in (k + 1) .. (end + 1) THEN f[k + size[k]] ELSE <<>>
             Solves(j, f) == f = [k \in j .. (end + 1) |-> Right(k, f)]
             from == CHOOSE f : Solves(i, f)
  <1>1. Entries(i, end, size, entry) = from[i]
    BY DEF Entries
  <1>2. \E f : Solves(i, f)
    <2> DEFINE T == {n \in 0 .. ((end + 1) - i) : ~ \E f : Solves((end + 1) - n, f)}
    <2> SUFFICES ASSUME T # {} PROVE FALSE
      <3>1. (end + 1) - i \in 0 .. ((end + 1) - i) /\ (end + 1) - ((end + 1) - i) = i
        OBVIOUS
      <3>2. PICK n \in 0 .. ((end + 1) - i) : (end + 1) - n = i
        BY <3>1
      <3>3. T = {} => \E f : Solves((end + 1) - n, f)
        OBVIOUS
      <3> HIDE DEF Solves, T
      <3> QED BY <3>2, <3>3
    <2>1. PICK n \in T : \A y \in T : n <= y
      <3>1. T \subseteq Nat
        OBVIOUS
      <3> HIDE DEF T
      <3> QED BY <3>1, LeastOfNaturals
    <2>2. PICK j \in i .. (end + 1) : j = (end + 1) - n
      <3>1. n \in 0 .. ((end + 1) - i)
        OBVIOUS
      <3>2. (end + 1) - n \in i .. (end + 1)
        BY <3>1
      <3> QED BY <3>2
    <2>3. ~ \E f : Solves(j, f)
      BY <2>2
    <2>4. CASE n = 0
      <3>1. j = end + 1
        BY <2>2, <2>4
      <3>2. \A k \in j .. (end + 1) : k >= end
        BY <3>1
      <3>3. Solves(j, [k \in j .. (end + 1) |-> <<>>])
        BY <3>2
      <3> QED BY <2>3, <3>3
    <2>5. CASE n # 0
      <3>1. n - 1 \in 0 .. ((end + 1) - i) /\ ~ (n <= n - 1) /\ (end + 1) - (n - 1) = j + 1
        BY <2>1, <2>2, <2>5
      <3>2. n - 1 \notin T
        BY <2>1, <3>1
      <3>3. PICK g : Solves(j + 1, g)
        <4>1. PICK m \in 0 .. ((end + 1) - i) : m = n - 1 /\ (end + 1) - m = j + 1
          BY <3>1
        <4>2. \E f : Solves((end + 1) - m, f)
          BY <3>2, <4>1
        <4> HIDE DEF Solves, T
        <4> QED BY <4>1, <4>2
      <3>4. PICK h : h = [k \in j .. (end + 1) |-> IF k = j THEN Right(j, g) ELSE g[k]]
        OBVIOUS
      <3>5. \A k \in (j + 1) .. (end + 1) : g[k] = Right(k, g)
        BY <3>3
      <3>6. \A k \in (j + 1) .. (end + 1) : h[k] = g[k]
        BY <3>4
      <3>7. ASSUME NEW k \in j .. (end + 1) PROVE Right(k, g) = Right(k, h)
        <4>1. ASSUME k + size[k] \in (k + 1) .. (end + 1)
              PROVE  g[k + size[k]] = h[k + size[k]]
          <5>1. k + size[k] \in (j + 1) .. (end + 1)
            <6>1. PICK w \in (k + 1) .. (end + 1) : w = k + size[k]
              BY <4>1
            <6>2. w \in (j + 1) .. (end + 1)
              OBVIOUS
            <6> QED BY <6>1, <6>2
          <5> QED BY <3>6, <5>1
        <4> QED BY <4>1
      <3>8. \A k \in j .. (end + 1) : (IF k = j THEN Right(j, g) ELSE g[k]) = Right(k, h)
        <4>1. \A k \in j .. (end + 1) : k # j => k \in (j + 1) .. (end + 1)
          OBVIOUS
        <4> HIDE DEF Right
        <4> QED BY <3>5, <3>7, <4>1
      <3>9. Solves(j, h)
        <4> HIDE DEF Right
        <4>1. [k \in j .. (end + 1) |-> IF k = j THEN Right(j, g) ELSE g[k]] = [k \in j .. (end + 1) |-> Right(k, h)]
          BY <3>8
        <4> QED BY <3>4, <4>1
      <3> HIDE DEF Solves
      <3> QED BY <2>3, <3>9
    <2> QED BY <2>4, <2>5
  <1>3. Solves(i, from)
    <2> HIDE DEF Solves
    <2> QED BY <1>2
  <1>4. EntriesFrom(from, i, end, size, entry)
    <2> HIDE DEF from
    <2>1. \A k \in i .. (end + 1) : from[k] = Right(k, from)
      BY <1>3
    <2> QED BY <2>1 DEF EntriesFrom
  <1> HIDE DEF from
  <1> QED BY <1>1, <1>4

\* A sequence with one element more in front.
Begun(g, v, s, n) ==
    IsSeq(g) /\ Len(g) = n + 1 /\ g[1] = v /\ \A l \in 1 .. n : g[l + 1] = s[l]

LEMMA Prepended ==
    ASSUME NEW v, NEW s, IsSeq(s), NEW n \in Nat, Len(s) = n
    PROVE  Begun(<<v>> \o s, v, s, n)
  <1>1. <<v>> \in Seq({v}) /\ Len(<<v>>) = 1 /\ <<v>>[1] = v
    OBVIOUS
  <1>2. PICK e : e = <<v>> /\ IsSeq(e) /\ Len(e) = 1 /\ e[1] = v
    BY <1>1, AnySequence
  <1>3. IsSeq(e \o s) /\ Len(e \o s) = Len(e) + Len(s)
    BY <1>2, Concatenated
  <1>4. /\ \A k \in 1 .. Len(e) : (e \o s)[k] = e[k]
        /\ \A k \in 1 .. Len(s) : (e \o s)[Len(e) + k] = s[k]
    BY <1>2, ConcatElements
  <1>5. (e \o s)[1] = v
    BY <1>2, <1>4
  <1>6. ASSUME NEW l \in 1 .. n PROVE (e \o s)[l + 1] = s[l]
    <2>1. (e \o s)[1 + l] = s[l] /\ 1 + l = l + 1
      BY <1>2, <1>4
    <2> QED BY <2>1
  <1> QED BY <1>2, <1>3, <1>5, <1>6 DEF Begun

Along(i, end, size, m, x) ==
    /\ m \in Nat /\ x \in [1 .. (m + 1) -> Nat] /\ x[1] = i /\ x[m + 1] = end + 1
    /\ \A k \in 1 .. m : x[k + 1] = x[k] + size[x[k]] /\ x[k] + 2 <= x[k + 1]
Taken(s, m, entry, x) ==
    IsSeq(s) /\ Len(s) = m /\ \A k \in 1 .. m : s[k] = entry[x[k]]

\* So the loop finds the entries that stand at x[1], x[2] and so on, each as
\* long as it takes it to be, up to the end of the section.
LEMMA EntriesAlong ==
    ASSUME NEW i \in Nat, NEW end \in Nat, NEW size, NEW entry,
           NEW f, EntriesFrom(f, i, end, size, entry),
           NEW m, NEW x, Along(i, end, size, m, x)
    PROVE  Taken(f[i], m, entry, x)
  <1>0. /\ m \in Nat /\ x \in [1 .. (m + 1) -> Nat] /\ x[1] = i /\ x[m + 1] = end + 1
        /\ \A k \in 1 .. m : x[k + 1] = x[k] + size[x[k]] /\ x[k] + 2 <= x[k + 1]
    BY DEF Along
  <1> USE <1>0
  <1>1. \A k \in 1 .. (m + 1) : x[k] \in Nat /\ x[k] <= end + 1 /\ i <= x[k]
    <2> DEFINE T == {n \in 0 .. m : ~ (x[(m + 1) - n] <= end + 1)}
               U == {k \in 1 .. (m + 1) : ~ (i <= x[k])}
    <2>1. T = {}
      <3> SUFFICES ASSUME T # {} PROVE FALSE
        OBVIOUS
      <3>1. PICK n \in T : \A y \in T : n <= y
        <4>1. T \subseteq Nat
          OBVIOUS
        <4> HIDE DEF T
        <4> QED BY <4>1, LeastOfNaturals
      <3>2. n # 0
        BY <3>1
      <3>3. PICK k \in 1 .. m : k = (m + 1) - n /\ k + 1 = (m + 1) - (n - 1) /\ n - 1 \in 0 .. m /\ ~ (n <= n - 1)
        BY <3>1, <3>2
      <3>4. x[k + 1] <= end + 1
        BY <3>1, <3>3
      <3>5. x[k] + 2 <= x[k + 1] /\ x[k] \in Nat /\ x[k + 1] \in Nat
        BY <3>3
      <3> QED BY <3>1, <3>3, <3>4, <3>5
    <2>2. U = {}
      <3> SUFFICES ASSUME U # {} PROVE FALSE
        OBVIOUS
      <3>1. PICK n \in U : \A y \in U : n <= y
        <4>1. U \subseteq Nat
          OBVIOUS
        <4> HIDE DEF U
        <4> QED BY <4>1, LeastOfNaturals
      <3>2. n # 1
        BY <3>1
      <3>3. PICK k \in 1 .. m : k + 1 = n /\ k \in 1 .. (m + 1) /\ ~ (n <= k)
        <4>1. n - 1 \in 1 .. m /\ (n - 1) + 1 = n /\ n - 1 \in 1 .. (m + 1) /\ ~ (n <= n - 1)
          BY <3>1, <3>2
        <4> QED BY <4>1
      <3>4. i <= x[k]
        BY <3>1, <3>3
      <3>5. x[k] + 2 <= x[k + 1] /\ x[k] \in Nat /\ x[k + 1] \in Nat
        BY <3>3
      <3> QED BY <3>1, <3>3, <3>4, <3>5
    <2>3. \A k \in 1 .. (m + 1) : (m + 1) - k \in 0 .. m /\ (m + 1) - ((m + 1) - k) = k
      OBVIOUS
    <2> QED BY <2>1, <2>2, <2>3
  <1> DEFINE Good(n) == /\ IsSeq(f[x[(m + 1) - n]]) /\ Len(f[x[(m + 1) - n]]) = n
                        /\ \A l \in 1 .. n : f[x[(m + 1) - n]][l] = entry[x[(m - n) + l]]
             T == {n \in 0 .. m : ~ Good(n)}
  <1>2. T = {}
    <2> SUFFICES ASSUME T # {} PROVE FALSE
      OBVIOUS
    <2>1. PICK n \in T : \A y \in T : n <= y
      <3>1. T \subseteq Nat
        OBVIOUS
      <3> HIDE DEF T
      <3> QED BY <3>1, LeastOfNaturals
    <2>2. n \in 0 .. m /\ ~ Good(n)
      BY <2>1
    <2>3. CASE n = 0
      <3>1. x[(m + 1) - n] = end + 1
        BY <2>3
      <3>2. f[end + 1] = <<>>
        <4>1. end + 1 \in i .. (end + 1) /\ end + 1 >= end
          <5>1. i <= end + 1
            BY <1>1
          <5> QED BY <5>1
        <4> QED BY <4>1 DEF EntriesFrom
      <3>3. Good(n)
        <4>1. 1 .. n = {}
          BY <2>3
        <4> QED BY <2>3, <3>1, <3>2, <4>1, EmptyFacts
      <3> QED BY <2>2, <3>3
    <2>4. CASE n # 0
      <3>1. PICK o \in 0 .. m : o + 1 = n /\ ~ (n <= o)
        <4>1. n - 1 \in 0 .. m /\ (n - 1) + 1 = n /\ ~ (n <= n - 1)
          BY <2>2, <2>4
        <4> QED BY <4>1
      <3>2. Good(o)
        BY <2>1, <3>1
      <3>3. PICK k \in 1 .. m : /\ k = (m + 1) - n /\ k + 1 = (m + 1) - o
                                /\ k = (m - n) + 1 /\ k = m - o
                                /\ k \in 1 .. (m + 1) /\ k + 1 \in 1 .. (m + 1)
        BY <2>2, <3>1
      <3>4. PICK s : s = f[x[k + 1]] /\ IsSeq(s) /\ Len(s) = o /\ \A l \in 1 .. o : s[l] = entry[x[(m - o) + l]]
        BY <3>2, <3>3
      <3>5. /\ x[k] \in Nat /\ x[k + 1] \in Nat /\ x[k + 1] <= end + 1 /\ i <= x[k]
            /\ x[k + 1] = x[k] + size[x[k]] /\ x[k] + 2 <= x[k + 1]
        BY <1>1, <3>3
      <3>6. PICK a \in Nat, b \in Nat : a = x[k] /\ b = x[k + 1] /\ b = a + size[a]
        BY <3>5
      <3>7. a \in i .. (end + 1) /\ ~ (a >= end) /\ b \in (a + 1) .. (end + 1)
        <4>1. i <= a /\ a + 2 <= b /\ b <= end + 1
          BY <3>5, <3>6
        <4> QED BY <4>1
      <3>8. f[a] = <<entry[a]>> \o s
        <4>1. f[a] = <<entry[a]>> \o IF a + size[a] \in (a + 1) .. (end + 1) THEN f[a + size[a]] ELSE <<>>
          BY <3>7 DEF EntriesFrom
        <4> QED BY <3>4, <3>6, <3>7, <4>1
      <3>9. PICK g : g = <<entry[a]>> \o s
        OBVIOUS
      <3>10. IsSeq(g) /\ Len(g) = n /\ g[1] = entry[a] /\ \A l \in 1 .. o : g[l + 1] = s[l]
        <4>1. o \in Nat
          OBVIOUS
        <4>2. Begun(g, entry[a], s, o)
          BY <3>4, <3>9, <4>1, Prepended
        <4> QED BY <3>1, <4>2 DEF Begun
      <3>12. f[x[(m + 1) - n]] = g
        BY <3>3, <3>6, <3>8, <3>9
      <3>13. ASSUME NEW l \in 1 .. n PROVE g[l] = entry[x[(m - n) + l]]
        <4>1. CASE l = 1
          BY <3>3, <3>6, <3>10, <4>1
        <4>2. CASE l # 1
          <5>1. PICK w \in 1 .. o : l = w + 1 /\ (m - n) + l = (m - o) + w
            <6>1. l - 1 \in 1 .. o /\ l = (l - 1) + 1 /\ (m - n) + l = (m - o) + (l - 1)
              BY <3>1, <4>2
            <6> QED BY <6>1
          <5>2. g[w + 1] = s[w] /\ s[w] = entry[x[(m - o) + w]]
            BY <3>4, <3>10
          <5> QED BY <5>1, <5>2
        <4> QED BY <4>1, <4>2
      <3>14. Good(n)
        BY <3>10, <3>12, <3>13
      <3> QED BY <2>2, <3>14
    <2> QED BY <2>3, <2>4
  <1>3. Good(m)
    BY <1>2
  <1>4. (m + 1) - m = 1 /\ \A l \in 1 .. m : (m - m) + l = l
    OBVIOUS
  <1> QED BY <1>3, <1>4 DEF Taken

-----------------------------------------------------------------------------
(***************************************************************************)
(* Where the entries of a kind stand.                                      *)
(***************************************************************************)
\* A set of naturals that is not empty has a greatest element, if it is
\* bounded.
LEMMA GreatestOfNaturals ==
    ASSUME NEW n \in Nat, NEW T, T \subseteq 0 .. n, T # {}
    PROVE  \E x \in T : \A y \in T : y <= x
  <1> DEFINE U == {n - y : y \in T}
  <1>1. PICK u \in U : \A w \in U : u <= w
    <2>1. U \subseteq Nat
      OBVIOUS
    <2>2. U # {}
      OBVIOUS
    <2> HIDE DEF U
    <2> QED BY <2>1, <2>2, LeastOfNaturals
  <1>2. PICK x \in T : u = n - x
    OBVIOUS
  <1>3. ASSUME NEW y \in T PROVE y <= x
    <2>1. n - y \in U
      OBVIOUS
    <2>2. n - x <= n - y
      BY <1>1, <1>2, <2>1
    <2> QED BY <2>2
  <1> QED BY <1>3

\* What a text's second pass has written of its tables.
Entered(t, b, d, e, c, counts) ==
    /\ t \in Seq(Statement) /\ d \in 1 .. (Len(t) + 1)
    /\ \A i \in 1 .. (d - 1) : t[i].kind \notin EntryKinds
    /\ InOrder(t)
    /\ Tally(c, t, d, Len(t) + 1) /\ c[Len(t) + 1] = counts
    /\ \A j \in d .. Len(t) :
          t[j].kind \in EntryKinds => Holds(b, e + Total(c[j]), EntryCode(t[j]))

\* The statements of a kind.
OfKind(t, kind) == {i \in 1 .. Len(t) : t[i].kind = kind}

\* The entries of one kind are statements a .. a+m-1, and stand at x[1], x[2]
\* and so on behind each other, from position `from' to position `to'.
SectionOf(t, b, kind, from, to, a, m, x) ==
    /\ a \in Nat /\ m \in Nat /\ x \in [1 .. (m + 1) -> Nat]
    /\ OfKind(t, kind) = a .. (a + m - 1)
    /\ x[1] = from /\ x[m + 1] = to
    /\ \A k \in 1 .. m :
          /\ t[a + k - 1] \in Statement /\ t[a + k - 1].kind = kind
          /\ x[k + 1] = x[k] + CountedMetadata(t[a + k - 1])
          /\ Holds(b, x[k], EntryCode(t[a + k - 1]))

\* What has been counted in front of the entries of a kind.
Before(kind, counts) ==
    CASE kind = "source"   -> 0
      [] kind = "function" -> counts.source
      [] kind = "line"     -> counts.source + counts.function

LEMMA SectionFound ==
    ASSUME NEW t, NEW b, NEW d, NEW e \in Nat, NEW c, NEW counts, Entered(t, b, d, e, c, counts),
           NEW kind \in EntryKinds
    PROVE  \E a, m, x : SectionOf(t, b, kind, e + Before(kind, counts),
                                  e + Before(kind, counts) + counts[kind], a, m, x)
  <1>1. PICK n \in Nat : n = Len(t)
    BY LenProperties DEF Entered
  <1>2. d \in Nat /\ d \in 1 .. (n + 1) /\ n + 1 \in Nat
    BY <1>1 DEF Entered
  <1>3. \A i \in 1 .. n : t[i] \in Statement
    BY <1>1, ElementOfSeq DEF Entered
  <1>4. Tally(c, t, d, n + 1) /\ c[n + 1] = counts /\ c[d] = NoEntries
    BY <1>1 DEF Entered, Tally
  <1>5. \A j \in d .. (n + 1) : c[j] \in Counts
    BY <1>4 DEF Tally
  <1>6. ASSUME NEW k2 \in EntryKinds, NEW i \in d .. (n + 1), NEW j \in i .. (n + 1),
               \A l \in i .. (j - 1) : t[l].kind # k2
        PROVE  c[i][k2] = c[j][k2]
    <2>1. \A l \in d .. ((n + 1) - 1) : t[l] \in Statement
      BY <1>2, <1>3
    <2> QED BY <1>2, <1>4, <1>6, <2>1, TallyStands
  <1>7. OfKind(t, kind) \subseteq d .. n
    BY <1>1, <1>2 DEF OfKind, Entered
  <1>8. counts \in Counts /\ c[d].source = 0 /\ c[d].function = 0 /\ c[d].line = 0
    BY <1>2, <1>4, <1>5 DEF NoEntries
  <1>9. CASE OfKind(t, kind) = {}
    <2>1. \A l \in d .. ((n + 1) - 1) : t[l].kind # kind
      BY <1>1, <1>2, <1>9 DEF OfKind
    <2>2. c[d][kind] = c[n + 1][kind]
      <3>1. d \in d .. (n + 1) /\ n + 1 \in d .. (n + 1)
        BY <1>2
      <3> QED BY <1>6, <2>1, <3>1
    <2>3. counts[kind] = 0
      BY <1>4, <1>8, <2>2 DEF EntryKinds
    <2>4. PICK p \in Nat : p = e + Before(kind, counts)
      BY <1>8 DEF Before, Counts, EntryKinds
    <2>5. PICK x : x = [k \in 1 .. (0 + 1) |-> p]
      OBVIOUS
    <2>6. x \in [1 .. (0 + 1) -> Nat] /\ x[1] = p /\ x[0 + 1] = p /\ 1 .. 0 = {}
          /\ 1 .. (1 + 0 - 1) = {} /\ p + 0 = p
      BY <2>5
    <2>7. SectionOf(t, b, kind, p, p + counts[kind], 1, 0, x)
      BY <1>9, <2>3, <2>6 DEF SectionOf
    <2> QED BY <2>4, <2>7
  <1>10. CASE OfKind(t, kind) # {}
    <2>1. PICK a \in OfKind(t, kind) : \A y \in OfKind(t, kind) : a <= y
      <3>1. OfKind(t, kind) \subseteq Nat
        BY <1>2, <1>7
      <3> QED BY <1>10, <3>1, LeastOfNaturals
    <2>2. PICK z \in OfKind(t, kind) : \A y \in OfKind(t, kind) : y <= z
      <3>1. OfKind(t, kind) \subseteq 0 .. n
        BY <1>2, <1>7
      <3> QED BY <1>10, <3>1, GreatestOfNaturals
    <2>3. a \in d .. n /\ z \in d .. n /\ a <= z
      BY <1>7, <2>1, <2>2
    <2>4. \A i \in a .. z : t[i].kind = kind
      <3> SUFFICES ASSUME NEW i \in a .. z PROVE t[i].kind = kind
        OBVIOUS
      <3>1. t[a].kind = kind /\ t[z].kind = kind
        BY <2>1, <2>2 DEF OfKind
      <3>2. i \in d .. ((n + 1) - 1) /\ a \in 1 .. n /\ z \in a .. n /\ i \in 1 .. n /\ z \in 1 .. n
        BY <1>2, <2>3
      <3>3. t[i].kind \in EntryKinds \cup {"directive"}
        BY <1>4, <3>2 DEF Tally
      <3>4. InOrder(t)
        BY DEF Entered
      <3>5. t[i].kind # "directive"
        BY <1>1, <3>1, <3>2, <3>4 DEF InOrder
      <3>6. /\ t[a].kind = "function" => t[i].kind # "source" \/ i < a
            /\ t[a].kind = "line" => t[i].kind \notin {"source", "function"} \/ i < a
            /\ t[z].kind = "source" => t[i].kind \notin {"function", "line"} \/ z < i
            /\ t[z].kind = "function" => t[i].kind # "line" \/ z < i
        BY <1>1, <3>2, <3>4 DEF InOrder
      <3>7. ~ (i < a) /\ ~ (z < i)
        BY <3>2
      <3> QED BY <3>1, <3>3, <3>5, <3>6, <3>7 DEF EntryKinds
    <2>5. PICK m \in Nat : m = (z - a) + 1 /\ a + m - 1 = z /\ a + m = z + 1 /\ m \in 1 .. m
      <3>1. (z - a) + 1 \in Nat /\ a + ((z - a) + 1) - 1 = z /\ a + ((z - a) + 1) = z + 1
        BY <1>2, <2>3
      <3>2. (z - a) + 1 \in 1 .. ((z - a) + 1)
        BY <1>2, <2>3
      <3> QED BY <3>1, <3>2
    <2>6. OfKind(t, kind) = a .. (a + m - 1)
      <3>1. \A i \in a .. z : i \in 1 .. n
        BY <1>2, <2>3
      <3>2. a .. z \subseteq OfKind(t, kind)
        BY <1>1, <2>4, <3>1 DEF OfKind
      <3>3. \A i \in OfKind(t, kind) : i \in a .. z
        BY <1>2, <1>7, <2>1, <2>2, <2>3
      <3> QED BY <2>5, <3>2, <3>3
    <2>7. PICK x : x = [k \in 1 .. (m + 1) |-> e + Total(c[a + k - 1])]
      OBVIOUS
    <2>8. \A k \in 1 .. (m + 1) : a + k - 1 \in d .. (n + 1)
      BY <1>2, <2>3, <2>5
    <2>9. x \in [1 .. (m + 1) -> Nat]
      <3>1. \A k \in 1 .. (m + 1) : Total(c[a + k - 1]) \in Nat
        BY <1>5, <2>8 DEF Total, Counts
      <3> QED BY <2>7, <3>1
    <2>10. ASSUME NEW k \in 1 .. m
           PROVE  /\ t[a + k - 1] \in Statement /\ t[a + k - 1].kind = kind
                  /\ x[k + 1] = x[k] + CountedMetadata(t[a + k - 1])
                  /\ Holds(b, x[k], EntryCode(t[a + k - 1]))
      <3>1. PICK i \in d .. n : i = a + k - 1 /\ i \in a .. z /\ i + 1 = a + (k + 1) - 1 /\ i \in 1 .. n
                                /\ i \in d .. ((n + 1) - 1) /\ i \in d .. (n + 1)
        BY <1>2, <2>3, <2>5
      <3>2. t[i] \in Statement /\ t[i].kind = kind
        BY <1>3, <2>4, <3>1
      <3>3. c[i + 1] = CountedWith(c[i], t[i]) /\ c[i] \in Counts
        BY <1>4, <1>5, <3>1 DEF Tally
      <3>4. Total(c[i + 1]) = Total(c[i]) + CountedMetadata(t[i]) /\ Total(c[i]) \in Nat
            /\ CountedMetadata(t[i]) \in Nat
        BY <3>2, <3>3, CountsGo, EntryLength
      <3>5. x[k] = e + Total(c[i]) /\ x[k + 1] = e + Total(c[i + 1])
        <4>1. k \in 1 .. (m + 1) /\ k + 1 \in 1 .. (m + 1)
          OBVIOUS
        <4> QED BY <2>7, <3>1, <4>1
      <3>6. Holds(b, e + Total(c[i]), EntryCode(t[i]))
        BY <1>1, <3>1, <3>2 DEF Entered
      <3>7. x[k + 1] = x[k] + CountedMetadata(t[i])
        BY <3>4, <3>5
      <3> QED BY <3>1, <3>2, <3>5, <3>6, <3>7
    <2>11. /\ c[a][kind] = 0 /\ c[z + 1][kind] = counts[kind]
      <3>1. d \in d .. (n + 1) /\ a \in d .. (n + 1) /\ z + 1 \in d .. (n + 1) /\ n + 1 \in (z + 1) .. (n + 1)
        BY <1>2, <2>3
      <3>2. \A l \in d .. (a - 1) : t[l].kind # kind
        <4>1. \A l \in d .. (a - 1) : l \in 1 .. n /\ ~ (a <= l)
          BY <1>2, <2>3
        <4> QED BY <1>1, <2>1, <4>1 DEF OfKind
      <3>3. \A l \in (z + 1) .. ((n + 1) - 1) : t[l].kind # kind
        <4>1. \A l \in (z + 1) .. ((n + 1) - 1) : l \in 1 .. n /\ ~ (l <= z)
          BY <1>2, <2>3
        <4> QED BY <1>1, <2>2, <4>1 DEF OfKind
      <3>4. c[d][kind] = c[a][kind]
        BY <1>6, <3>1, <3>2
      <3>5. c[z + 1][kind] = c[n + 1][kind]
        BY <1>6, <3>1, <3>3
      <3> QED BY <1>4, <1>8, <3>4, <3>5 DEF EntryKinds
    <2>12. ASSUME NEW k2 \in EntryKinds,
                  \/ kind = "source" /\ k2 \in {"function", "line"}
                  \/ kind = "function" /\ k2 = "line"
           PROVE  c[a][k2] = 0 /\ c[z + 1][k2] = 0
      <3>1. \A l \in d .. z : t[l].kind # k2
        <4>1. \A l \in d .. z : l \in 1 .. n /\ z \in 1 .. n /\ ~ (z < l)
          BY <1>2, <2>3
        <4>2. InOrder(t) /\ t[z].kind = kind
          BY <2>2 DEF Entered, OfKind
        <4> QED BY <1>1, <2>12, <4>1, <4>2 DEF InOrder
      <3>2. d \in d .. (n + 1) /\ a \in d .. (n + 1) /\ z + 1 \in d .. (n + 1)
            /\ (\A l \in d .. (a - 1) : l \in d .. z) /\ \A l \in d .. ((z + 1) - 1) : l \in d .. z
        BY <1>2, <2>3
      <3>3. c[d][k2] = c[a][k2]
        BY <1>6, <3>1, <3>2
      <3>4. c[d][k2] = c[z + 1][k2]
        BY <1>6, <3>1, <3>2
      <3> QED BY <1>8, <3>3, <3>4 DEF EntryKinds
    <2>13. ASSUME NEW k2 \in EntryKinds,
                  \/ kind = "line" /\ k2 \in {"source", "function"}
                  \/ kind = "function" /\ k2 = "source"
           PROVE  c[a][k2] = counts[k2] /\ c[z + 1][k2] = counts[k2]
      <3>1. \A l \in a .. n : t[l].kind # k2
        <4>1. \A l \in a .. n : l \in 1 .. n /\ a \in 1 .. n /\ ~ (l < a)
          BY <1>2, <2>3
        <4>2. InOrder(t) /\ t[a].kind = kind
          BY <2>1 DEF Entered, OfKind
        <4> QED BY <1>1, <2>13, <4>1, <4>2 DEF InOrder
      <3>2. /\ a \in d .. (n + 1) /\ z + 1 \in d .. (n + 1)
            /\ n + 1 \in a .. (n + 1) /\ n + 1 \in (z + 1) .. (n + 1)
            /\ (\A l \in a .. ((n + 1) - 1) : l \in a .. n)
            /\ \A l \in (z + 1) .. ((n + 1) - 1) : l \in a .. n
        BY <1>2, <2>3
      <3>3. c[a][k2] = c[n + 1][k2]
        BY <1>6, <3>1, <3>2
      <3>4. c[z + 1][k2] = c[n + 1][k2]
        BY <1>6, <3>1, <3>2
      <3> QED BY <1>4, <3>3, <3>4
    <2>14. PICK u, w : u = c[a] /\ w = c[z + 1] /\ u \in Counts /\ w \in Counts
      <3>1. a \in d .. (n + 1) /\ z + 1 \in d .. (n + 1)
        BY <1>2, <2>3
      <3> QED BY <1>5, <3>1
    <2>15. /\ e + Total(c[a]) = e + Before(kind, counts)
           /\ e + Total(c[z + 1]) = e + Before(kind, counts) + counts[kind]
      <3>1. u.source \in Nat /\ u.function \in Nat /\ u.line \in Nat
            /\ w.source \in Nat /\ w.function \in Nat /\ w.line \in Nat
            /\ counts.source \in Nat /\ counts.function \in Nat /\ counts.line \in Nat
        BY <1>8, <2>14 DEF Counts
      <3>2. CASE kind = "source"
        <4>1. u.source = 0 /\ w.source = counts.source
          BY <2>11, <2>14, <3>2
        <4>2. u.function = 0 /\ u.line = 0 /\ w.function = 0 /\ w.line = 0
          BY <2>12, <2>14, <3>2 DEF EntryKinds
        <4> QED BY <2>14, <3>1, <3>2, <4>1, <4>2 DEF Total, Before
      <3>3. CASE kind = "function"
        <4>1. u.function = 0 /\ w.function = counts.function
          BY <2>11, <2>14, <3>3
        <4>2. u.line = 0 /\ w.line = 0
          BY <2>12, <2>14, <3>3 DEF EntryKinds
        <4>3. u.source = counts.source /\ w.source = counts.source
          BY <2>13, <2>14, <3>3 DEF EntryKinds
        <4> QED BY <2>14, <3>1, <3>3, <4>1, <4>2, <4>3 DEF Total, Before
      <3>4. CASE kind = "line"
        <4>1. u.line = 0 /\ w.line = counts.line
          BY <2>11, <2>14, <3>4
        <4>2. /\ u.source = counts.source /\ w.source = counts.source
              /\ u.function = counts.function /\ w.function = counts.function
          BY <2>13, <2>14, <3>4 DEF EntryKinds
        <4> QED BY <2>14, <3>1, <3>4, <4>1, <4>2 DEF Total, Before
      <3> QED BY <3>2, <3>3, <3>4 DEF EntryKinds
    <2>16. x[1] = e + Total(c[a]) /\ x[m + 1] = e + Total(c[z + 1])
      <3>1. 1 \in 1 .. (m + 1) /\ m + 1 \in 1 .. (m + 1) /\ a + 1 - 1 = a /\ a + (m + 1) - 1 = z + 1
        BY <1>2, <2>3, <2>5
      <3> QED BY <2>7, <3>1
    <2>17. a \in Nat
      BY <1>2, <2>3
    <2>18. SectionOf(t, b, kind, e + Before(kind, counts), e + Before(kind, counts) + counts[kind], a, m, x)
      BY <2>5, <2>6, <2>9, <2>10, <2>15, <2>16, <2>17 DEF SectionOf
    <2> QED BY <2>18
  <1> QED BY <1>9, <1>10

Numbered(S, a, m) ==
    /\ Cardinality(S) = m
    /\ \A i \in S : \E k \in 1 .. m : i = a + k - 1 /\ Cardinality({j \in S : j <= i}) = k

\* As many entries as statements, and each has its number.
LEMMA SectionCounts ==
    ASSUME NEW a \in Nat, NEW m \in Nat, NEW S, S = a .. (a + m - 1)
    PROVE  Numbered(S, a, m)
  <1>1. Cardinality(S) = m
    <2>1. PICK z \in Int : z = a + m - 1 /\ S = a .. z
      OBVIOUS
    <2>2. Cardinality(a .. z) = IF a > z THEN 0 ELSE z - a + 1
      BY FS_Interval
    <2>3. (IF a > z THEN 0 ELSE z - a + 1) = m
      BY <2>1
    <2> QED BY <2>1, <2>2, <2>3
  <1>2. ASSUME NEW i \in S
        PROVE  \E k \in 1 .. m : i = a + k - 1 /\ Cardinality({j \in S : j <= i}) = k
    <2>1. i \in Int /\ {j \in S : j <= i} = a .. i
      OBVIOUS
    <2>2. Cardinality(a .. i) = IF a > i THEN 0 ELSE i - a + 1
      BY <2>1, FS_Interval
    <2>3. (IF a > i THEN 0 ELSE i - a + 1) = i - a + 1 /\ i - a + 1 \in 1 .. m /\ i = a + (i - a + 1) - 1
      OBVIOUS
    <2> QED BY <2>1, <2>2, <2>3
  <1> QED BY <1>1, <1>2 DEF Numbered

\* The loader takes the sizes of the entries to be what they are, and finds m
\* of them.
Sized(t, size, a, m, x) ==
    \A k \in 1 .. m : size[x[k] + BYTECODE_HEADER_SIZE] = CountedMetadata(t[a + k - 1])
FoundAt(s, m, entry, x) ==
    IsSeq(s) /\ Len(s) = m /\ \A k \in 1 .. m : s[k] = entry[x[k] + BYTECODE_HEADER_SIZE]

\* The loader finds as many entries as there are, one where each stands.
LEMMA SectionRead ==
    ASSUME NEW t, NEW b, NEW kind, NEW from \in Nat, NEW to \in Nat, from <= to,
           NEW a, NEW m, NEW x, SectionOf(t, b, kind, from, to, a, m, x),
           kind \in EntryKinds, NEW size, NEW entry, NEW i, i = from + BYTECODE_HEADER_SIZE,
           NEW end, end = to + BYTECODE_HEADER_SIZE - 1,
           Sized(t, size, a, m, x)
    PROVE  FoundAt(Entries(i, end, size, entry), m, entry, x)
  <1>1. a \in Nat /\ m \in Nat /\ x \in [1 .. (m + 1) -> Nat] /\ x[1] = from /\ x[m + 1] = to
    BY DEF SectionOf
  <1>2. i \in Nat /\ end \in Nat /\ i <= end + 1 /\ end + 1 = to + 20 /\ i = from + 20
    BY DEF BYTECODE_HEADER_SIZE
  <1>3. PICK f : EntriesFrom(f, i, end, size, entry) /\ Entries(i, end, size, entry) = f[i]
    BY <1>2, EntriesEquation
  <1>4. PICK y : y = [k \in 1 .. (m + 1) |-> x[k] + 20]
    OBVIOUS
  <1>5. y \in [1 .. (m + 1) -> Nat] /\ y[1] = i /\ y[m + 1] = end + 1
    BY <1>1, <1>2, <1>4
  <1>6. ASSUME NEW k \in 1 .. m PROVE y[k + 1] = y[k] + size[y[k]] /\ y[k] + 2 <= y[k + 1]
    <2>1. PICK s : s = t[a + k - 1] /\ s \in Statement /\ s.kind = kind
      BY DEF SectionOf
    <2>2. PICK l \in Nat : l = CountedMetadata(s)
      BY <2>1, EntryLength
    <2>3. l >= 2
      <3>1. s.kind = "source" => s.path \in Text
        BY <2>1 DEF Statement, Instruction, LabelDef, MethodDef, DataDef, Directive,
                    SourceEntry, FunctionEntry, LineEntry
      <3>2. s.kind = "function" => s.name \in Text
        BY <2>1 DEF Statement, Instruction, LabelDef, MethodDef, DataDef, Directive,
                    SourceEntry, FunctionEntry, LineEntry
      <3>3. CASE s.kind = "source"
        <4>1. PICK n \in Nat : n = TextLength[s.path]
          BY <3>1, <3>3, TextAssumption
        <4> QED BY <2>2, <3>3, <4>1 DEF CountedMetadata
      <3>4. CASE s.kind = "function"
        <4>1. PICK n \in Nat : n = TextLength[s.name]
          BY <3>2, <3>4, TextAssumption
        <4> QED BY <2>2, <3>4, <4>1 DEF CountedMetadata
      <3>5. CASE s.kind = "line"
        BY <2>2, <3>5 DEF CountedMetadata
      <3> QED BY <2>1, <3>3, <3>4, <3>5 DEF EntryKinds
    <2>4. x[k + 1] = x[k] + l /\ size[x[k] + 20] = l
      BY <2>1, <2>2 DEF SectionOf, Sized, BYTECODE_HEADER_SIZE
    <2>5. k \in 1 .. (m + 1) /\ k + 1 \in 1 .. (m + 1) /\ x[k] \in Nat
      BY <1>1
    <2>6. y[k] = x[k] + 20 /\ y[k + 1] = x[k + 1] + 20
      BY <1>4, <2>5
    <2> QED BY <2>3, <2>4, <2>5, <2>6
  <1>7. Along(i, end, size, m, y)
    BY <1>1, <1>5, <1>6 DEF Along
  <1>9. Taken(f[i], m, entry, y)
    BY <1>2, <1>3, <1>7, EntriesAlong
  <1>8. \A k \in 1 .. m : y[k] = x[k] + 20
    BY <1>1, <1>4
  <1> QED BY <1>3, <1>8, <1>9 DEF BYTECODE_HEADER_SIZE, Taken, FoundAt

\* The header's fields of a text's tables.
HeaderOf(h, e, counts) ==
    /\ h.dataEnd = HeaderLength + e - 1
    /\ h.sourceEnd = h.dataEnd + counts.source
    /\ h.functionEnd = h.sourceEnd + counts.function
    /\ h.lineEnd = h.functionEnd + counts.line

\* The n-th entry of a table.
NumberOf(t, kind, i) == Cardinality({j \in OfKind(t, kind) : j <= i})

\* The loader reads what the second pass has written (src/src/vm/VM.cpp:104).
LEMMA SourcesRead ==
    ASSUME NEW t, NEW b, IsSeq(b), NEW d, NEW e \in Nat, NEW c, NEW counts \in Counts, NEW h,
           Entered(t, b, d, e, c, counts), HeaderOf(h, e, counts)
    PROVE  /\ Len(Sources(b, h)) = Cardinality(OfKind(t, "source"))
           /\ \A i \in OfKind(t, "source") : Sources(b, h)[NumberOf(t, "source", i)].path = t[i].path
  <1>1. PICK from \in Nat, to \in Nat : /\ from = e + Before("source", counts) /\ to = from + counts.source
                                        /\ from <= to
    <2>1. counts.source \in Nat
      BY DEF Counts
    <2>2. e + Before("source", counts) \in Nat
      BY DEF Before
    <2> QED BY <2>1, <2>2
  <1>2. PICK a, m, x : SectionOf(t, b, "source", from, to, a, m, x)
    <2>1. "source" \in EntryKinds
      BY DEF EntryKinds
    <2>2. to = e + Before("source", counts) + counts["source"]
      BY <1>1
    <2> QED BY <1>1, <2>1, <2>2, SectionFound
  <1>3. PICK size, entry : /\ size = [i \in Nat |-> 6 + ReadNumber(b, i + 2, 4)]
                           /\ entry = [i \in Nat |-> [id |-> ReadNumber(b, i, 2), path |-> ReadString(b, i + 2)]]
    OBVIOUS
  <1>4. PICK tab : tab = Entries(h.dataEnd + 1, h.sourceEnd, size, entry) /\ tab = Sources(b, h)
    BY <1>3 DEF Sources
  <1>5. h.dataEnd + 1 = from + BYTECODE_HEADER_SIZE /\ h.sourceEnd = to + BYTECODE_HEADER_SIZE - 1
    <2>1. counts.source \in Nat /\ from = e
      BY <1>1 DEF Counts, Before
    <2> QED BY <1>1, <2>1 DEF HeaderOf, HeaderLength, BYTECODE_HEADER_SIZE
  <1>6. a \in Nat /\ m \in Nat /\ OfKind(t, "source") = a .. (a + m - 1)
    BY <1>2 DEF SectionOf
  <1>7. ASSUME NEW k \in 1 .. m
        PROVE  /\ size[x[k] + BYTECODE_HEADER_SIZE] = CountedMetadata(t[a + k - 1])
               /\ entry[x[k] + BYTECODE_HEADER_SIZE].path = t[a + k - 1].path
    <2>1. PICK s : /\ s = t[a + k - 1] /\ s \in Statement /\ s.kind = "source"
                   /\ Holds(b, x[k], EntryCode(s))
      BY <1>2 DEF SectionOf
    <2>2. s \in SourceEntry
      BY <2>1 DEF Statement, Instruction, LabelDef, MethodDef, DataDef, Directive,
                  SourceEntry, FunctionEntry, LineEntry
    <2>3. PICK p \in Nat, y \in Nat : p = x[k] /\ y = x[k] + BYTECODE_HEADER_SIZE
      <3>1. x[k] \in Nat
        BY <1>2, <1>6 DEF SectionOf
      <3> QED BY <3>1 DEF BYTECODE_HEADER_SIZE
    <2>4. 6 + ReadNumber(b, y + 2, 4) = CountedMetadata(s) /\ ReadString(b, y + 2) = s.path
      BY <2>1, <2>2, <2>3, SourceRead
    <2> QED BY <1>3, <2>1, <2>3, <2>4
  <1>8. /\ Len(tab) = m
        /\ \A k \in 1 .. m : tab[k] = entry[x[k] + BYTECODE_HEADER_SIZE]
    <2>1. "source" \in EntryKinds
      BY DEF EntryKinds
    <2>2. Sized(t, size, a, m, x)
      BY <1>7 DEF Sized
    <2>3. FoundAt(tab, m, entry, x)
      BY <1>1, <1>2, <1>4, <1>5, <2>1, <2>2, SectionRead
    <2> QED BY <2>3 DEF FoundAt
  <1>11. Numbered(OfKind(t, "source"), a, m)
    BY <1>6, SectionCounts
  <1>9. ASSUME NEW i \in OfKind(t, "source") PROVE tab[NumberOf(t, "source", i)].path = t[i].path
    <2>1. PICK k \in 1 .. m : i = a + k - 1 /\ NumberOf(t, "source", i) = k
      <3>1. \E k \in 1 .. m : i = a + k - 1 /\ Cardinality({j \in OfKind(t, "source") : j <= i}) = k
        BY <1>11 DEF Numbered
      <3> QED BY <3>1 DEF NumberOf
    <2> QED BY <1>7, <1>8, <2>1
  <1>10. Cardinality(OfKind(t, "source")) = m
    BY <1>11 DEF Numbered
  <1> QED BY <1>4, <1>8, <1>9, <1>10

LEMMA FunctionsRead ==
    ASSUME NEW t, NEW b, IsSeq(b), NEW d, NEW e \in Nat, NEW c, NEW counts \in Counts, NEW h,
           Entered(t, b, d, e, c, counts), HeaderOf(h, e, counts)
    PROVE  /\ IsSeq(Functions(b, h)) /\ Len(Functions(b, h)) = Cardinality(OfKind(t, "function"))
           /\ \A i \in OfKind(t, "function") :
                 FunctionStatement(Functions(b, h)[NumberOf(t, "function", i)]) = t[i]
  <1>0. counts.source \in Nat /\ counts.function \in Nat
    BY DEF Counts
  <1>1. PICK from \in Nat, to \in Nat : /\ from = e + Before("function", counts)
                                        /\ to = from + counts.function /\ from <= to
    <2>1. e + Before("function", counts) \in Nat
      BY <1>0 DEF Before
    <2> QED BY <1>0, <2>1
  <1>2. PICK a, m, x : SectionOf(t, b, "function", from, to, a, m, x)
    <2>1. "function" \in EntryKinds
      BY DEF EntryKinds
    <2>2. to = e + Before("function", counts) + counts["function"]
      BY <1>1
    <2> QED BY <1>1, <2>1, <2>2, SectionFound
  <1>3. PICK size, entry : /\ size = [i \in Nat |-> 14 + ReadNumber(b, i + 10, 4)]
                           /\ entry = [i \in Nat |-> [start |-> ReadNumber(b, i, 4),
                                                      end |-> ReadNumber(b, i + 4, 4),
                                                      name |-> ReadString(b, i + 10)]]
    OBVIOUS
  <1>4. PICK tab : tab = Entries(h.sourceEnd + 1, h.functionEnd, size, entry) /\ tab = Functions(b, h)
    BY <1>3 DEF Functions
  <1>5. h.sourceEnd + 1 = from + BYTECODE_HEADER_SIZE /\ h.functionEnd = to + BYTECODE_HEADER_SIZE - 1
    <2>1. from = e + counts.source
      BY <1>1 DEF Before
    <2> QED BY <1>0, <1>1, <2>1 DEF HeaderOf, HeaderLength, BYTECODE_HEADER_SIZE
  <1>6. a \in Nat /\ m \in Nat /\ OfKind(t, "function") = a .. (a + m - 1)
    BY <1>2 DEF SectionOf
  <1>7. ASSUME NEW k \in 1 .. m
        PROVE  /\ size[x[k] + BYTECODE_HEADER_SIZE] = CountedMetadata(t[a + k - 1])
               /\ FunctionStatement(entry[x[k] + BYTECODE_HEADER_SIZE]) = t[a + k - 1]
    <2>1. PICK s : /\ s = t[a + k - 1] /\ s \in Statement /\ s.kind = "function"
                   /\ Holds(b, x[k], EntryCode(s))
      BY <1>2 DEF SectionOf
    <2>2. s \in FunctionEntry
      BY <2>1 DEF Statement, Instruction, LabelDef, MethodDef, DataDef, Directive,
                  SourceEntry, FunctionEntry, LineEntry
    <2>3. PICK p \in Nat, y \in Nat : p = x[k] /\ y = x[k] + BYTECODE_HEADER_SIZE
      <3>1. x[k] \in Nat
        BY <1>2, <1>6 DEF SectionOf
      <3> QED BY <3>1 DEF BYTECODE_HEADER_SIZE
    <2>4. /\ 14 + ReadNumber(b, y + 10, 4) = CountedMetadata(s)
          /\ ReadNumber(b, y, 4) = s.start /\ ReadNumber(b, y + 4, 4) = s.end
          /\ ReadString(b, y + 10) = s.name
      BY <2>1, <2>2, <2>3, FunctionRead
    <2>5. size[y] = CountedMetadata(s)
      BY <1>3, <2>4
    <2>6. FunctionStatement(entry[y]) = s
      <3>1. entry[y].start = s.start /\ entry[y].end = s.end /\ entry[y].name = s.name
        BY <1>3, <2>4
      <3>2. s = [kind |-> "function", start |-> s.start, end |-> s.end, name |-> s.name]
        BY <2>2 DEF FunctionEntry
      <3> QED BY <3>1, <3>2 DEF FunctionStatement
    <2> QED BY <2>1, <2>3, <2>5, <2>6
  <1>8. /\ IsSeq(tab) /\ Len(tab) = m
        /\ \A k \in 1 .. m : tab[k] = entry[x[k] + BYTECODE_HEADER_SIZE]
    <2>1. "function" \in EntryKinds
      BY DEF EntryKinds
    <2>2. Sized(t, size, a, m, x)
      BY <1>7 DEF Sized
    <2>3. FoundAt(tab, m, entry, x)
      BY <1>1, <1>2, <1>4, <1>5, <2>1, <2>2, SectionRead
    <2> QED BY <2>3 DEF FoundAt
  <1>11. Numbered(OfKind(t, "function"), a, m)
    BY <1>6, SectionCounts
  <1>9. ASSUME NEW i \in OfKind(t, "function")
        PROVE  FunctionStatement(tab[NumberOf(t, "function", i)]) = t[i]
    <2>1. PICK k \in 1 .. m : i = a + k - 1 /\ NumberOf(t, "function", i) = k
      <3>1. \E k \in 1 .. m : i = a + k - 1 /\ Cardinality({j \in OfKind(t, "function") : j <= i}) = k
        BY <1>11 DEF Numbered
      <3> QED BY <3>1 DEF NumberOf
    <2> QED BY <1>7, <1>8, <2>1
  <1>10. Cardinality(OfKind(t, "function")) = m
    BY <1>11 DEF Numbered
  <1> QED BY <1>4, <1>8, <1>9, <1>10

LEMMA LinesRead ==
    ASSUME NEW t, NEW b, IsSeq(b), NEW d, NEW e \in Nat, NEW c, NEW counts \in Counts, NEW h,
           Entered(t, b, d, e, c, counts), HeaderOf(h, e, counts)
    PROVE  /\ IsSeq(Lines(b, h)) /\ Len(Lines(b, h)) = Cardinality(OfKind(t, "line"))
           /\ \A i \in OfKind(t, "line") :
                 LineStatement(Lines(b, h)[NumberOf(t, "line", i)]) = t[i]
  <1>0. counts.source \in Nat /\ counts.function \in Nat /\ counts.line \in Nat
    BY DEF Counts
  <1>1. PICK from \in Nat, to \in Nat : /\ from = e + Before("line", counts)
                                        /\ to = from + counts.line /\ from <= to
    <2>1. e + Before("line", counts) \in Nat
      BY <1>0 DEF Before
    <2> QED BY <1>0, <2>1
  <1>2. PICK a, m, x : SectionOf(t, b, "line", from, to, a, m, x)
    <2>1. "line" \in EntryKinds
      BY DEF EntryKinds
    <2>2. to = e + Before("line", counts) + counts["line"]
      BY <1>1
    <2> QED BY <1>1, <2>1, <2>2, SectionFound
  <1>3. PICK size, entry : /\ size = [i \in Nat |-> 16]
                           /\ entry = [i \in Nat |-> [start |-> ReadNumber(b, i, 4),
                                                      end |-> ReadNumber(b, i + 4, 4),
                                                      line |-> b[At(i + 10)].of]]
    OBVIOUS
  <1>4. PICK tab : tab = Entries(h.functionEnd + 1, h.lineEnd, size, entry) /\ tab = Lines(b, h)
    BY <1>3 DEF Lines
  <1>5. h.functionEnd + 1 = from + BYTECODE_HEADER_SIZE /\ h.lineEnd = to + BYTECODE_HEADER_SIZE - 1
    <2>1. from = e + (counts.source + counts.function)
      BY <1>1 DEF Before
    <2> QED BY <1>0, <1>1, <2>1 DEF HeaderOf, HeaderLength, BYTECODE_HEADER_SIZE
  <1>6. a \in Nat /\ m \in Nat /\ OfKind(t, "line") = a .. (a + m - 1)
    BY <1>2 DEF SectionOf
  <1>7. ASSUME NEW k \in 1 .. m
        PROVE  /\ size[x[k] + BYTECODE_HEADER_SIZE] = CountedMetadata(t[a + k - 1])
               /\ LineStatement(entry[x[k] + BYTECODE_HEADER_SIZE]) = t[a + k - 1]
    <2>1. PICK s : /\ s = t[a + k - 1] /\ s \in Statement /\ s.kind = "line"
                   /\ Holds(b, x[k], EntryCode(s))
      BY <1>2 DEF SectionOf
    <2>2. s \in LineEntry
      BY <2>1 DEF Statement, Instruction, LabelDef, MethodDef, DataDef, Directive,
                  SourceEntry, FunctionEntry, LineEntry
    <2>3. PICK p \in Nat, y \in Nat : p = x[k] /\ y = x[k] + BYTECODE_HEADER_SIZE
      <3>1. x[k] \in Nat
        BY <1>2, <1>6 DEF SectionOf
      <3> QED BY <3>1 DEF BYTECODE_HEADER_SIZE
    <2>4. /\ CountedMetadata(s) = 16
          /\ ReadNumber(b, y, 4) = s.start /\ ReadNumber(b, y + 4, 4) = s.end
          /\ b[At(y + 10)].of = s.line
      BY <2>1, <2>2, <2>3, LineRead
    <2>5. size[y] = CountedMetadata(s)
      BY <1>3, <2>4
    <2>6. LineStatement(entry[y]) = s
      <3>1. entry[y].start = s.start /\ entry[y].end = s.end /\ entry[y].line = s.line
        BY <1>3, <2>4
      <3>2. s = [kind |-> "line", start |-> s.start, end |-> s.end, line |-> s.line]
        BY <2>2 DEF LineEntry
      <3> QED BY <3>1, <3>2 DEF LineStatement
    <2> QED BY <2>1, <2>3, <2>5, <2>6
  <1>8. /\ IsSeq(tab) /\ Len(tab) = m
        /\ \A k \in 1 .. m : tab[k] = entry[x[k] + BYTECODE_HEADER_SIZE]
    <2>1. "line" \in EntryKinds
      BY DEF EntryKinds
    <2>2. Sized(t, size, a, m, x)
      BY <1>7 DEF Sized
    <2>3. FoundAt(tab, m, entry, x)
      BY <1>1, <1>2, <1>4, <1>5, <2>1, <2>2, SectionRead
    <2> QED BY <2>3 DEF FoundAt
  <1>11. Numbered(OfKind(t, "line"), a, m)
    BY <1>6, SectionCounts
  <1>9. ASSUME NEW i \in OfKind(t, "line")
        PROVE  LineStatement(tab[NumberOf(t, "line", i)]) = t[i]
    <2>1. PICK k \in 1 .. m : i = a + k - 1 /\ NumberOf(t, "line", i) = k
      <3>1. \E k \in 1 .. m : i = a + k - 1 /\ Cardinality({j \in OfKind(t, "line") : j <= i}) = k
        BY <1>11 DEF Numbered
      <3> QED BY <3>1 DEF NumberOf
    <2> QED BY <1>7, <1>8, <2>1
  <1>10. Cardinality(OfKind(t, "line")) = m
    BY <1>11 DEF Numbered
  <1> QED BY <1>4, <1>8, <1>9, <1>10

-----------------------------------------------------------------------------
(***************************************************************************)
(* Writing the tables.                                                     *)
(***************************************************************************)
\* No entry is written in front of the metadata.
LEMMA EntriesBegin ==
    ASSUME NEW t, NEW d \in Nat, NEW e \in Nat, NEW b, Len(b) = e
    PROVE  EntriesIn(b, NoEntries, t, d, e, d)
  <1>1. PICK c : c = [j \in d .. d |-> NoEntries]
    OBVIOUS
  <1>2. NoEntries \in Counts /\ Total(NoEntries) = 0
    BY DEF NoEntries, Counts, Total
  <1>3. c[d] = NoEntries /\ c \in [d .. d -> Counts] /\ d .. (d - 1) = {}
    BY <1>1, <1>2
  <1>4. Tally(c, t, d, d)
    BY <1>3 DEF Tally
  <1> QED BY <1>2, <1>3, <1>4 DEF EntriesIn

\* An entry more, or a directive.
LEMMA EntriesOnward ==
    ASSUME NEW t, NEW d \in Nat, NEW n \in Nat, d <= n, \A j \in d .. n : t[j] \in Statement,
           t[n].kind \in EntryKinds \cup {"directive"},
           NEW b, IsSeq(b), NEW e \in Nat, NEW counts, EntriesIn(b, counts, t, d, e, n),
           NEW b2, NEW counts2, counts2 = CountedWith(counts, t[n]),
           t[n].kind \in EntryKinds => b2 = b \o EntryCode(t[n]),
           t[n].kind \notin EntryKinds => b2 = b
    PROVE  EntriesIn(b2, counts2, t, d, e, n + 1)
  <1>1. PICK c : /\ Tally(c, t, d, n) /\ c[n] = counts /\ Len(b) = e + Total(counts)
                 /\ \A j \in d .. (n - 1) :
                       t[j].kind \in EntryKinds => Holds(b, e + Total(c[j]), EntryCode(t[j]))
    BY DEF EntriesIn
  <1>2. /\ c \in [d .. n -> Counts] /\ c[d] = NoEntries
        /\ \A j \in d .. (n - 1) : /\ t[j].kind \in EntryKinds \cup {"directive"}
                                   /\ c[j + 1] = CountedWith(c[j], t[j])
    BY <1>1 DEF Tally
  <1>3. counts \in Counts
    BY <1>1, <1>2
  <1>4. PICK s : s = t[n] /\ s \in Statement
    OBVIOUS
  <1>5. counts2 \in Counts /\ Total(counts) \in Nat
    BY <1>3, <1>4, CountsGo
  <1>6. PICK f : f = [j \in d .. (n + 1) |-> IF j = n + 1 THEN counts2 ELSE c[j]]
    OBVIOUS
  <1>7. /\ f[n + 1] = counts2 /\ f \in [d .. (n + 1) -> Counts]
        /\ \A j \in d .. n : f[j] = c[j] /\ j # n + 1
    BY <1>2, <1>5, <1>6
  <1>8. f[d] = NoEntries
    BY <1>2, <1>7
  <1>9. ASSUME NEW j \in d .. n
        PROVE  t[j].kind \in EntryKinds \cup {"directive"} /\ f[j + 1] = CountedWith(f[j], t[j])
    <2>1. CASE j = n
      BY <1>1, <1>7, <2>1
    <2>2. CASE j # n
      <3>1. j \in d .. (n - 1) /\ j \in d .. n /\ j + 1 \in d .. n
        BY <2>2
      <3> QED BY <1>2, <1>7, <3>1
    <2> QED BY <2>1, <2>2
  <1>10. Tally(f, t, d, n + 1)
    <2>1. (n + 1) - 1 = n
      OBVIOUS
    <2> QED BY <1>7, <1>8, <1>9, <2>1 DEF Tally
  <1>11. CASE s.kind \in EntryKinds
    <2>1. PICK x, l : /\ x = EntryCode(s) /\ IsSeq(x) /\ Len(x) = l /\ l = CountedMetadata(s)
                      /\ l \in Nat
      BY <1>4, <1>11, EntryLength
    <2>2. b2 = b \o x
      BY <1>4, <1>11, <2>1
    <2>3. Len(b2) = e + Total(counts2)
      <3>1. Len(b2) = Len(b) + l
        BY <2>1, <2>2, Concatenated
      <3>2. Total(counts2) = Total(counts) + l
        BY <1>3, <1>4, <1>11, <2>1, CountsGo
      <3> QED BY <1>1, <1>5, <2>1, <3>1, <3>2
    <2>4. ASSUME NEW j \in d .. n, t[j].kind \in EntryKinds
          PROVE  Holds(b2, e + Total(f[j]), EntryCode(t[j]))
      <3>1. CASE j = n
        <4>1. Holds(b2, Len(b), x)
          BY <2>1, <2>2, HoldsBehind
        <4> QED BY <1>1, <1>4, <1>7, <2>1, <3>1, <4>1
      <3>2. CASE j # n
        <4>1. j \in d .. (n - 1) /\ j \in d .. n /\ j + 1 \in d .. n
          BY <3>2
        <4>2. PICK p, y : p = e + Total(c[j]) /\ y = EntryCode(t[j]) /\ Holds(b, p, y)
          BY <1>1, <2>4, <4>1
        <4>3. p \in Nat
          <5>1. c[j] \in Counts
            BY <1>2
          <5>2. Total(c[j]) \in Nat
            BY <5>1 DEF Counts, Total
          <5> QED BY <4>2, <5>2
        <4>4. IsSeq(y)
          <5>1. PICK z : z = t[j] /\ z \in Statement /\ z.kind \in EntryKinds
            BY <2>4
          <5>2. IsSeq(EntryCode(z))
            BY <5>1, EntryLength
          <5> QED BY <4>2, <5>1, <5>2
        <4>5. Holds(b2, p, y)
          BY <2>1, <2>2, <4>2, <4>3, <4>4, HoldsBehind
        <4> QED BY <1>7, <4>1, <4>2, <4>5
      <3> QED BY <3>1, <3>2
    <2>5. (n + 1) - 1 = n
      OBVIOUS
    <2> QED BY <1>7, <1>10, <2>3, <2>4, <2>5 DEF EntriesIn
  <1>12. CASE s.kind \notin EntryKinds
    <2>1. b2 = b /\ counts2 = counts
      BY <1>3, <1>4, <1>12, CountsGo
    <2>2. ASSUME NEW j \in d .. n, t[j].kind \in EntryKinds
          PROVE  Holds(b2, e + Total(f[j]), EntryCode(t[j]))
      <3>1. j # n
        BY <1>4, <1>12, <2>2
      <3>2. j \in d .. (n - 1)
        BY <3>1
      <3> QED BY <1>1, <1>7, <2>1, <2>2, <3>2
    <2>3. (n + 1) - 1 = n
      OBVIOUS
    <2> QED BY <1>1, <1>7, <1>10, <2>1, <2>2, <2>3 DEF EntriesIn
  <1> QED BY <1>11, <1>12

\* What a step of pass 2 does to the bytes and the counts.
LEMMA EncodingCounts ==
    ASSUME \/ EncodeLabel \/ EncodeDirective \/ EncodeMethod \/ EncodeInstruction
           \/ EncodeData \/ EncodeMetadata
    PROVE  \/ /\ This.kind \in EntryKinds /\ bytecode' = bytecode \o EntryCode(This)
              /\ metadataLength' = [metadataLength EXCEPT ![This.kind] = @ + CountedMetadata(This)]
           \/ This.kind = "directive" /\ bytecode' = bytecode /\ metadataLength' = metadataLength
           \/ /\ This.kind \notin EntryKinds \cup {"directive"}
              /\ metadataLength' = metadataLength
  <1> USE DEF Encoding, AtStatement, This, Emit, EntryKinds
  <1>1. CASE EncodeLabel
    BY <1>1 DEF EncodeLabel
  <1>2. CASE EncodeDirective
    BY <1>2 DEF EncodeDirective, output
  <1>3. CASE EncodeMethod
    BY <1>3 DEF EncodeMethod
  <1>4. CASE EncodeInstruction
    BY <1>4 DEF EncodeInstruction
  <1>5. CASE EncodeData
    BY <1>5 DEF EncodeData
  <1>6. CASE EncodeMetadata
    <2>1. /\ This.kind \in EntryKinds
          /\ metadataLength' = [metadataLength EXCEPT ![This.kind] = @ + CountedMetadata(This)]
      BY <1>6 DEF EncodeMetadata
    <2>2. bytecode' = bytecode \o EntryCode(This)
      <3>1. CASE Encoding("source") /\ Emit(convertSourceMetadata(This))
        BY <3>1 DEF EntryCode
      <3>2. CASE Encoding("function") /\ Emit(convertFunctionMetadata(This))
        BY <3>2 DEF EntryCode
      <3>3. CASE Encoding("line") /\ Emit(convertLineTableMetadata(This))
        BY <3>3 DEF EntryCode
      <3> QED BY <1>6, <3>1, <3>2, <3>3 DEF EncodeMetadata
    <2> QED BY <2>1, <2>2
  <1> QED BY <1>1, <1>2, <1>3, <1>4, <1>5, <1>6

\* What the tables are, between pass 2 and the loader.
EntriesSoFar ==
    /\ Len(placed) <= Len(statements) => statements[Len(placed)].section = "METADATA"
    /\ TablesHoldEntries =>
          /\ next < Len(placed) => metadataLength = NoEntries
          /\ Len(placed) <= next =>
                EntriesIn(bytecode, metadataLength, statements, Len(placed), End, next)

LEMMA EncodingEnters ==
    ASSUME IInv, CodeFirst, ShortTexts, Chained, WrittenIn(bytecode, next), EntriesSoFar,
           \/ EncodeLabel \/ EncodeDirective \/ EncodeMethod \/ EncodeInstruction
           \/ EncodeData \/ EncodeMetadata
    PROVE  EntriesSoFar'
  <1>1. /\ pass = "encode" /\ next <= Len(statements) /\ pass' = pass /\ next' = next + 1
        /\ statements' = statements /\ placed' = placed
    BY EncodingAppends
  <1>2. PICK n \in Nat, m \in Nat, d \in Nat :
           n = next /\ m = Len(statements) /\ d = Len(placed) /\ n \in 1 .. m /\ d \in 1 .. (m + 1)
    <2>1. /\ statements \in Seq(Statement) /\ next \in 1 .. (Len(statements) + 1)
          /\ placed \in Seq(Nat)
      BY DEF IInv, Typed
    <2>2. Len(statements) \in Nat /\ Len(placed) \in Nat
      BY <2>1, LenProperties
    <2>3. Len(placed) \in 1 .. (Len(statements) + 1)
      BY DEF Chained
    <2>4. PICK n, m, d : n = next /\ m = Len(statements) /\ d = Len(placed)
      OBVIOUS
    <2>5. n \in 1 .. (m + 1) /\ n <= m /\ m \in Nat /\ d \in Nat /\ d \in 1 .. (m + 1)
      BY <1>1, <2>1, <2>2, <2>3, <2>4
    <2>6. n \in Nat /\ n \in 1 .. m
      BY <2>5
    <2> QED BY <2>4, <2>5, <2>6
  <1>3. PICK t : t = statements /\ \A j \in 1 .. m : t[j] \in Statement
    <2>1. statements \in Seq(Statement)
      BY DEF IInv, Typed
    <2> QED BY <1>2, <2>1, ElementOfSeq
  <1>4. PICK e \in Nat : e = End /\ e = placed[d]
    <2>1. placed \in Seq(Nat) /\ d \in 1 .. Len(placed)
      BY <1>2 DEF IInv, Typed
    <2> QED BY <1>2, <2>1, ElementOfSeq DEF End
  <1>5. PICK b, b2, k, k2 : /\ b = bytecode /\ b2 = bytecode'
                            /\ k = metadataLength /\ k2 = metadataLength'
    OBVIOUS
  <1>6. \/ /\ t[n].kind \in EntryKinds /\ b2 = b \o EntryCode(t[n])
           /\ k2 = [k EXCEPT ![t[n].kind] = @ + CountedMetadata(t[n])]
        \/ t[n].kind = "directive" /\ b2 = b /\ k2 = k
        \/ t[n].kind \notin EntryKinds \cup {"directive"} /\ k2 = k
    BY <1>2, <1>3, <1>5, EncodingCounts DEF This
  <1>7. d <= m => t[d].section = "METADATA" /\ t[d].kind = "directive"
    BY <1>2, <1>3 DEF EntriesSoFar, Chained
  <1>8. ASSUME TablesHoldEntries
        PROVE  /\ n + 1 < d => k2 = NoEntries
               /\ d <= n + 1 => EntriesIn(b2, k2, t, d, e, n + 1)
    <2>1. CASE n < d
      <3>1. t[n].kind \in LaidKinds
        <4>1. n \in 1 .. (d - 1)
          BY <1>2, <2>1
        <4> QED BY <1>2, <1>3, <4>1 DEF Chained, LaidOnly
      <3>2. k = NoEntries
        BY <1>2, <1>5, <1>8, <2>1 DEF EntriesSoFar
      <3>3. k2 = NoEntries
        BY <1>6, <3>1, <3>2 DEF LaidKinds, EntryKinds
      <3>4. ASSUME d <= n + 1 PROVE EntriesIn(b2, k2, t, d, e, n + 1)
        <4>1. d = n + 1
          BY <2>1, <3>4
        <4>2. Len(b2) = e
          <5>1. IInv'
            BY Encoded
          <5>2. CodeFirst' /\ ShortTexts'
            BY <1>1 DEF CodeFirst, ShortTexts
          <5>3. next' <= Len(placed') => Len(bytecode') = placed'[next']
            BY <1>1, <5>1, <5>2 DEF IInv
          <5>4. Len(b2) = placed[d]
            BY <1>1, <1>2, <1>5, <4>1, <5>3
          <5> QED BY <1>4, <5>4
        <4>3. EntriesIn(b2, NoEntries, t, d, e, d)
          BY <4>2, EntriesBegin
        <4> QED BY <3>3, <4>1, <4>3
      <3> QED BY <3>3, <3>4
    <2>2. CASE d <= n
      <3>1. t[d].kind = "directive" /\ t[d].section = "METADATA"
        BY <1>2, <1>7, <2>2
      <3>2. t[n].kind \in EntryKinds \cup {"directive"}
        <4>1. CASE n = d
          BY <3>1, <4>1
        <4>2. CASE n # d
          <5>1. d \in 1 .. (n - 1) /\ n \in 1 .. Len(statements)
            BY <1>2, <2>2, <4>2
          <5> QED BY <1>3, <1>8, <3>1, <5>1 DEF TablesHoldEntries
        <4> QED BY <4>1, <4>2
      <3>3. EntriesIn(b, k, t, d, e, n)
        BY <1>2, <1>3, <1>4, <1>5, <1>8, <2>2 DEF EntriesSoFar
      <3>4. \A j \in d .. n : t[j] \in Statement
        BY <1>2, <1>3
      <3>5. IsSeq(b)
        BY <1>5 DEF WrittenIn
      <3>6. k \in Counts
        <4>1. PICK c : Tally(c, t, d, n) /\ c[n] = k
          BY <3>3 DEF EntriesIn
        <4>2. n \in d .. n
          BY <2>2
        <4> QED BY <4>1, <4>2 DEF Tally
      <3>7. /\ t[n].kind \in EntryKinds => b2 = b \o EntryCode(t[n])
            /\ t[n].kind \notin EntryKinds => b2 = b
        BY <1>6, <3>2 DEF EntryKinds
      <3>8. k2 = CountedWith(k, t[n])
        <4>1. PICK s : s = t[n] /\ s \in Statement
          BY <1>2, <1>3
        <4>2. /\ s.kind \in EntryKinds => k2 = [k EXCEPT ![s.kind] = @ + CountedMetadata(s)]
              /\ s.kind \notin EntryKinds => k2 = k
          BY <1>6, <4>1 DEF EntryKinds
        <4>3. /\ s.kind \in EntryKinds => [k EXCEPT ![s.kind] = @ + CountedMetadata(s)] = CountedWith(k, s)
              /\ s.kind \notin EntryKinds => CountedWith(k, s) = k
          BY <3>6, <4>1, CountsGo
        <4> QED BY <4>1, <4>2, <4>3
      <3>9. EntriesIn(b2, k2, t, d, e, n + 1)
        BY <2>2, <3>2, <3>3, <3>4, <3>5, <3>7, <3>8, EntriesOnward
      <3>10. ~ (n + 1 < d)
        BY <2>2
      <3> QED BY <3>9, <3>10
    <2> QED BY <2>1, <2>2
  <1>9. /\ statements' = t /\ Len(placed') = d /\ next' = n + 1 /\ End' = e
        /\ bytecode' = b2 /\ metadataLength' = k2 /\ Len(statements') = m
    BY <1>1, <1>2, <1>3, <1>4, <1>5 DEF End
  <1>10. TablesHoldEntries' => TablesHoldEntries
    BY <1>1 DEF TablesHoldEntries
  <1> HIDE DEF TablesHoldEntries
  <1> QED BY <1>7, <1>8, <1>9, <1>10 DEF EntriesSoFar

\* What the assembler has done of the tables so far.
Entering ==
    Ordered =>
        /\ pass = "parse" => \E r : Regions(r, statements, next) /\ r[next] = section
        /\ pass \in {"lay", "encode", "done"} => \E r : Regions(r, statements, Len(statements) + 1)
        /\ pass \in {"idle", "parse", "lay"} => metadataLength = NoEntries
        /\ pass \in {"encode", "done"} => EntriesSoFar
        /\ pass = "done" => HeaderOf(header, End, metadataLength)

\* A text comes in.
LEMMA EnteringGiven ==
    ASSUME NewAssembler
    PROVE  Entering /\ \A program : assembleString(program) => Entering'
  <1>1. /\ pass = "idle" /\ next = 1 /\ section = "CODE" /\ metadataLength = NoEntries
    BY DEF NewAssembler, NoEntries
  <1>2. ASSUME NEW program, assembleString(program) PROVE Entering'
    <2>1. /\ pass' = "parse" /\ statements' = program /\ next' = 1 /\ section' = "CODE"
          /\ metadataLength' = NoEntries
      BY <1>1, <1>2 DEF assembleString, output
    <2>2. PICK r : r = [j \in 1 .. 1 |-> "CODE"]
      OBVIOUS
    <2>3. r \in [1 .. 1 -> Sections] /\ r[1] = "CODE" /\ 1 .. (1 - 1) = {}
      BY <2>2 DEF Sections
    <2>4. Regions(r, program, 1)
      BY <2>3 DEF Regions
    <2> QED BY <2>1, <2>3, <2>4 DEF Entering
  <1> QED BY <1>1, <1>2 DEF Entering

\* While the assembler waits.
LEMMA EnteringIdle ==
    ASSUME Entering, UNCHANGED asmVars
    PROVE  Entering'
  <1>1. /\ statements' = statements /\ pass' = pass /\ next' = next /\ section' = section
        /\ placed' = placed /\ bytecode' = bytecode /\ header' = header
        /\ metadataLength' = metadataLength
    BY DEF asmVars, tables, output
  <1>2. Ordered' <=> Ordered
    BY <1>1 DEF Ordered, CodeFirst, ShortTexts
  <1>3. EntriesSoFar' <=> EntriesSoFar
    <2>1. TablesHoldEntries' <=> TablesHoldEntries
      BY <1>1 DEF TablesHoldEntries
    <2>2. End' = End
      BY <1>1 DEF End
    <2> HIDE DEF TablesHoldEntries, End
    <2> QED BY <1>1, <2>1, <2>2 DEF EntriesSoFar
  <1>4. End' = End
    BY <1>1 DEF End
  <1> QED BY <1>1, <1>2, <1>3, <1>4 DEF Entering

\* The parser lets one more statement through.
LEMMA RegionsGo ==
    ASSUME NEW t, NEW n \in Nat \ {0}, NEW r, Regions(r, t, n), r[n] = section,
           Accepted(t[n]), NEW s \in Sections, s = Region(t[n])
    PROVE  \E q : Regions(q, t, n + 1) /\ q[n + 1] = s
  <1>1. /\ r \in [1 .. n -> Sections] /\ r[1] = "CODE"
        /\ \A j \in 1 .. (n - 1) :
              /\ r[j + 1] = IF t[j].kind = "directive" THEN t[j].section ELSE r[j]
              /\ t[j].kind = "directive" => r[j] \in RegionBefore(t[j].section)
              /\ t[j].kind = "source"   => r[j] = "METADATA_SOURCE"
              /\ t[j].kind = "function" => r[j] = "METADATA_FUNCTION"
              /\ t[j].kind = "line"     => r[j] = "METADATA_LINE_TABLE"
    BY DEF Regions
  <1>2. PICK q : q = [j \in 1 .. (n + 1) |-> IF j = n + 1 THEN s ELSE r[j]]
    OBVIOUS
  <1>3. /\ q \in [1 .. (n + 1) -> Sections] /\ q[n + 1] = s
        /\ \A j \in 1 .. n : q[j] = r[j]
    BY <1>1, <1>2
  <1>4. q[1] = "CODE"
    <2>1. 1 \in 1 .. n
      OBVIOUS
    <2> QED BY <1>1, <1>3, <2>1
  <1>5. /\ s = IF t[n].kind = "directive" THEN t[n].section ELSE r[n]
        /\ t[n].kind = "directive" => r[n] \in RegionBefore(t[n].section)
        /\ t[n].kind = "source"   => r[n] = "METADATA_SOURCE"
        /\ t[n].kind = "function" => r[n] = "METADATA_FUNCTION"
        /\ t[n].kind = "line"     => r[n] = "METADATA_LINE_TABLE"
    BY DEF Accepted, Region
  <1>6. ASSUME NEW j \in 1 .. n
        PROVE  /\ q[j + 1] = IF t[j].kind = "directive" THEN t[j].section ELSE q[j]
               /\ t[j].kind = "directive" => q[j] \in RegionBefore(t[j].section)
               /\ t[j].kind = "source"   => q[j] = "METADATA_SOURCE"
               /\ t[j].kind = "function" => q[j] = "METADATA_FUNCTION"
               /\ t[j].kind = "line"     => q[j] = "METADATA_LINE_TABLE"
    <2>1. q[j] = r[j]
      BY <1>3
    <2>2. CASE j = n
      <3>1. q[j + 1] = s
        BY <1>3, <2>2
      <3> QED BY <1>5, <2>1, <2>2, <3>1
    <2>3. CASE j # n
      <3>1. j \in 1 .. (n - 1) /\ j + 1 \in 1 .. n
        BY <2>3
      <3>2. q[j + 1] = r[j + 1]
        BY <1>3, <3>1
      <3> QED BY <1>1, <2>1, <3>1, <3>2
    <2> QED BY <2>2, <2>3
  <1>7. Regions(q, t, n + 1)
    <2>1. (n + 1) - 1 = n
      OBVIOUS
    <2> QED BY <1>3, <1>4, <1>6, <2>1 DEF Regions
  <1> QED BY <1>3, <1>7

\* Every step of the assembler.
LEMMA EnteringOn ==
    ASSUME Assembling, Entering, assemble
    PROVE  Entering'
  <1>1. statements' = statements
    BY DEF assemble, parse, parseToken, Parsed, constructLabelTable, generateBytecode, ProcessLabel,
           ProcessMethod, ProcessInstruction, ProcessData, ProcessDirective, DuplicateLabel,
           UndefinedLabel, LabelTableConstructed, EncodeLabel, EncodeDirective, EncodeMethod,
           EncodeInstruction, EncodeFails, EncodeData, EncodeMetadata, BytecodeGenerated,
           Fail, Step, Emit
  <1>2. Ordered' <=> Ordered
    BY <1>1 DEF Ordered, CodeFirst, ShortTexts
  <1> SUFFICES ASSUME Ordered
               PROVE  /\ pass' = "parse" =>
                            \E r : Regions(r, statements, next') /\ r[next'] = section'
                      /\ pass' \in {"lay", "encode", "done"} =>
                            \E r : Regions(r, statements, Len(statements) + 1)
                      /\ pass' \in {"idle", "parse", "lay"} => metadataLength' = NoEntries
                      /\ pass' \in {"encode", "done"} => EntriesSoFar'
                      /\ pass' = "done" => HeaderOf(header', End', metadataLength')
    BY <1>1, <1>2 DEF Entering
  <1>3. /\ IInv
        /\ pass = "lay" => KnownBefore(next)
        /\ pass = "encode" => Chained /\ WrittenIn(bytecode, next)
    BY DEF Assembling
  <1>4. /\ pass = "parse" => \E r : Regions(r, statements, next) /\ r[next] = section
        /\ pass \in {"lay", "encode", "done"} => \E r : Regions(r, statements, Len(statements) + 1)
        /\ pass \in {"idle", "parse", "lay"} => metadataLength = NoEntries
        /\ pass \in {"encode", "done"} => EntriesSoFar
    BY DEF Entering
  <1>5. PICK n \in Nat \ {0} : n = next /\ n \in 1 .. (Len(statements) + 1)
    BY <1>3 DEF IInv, Typed
  <1>6. Len(statements) \in Nat
    BY <1>3, LenProperties DEF IInv, Typed
  <1>7. CASE DuplicateLabel \/ UndefinedLabel \/ EncodeFails
    BY <1>7 DEF DuplicateLabel, UndefinedLabel, EncodeFails, Fail
  <1>8. CASE parseToken
    <2>1. CASE Fail
      BY <2>1 DEF Fail
    <2>2. CASE Accepted(This) /\ section' = Region(This) /\ Step /\ UNCHANGED output
      <3>1. pass = "parse" /\ pass' = "parse" /\ next' = n + 1 /\ metadataLength' = metadataLength
        BY <1>5, <1>8, <2>2 DEF parseToken, Step, output
      <3>2. PICK r : Regions(r, statements, n) /\ r[n] = section
        BY <1>4, <1>5, <3>1
      <3>3. section' \in Sections
        <4>1. IInv'
          BY <1>3, Assembled
        <4> QED BY <4>1 DEF IInv, Typed
      <3>4. PICK s, v : s = section' /\ v = statements[n] /\ Accepted(v) /\ s = Region(v)
        BY <1>5, <2>2 DEF This
      <3>5. \E q : Regions(q, statements, n + 1) /\ q[n + 1] = s
        BY <3>2, <3>3, <3>4, RegionsGo
      <3> QED BY <1>4, <3>1, <3>4, <3>5
    <2> QED BY <1>8, <2>1, <2>2 DEF parseToken
  <1>9. CASE Parsed
    <2>1. pass = "parse" /\ pass' = "lay" /\ metadataLength' = metadataLength /\ next > Len(statements)
      BY <1>9 DEF Parsed, output
    <2>2. n = Len(statements) + 1
      BY <1>5, <1>6, <2>1
    <2> QED BY <1>4, <1>5, <2>1, <2>2
  <1>10. CASE ProcessLabel \/ ProcessMethod \/ ProcessInstruction \/ ProcessData \/ ProcessDirective
    <2>1. pass = "lay" /\ pass' = "lay" /\ metadataLength' = metadataLength
      BY <1>10 DEF ProcessLabel, ProcessMethod, ProcessInstruction, ProcessData, ProcessDirective,
                   Laying, Step, output
    <2> QED BY <1>4, <2>1
  <1>11. CASE LabelTableConstructed
    <2>1. /\ pass = "lay" /\ pass' = "encode" /\ metadataLength' = metadataLength
          /\ bytecode' = bytecode /\ LabelTableComplete
          /\ placed' = LaidSoFar
      BY <1>11 DEF LabelTableConstructed, Place, LaidSoFar
    <2>2. bytecode = <<>> /\ Len(placed) = n - 1 /\ placed \in Seq(Nat)
      BY <1>3, <1>5, <2>1 DEF IInv, Typed
    <2>3. pass' = "encode" /\ next' = 1 /\ Chained'
      BY <1>3, <1>11, <2>1, LaidChain DEF Ordered
    <2>4. Len(placed') = n
      <3>1. PICK p \in Seq(Nat) : p = placed
        BY <2>2
      <3>2. PICK a \in Nat, b \in Nat : a = codeSectionLength /\ b = dataSectionLength
        BY <1>3 DEF IInv, Typed
      <3>3. PICK h \in Nat : h = a + b
        OBVIOUS
      <3>4. placed' = Append(p, h)
        BY <2>1, <3>1, <3>2, <3>3 DEF LaidSoFar
      <3>5. Len(Append(p, h)) = Len(p) + 1
        BY AppendProperties
      <3> QED BY <2>2, <3>1, <3>4, <3>5
    <2>5. n <= Len(statements) => statements[n].section = "METADATA"
      BY <1>5, <1>6, <2>1 DEF LabelTableComplete, AtStatement, This
    <2>6. PICK q, d, b, k : q = placed' /\ d = n /\ b = bytecode' /\ k = metadataLength'
      OBVIOUS
    <2>7. Len(b) = 0 /\ k = NoEntries /\ Len(q) = n /\ q[1] = 0
      BY <1>4, <2>1, <2>2, <2>3, <2>4, <2>6, EmptyFacts DEF Chained, Chain
    <2>8. n <= 1 => EntriesIn(b, k, statements, n, q[n], 1)
      <3>1. n <= 1 => n = 1
        OBVIOUS
      <3>2. EntriesIn(b, NoEntries, statements, 1, 0, 1)
        <4>1. PICK one \in Nat, zero \in Nat : one = 1 /\ zero = 0
          OBVIOUS
        <4>2. EntriesIn(b, NoEntries, statements, one, zero, one)
          BY <2>7, <4>1, EntriesBegin
        <4> QED BY <4>1, <4>2
      <3> QED BY <2>7, <3>1, <3>2
    <2>9. EntriesSoFar'
      <3>1. /\ Len(placed') = n /\ statements' = statements /\ next' = 1 /\ bytecode' = b
            /\ metadataLength' = k /\ End' = q[n]
        BY <1>1, <2>3, <2>4, <2>6 DEF End
      <3> QED BY <2>5, <2>7, <2>8, <3>1 DEF EntriesSoFar
    <2> QED BY <1>4, <2>1, <2>9
  <1>12. CASE \/ EncodeLabel \/ EncodeDirective \/ EncodeMethod \/ EncodeInstruction
              \/ EncodeData \/ EncodeMetadata
    <2>1. pass = "encode" /\ pass' = "encode"
      BY <1>3, <1>12, EncodingAppends
    <2>2. EntriesSoFar'
      BY <1>3, <1>4, <1>12, <2>1, EncodingEnters DEF Ordered
    <2> QED BY <1>4, <2>1, <2>2
  <1>13. CASE BytecodeGenerated
    <2>1. /\ pass = "encode" /\ pass' = "done" /\ next' = next
          /\ placed' = placed /\ bytecode' = bytecode /\ metadataLength' = metadataLength
      BY <1>13 DEF BytecodeGenerated, tables
    <2>2. EntriesSoFar'
      <3>1. TablesHoldEntries' <=> TablesHoldEntries
        BY <1>1 DEF TablesHoldEntries
      <3>2. End' = End
        BY <2>1 DEF End
      <3>3. EntriesSoFar
        BY <1>4, <2>1
      <3> HIDE DEF TablesHoldEntries, End
      <3> QED BY <1>1, <2>1, <3>1, <3>2, <3>3 DEF EntriesSoFar
    <2>3. HeaderOf(header', End', metadataLength')
      <3>1. header.dataEnd = HeaderLength + End - 1
        BY <1>3, <2>1 DEF Chained
      <3>2. /\ header'.dataEnd = header.dataEnd
            /\ header'.sourceEnd = header.dataEnd + metadataLength.source
            /\ header'.functionEnd = header.dataEnd + metadataLength.source + metadataLength.function
            /\ header'.lineEnd = header.dataEnd + metadataLength.source + metadataLength.function
                                   + metadataLength.line
        BY <1>13 DEF BytecodeGenerated
      <3>3. End' = End
        BY <2>1 DEF End
      <3> HIDE DEF End
      <3> QED BY <2>1, <3>1, <3>2, <3>3 DEF HeaderOf
    <2> QED BY <1>4, <2>1, <2>2, <2>3
  <1> QED BY <1>7, <1>8, <1>9, <1>10, <1>11, <1>12, <1>13 DEF assemble, parse, constructLabelTable,
                                                             generateBytecode

-----------------------------------------------------------------------------
(***************************************************************************)
(* Loading the tables.                                                     *)
(***************************************************************************)
Loaded ==
    /\ sourceMetadata = Sources(bytecode, header)
    /\ functionTable = Functions(bytecode, header)
    /\ lineTable = Lines(bytecode, header)

\* The inductive invariant.
LInv == TInv /\ Entering /\ (tool = "vm" => Loaded)

LEMMA TablesStart == Init => LInv
  <1> SUFFICES ASSUME Init PROVE LInv
    OBVIOUS
  <1>1. tool = "driver" /\ NewAssembler
    BY DEF Init
  <1> QED BY <1>1, DriverStarts, EnteringGiven DEF LInv

LEMMA TablesStep ==
    ASSUME LInv, [Next]_vars
    PROVE  LInv'
  <1>1. TInv'
    BY ToolchainStep DEF LInv
  <1>2. /\ tool \in {"driver", "emitter"} => NewAssembler
        /\ Assembling /\ Entering /\ (tool = "vm" => Loaded)
    BY DEF LInv, TInv
  <1>3. ASSUME UNCHANGED asmVars, \/ tool' # "vm"
                                  \/ /\ tool = "vm"
                                     /\ UNCHANGED <<sourceMetadata, functionTable, lineTable>>
        PROVE  LInv'
    <2>1. bytecode' = bytecode /\ header' = header
      BY <1>3 DEF asmVars, output
    <2>2. CASE tool' # "vm"
      BY <1>1, <1>2, <1>3, <2>2, EnteringIdle DEF LInv
    <2>3. CASE tool = "vm" /\ UNCHANGED <<sourceMetadata, functionTable, lineTable>>
      <3>1. Loaded'
        BY <1>2, <2>1, <2>3 DEF Loaded
      <3> QED BY <1>1, <1>2, <1>3, <3>1, EnteringIdle DEF LInv
    <2> QED BY <1>3, <2>2, <2>3
  <1>4. CASE runSV \/ Emits \/ Refuse
    BY <1>3, <1>4 DEF runSV, Emits, Refuse
  <1>5. ASSUME NEW program, assembleString(program), tool \in {"driver", "emitter"},
               tool' = "assembler"
        PROVE  LInv'
    <2>1. Entering'
      BY <1>2, <1>5, EnteringGiven
    <2> QED BY <1>1, <1>5, <2>1 DEF LInv
  <1>6. CASE runSVA
    BY <1>5, <1>6 DEF runSVA
  <1>7. CASE AssembleEmitted
    BY <1>5, <1>7 DEF AssembleEmitted
  <1>8. CASE Assembles
    <2>1. assemble /\ tool' = "assembler"
      BY <1>8 DEF Assembles
    <2>2. Entering'
      BY <1>2, <2>1, EnteringOn
    <2> QED BY <1>1, <2>1, <2>2 DEF LInv
  <1>9. CASE runVM
    <2>1. UNCHANGED asmVars /\ tool' = "vm" /\ readBytecode(bytecode, header)
      BY <1>9 DEF runVM
    <2>2. bytecode' = bytecode /\ header' = header
      BY <2>1 DEF asmVars, output
    <2>3. Loaded'
      BY <2>1, <2>2 DEF readBytecode, Loaded
    <2> QED BY <1>1, <1>2, <2>1, <2>3, EnteringIdle DEF LInv
  <1>10. CASE Executes
    <2>1. UNCHANGED asmVars /\ tool = "vm" /\ tool' = "vm"
          /\ UNCHANGED <<sourceMetadata, functionTable, lineTable>>
      BY <1>10 DEF Executes, execute, loaded
    <2> QED BY <1>3, <2>1
  <1>11. CASE Ended \/ UNCHANGED vars
    <2>1. UNCHANGED asmVars /\ tool' = tool
          /\ UNCHANGED <<sourceMetadata, functionTable, lineTable>>
      BY <1>11 DEF Ended, vars, vmVars, loaded
    <2> QED BY <1>3, <2>1
  <1> QED BY <1>4, <1>6, <1>7, <1>8, <1>9, <1>10, <1>11 DEF Next, Builds

\* What the invariant is for: the loaded tables have the text's entries, and
\* they are sequences.
TablesRead ==
    LoaderReadsEntries /\ (tool = "vm" => IsSeq(functionTable) /\ IsSeq(lineTable))

LEMMA TablesLoaded == LInv => (Ordered /\ TablesHoldEntries => TablesRead)
  <1> SUFFICES ASSUME LInv, Ordered, TablesHoldEntries, tool = "vm"
               PROVE  TablesRead
    BY DEF TablesRead, LoaderReadsEntries
  <1>1. /\ pass = "done" /\ Assembling /\ EntriesSoFar /\ Loaded
        /\ HeaderOf(header, End, metadataLength)
    BY DEF LInv, TInv, Executing, Entering
  <1>2. /\ Chained /\ ChainOf(placed, statements) /\ WrittenIn(bytecode, Len(statements) + 1)
        /\ next = Len(statements) + 1
    BY <1>1, Finished DEF Assembling
  <1>3. PICK m \in Nat, d \in Nat : m = Len(statements) /\ d = Len(placed) /\ d \in 1 .. (m + 1)
    BY <1>1, Finished
  <1>4. PICK t, b, h, k : t = statements /\ b = bytecode /\ h = header /\ k = metadataLength
    OBVIOUS
  <1>5. PICK e \in Nat : e = End
    <2>1. placed \in Seq(Nat) /\ d \in 1 .. Len(placed)
      BY <1>2, <1>3 DEF ChainOf
    <2> QED BY <1>3, <2>1, ElementOfSeq DEF End
  <1>6. InOrder(t)
    <2>1. PICK r : Regions(r, statements, Len(statements) + 1)
      BY <1>1 DEF LInv, Entering
    <2> QED BY <1>3, <1>4, <2>1, TablesInOrder
  <1>7. PICK c : /\ Tally(c, t, d, m + 1) /\ c[m + 1] = k
                 /\ \A j \in d .. ((m + 1) - 1) :
                       t[j].kind \in EntryKinds => Holds(b, e + Total(c[j]), EntryCode(t[j]))
    <2>1. EntriesIn(b, k, t, d, e, m + 1)
      BY <1>1, <1>2, <1>3, <1>4, <1>5 DEF EntriesSoFar
    <2> QED BY <2>1 DEF EntriesIn
  <1>8. k \in Counts
    <2>1. m + 1 \in d .. (m + 1)
      BY <1>3
    <2> QED BY <1>7, <2>1 DEF Tally
  <1>9. Entered(t, b, d, e, c, k)
    <2>1. t \in Seq(Statement)
      BY <1>4 DEF Ordered
    <2>2. \A i \in 1 .. (d - 1) : t[i].kind \notin EntryKinds
      BY <1>2, <1>3, <1>4 DEF Chained, LaidOnly, LaidKinds, EntryKinds
    <2>3. (m + 1) - 1 = m
      OBVIOUS
    <2> QED BY <1>3, <1>4, <1>6, <1>7, <2>1, <2>2, <2>3 DEF Entered
  <1>10. IsSeq(b) /\ HeaderOf(h, e, k)
    BY <1>1, <1>2, <1>4, <1>5 DEF WrittenIn
  <1>11. \A kind : OfKind(t, kind) = EntriesOf(kind)
    BY <1>4 DEF OfKind, EntriesOf
  <1>12. ASSUME NEW kind, NEW i \in OfKind(t, kind) PROVE NumberOf(t, kind, i) = Ordinal(i)
    <2>1. t[i].kind = kind
      BY DEF OfKind
    <2> QED BY <1>4, <1>11, <2>1 DEF NumberOf, Ordinal
  <1>13. /\ Len(sourceMetadata) = Cardinality(EntriesOf("source"))
         /\ \A i \in EntriesOf("source") : sourceMetadata[Ordinal(i)].path = statements[i].path
    <2>1. /\ Len(Sources(b, h)) = Cardinality(OfKind(t, "source"))
          /\ \A i \in OfKind(t, "source") : Sources(b, h)[NumberOf(t, "source", i)].path = t[i].path
      BY <1>5, <1>8, <1>9, <1>10, SourcesRead
    <2>2. sourceMetadata = Sources(b, h)
      BY <1>1, <1>4 DEF Loaded
    <2> QED BY <1>4, <1>11, <1>12, <2>1, <2>2
  <1>14. /\ IsSeq(functionTable) /\ Len(functionTable) = Cardinality(EntriesOf("function"))
         /\ \A i \in EntriesOf("function") : FunctionStatement(functionTable[Ordinal(i)]) = statements[i]
    <2>1. /\ IsSeq(Functions(b, h)) /\ Len(Functions(b, h)) = Cardinality(OfKind(t, "function"))
          /\ \A i \in OfKind(t, "function") :
                FunctionStatement(Functions(b, h)[NumberOf(t, "function", i)]) = t[i]
      BY <1>5, <1>8, <1>9, <1>10, FunctionsRead
    <2>2. functionTable = Functions(b, h)
      BY <1>1, <1>4 DEF Loaded
    <2> QED BY <1>4, <1>11, <1>12, <2>1, <2>2
  <1>15. /\ IsSeq(lineTable) /\ Len(lineTable) = Cardinality(EntriesOf("line"))
         /\ \A i \in EntriesOf("line") : LineStatement(lineTable[Ordinal(i)]) = statements[i]
    <2>1. /\ IsSeq(Lines(b, h)) /\ Len(Lines(b, h)) = Cardinality(OfKind(t, "line"))
          /\ \A i \in OfKind(t, "line") :
                LineStatement(Lines(b, h)[NumberOf(t, "line", i)]) = t[i]
      BY <1>5, <1>8, <1>9, <1>10, LinesRead
    <2>2. lineTable = Lines(b, h)
      BY <1>1, <1>4 DEF Loaded
    <2> QED BY <1>4, <1>11, <1>12, <2>1, <2>2
  <1> QED BY <1>13, <1>14, <1>15 DEF TablesRead, LoaderReadsEntries

-----------------------------------------------------------------------------
\* Whatever text the assembler is given, compiled or written by hand, the
\* loader (src/src/vm/VM.cpp:104) cuts its three tables into the entries that
\* the text has, in their order and with what they say, and finds no others:
\* the lengths that pass 2 counts for the header (src/src/assembler/
\* Assembler.cpp:434, :456 and :488) are those of the bytes it writes.
THEOREM LoadsTables == Spec => [](Ordered /\ TablesHoldEntries => LoaderReadsEntries)
  <1>1. Spec => []LInv
    BY TablesStart, TablesStep, PTL DEF Spec
  <1>2. LInv => (Ordered /\ TablesHoldEntries => LoaderReadsEntries)
    BY TablesLoaded DEF TablesRead
  <1> QED BY <1>1, <1>2, PTL

-----------------------------------------------------------------------------
(***************************************************************************)
(* Looking up an address.                                                  *)
(***************************************************************************)
\* Entry e of a table is about address x.
Spans(e, x) == e.start <= x /\ x < e.end

\* The first n entries of a table lie behind each other.
Ascending(T, n) ==
    /\ \A k \in 1 .. n : T[k].start \in Nat /\ T[k].end \in Nat /\ T[k].start < T[k].end
    /\ \A k, l \in 1 .. n : k < l => T[k].end <= T[l].start

\* The loader's binary search (src/src/vm/RuntimeErrorHandler.cpp:46) finds the
\* entry that is about an address, and nothing if there is none.
LEMMA LookUpFinds ==
    ASSUME NEW T, NEW n \in Nat, DOMAIN T = 1 .. n, Ascending(T, n), NEW x \in Nat,
           NEW k \in 1 .. n, Spans(T[k], x)
    PROVE  LookUp(T, x) = T[k] /\ T[k] # NoEntry
  <1> DEFINE before == {i \in DOMAIN T : T[i].start <= x}
             last   == CHOOSE i \in before : \A j \in before : j <= i
  <1>1. k \in before
    BY DEF Spans
  <1>2. ASSUME NEW j \in before PROVE j <= k
    <2>1. j \in 1 .. n /\ j \in Nat /\ k \in Nat /\ T[j].start <= x
      OBVIOUS
    <2>2. CASE k < j
      <3>1. T[k].end <= T[j].start /\ T[k].end \in Nat /\ T[j].start \in Nat
        BY <2>1, <2>2 DEF Ascending
      <3> QED BY <2>1, <3>1 DEF Spans
    <2> QED BY <2>1, <2>2
  <1>3. last = k
    <2>1. last \in before /\ \A j \in before : j <= last
      BY <1>1, <1>2
    <2>2. last <= k /\ k <= last /\ last \in Nat /\ k \in Nat
      BY <1>1, <1>2, <2>1
    <2> HIDE DEF last
    <2> QED BY <2>2
  <1>4. LookUp(T, x) = IF before # {} /\ x < T[last].end THEN T[last] ELSE NoEntry
    BY DEF LookUp
  <1>5. LookUp(T, x) = T[k]
    <2> HIDE DEF before, last
    <2> QED BY <1>1, <1>3, <1>4 DEF Spans
  <1>6. T[k] # NoEntry
    <2>1. T[k].start \in Nat /\ T[k].end \in Nat /\ T[k].start < T[k].end
      BY DEF Ascending
    <2>2. NoEntry.start = NoEntry.end
      BY DEF NoEntry
    <2> QED BY <2>1, <2>2
  <1> QED BY <1>5, <1>6

\* Where no entry is, it finds none.
LEMMA LookUpMisses ==
    ASSUME NEW T, NEW n \in Nat, DOMAIN T = 1 .. n, NEW x \in Nat,
           \A k \in 1 .. n : ~ Spans(T[k], x)
    PROVE  LookUp(T, x) = NoEntry
  <1> DEFINE before == {i \in DOMAIN T : T[i].start <= x}
             last   == CHOOSE i \in before : \A j \in before : j <= i
  <1>1. LookUp(T, x) = IF before # {} /\ x < T[last].end THEN T[last] ELSE NoEntry
    BY DEF LookUp
  <1>2. ASSUME before # {} PROVE ~ (x < T[last].end)
    <2>1. before \subseteq 0 .. n
      OBVIOUS
    <2>2. \E i \in before : \A j \in before : j <= i
      <3> HIDE DEF before
      <3> QED BY <1>2, <2>1, GreatestOfNaturals
    <2>3. last \in before
      <3> HIDE DEF before
      <3> QED BY <2>2
    <2>4. last \in 1 .. n /\ T[last].start <= x
      BY <2>3
    <2> HIDE DEF last
    <2> QED BY <2>4 DEF Spans
  <1> HIDE DEF before, last
  <1> QED BY <1>1, <1>2

\* One element more.
LEMMA Appended ==
    ASSUME NEW s, IsSeq(s), NEW n \in Nat, n = Len(s), NEW e
    PROVE  /\ IsSeq(Append(s, e)) /\ Len(Append(s, e)) = n + 1
           /\ \A i \in 1 .. n : Append(s, e)[i] = s[i]
           /\ Append(s, e)[n + 1] = e
  <1> DEFINE A == {s[i] : i \in DOMAIN s}
  <1>1. s \in Seq(A)
    BY DEF IsSeq
  <1> HIDE DEF A
  <1>2. s \in [1 .. n -> A \cup {e}]
    BY <1>1, LenProperties
  <1>3. s \in Seq(A \cup {e}) /\ e \in A \cup {e}
    BY <1>2, SeqDef
  <1>4. PICK B : B = A \cup {e}
    OBVIOUS
  <1>5. /\ Append(s, e) \in Seq(B) /\ Len(Append(s, e)) = Len(s) + 1
        /\ \A i \in 1 .. Len(s) : Append(s, e)[i] = s[i]
        /\ Append(s, e)[Len(s) + 1] = e
    BY <1>3, <1>4, AppendProperties
  <1>6. IsSeq(Append(s, e))
    BY <1>5, AnySequence
  <1> QED BY <1>5, <1>6

\* An entry behind a table's last one.
LEMMA AscendingOn ==
    ASSUME NEW T, IsSeq(T), NEW n \in Nat, n = Len(T), Ascending(T, n), NEW e,
           e.start \in Nat, e.end \in Nat, e.start < e.end,
           \A k \in 1 .. n : T[k].end <= e.start
    PROVE  Ascending(Append(T, e), n + 1)
  <1>1. PICK U : /\ U = Append(T, e)
                 /\ \A i \in 1 .. n : U[i] = T[i]
                 /\ U[n + 1] = e
    <2>1. PICK U : U = Append(T, e)
      OBVIOUS
    <2>2. (\A i \in 1 .. n : U[i] = T[i]) /\ U[n + 1] = e
      BY <2>1, Appended
    <2> QED BY <2>1, <2>2
  <1>2. \A k \in 1 .. (n + 1) : k \in 1 .. n \/ k = n + 1
    OBVIOUS
  <1>3. ASSUME NEW k \in 1 .. (n + 1)
        PROVE  U[k].start \in Nat /\ U[k].end \in Nat /\ U[k].start < U[k].end
    <2>1. CASE k \in 1 .. n
      BY <1>1, <2>1 DEF Ascending
    <2>2. CASE k = n + 1
      BY <1>1, <2>2
    <2> QED BY <1>2, <2>1, <2>2
  <1>4. ASSUME NEW k \in 1 .. (n + 1), NEW l \in 1 .. (n + 1), k < l
        PROVE  U[k].end <= U[l].start
    <2>1. k \in 1 .. n
      BY <1>4
    <2>2. CASE l \in 1 .. n
      BY <1>1, <1>4, <2>1, <2>2 DEF Ascending
    <2>3. CASE l = n + 1
      BY <1>1, <2>1, <2>3
    <2> QED BY <1>2, <2>2, <2>3
  <1> QED BY <1>1, <1>3, <1>4 DEF Ascending

-----------------------------------------------------------------------------
(***************************************************************************)
(* Merging the entries of the line table.                                  *)
(***************************************************************************)
LEMMA AscendingOrder ==
    ASSUME NEW T, NEW n \in Nat, Ascending(T, n), NEW k \in 1 .. n, NEW l \in k .. n
    PROVE  /\ T[k].start \in Nat /\ T[k].end \in Nat /\ T[l].start \in Nat /\ T[l].end \in Nat
           /\ T[k].start <= T[l].start /\ T[k].end <= T[l].end /\ T[k].start < T[k].end
           /\ T[l].start < T[l].end
  <1>1. k \in Nat /\ l \in 1 .. n /\ l \in Nat
    OBVIOUS
  <1>2. /\ T[k].start \in Nat /\ T[k].end \in Nat /\ T[k].start < T[k].end
        /\ T[l].start \in Nat /\ T[l].end \in Nat /\ T[l].start < T[l].end
    BY <1>1 DEF Ascending
  <1>3. CASE k = l
    BY <1>2, <1>3
  <1>4. CASE k < l
    <2>1. T[k].end <= T[l].start
      BY <1>1, <1>4 DEF Ascending
    <2> QED BY <1>2, <2>1
  <1> QED BY <1>1, <1>3, <1>4

\* The entries that are merged with entry i.
LEMMA GroupEnds ==
    ASSUME NEW lines, NEW n \in Nat, n = Len(lines), NEW i \in 1 .. n
    PROVE  /\ GroupEnd(lines, i) \in i .. n
           /\ \A k \in (i + 1) .. GroupEnd(lines, i) : Joins(lines, i, k)
  <1> DEFINE Group(g) == \A k \in (i + 1) .. g : Joins(lines, i, k)
             T == {g \in i .. n : Group(g)}
  <1>1. i \in T
    <2>1. (i + 1) .. i = {}
      OBVIOUS
    <2> QED BY <2>1
  <1>2. PICK g \in T : \A h \in T : h <= g
    <2>1. T \subseteq 0 .. n
      OBVIOUS
    <2> HIDE DEF T
    <2> QED BY <1>1, <2>1, GreatestOfNaturals
  <1>3. g \in i .. n /\ Group(g) /\ g \in Nat
    BY <1>2
  <1>4. g = n \/ ~ Joins(lines, i, g + 1)
    <2> SUFFICES ASSUME g # n, Joins(lines, i, g + 1) PROVE FALSE
      OBVIOUS
    <2>1. g + 1 \in i .. n /\ \A k \in (i + 1) .. (g + 1) : k \in (i + 1) .. g \/ k = g + 1
      BY <1>3
    <2>2. Group(g + 1)
      BY <1>3, <2>1
    <2>3. g + 1 \in T /\ ~ (g + 1 <= g)
      BY <1>3, <2>1, <2>2
    <2> HIDE DEF T
    <2> QED BY <1>2, <2>3
  <1>5. \E last \in i .. n : Group(last) /\ (last = n \/ ~ Joins(lines, i, last + 1))
    BY <1>3, <1>4
  <1> QED BY <1>5 DEF GroupEnd

\* What the merged entries from i on are.
MergedEntry(lines, i) ==
    FromLine(lines[i].start, lines[GroupEnd(lines, i)].end, lines[i].line)

MergedFrom(f, lines, n) ==
    \A i \in 1 .. (n + 1) :
        f[i] = IF i > n THEN <<>>
               ELSE <<MergedEntry(lines, i)>> \o f[GroupEnd(lines, i) + 1]

\* Merged is a recursive function: its defining equation has a solution, as the
\* least position without one shows.
LEMMA MergedEquation ==
    ASSUME NEW lines, NEW n \in Nat, n = Len(lines)
    PROVE  \E f : MergedFrom(f, lines, n) /\ Merged(lines) = f[1]
  <1> DEFINE Right(i, f) ==
                 IF i > n THEN <<>>
                 ELSE <<MergedEntry(lines, i)>> \o f[GroupEnd(lines, i) + 1]
             Solves(f) == f = [i \in 1 .. (n + 1) |-> Right(i, f)]
             from == CHOOSE f : Solves(f)
  <1>1. Merged(lines) = from[1]
    BY DEF Merged, MergedEntry
  <1>2. \E f : Solves(f)
    <2>1. PICK size, entry : /\ size = [i \in 1 .. n |-> GroupEnd(lines, i) + 1 - i]
                             /\ entry = [i \in 1 .. n |-> MergedEntry(lines, i)]
      OBVIOUS
    <2>2. PICK h : EntriesFrom(h, 1, n + 1, size, entry)
      <3>1. 1 \in Nat /\ n + 1 \in Nat /\ 1 <= (n + 1) + 1
        OBVIOUS
      <3> QED BY <3>1, EntriesEquation
    <2>3. PICK g : g = [i \in 1 .. (n + 1) |-> h[i]]
      OBVIOUS
    <2>4. ASSUME NEW i \in 1 .. (n + 1) PROVE h[i] = Right(i, g)
      <3>1. i \in 1 .. ((n + 1) + 1) /\ (i >= n + 1 <=> i > n)
        OBVIOUS
      <3>2. h[i] = IF i >= n + 1 THEN <<>>
                   ELSE <<entry[i]>> \o IF i + size[i] \in (i + 1) .. ((n + 1) + 1)
                                        THEN h[i + size[i]] ELSE <<>>
        BY <2>2, <3>1 DEF EntriesFrom
      <3>3. CASE i > n
        BY <3>1, <3>2, <3>3
      <3>4. CASE ~ (i > n)
        <4>1. i \in 1 .. n /\ ~ (i >= n + 1)
          BY <3>4
        <4>2. PICK m \in i .. n : m = GroupEnd(lines, i)
          BY <4>1, GroupEnds
        <4>3. size[i] = m + 1 - i /\ entry[i] = MergedEntry(lines, i)
          BY <2>1, <4>1, <4>2
        <4>4. i + size[i] = m + 1 /\ m + 1 \in (i + 1) .. ((n + 1) + 1) /\ m + 1 \in 1 .. (n + 1)
          BY <4>3
        <4>5. g[m + 1] = h[m + 1]
          BY <2>3, <4>4
        <4> QED BY <3>2, <3>4, <4>1, <4>2, <4>3, <4>4, <4>5
      <3> QED BY <3>3, <3>4
    <2>5. Solves(g)
      <3> HIDE DEF Right
      <3>1. [i \in 1 .. (n + 1) |-> h[i]] = [i \in 1 .. (n + 1) |-> Right(i, g)]
        BY <2>4
      <3> QED BY <2>3, <3>1
    <2> HIDE DEF Solves
    <2> QED BY <2>5
  <1>3. Solves(from)
    <2> HIDE DEF Solves
    <2> QED BY <1>2
  <1>4. MergedFrom(from, lines, n)
    <2> HIDE DEF from
    <2>1. \A i \in 1 .. (n + 1) : from[i] = Right(i, from)
      BY <1>3
    <2> QED BY <2>1 DEF MergedFrom
  <1> HIDE DEF from
  <1> QED BY <1>1, <1>4

\* s says the same of the same addresses as the entries from i on.
SaysSame(s, lines, i, n) ==
    /\ \A k \in i .. n, x \in Nat : Spans(lines[k], x) =>
          \E m \in 1 .. Len(s) : Spans(s[m], x) /\ s[m].line = lines[k].line
    /\ \A m \in 1 .. Len(s), x \in Nat : Spans(s[m], x) =>
          \E k \in i .. n : Spans(lines[k], x)

MergesFrom(s, lines, i, n) ==
    /\ IsSeq(s) /\ Ascending(s, Len(s))
    /\ \A m \in 1 .. Len(s) : i <= n /\ lines[i].start <= s[m].start
    /\ SaysSame(s, lines, i, n)

\* Entry e is about what entries i to g are about.
StandsFor(e, lines, i, g, x) ==
    /\ \A k \in i .. g : Spans(lines[k], x) => Spans(e, x) /\ e.line = lines[k].line
    /\ Spans(e, x) => \E k \in i .. g : Spans(lines[k], x)

\* The entry for a group is about the addresses of its lines, and no others.
LEMMA GroupSays ==
    ASSUME NEW lines, NEW n \in Nat, n = Len(lines), Ascending(lines, n), NEW i \in 1 .. n,
           NEW g \in i .. n, \A k \in (i + 1) .. g : Joins(lines, i, k), NEW x \in Nat,
           NEW e, e = FromLine(lines[i].start, lines[g].end, lines[i].line)
    PROVE  StandsFor(e, lines, i, g, x)
  <1>1. e.start = lines[i].start /\ e.end = lines[g].end /\ e.line = lines[i].line
    BY DEF FromLine
  <1>2. ASSUME NEW k \in i .. g, Spans(lines[k], x) PROVE Spans(e, x) /\ e.line = lines[k].line
    <2>1. k \in i .. n /\ k \in 1 .. n /\ g \in k .. n
      OBVIOUS
    <2>2. lines[i].start <= lines[k].start /\ lines[i].start \in Nat /\ lines[k].start \in Nat
      BY <2>1, AscendingOrder
    <2>3. lines[k].end <= lines[g].end /\ lines[k].end \in Nat /\ lines[g].end \in Nat
      BY <2>1, AscendingOrder
    <2>4. Spans(e, x)
      BY <1>1, <1>2, <2>2, <2>3 DEF Spans
    <2>5. k = i \/ k \in (i + 1) .. g
      OBVIOUS
    <2> QED BY <1>1, <2>4, <2>5 DEF Joins
  <1>3. ASSUME Spans(e, x) PROVE \E k \in i .. g : Spans(lines[k], x)
    <2> DEFINE T == {k \in i .. g : lines[k].start <= x}
    <2>1. T # {} /\ T \subseteq 0 .. n
      <3>1. i \in i .. g /\ lines[i].start <= x
        BY <1>1, <1>3 DEF Spans
      <3> QED BY <3>1
    <2>2. PICK k \in T : \A l \in T : l <= k
      <3> HIDE DEF T
      <3> QED BY <2>1, GreatestOfNaturals
    <2>3. k \in i .. g /\ lines[k].start <= x /\ k \in 1 .. n
      BY <2>2
    <2>4. CASE k = g
      BY <1>1, <1>3, <2>3, <2>4 DEF Spans
    <2>5. CASE k # g
      <3>1. k + 1 \in (i + 1) .. g /\ k + 1 \in i .. g /\ ~ (k + 1 <= k) /\ (k + 1) - 1 = k
            /\ k + 1 \in 1 .. n
        BY <2>3, <2>5
      <3>2. Joins(lines, i, k + 1)
        BY <3>1
      <3>3. lines[k].end = lines[k + 1].start
        BY <3>1, <3>2 DEF Joins
      <3>4. k + 1 \notin T
        BY <2>2, <3>1
      <3>5. ~ (lines[k + 1].start <= x)
        BY <3>1, <3>4
      <3>6. lines[k + 1].start \in Nat
        BY <3>1 DEF Ascending
      <3> QED BY <2>3, <3>3, <3>5, <3>6 DEF Spans
    <2> QED BY <2>4, <2>5
  <1> QED BY <1>2, <1>3 DEF StandsFor

\* One more group in front of merged entries.
LEMMA MergedOn ==
    ASSUME NEW lines, NEW n \in Nat, n = Len(lines), Ascending(lines, n), NEW i \in 1 .. n,
           NEW g \in i .. n, g = GroupEnd(lines, i), NEW u, MergesFrom(u, lines, g + 1, n),
           NEW s, s = <<MergedEntry(lines, i)>> \o u
    PROVE  MergesFrom(s, lines, i, n)
  <1>1. PICK e : /\ e = FromLine(lines[i].start, lines[g].end, lines[i].line)
                 /\ e = MergedEntry(lines, i)
    BY DEF MergedEntry
  <1>2. PICK r \in Nat : r = Len(u)
    BY AnySequence DEF MergesFrom, IsSeq
  <1>3. IsSeq(s) /\ Len(s) = r + 1 /\ s[1] = e /\ \A m \in 1 .. r : s[m + 1] = u[m]
    <2>1. IsSeq(u)
      BY DEF MergesFrom
    <2>2. Begun(<<e>> \o u, e, u, r)
      BY <1>2, <2>1, Prepended
    <2> QED BY <1>1, <2>2 DEF Begun
  <1>4. /\ e.start = lines[i].start /\ e.end = lines[g].end
        /\ e.start \in Nat /\ e.end \in Nat /\ e.start < e.end
    <2>1. e.start = lines[i].start /\ e.end = lines[g].end
      BY <1>1 DEF FromLine
    <2>2. /\ lines[i].start \in Nat /\ lines[g].end \in Nat /\ lines[g].start \in Nat
          /\ lines[i].start <= lines[g].start /\ lines[g].start < lines[g].end
      BY AscendingOrder
    <2> QED BY <2>1, <2>2
  <1>5. ASSUME NEW m \in 1 .. r
        PROVE  /\ u[m].start \in Nat /\ u[m].end \in Nat /\ u[m].start < u[m].end
               /\ e.end <= u[m].start /\ e.start <= u[m].start
    <2>1. u[m].start \in Nat /\ u[m].end \in Nat /\ u[m].start < u[m].end
      BY <1>2 DEF MergesFrom, Ascending
    <2>2. g + 1 <= n /\ lines[g + 1].start <= u[m].start
      BY <1>2 DEF MergesFrom
    <2>3. g \in 1 .. n /\ g + 1 \in 1 .. n /\ g < g + 1
      BY <2>2
    <2>4. lines[g].end <= lines[g + 1].start /\ lines[g + 1].start \in Nat
      BY <2>3 DEF Ascending
    <2>5. PICK x \in Nat, y \in Nat : x = lines[g + 1].start /\ y = u[m].start /\ x <= y
      BY <2>1, <2>2, <2>4
    <2>6. e.end <= x
      BY <1>4, <2>4, <2>5
    <2>7. e.start <= y /\ e.end <= y
      BY ONLY <1>4, <2>5, <2>6
    <2> QED BY <2>1, <2>5, <2>7
  <1>6. \A m \in 1 .. (r + 1) : m = 1 \/ (m - 1 \in 1 .. r /\ m = (m - 1) + 1)
    OBVIOUS
  <1>7. ASSUME NEW m \in 1 .. (r + 1)
        PROVE  /\ s[m].start \in Nat /\ s[m].end \in Nat /\ s[m].start < s[m].end
               /\ e.start <= s[m].start
    <2>1. CASE m = 1
      BY <1>3, <1>4, <2>1
    <2>2. CASE m # 1
      <3>1. PICK l \in 1 .. r : m = l + 1
        BY <1>6, <2>2
      <3> QED BY <1>3, <1>5, <3>1
    <2> QED BY <2>1, <2>2
  <1>8. ASSUME NEW k \in 1 .. (r + 1), NEW l \in 1 .. (r + 1), k < l
        PROVE  s[k].end <= s[l].start
    <2>1. l # 1
      BY <1>8
    <2>2. PICK m \in 1 .. r : l = m + 1
      BY <1>6, <2>1
    <2>3. CASE k = 1
      BY <1>3, <1>5, <2>2, <2>3
    <2>4. CASE k # 1
      <3>1. PICK j \in 1 .. r : k = j + 1
        BY <1>6, <2>4
      <3>2. j < m
        BY <1>8, <2>2, <3>1
      <3>3. u[j].end <= u[m].start
        BY <1>2, <3>2 DEF MergesFrom, Ascending
      <3> QED BY <1>3, <2>2, <3>1, <3>3
    <2> QED BY <2>3, <2>4
  <1>9. Ascending(s, Len(s))
    BY <1>3, <1>7, <1>8 DEF Ascending
  <1>10. \A k \in (i + 1) .. g : Joins(lines, i, k)
    BY GroupEnds
  <1>14. ASSUME NEW x \in Nat PROVE StandsFor(e, lines, i, g, x)
    <2>1. e = FromLine(lines[i].start, lines[g].end, lines[i].line)
      BY <1>1
    <2> QED BY <1>10, <2>1, GroupSays
  <1>11. ASSUME NEW k \in i .. n, NEW x \in Nat, Spans(lines[k], x)
         PROVE  \E m \in 1 .. Len(s) : Spans(s[m], x) /\ s[m].line = lines[k].line
    <2>1. CASE k \in i .. g
      <3>1. Spans(e, x) /\ e.line = lines[k].line
        BY <1>11, <1>14, <2>1 DEF StandsFor
      <3>2. 1 \in 1 .. Len(s)
        BY <1>3
      <3> QED BY <1>3, <3>1, <3>2
    <2>2. CASE k \in (g + 1) .. n
      <3>1. PICK m \in 1 .. r : Spans(u[m], x) /\ u[m].line = lines[k].line
        BY <1>2, <1>11, <2>2 DEF MergesFrom, SaysSame
      <3>2. PICK j : j = m + 1
        OBVIOUS
      <3>3. j \in 1 .. Len(s) /\ s[j] = u[m]
        BY <1>3, <3>2
      <3> QED BY <3>1, <3>3
    <2>3. k \in i .. g \/ k \in (g + 1) .. n
      <3>1. k \in Nat /\ g \in Nat
        OBVIOUS
      <3> QED BY <3>1
    <2> QED BY <2>1, <2>2, <2>3
  <1>12. ASSUME NEW m \in 1 .. Len(s), NEW x \in Nat, Spans(s[m], x)
         PROVE  \E k \in i .. n : Spans(lines[k], x)
    <2>1. CASE m = 1
      <3>1. PICK k \in i .. g : Spans(lines[k], x)
        BY <1>3, <1>12, <1>14, <2>1 DEF StandsFor
      <3> QED BY <3>1
    <2>2. CASE m # 1
      <3>1. PICK l \in 1 .. r : m = l + 1
        BY <1>3, <1>6, <2>2
      <3>2. Spans(u[l], x)
        BY <1>3, <1>12, <3>1
      <3>3. PICK k \in (g + 1) .. n : Spans(lines[k], x)
        BY <1>2, <3>2 DEF MergesFrom, SaysSame
      <3> QED BY <3>3
    <2> QED BY <2>1, <2>2
  <1>13. \A m \in 1 .. Len(s) : i <= n /\ lines[i].start <= s[m].start
    BY <1>3, <1>4, <1>7
  <1> QED BY <1>3, <1>9, <1>11, <1>12, <1>13 DEF MergesFrom, SaysSame

\* The merged table (src/src/compiler/codegen/AssemblyEmitter.cpp:377) says
\* of every address what the table said.
LEMMA Merging ==
    ASSUME NEW lines, NEW n \in Nat, n = Len(lines), Ascending(lines, n)
    PROVE  MergesFrom(Merged(lines), lines, 1, n)
  <1>1. PICK f : MergedFrom(f, lines, n) /\ Merged(lines) = f[1]
    BY MergedEquation
  <1> DEFINE T == {i \in 1 .. (n + 1) : ~ MergesFrom(f[i], lines, i, n)}
  <1>2. T = {}
    <2> SUFFICES ASSUME T # {} PROVE FALSE
      OBVIOUS
    <2>1. PICK i \in T : \A j \in T : j <= i
      <3>1. T \subseteq 0 .. (n + 1) /\ n + 1 \in Nat
        OBVIOUS
      <3> HIDE DEF T
      <3> QED BY <3>1, GreatestOfNaturals
    <2>2. i \in 1 .. (n + 1) /\ ~ MergesFrom(f[i], lines, i, n)
      BY <2>1
    <2>3. f[i] = IF i > n THEN <<>>
                 ELSE <<MergedEntry(lines, i)>> \o f[GroupEnd(lines, i) + 1]
      BY <1>1, <2>2 DEF MergedFrom
    <2>4. CASE i > n
      <3>1. PICK s : s = f[i] /\ IsSeq(s) /\ Len(s) = 0
        BY <2>3, <2>4, EmptyFacts
      <3>2. 1 .. 0 = {} /\ i .. n = {}
        BY <2>2, <2>4
      <3>3. MergesFrom(s, lines, i, n)
        BY <3>1, <3>2 DEF MergesFrom, Ascending, SaysSame
      <3> QED BY <2>2, <3>1, <3>3
    <2>5. CASE ~ (i > n)
      <3>1. i \in 1 .. n
        BY <2>2, <2>5
      <3>2. PICK g \in i .. n : g = GroupEnd(lines, i)
        BY <3>1, GroupEnds
      <3>3. g + 1 \in 1 .. (n + 1) /\ ~ (g + 1 <= i)
        BY <3>1
      <3>4. g + 1 \notin T
        BY <2>1, <3>3
      <3>5. PICK u : u = f[g + 1] /\ MergesFrom(u, lines, g + 1, n)
        BY <3>3, <3>4
      <3>6. PICK s : s = f[i] /\ s = <<MergedEntry(lines, i)>> \o u
        BY <2>3, <2>5, <3>2, <3>5
      <3>7. MergesFrom(s, lines, i, n)
        <4> HIDE DEF T
        <4> QED BY <3>1, <3>2, <3>5, <3>6, MergedOn
      <3> QED BY <2>2, <3>6, <3>7
    <2> QED BY <2>4, <2>5
  <1>3. 1 \in 1 .. (n + 1)
    OBVIOUS
  <1> QED BY <1>1, <1>2, <1>3

-----------------------------------------------------------------------------
(***************************************************************************)
(* The text of the builtins.                                               *)
(***************************************************************************)
CodeKinds == {"instruction", "label", "method"}

\* A piece of code: no data, no directive, no entry.
Coded(s) == IsSeq(s) /\ \A a \in 1 .. Len(s) : s[a].kind \in CodeKinds

\* A function on 1 .. n is a sequence of n elements.
LEMMA OfLength ==
    ASSUME NEW n \in Nat, NEW S, NEW s \in [1 .. n -> S]
    PROVE  IsSeq(s) /\ Len(s) = n
  <1>1. s \in Seq(S)
    BY SeqDef
  <1>2. PICK m \in Nat : m = Len(s) /\ 1 .. m = 1 .. n
    BY <1>1, LenProperties
  <1>3. m \in 1 .. n \/ m = 0
    <2>1. m \in 1 .. m \/ m = 0
      OBVIOUS
    <2> QED BY <1>2, <2>1
  <1>4. n \in 1 .. m \/ n = 0
    <2>1. n \in 1 .. n \/ n = 0
      OBVIOUS
    <2> QED BY <1>2, <2>1
  <1>5. m = n
    BY <1>3, <1>4
  <1> QED BY <1>1, <1>2, <1>5, AnySequence

\* What is together of two pieces.
LEMMA CodedTogether ==
    ASSUME NEW s, Coded(s), NEW t, Coded(t)
    PROVE  Coded(s \o t)
  <1>1. PICK m \in Nat, n \in Nat : m = Len(s) /\ n = Len(t)
    BY AnySequence DEF Coded, IsSeq
  <1>2. PICK u : u = s \o t /\ IsSeq(u) /\ Len(u) = m + n
    BY <1>1, Concatenated DEF Coded
  <1>3. (\A k \in 1 .. m : u[k] = s[k]) /\ (\A k \in 1 .. n : u[m + k] = t[k])
    BY <1>1, <1>2, ConcatElements DEF Coded
  <1>4. ASSUME NEW a \in 1 .. (m + n) PROVE u[a].kind \in CodeKinds
    <2>1. CASE a \in 1 .. m
      BY <1>1, <1>3, <2>1 DEF Coded
    <2>2. CASE a \notin 1 .. m
      <3>1. PICK k \in 1 .. n : a = m + k
        <4>1. a - m \in 1 .. n /\ a = m + (a - m)
          BY <2>2
        <4> QED BY <4>1
      <3> QED BY <1>1, <1>3, <3>1 DEF Coded
    <2> QED BY <2>1, <2>2
  <1> QED BY <1>2, <1>4 DEF Coded

\* Short pieces.
LEMMA CodedOne ==
    ASSUME NEW x,
           x.kind \in CodeKinds
    PROVE  Coded(<<x>>)
  <1>1. PICK s : s = <<x>>
    OBVIOUS
  <1>2. s \in Seq({x}) /\ Len(s) = 1 /\ s[1] = x
    BY <1>1
  <1>3. IsSeq(s)
    BY <1>2, AnySequence
  <1>4. \A a \in 1 .. 1 : a \in {1}
    OBVIOUS
  <1>5. Coded(s)
    BY <1>2, <1>3, <1>4 DEF Coded
  <1> QED BY <1>1, <1>5

\* The texts of the builtins are code, instruction by instruction.
LEMMA CodedTwo ==
    ASSUME NEW x, NEW y,
           x.kind \in CodeKinds, y.kind \in CodeKinds
    PROVE  Coded(<<x, y>>)
  <1>1. PICK s : s = <<x, y>>
    OBVIOUS
  <1>2. s \in Seq({x, y}) /\ Len(s) = 2 /\ s[1] = x /\ s[2] = y
    BY <1>1
  <1>3. IsSeq(s)
    BY <1>2, AnySequence
  <1>4. \A a \in 1 .. 2 : a \in {1, 2}
    OBVIOUS
  <1>5. Coded(s)
    BY <1>2, <1>3, <1>4 DEF Coded
  <1> QED BY <1>1, <1>5

LEMMA CodedFour ==
    ASSUME NEW w, NEW x, NEW y, NEW z,
           w.kind \in CodeKinds, x.kind \in CodeKinds, y.kind \in CodeKinds, z.kind \in CodeKinds
    PROVE  Coded(<<w, x, y, z>>)
  <1>1. PICK s : s = <<w, x, y, z>>
    OBVIOUS
  <1>2. s \in Seq({w, x, y, z}) /\ Len(s) = 4 /\ s[1] = w /\ s[2] = x /\ s[3] = y /\ s[4] = z
    BY <1>1
  <1>3. IsSeq(s)
    BY <1>2, AnySequence
  <1>4. \A a \in 1 .. 4 : a \in {1, 2, 3, 4}
    OBVIOUS
  <1>5. Coded(s)
    BY <1>2, <1>3, <1>4 DEF Coded
  <1> QED BY <1>1, <1>5

LEMMA CodedEight ==
    ASSUME NEW p, NEW q, NEW r, NEW u, NEW w, NEW x, NEW y, NEW z,
           p.kind \in CodeKinds, q.kind \in CodeKinds, r.kind \in CodeKinds, u.kind \in CodeKinds, w.kind \in CodeKinds, x.kind \in CodeKinds, y.kind \in CodeKinds, z.kind \in CodeKinds
    PROVE  Coded(<<p, q, r, u, w, x, y, z>>)
  <1>1. PICK s : s = <<p, q, r, u, w, x, y, z>>
    OBVIOUS
  <1>2. s \in Seq({p, q, r, u, w, x, y, z}) /\ Len(s) = 8 /\ s[1] = p /\ s[2] = q /\ s[3] = r /\ s[4] = u /\ s[5] = w /\ s[6] = x /\ s[7] = y /\ s[8] = z
    BY <1>1
  <1>3. IsSeq(s)
    BY <1>2, AnySequence
  <1>4. \A a \in 1 .. 8 : a \in {1, 2, 3, 4, 5, 6, 7, 8}
    OBVIOUS
  <1>5. Coded(s)
    BY <1>2, <1>3, <1>4 DEF Coded
  <1> QED BY <1>1, <1>5

\* The emitter's texts for the builtins (AssemblyEmitter.cpp:303) are code only.
LEMMA BuiltinCoded ==
    ASSUME NEW f, KnownBuiltin(f)
    PROVE  Coded(builtinFunctionAssembly(f))
  <1>1. \A op, first, second : Op(op, first, second).kind \in CodeKinds
    BY DEF Op, CodeKinds
  <1>2. ASSUME NEW type, NEW native PROVE Coded(Passed(type, native))
    <2>1. PICK x, y : x = Op("loadL", OfType(type), Number(1)) /\ y = Op("native", Native(native), None)
      OBVIOUS
    <2>2. x.kind \in CodeKinds /\ y.kind \in CodeKinds
      BY <1>1, <2>1
    <2> QED BY <2>1, <2>2, CodedTwo DEF Passed
  <1>3. Coded(PrintLine(f))
    <2>1. PICK w, x, y, z :
             /\ w = Op("loadL", OfType(IF f.parameters[1] = "float" THEN "f32" ELSE "i32"), Number(1))
             /\ x = Op("call", ToLabel(LabelOf(Printer("print", f.parameters[1]))), None)
             /\ y = Op("push", OfType("ui32"), Number(10))
             /\ z = Op("native", Native("print_char"), None)
      OBVIOUS
    <2>2. w.kind \in CodeKinds /\ x.kind \in CodeKinds /\ y.kind \in CodeKinds /\ z.kind \in CodeKinds
      BY <1>1, <2>1
    <2>3. Coded(<<w, x, y, z>>)
      BY <2>2, CodedFour
    <2> QED BY <2>1, <2>3 DEF PrintLine
  <1>4. Coded(PrintBool(f))
    <2>1. PICK p, q, r, u, w, x, y, z :
             /\ p = Op("loadL", OfType("ui32"), Number(1))
             /\ q = Op("jez", ToLabel(Inside(f, "false")), None)
             /\ r = Op("push", OfType("ptr"), ToLabel(TrueString))
             /\ u = Op("jmp", ToLabel(Inside(f, "print")), None)
             /\ w = [kind |-> "label", name |-> Inside(f, "false")]
             /\ x = Op("push", OfType("ptr"), ToLabel(FalseString))
             /\ y = [kind |-> "label", name |-> Inside(f, "print")]
             /\ z = Op("native", Native("print_str"), None)
      OBVIOUS
    <2>2. /\ p.kind \in CodeKinds /\ q.kind \in CodeKinds /\ r.kind \in CodeKinds
          /\ u.kind \in CodeKinds /\ x.kind \in CodeKinds /\ z.kind \in CodeKinds
      BY <1>1, <2>1
    <2>3. w.kind \in CodeKinds /\ y.kind \in CodeKinds
      BY <2>1 DEF CodeKinds
    <2>4. Coded(<<p, q, r, u, w, x, y, z>>)
      BY <2>2, <2>3, CodedEight
    <2> QED BY <2>1, <2>4 DEF PrintBool
  <1>5. Coded(functionBodyAssembly(f))
    <2>1. CASE f.name = "exit"
      BY <1>2, <2>1 DEF functionBodyAssembly
    <2>2. CASE f.name = "println"
      BY <1>3, <2>2 DEF functionBodyAssembly
    <2>3. CASE f.name = "print" /\ f.parameters[1] \in {"int", "float", "char"}
      BY <1>2, <2>3 DEF functionBodyAssembly
    <2>4. CASE f.name = "print" /\ f.parameters[1] = "bool"
      BY <1>4, <2>4 DEF functionBodyAssembly
    <2> QED BY <2>1, <2>2, <2>3, <2>4 DEF KnownBuiltin
  <1>6. PICK b, r : b = functionBodyAssembly(f) /\ r = Op("ret", None, None)
    OBVIOUS
  <1>7. Coded(Append(b, r))
    <2>1. IsSeq(b) /\ \A a \in 1 .. Len(b) : b[a].kind \in CodeKinds
      BY <1>5, <1>6 DEF Coded
    <2>2. PICK n \in Nat : n = Len(b)
      BY <2>1, AnySequence DEF IsSeq
    <2>3. PICK s : /\ s = Append(b, r) /\ IsSeq(s) /\ Len(s) = n + 1
                   /\ \A i \in 1 .. n : s[i] = b[i]
                   /\ s[n + 1] = r
      <3>1. PICK s : s = Append(b, r)
        OBVIOUS
      <3>2. /\ IsSeq(Append(b, r)) /\ Len(Append(b, r)) = n + 1
            /\ \A i \in 1 .. n : Append(b, r)[i] = b[i]
            /\ Append(b, r)[n + 1] = r
        BY <2>1, <2>2, Appended
      <3> QED BY <3>1, <3>2
    <2>4. \A a \in 1 .. (n + 1) : a \in 1 .. n \/ a = n + 1
      OBVIOUS
    <2> QED BY <1>1, <1>6, <2>1, <2>2, <2>3, <2>4 DEF Coded
  <1>8. Coded(<<[kind |-> "method", name |-> LabelOf(f), arguments |-> 1, locals |-> 0]>>)
    <2>1. PICK m : m = [kind |-> "method", name |-> LabelOf(f), arguments |-> 1, locals |-> 0]
      OBVIOUS
    <2>2. m.kind \in CodeKinds
      BY <2>1 DEF CodeKinds
    <2> QED BY <2>1, <2>2, CodedOne
  <1> QED BY <1>6, <1>7, <1>8, CodedTogether DEF builtinFunctionAssembly

\* Pieces one behind the other are a piece.
LEMMA FlattenedCoded ==
    ASSUME NEW n \in Nat, NEW S, NEW seqs \in [1 .. n -> S], \A i \in 1 .. n : Coded(seqs[i])
    PROVE  Coded(FlattenSeq(seqs))
  <1>1. IsSeq(seqs) /\ Len(seqs) = n
    BY OfLength
  <1>2. CASE n = 0
    <2>1. FlattenSeq(seqs) = seqs
      BY <1>1, <1>2 DEF FlattenSeq
    <2> QED BY <1>1, <1>2, <2>1 DEF Coded
  <1>3. CASE n # 0
    <2> DEFINE Right(i, f) == IF i = 1 THEN seqs[i] ELSE f[i - 1] \o seqs[i]
               Solves(m, f) == f = [i \in 1 .. m |-> Right(i, f)]
               flatten == CHOOSE f : f = [i \in 1 .. n |-> Right(i, f)]
               Good(m) == \E f : Solves(m, f) /\ \A i \in 1 .. m : Coded(f[i])
               T == {m \in 0 .. n : ~ Good(m)}
    <2>1. FlattenSeq(seqs) = flatten[n]
      <3>1. FlattenSeq(seqs) =
              LET h[i \in 1 .. Len(seqs)] == IF i = 1 THEN seqs[i] ELSE h[i - 1] \o seqs[i]
              IN h[Len(seqs)]
        BY <1>1, <1>3 DEF FlattenSeq
      <3> QED BY <1>1, <3>1
    <2>2. T = {}
      <3> SUFFICES ASSUME T # {} PROVE FALSE
        OBVIOUS
      <3>1. PICK m \in T : \A l \in T : m <= l
        <4> HIDE DEF Good
        <4>1. T \subseteq Nat
          OBVIOUS
        <4> HIDE DEF T
        <4> QED BY <4>1, LeastOfNaturals
      <3>2. m \in 0 .. n /\ m \in Nat /\ ~ Good(m)
        <4> HIDE DEF Good
        <4> QED BY <3>1
      <3>3. m # 0
        <4>1. 1 .. 0 = {}
          OBVIOUS
        <4>2. Solves(0, [i \in 1 .. 0 |-> 0])
          BY <4>1
        <4> QED BY <3>2, <4>1, <4>2
      <3>4. m - 1 \in 0 .. n /\ ~ (m <= m - 1) /\ (m - 1) + 1 = m /\ m \in 1 .. n
        BY <3>2, <3>3
      <3>5. PICK l \in Nat : l = m - 1 /\ l + 1 = m
        BY <3>2, <3>3
      <3>6. PICK g : Solves(l, g) /\ \A i \in 1 .. l : Coded(g[i])
        <4>1. l \notin T
          BY <3>1, <3>4, <3>5
        <4>2. Good(l)
          <5> HIDE DEF Good
          <5> QED BY <3>4, <3>5, <4>1
        <4> HIDE DEF T
        <4> QED BY <4>2
      <3>7. PICK h : h = [i \in 1 .. m |-> IF i = m THEN Right(m, g) ELSE g[i]]
        OBVIOUS
      <3>8. \A i \in 1 .. m : i = m \/ i \in 1 .. l
        BY <3>5
      <3>9. \A i \in 1 .. l : h[i] = g[i] /\ g[i] = Right(i, g)
        <4>1. \A i \in 1 .. l : i \in 1 .. m /\ i # m
          BY <3>5
        <4> QED BY <3>6, <3>7, <4>1
      <3>10. ASSUME NEW i \in 1 .. m PROVE Right(i, g) = Right(i, h)
        <4>1. i # 1 => i - 1 \in 1 .. l
          BY <3>5
        <4> QED BY <3>9, <4>1
      <3>11. h[m] = Right(m, g)
        BY <3>4, <3>7
      <3>12. \A i \in 1 .. m : (IF i = m THEN Right(m, g) ELSE g[i]) = Right(i, h)
        <4> HIDE DEF Right
        <4> QED BY <3>8, <3>9, <3>10
      <3>13. Solves(m, h)
        <4> HIDE DEF Right
        <4>1. [i \in 1 .. m |-> IF i = m THEN Right(m, g) ELSE g[i]] = [i \in 1 .. m |-> Right(i, h)]
          BY <3>12
        <4> QED BY <3>7, <4>1
      <3>14. Coded(h[m])
        <4>1. Coded(seqs[m])
          BY <3>4
        <4>2. CASE m = 1
          BY <3>11, <4>1, <4>2
        <4>3. CASE m # 1
          <5>1. Coded(g[m - 1])
            <6>1. l \in 1 .. l
              BY <3>5, <4>3
            <6> QED BY <3>5, <3>6, <6>1
          <5>2. Coded(g[m - 1] \o seqs[m])
            BY <4>1, <5>1, CodedTogether
          <5> QED BY <3>11, <4>3, <5>2
        <4> QED BY <4>2, <4>3
      <3>15. \A i \in 1 .. m : Coded(h[i])
        <4> HIDE DEF Right, Solves
        <4> QED BY <3>6, <3>8, <3>9, <3>14
      <3>16. Good(m)
        <4> HIDE DEF Solves
        <4> QED BY <3>13, <3>15
      <3> HIDE DEF Good
      <3> QED BY <3>2, <3>16
    <2>3. PICK f : Solves(n, f)
      <3>1. Good(n)
        <4>1. n \in 0 .. n
          OBVIOUS
        <4> HIDE DEF Good
        <4> QED BY <2>2, <4>1
      <3> HIDE DEF Solves
      <3> QED BY <3>1
    <2>4. Solves(n, flatten)
      <3>1. \E k : k = [i \in 1 .. n |-> Right(i, k)]
        BY <2>3
      <3> HIDE DEF Right
      <3>2. flatten = [i \in 1 .. n |-> Right(i, flatten)]
        BY <3>1
      <3> HIDE DEF flatten
      <3> QED BY <3>2
    <2> HIDE DEF flatten
    <2> DEFINE U == {m \in 1 .. n : ~ Coded(flatten[m])}
    <2>5. U = {}
      <3> SUFFICES ASSUME U # {} PROVE FALSE
        OBVIOUS
      <3>1. PICK m \in U : \A l \in U : m <= l
        <4>1. U \subseteq Nat
          OBVIOUS
        <4> HIDE DEF U
        <4> QED BY <4>1, LeastOfNaturals
      <3>2. m \in 1 .. n /\ ~ Coded(flatten[m])
        BY <3>1
      <3>3. flatten[m] = Right(m, flatten)
        <4> HIDE DEF Right
        <4> QED BY <2>4, <3>2
      <3>4. Coded(seqs[m])
        BY <3>2
      <3>5. CASE m = 1
        BY <3>2, <3>3, <3>4, <3>5
      <3>6. CASE m # 1
        <4>1. m - 1 \in 1 .. n /\ ~ (m <= m - 1)
          BY <3>2, <3>6
        <4>2. Coded(flatten[m - 1])
          BY <3>1, <4>1
        <4>3. Coded(flatten[m - 1] \o seqs[m])
          BY <3>4, <4>2, CodedTogether
        <4> QED BY <3>2, <3>3, <3>6, <4>3
      <3> QED BY <3>5, <3>6
    <2>6. n \in 1 .. n
      BY <1>3
    <2> QED BY <2>1, <2>5, <2>6
  <1> QED BY <1>2, <1>3

-----------------------------------------------------------------------------
(***************************************************************************)
(* The emitter's count of bytes, and the items' nesting.                   *)
(***************************************************************************)
\* The emitter counts for an instruction (AssemblyEmitter.cpp:204) what the
\* assembler will count (src/src/assembler/Assembler.cpp:119).
LEMMA ItemCounts ==
    ASSUME NEW i, Measured(i), NEW s, s = Op(i.op, AsText(i.first), AsText(i.second))
    PROVE  /\ Counted(s) = 1 + EmittedBytes(i.op, i.first) + EmittedBytes(i.op, i.second)
           /\ Counted(s) \in Nat /\ Counted(s) >= 1 /\ s.kind = "instruction"
  <1>1. /\ s.kind = "instruction" /\ s.op = i.op
        /\ s.first = AsText(i.first) /\ s.second = AsText(i.second)
    BY DEF Op
  <1>2. ASSUME NEW o PROVE AsText(o).is = o.is /\ AsText(o).of = o.of
    BY DEF AsText, Number
  <1>3. ASSUME NEW o \in {i.first, i.second}
        PROVE  /\ CountedBytes(s, AsText(o)) = EmittedBytes(i.op, o)
               /\ CountedBytes(s, AsText(o)) \in Nat
    <2>1. /\ o.is \in {"type", "label", "number", "native", "error", "none"}
          /\ o.is = "number" /\ i.op \notin TakesDepth \cup {"loadL", "storeL"} =>
                o.width = IF i.first.is = "type" THEN calculateBytesFromType(i.first.of) ELSE 4
      BY DEF Measured
    <2>2. PICK p : p = AsText(o) /\ p.is = o.is
      BY <1>2
    <2>3. s.first.is = i.first.is /\ s.first.of = i.first.of
      BY <1>1, <1>2
    <2>4. CASE o.is = "number"
      <3>1. calculateBytesFromType(i.first.of) \in Nat
        BY DEF calculateBytesFromType
      <3>2. CountedBytes(s, p) = IF i.op \in TakesDepth THEN 2
                                 ELSE IF i.op \in {"loadL", "storeL"} THEN 4
                                 ELSE IF i.first.is = "type" THEN calculateBytesFromType(i.first.of)
                                 ELSE 4
        BY <1>1, <2>2, <2>3, <2>4 DEF CountedBytes
      <3>3. EmittedBytes(i.op, o) = IF i.op \in TakesDepth THEN 2
                                    ELSE IF i.op \in {"loadL", "storeL"} THEN 4
                                    ELSE o.width
        BY <2>4 DEF EmittedBytes
      <3> QED BY <2>1, <2>2, <2>4, <3>1, <3>2, <3>3
    <2>5. CASE o.is = "label"
      BY <2>2, <2>5 DEF CountedBytes, EmittedBytes
    <2>6. CASE o.is = "none"
      BY <2>2, <2>6 DEF CountedBytes, EmittedBytes
    <2>7. CASE o.is \in {"type", "native", "error"}
      BY <2>2, <2>7 DEF CountedBytes, EmittedBytes
    <2> QED BY <2>1, <2>4, <2>5, <2>6, <2>7
  <1>4. PICK m \in Nat, n \in Nat : /\ m = EmittedBytes(i.op, i.first) /\ m = CountedBytes(s, s.first)
                                    /\ n = EmittedBytes(i.op, i.second) /\ n = CountedBytes(s, s.second)
    BY <1>1, <1>3
  <1>5. Counted(s) = 1 + m + n
    BY <1>1, <1>4 DEF Counted
  <1> QED BY <1>1, <1>4, <1>5

\* Which method an item belongs to.
LEMMA OpensOn ==
    ASSUME NEW t, NEW n \in Nat \ {0}, NEW i
    PROVE  /\ t[n].kind \notin Brackets => (Encloses(t, i, n + 1) <=> Encloses(t, i, n))
           /\ t[n].kind = "method" => (Encloses(t, i, n + 1) <=> i = n)
           /\ t[n].kind = "METHOD_DEF_END" => ~ Encloses(t, i, n + 1)
  <1>1. (n + 1) - 1 = n
    OBVIOUS
  <1>2. ASSUME t[n].kind \notin Brackets PROVE Encloses(t, i, n + 1) <=> Encloses(t, i, n)
    <2>1. ASSUME Encloses(t, i, n + 1) PROVE Encloses(t, i, n)
      <3>1. /\ i \in 1 .. n /\ t[i].kind = "method"
            /\ \A j \in (i + 1) .. n : t[j].kind \notin Brackets
        BY <1>1, <2>1 DEF Encloses
      <3>2. i # n
        BY <1>2, <3>1 DEF Brackets
      <3>3. i \in 1 .. (n - 1) /\ \A j \in (i + 1) .. (n - 1) : j \in (i + 1) .. n
        BY <3>1, <3>2
      <3> QED BY <3>1, <3>3 DEF Encloses
    <2>2. ASSUME Encloses(t, i, n) PROVE Encloses(t, i, n + 1)
      <3>1. /\ i \in 1 .. (n - 1) /\ t[i].kind = "method"
            /\ \A j \in (i + 1) .. (n - 1) : t[j].kind \notin Brackets
        BY <2>2 DEF Encloses
      <3>2. i \in 1 .. n /\ \A j \in (i + 1) .. n : j \in (i + 1) .. (n - 1) \/ j = n
        BY <3>1
      <3> QED BY <1>1, <1>2, <3>1, <3>2 DEF Encloses
    <2> QED BY <2>1, <2>2
  <1>3. ASSUME t[n].kind \in Brackets, Encloses(t, i, n + 1) PROVE i = n /\ t[n].kind = "method"
    <2>1. /\ i \in 1 .. n /\ t[i].kind = "method"
          /\ \A j \in (i + 1) .. n : t[j].kind \notin Brackets
      BY <1>1, <1>3 DEF Encloses
    <2>2. i # n => n \in (i + 1) .. n
      BY <2>1
    <2> QED BY <1>3, <2>1, <2>2
  <1>4. ASSUME t[n].kind = "method", i = n PROVE Encloses(t, i, n + 1)
    <2>1. n \in 1 .. n /\ (n + 1) .. n = {}
      OBVIOUS
    <2> QED BY <1>1, <1>4, <2>1 DEF Encloses
  <1> QED BY <1>2, <1>3, <1>4 DEF Brackets

\* A method is closed before the next one begins, and before the items end.
LEMMA ClosedBefore ==
    ASSUME NEW t, NEW m \in Nat, m = Len(t), Bracketed(t), NEW n \in 1 .. (m + 1),
           n <= m => t[n].kind = "method", NEW i
    PROVE  ~ Encloses(t, i, n)
  <1> SUFFICES ASSUME Encloses(t, i, n) PROVE FALSE
    OBVIOUS
  <1>1. /\ i \in 1 .. (n - 1) /\ i \in 1 .. m /\ t[i].kind = "method"
        /\ \A j \in (i + 1) .. (n - 1) : t[j].kind \notin Brackets
    BY DEF Encloses
  <1>2. PICK e \in (i + 1) .. m : t[e].kind = "METHOD_DEF_END" /\ Encloses(t, i, e)
    BY <1>1 DEF Bracketed
  <1>3. \A j \in (i + 1) .. (e - 1) : t[j].kind \notin Brackets
    BY <1>2 DEF Encloses
  <1>4. CASE e < n
    <2>1. e \in (i + 1) .. (n - 1)
      BY <1>1, <1>4
    <2> QED BY <1>1, <1>2, <2>1 DEF Brackets
  <1>5. CASE ~ (e < n)
    <2>1. n <= m
      BY <1>5
    <2>2. n # e
      BY <1>2, <2>1
    <2>3. n \in (i + 1) .. (e - 1)
      BY <1>1, <1>5, <2>2
    <2> QED BY <1>3, <2>1, <2>3 DEF Brackets
  <1> QED BY <1>4, <1>5

\* Only one method is open.
LEMMA OpensOne ==
    ASSUME NEW t, NEW n \in Nat, NEW i, Encloses(t, i, n), NEW j, Encloses(t, j, n)
    PROVE  i = j
  <1>1. /\ i \in 1 .. (n - 1) /\ t[i].kind = "method" /\ j \in 1 .. (n - 1) /\ t[j].kind = "method"
        /\ \A l \in (i + 1) .. (n - 1) : t[l].kind \notin Brackets
        /\ \A l \in (j + 1) .. (n - 1) : t[l].kind \notin Brackets
    BY DEF Encloses
  <1>2. ~ (i < j)
    <2>1. i < j => j \in (i + 1) .. (n - 1)
      BY <1>1
    <2> QED BY <1>1, <2>1 DEF Brackets
  <1>3. ~ (j < i)
    <2>1. j < i => i \in (j + 1) .. (n - 1)
      BY <1>1
    <2> QED BY <1>1, <2>1 DEF Brackets
  <1> QED BY <1>1, <1>2, <1>3

-----------------------------------------------------------------------------
(***************************************************************************)
(* What the emitter has written, and what its tables say of it.            *)
(***************************************************************************)
\* Statements in front of the metadata.
Early(s) == s.kind \in CodeKinds \cup {"data"} \/ (s.kind = "directive" /\ s.section = "DATA")

\* q holds the places of the first d statements of A, and the end of the last
\* of them; the others come from no line.
CodeAt(q, d, A, O) ==
    /\ IsSeq(A) /\ IsSeq(O) /\ Len(O) = Len(A) /\ d \in 0 .. Len(A)
    /\ q \in [1 .. (d + 1) -> Nat] /\ q[1] = 0
    /\ \A a \in 1 .. d :
          /\ Counted(A[a]) \in Nat /\ q[a + 1] = q[a] + Counted(A[a])
          /\ A[a].kind = "instruction" => Counted(A[a]) >= 1
    /\ \A a \in (d + 1) .. Len(A) : O[a].line = NoLine
    /\ \A a \in 1 .. Len(A) : Early(A[a])

\* What the tables say of an address, if it is that of an instruction which
\* comes from a line and a function.
LineSaid(L, x, line) ==
    IF line = NoLine THEN \A k \in 1 .. Len(L) : ~ Spans(L[k], x)
    ELSE \E k \in 1 .. Len(L) : Spans(L[k], x) /\ L[k].line = line

FunctionSaid(F, x, in) ==
    IF in = Global THEN \A k \in 1 .. Len(F) : ~ Spans(F[k], x)
    ELSE \E k \in 1 .. Len(F) : Spans(F[k], x) /\ F[k].name = in

TableUpTo(T, x) ==
    IsSeq(T) /\ Ascending(T, Len(T)) /\ \A k \in 1 .. Len(T) : T[k].end <= x

LinesSay(q, d, A, O, L) ==
    /\ TableUpTo(L, q[d + 1])
    /\ \A a \in 1 .. d : A[a].kind = "instruction" => LineSaid(L, q[a], O[a].line)

\* While the end of a user's function has not been seen (open), its statements
\* are those from address `start' on.
FunctionsSay(q, d, A, O, F, open, start, name) ==
    /\ open \in BOOLEAN
    /\ open => start \in Nat /\ start < q[d + 1] /\ TableUpTo(F, start) /\ name # Global
    /\ ~ open => TableUpTo(F, q[d + 1])
    /\ \A a \in 1 .. d : A[a].kind = "instruction" /\ O[a].line # NoLine =>
          IF open /\ start <= q[a] THEN O[a].in = name ELSE FunctionSaid(F, q[a], O[a].in)

\* The first d statements are those of A, too.
SameFirst(d, A, O, B, P) == \A a \in 1 .. d : B[a] = A[a] /\ P[a] = O[a]

\* r goes on where q ends, by one statement of n bytes.
Onward(r, q, d, n) == (\A a \in 1 .. (d + 1) : r[a] = q[a]) /\ r[d + 2] = q[d + 1] + n

\* Places only grow, and instructions take bytes.
LEMMA CodeGrows ==
    ASSUME NEW q, NEW d, NEW A, NEW O, CodeAt(q, d, A, O), NEW a \in 1 .. (d + 1)
    PROVE  /\ d \in Nat /\ q[a] \in Nat /\ q[d + 1] \in Nat /\ q[a] <= q[d + 1]
           /\ a <= d /\ A[a].kind = "instruction" => q[a] < q[d + 1]
  <1>1. d \in Nat
    <2>1. PICK m \in Nat : m = Len(A)
      BY AnySequence DEF CodeAt, IsSeq
    <2> QED BY <2>1 DEF CodeAt
  <1>2. \A b \in 1 .. (d + 1) : q[b] \in Nat
    BY DEF CodeAt
  <1>3. ASSUME NEW b \in 1 .. (d + 1) PROVE q[b] <= q[d + 1]
    <2> DEFINE T == {c \in b .. (d + 1) : ~ (q[b] <= q[c])}
    <2>1. T = {}
      <3> SUFFICES ASSUME T # {} PROVE FALSE
        OBVIOUS
      <3>1. PICK c \in T : \A e \in T : c <= e
        <4>1. T \subseteq Nat
          BY <1>1
        <4> HIDE DEF T
        <4> QED BY <4>1, LeastOfNaturals
      <3>2. c \in b .. (d + 1) /\ ~ (q[b] <= q[c]) /\ c # b
        BY <1>2, <3>1
      <3>3. c - 1 \in b .. (d + 1) /\ c - 1 \in 1 .. d /\ (c - 1) + 1 = c /\ ~ (c <= c - 1)
        BY <1>1, <3>2
      <3>4. q[b] <= q[c - 1]
        BY <3>1, <3>3
      <3>5. PICK n \in Nat : q[(c - 1) + 1] = q[c - 1] + n
        BY <3>3 DEF CodeAt
      <3>6. q[b] \in Nat /\ q[c - 1] \in Nat /\ q[c] = q[c - 1] + n
        BY <1>1, <1>2, <3>2, <3>3, <3>5
      <3> QED BY <3>2, <3>4, <3>6
    <2>2. d + 1 \in b .. (d + 1)
      BY <1>1
    <2> QED BY <2>1, <2>2
  <1>4. d + 1 \in 1 .. (d + 1)
    BY <1>1
  <1>5. ASSUME a <= d, A[a].kind = "instruction" PROVE q[a] < q[d + 1]
    <2>1. a \in 1 .. d /\ a + 1 \in 1 .. (d + 1)
      BY <1>1, <1>5
    <2>2. PICK n \in Nat : n >= 1 /\ q[a + 1] = q[a] + n
      BY <1>5, <2>1 DEF CodeAt
    <2>3. q[a + 1] <= q[d + 1] /\ q[a] \in Nat /\ q[a + 1] \in Nat /\ q[d + 1] \in Nat
      BY <1>2, <1>3, <1>4, <2>1
    <2> QED BY <2>2, <2>3
  <1> QED BY <1>1, <1>2, <1>3, <1>4, <1>5

\* One statement of code more.
OneMore(q, d, A, O, n, s, o, B, P) ==
    /\ \E r : CodeAt(r, d + 1, B, P) /\ Onward(r, q, d, n)
    /\ SameFirst(d, A, O, B, P) /\ B[d + 1] = s /\ P[d + 1] = o /\ Len(B) = d + 1

\* The emitter appends a statement: it is placed where the last one ends.
LEMMA CodeOn ==
    ASSUME NEW q, NEW d, NEW A, NEW O, CodeAt(q, d, A, O), d = Len(A),
           NEW s, Early(s), NEW n \in Nat, n = Counted(s), s.kind = "instruction" => n >= 1,
           NEW o, NEW B, B = Append(A, s), NEW P, P = Append(O, o)
    PROVE  OneMore(q, d, A, O, n, s, o, B, P)
  <1>1. d \in Nat /\ IsSeq(A) /\ IsSeq(O) /\ Len(O) = d
    <2>1. PICK m \in Nat : m = Len(A)
      BY AnySequence DEF CodeAt, IsSeq
    <2> QED BY <2>1 DEF CodeAt
  <1>2. IsSeq(B) /\ Len(B) = d + 1 /\ B[d + 1] = s /\ \A a \in 1 .. d : B[a] = A[a]
    BY <1>1, Appended
  <1>3. IsSeq(P) /\ Len(P) = d + 1 /\ P[d + 1] = o /\ \A a \in 1 .. d : P[a] = O[a]
    BY <1>1, Appended
  <1>4. PICK r : r = [a \in 1 .. (d + 2) |-> IF a = d + 2 THEN q[d + 1] + n ELSE q[a]]
    OBVIOUS
  <1>5. q \in [1 .. (d + 1) -> Nat]
    BY DEF CodeAt
  <1>6. \A a \in 1 .. (d + 2) : a # d + 2 => a \in 1 .. (d + 1)
    BY <1>1
  <1>7. d + 1 \in 1 .. (d + 1) /\ d + 2 \in 1 .. (d + 2) /\ q[d + 1] \in Nat /\ (d + 1) + 1 = d + 2
    BY <1>1, <1>5
  <1>8. r \in [1 .. ((d + 1) + 1) -> Nat]
    BY <1>4, <1>5, <1>6, <1>7
  <1>9. (\A a \in 1 .. (d + 1) : r[a] = q[a]) /\ r[d + 2] = q[d + 1] + n
    <2>1. \A a \in 1 .. (d + 1) : a \in 1 .. (d + 2) /\ a # d + 2
      BY <1>1
    <2> QED BY <1>4, <1>7, <2>1
  <1>10. r[1] = 0
    <2>1. 1 \in 1 .. (d + 1)
      BY <1>1
    <2> QED BY <1>9, <2>1 DEF CodeAt
  <1>11. \A a \in 1 .. (d + 1) : a \in 1 .. d \/ a = d + 1
    BY <1>1
  <1>12. ASSUME NEW a \in 1 .. (d + 1)
         PROVE  /\ Counted(B[a]) \in Nat /\ r[a + 1] = r[a] + Counted(B[a])
                /\ B[a].kind = "instruction" => Counted(B[a]) >= 1
                /\ Early(B[a])
    <2>1. CASE a \in 1 .. d
      <3>1. a \in 1 .. (d + 1) /\ a + 1 \in 1 .. (d + 1) /\ a \in 1 .. Len(A)
        BY <1>1, <2>1
      <3> QED BY <1>2, <1>9, <2>1, <3>1 DEF CodeAt
    <2>2. CASE a = d + 1
      <3>1. r[a + 1] = q[d + 1] + n /\ r[a] = q[d + 1] /\ B[a] = s
        BY <1>2, <1>7, <1>9, <2>2
      <3> QED BY <3>1
    <2> QED BY <1>11, <2>1, <2>2
  <1>13. ((d + 1) + 1) .. Len(B) = {} /\ d + 1 \in 0 .. Len(B)
    BY <1>1, <1>2
  <1>14. CodeAt(r, d + 1, B, P)
    BY <1>2, <1>3, <1>8, <1>10, <1>12, <1>13 DEF CodeAt
  <1> QED BY <1>2, <1>3, <1>9, <1>14 DEF Onward, SameFirst, OneMore

\* Statements that are not counted.
LEMMA CodeKept ==
    ASSUME NEW q, NEW d, NEW A, NEW O, CodeAt(q, d, A, O),
           NEW B, IsSeq(B), NEW P, IsSeq(P), Len(P) = Len(B), NEW m \in Nat, m = Len(A),
           NEW n \in Nat, n = Len(B), m <= n, SameFirst(m, A, O, B, P),
           \A a \in (m + 1) .. n : Early(B[a]) /\ P[a].line = NoLine
    PROVE  CodeAt(q, d, B, P) /\ SameFirst(d, A, O, B, P)
  <1>1. d \in 0 .. m /\ d \in Nat /\ d \in 0 .. n
    BY DEF CodeAt
  <1>2. \A a \in 1 .. d : a \in 1 .. m
    BY <1>1
  <1>3. ASSUME NEW a \in 1 .. n PROVE Early(B[a]) /\ (a > d => P[a].line = NoLine)
    <2>1. CASE a \in 1 .. m
      <3>1. a > d => a \in (d + 1) .. m
        BY <1>1, <2>1
      <3> QED BY <2>1, <3>1 DEF SameFirst, CodeAt
    <2>2. CASE a \notin 1 .. m
      <3>1. a \in (m + 1) .. n
        BY <2>2
      <3> QED BY <3>1
    <2> QED BY <2>1, <2>2
  <1>4. \A a \in (d + 1) .. n : a \in 1 .. n /\ a > d
    BY <1>1
  <1>5. SameFirst(d, A, O, B, P)
    BY <1>2 DEF SameFirst
  <1>6. \A a \in 1 .. d : /\ Counted(B[a]) \in Nat /\ q[a + 1] = q[a] + Counted(B[a])
                          /\ B[a].kind = "instruction" => Counted(B[a]) >= 1
    BY <1>5 DEF SameFirst, CodeAt
  <1> QED BY <1>1, <1>3, <1>4, <1>5, <1>6 DEF CodeAt

\* What T says of the addresses in front of an entry, U still says with it.
StillSays(T, U, e) ==
    /\ TableUpTo(U, e.end)
    /\ \A x \in Nat : \A line : x < e.start /\ LineSaid(T, x, line) => LineSaid(U, x, line)
    /\ \A x \in Nat : \A in : x < e.start /\ FunctionSaid(T, x, in) => FunctionSaid(U, x, in)
    /\ \E k \in 1 .. Len(U) : U[k] = e

ComesBehind(e, y) == y \in Nat /\ e.start \in Nat /\ y <= e.start /\ e.end \in Nat /\ e.start < e.end

\* So it is when the entry is added behind those of the table.
LEMMA SaidStill ==
    ASSUME NEW T, NEW y, TableUpTo(T, y), NEW e, NEW U, U = Append(T, e),
           ComesBehind(e, y)
    PROVE  StillSays(T, U, e)
  <1>0. y \in Nat /\ e.start \in Nat /\ y <= e.start /\ e.end \in Nat /\ e.start < e.end
    BY DEF ComesBehind
  <1>1. PICK n \in Nat : n = Len(T)
    BY AnySequence DEF TableUpTo, IsSeq
  <1>2. IsSeq(U) /\ Len(U) = n + 1 /\ U[n + 1] = e /\ \A k \in 1 .. n : U[k] = T[k]
    BY <1>1, Appended DEF TableUpTo
  <1>3. \A k \in 1 .. n : T[k].end \in Nat /\ T[k].end <= y
    BY <1>1 DEF TableUpTo, Ascending
  <1>4. Ascending(U, n + 1)
    <2>1. \A k \in 1 .. n : T[k].end <= e.start
      BY <1>0, <1>3
    <2> QED BY <1>0, <1>1, <2>1, AscendingOn DEF TableUpTo
  <1>5. \A k \in 1 .. (n + 1) : k \in 1 .. n \/ k = n + 1
    OBVIOUS
  <1>6. \A k \in 1 .. (n + 1) : U[k].end <= e.end
    BY <1>0, <1>2, <1>3, <1>5
  <1>7. TableUpTo(U, e.end)
    BY <1>2, <1>4, <1>6 DEF TableUpTo
  <1>8. ASSUME NEW x \in Nat, x < e.start
        PROVE  ~ Spans(e, x)
    BY <1>0, <1>8 DEF Spans
  <1>9. \A k \in 1 .. n : k \in 1 .. (n + 1)
    OBVIOUS
  <1>10. ASSUME NEW x \in Nat, NEW line, x < e.start, LineSaid(T, x, line) PROVE LineSaid(U, x, line)
    <2>1. CASE line = NoLine
      <3>1. \A k \in 1 .. n : ~ Spans(T[k], x)
        BY <1>1, <1>10, <2>1 DEF LineSaid
      <3>2. \A k \in 1 .. (n + 1) : ~ Spans(U[k], x)
        BY <1>2, <1>5, <1>8, <1>10, <3>1
      <3> QED BY <1>2, <2>1, <3>2 DEF LineSaid
    <2>2. CASE line # NoLine
      <3>1. PICK k \in 1 .. n : Spans(T[k], x) /\ T[k].line = line
        BY <1>1, <1>10, <2>2 DEF LineSaid
      <3>2. k \in 1 .. Len(U) /\ Spans(U[k], x) /\ U[k].line = line
        BY <1>2, <1>9, <3>1
      <3> QED BY <2>2, <3>2 DEF LineSaid
    <2> QED BY <2>1, <2>2
  <1>11. ASSUME NEW x \in Nat, NEW in, x < e.start, FunctionSaid(T, x, in) PROVE FunctionSaid(U, x, in)
    <2>1. CASE in = Global
      <3>1. \A k \in 1 .. n : ~ Spans(T[k], x)
        BY <1>1, <1>11, <2>1 DEF FunctionSaid
      <3>2. \A k \in 1 .. (n + 1) : ~ Spans(U[k], x)
        BY <1>2, <1>5, <1>8, <1>11, <3>1
      <3> QED BY <1>2, <2>1, <3>2 DEF FunctionSaid
    <2>2. CASE in # Global
      <3>1. PICK k \in 1 .. n : Spans(T[k], x) /\ T[k].name = in
        BY <1>1, <1>11, <2>2 DEF FunctionSaid
      <3>2. k \in 1 .. Len(U) /\ Spans(U[k], x) /\ U[k].name = in
        BY <1>2, <1>9, <3>1
      <3> QED BY <2>2, <3>2 DEF FunctionSaid
    <2> QED BY <2>1, <2>2
  <1>12. \E k \in 1 .. Len(U) : U[k] = e
    <2>1. n + 1 \in 1 .. Len(U)
      BY <1>2
    <2> QED BY <1>2, <2>1
  <1> QED BY <1>7, <1>10, <1>11, <1>12 DEF StillSays

\* Nothing is said of the addresses behind a table's last entry.
LEMMA NothingSaid ==
    ASSUME NEW T, NEW x \in Nat, TableUpTo(T, x)
    PROVE  /\ LineSaid(T, x, NoLine) /\ FunctionSaid(T, x, Global)
           /\ \A y \in Nat : x <= y => TableUpTo(T, y)
  <1>1. \A k \in 1 .. Len(T) : T[k].end \in Nat /\ T[k].end <= x
    BY DEF TableUpTo, Ascending
  <1>2. \A k \in 1 .. Len(T) : ~ Spans(T[k], x)
    BY <1>1 DEF Spans
  <1>3. \A y \in Nat : x <= y => \A k \in 1 .. Len(T) : T[k].end <= y
    BY <1>1
  <1> QED BY <1>2, <1>3 DEF LineSaid, FunctionSaid, TableUpTo

\* A statement is written that gets no entry: no instruction, or one from no
\* line.
LEMMA LinesStay ==
    ASSUME NEW q, NEW d, NEW A, NEW O, CodeAt(q, d, A, O), NEW L, LinesSay(q, d, A, O, L),
           NEW B, NEW P, SameFirst(d, A, O, B, P), NEW n \in Nat, NEW r, Onward(r, q, d, n),
           B[d + 1].kind = "instruction" => P[d + 1].line = NoLine
    PROVE  LinesSay(r, d + 1, B, P, L)
  <1>1. d \in Nat /\ d + 1 \in 1 .. (d + 1) /\ (d + 1) + 1 = d + 2
    <2>1. PICK m \in Nat : m = Len(A)
      BY AnySequence DEF CodeAt, IsSeq
    <2> QED BY <2>1 DEF CodeAt
  <1>2. q[d + 1] \in Nat
    BY <1>1 DEF CodeAt
  <1>3. r[d + 1] = q[d + 1] /\ r[d + 2] = q[d + 1] + n /\ \A a \in 1 .. d : r[a] = q[a]
    <2>1. \A a \in 1 .. d : a \in 1 .. (d + 1)
      BY <1>1
    <2> QED BY <1>1, <2>1 DEF Onward
  <1>4. PICK x \in Nat : x = q[d + 1]
    BY <1>2
  <1>5. TableUpTo(L, x)
    BY <1>4 DEF LinesSay
  <1>6. LineSaid(L, x, NoLine) /\ \A y \in Nat : x <= y => TableUpTo(L, y)
    BY <1>5, NothingSaid
  <1>7. TableUpTo(L, r[d + 2])
    <2>1. PICK y \in Nat : y = r[d + 2] /\ x <= y
      BY <1>3, <1>4
    <2> QED BY <1>6, <2>1
  <1>8. ASSUME NEW a \in 1 .. (d + 1), B[a].kind = "instruction" PROVE LineSaid(L, r[a], P[a].line)
    <2>1. CASE a = d + 1
      BY <1>3, <1>4, <1>6, <1>8, <2>1
    <2>2. CASE a # d + 1
      <3>1. a \in 1 .. d
        BY <1>1, <2>2
      <3>2. B[a] = A[a] /\ P[a] = O[a] /\ r[a] = q[a]
        BY <1>3, <3>1 DEF SameFirst
      <3> QED BY <1>8, <3>1, <3>2 DEF LinesSay
    <2> QED BY <2>1, <2>2
  <1> QED BY <1>1, <1>7, <1>8 DEF LinesSay

\* A statement is written with an entry of its own.
LEMMA LinesOn ==
    ASSUME NEW q, NEW d, NEW A, NEW O, CodeAt(q, d, A, O), NEW L, LinesSay(q, d, A, O, L),
           NEW B, NEW P, SameFirst(d, A, O, B, P), NEW n \in Nat, n >= 1, NEW r, Onward(r, q, d, n),
           NEW line, NEW e, e = FromLine(q[d + 1], q[d + 1] + n, line), NEW M, M = Append(L, e),
           B[d + 1].kind = "instruction" => P[d + 1].line = line /\ line # NoLine
    PROVE  LinesSay(r, d + 1, B, P, M)
  <1>1. d \in Nat /\ d + 1 \in 1 .. (d + 1) /\ (d + 1) + 1 = d + 2
    <2>1. PICK m \in Nat : m = Len(A)
      BY AnySequence DEF CodeAt, IsSeq
    <2> QED BY <2>1 DEF CodeAt
  <1>2. q[d + 1] \in Nat
    BY <1>1 DEF CodeAt
  <1>3. r[d + 1] = q[d + 1] /\ r[d + 2] = q[d + 1] + n /\ \A a \in 1 .. d : r[a] = q[a]
    <2>1. \A a \in 1 .. d : a \in 1 .. (d + 1)
      BY <1>1
    <2> QED BY <1>1, <2>1 DEF Onward
  <1>4. PICK x \in Nat, y \in Nat : x = q[d + 1] /\ y = r[d + 2] /\ y = x + n
    BY <1>2, <1>3
  <1>5. e.start = x /\ e.end = y /\ e.line = line
    BY <1>4 DEF FromLine
  <1>6. /\ TableUpTo(M, y)
        /\ \A z \in Nat : \A l : z < x /\ LineSaid(L, z, l) => LineSaid(M, z, l)
        /\ \E k \in 1 .. Len(M) : M[k] = e
    <2>1. TableUpTo(L, x)
      BY <1>4 DEF LinesSay
    <2>2. ComesBehind(e, x)
      BY <1>4, <1>5 DEF ComesBehind
    <2>3. StillSays(L, M, e)
      BY <2>1, <2>2, SaidStill
    <2> QED BY <1>5, <2>3 DEF StillSays
  <1>8. ASSUME NEW a \in 1 .. (d + 1), B[a].kind = "instruction" PROVE LineSaid(M, r[a], P[a].line)
    <2>1. CASE a = d + 1
      <3>1. PICK k \in 1 .. Len(M) : M[k] = e
        BY <1>6
      <3>2. Spans(e, x)
        BY <1>4, <1>5 DEF Spans
      <3>3. r[a] = x /\ P[a].line = line /\ line # NoLine
        BY <1>3, <1>4, <1>8, <2>1
      <3> QED BY <1>5, <3>1, <3>2, <3>3 DEF LineSaid
    <2>2. CASE a # d + 1
      <3>1. a \in 1 .. d /\ a <= d /\ a \in 1 .. (d + 1)
        BY <1>1, <2>2
      <3>2. B[a] = A[a] /\ P[a] = O[a] /\ r[a] = q[a]
        BY <1>3, <3>1 DEF SameFirst
      <3>3. PICK z \in Nat : z = q[a] /\ z < x
        BY <1>4, <1>8, <3>1, <3>2, CodeGrows
      <3>4. LineSaid(L, z, O[a].line)
        BY <1>8, <3>1, <3>2, <3>3 DEF LinesSay
      <3>5. LineSaid(M, z, O[a].line)
        BY <1>6, <3>3, <3>4
      <3> QED BY <3>2, <3>3, <3>5
    <2> QED BY <2>1, <2>2
  <1> QED BY <1>1, <1>4, <1>6, <1>8 DEF LinesSay

\* The statement belongs to the function that is open, or to none.
LEMMA FunctionsOn ==
    ASSUME NEW q, NEW d, NEW A, NEW O, CodeAt(q, d, A, O), NEW F, NEW open, NEW start, NEW name,
           FunctionsSay(q, d, A, O, F, open, start, name),
           NEW B, NEW P, SameFirst(d, A, O, B, P), NEW n \in Nat, NEW r, Onward(r, q, d, n),
           B[d + 1].kind = "instruction" => P[d + 1].in = IF open THEN name ELSE Global
    PROVE  FunctionsSay(r, d + 1, B, P, F, open, start, name)
  <1>1. d \in Nat /\ d + 1 \in 1 .. (d + 1) /\ (d + 1) + 1 = d + 2
    <2>1. PICK m \in Nat : m = Len(A)
      BY AnySequence DEF CodeAt, IsSeq
    <2> QED BY <2>1 DEF CodeAt
  <1>2. q[d + 1] \in Nat
    BY <1>1 DEF CodeAt
  <1>3. r[d + 1] = q[d + 1] /\ r[d + 2] = q[d + 1] + n /\ \A a \in 1 .. d : r[a] = q[a]
    <2>1. \A a \in 1 .. d : a \in 1 .. (d + 1)
      BY <1>1
    <2> QED BY <1>1, <2>1 DEF Onward
  <1>4. PICK x \in Nat : x = q[d + 1] /\ r[d + 1] = x /\ r[d + 2] = x + n
    BY <1>2, <1>3
  <1>5. /\ open \in BOOLEAN
        /\ open => start \in Nat /\ start < x /\ TableUpTo(F, start) /\ name # Global
        /\ ~ open => TableUpTo(F, x)
    BY <1>4 DEF FunctionsSay
  <1>6. ~ open => FunctionSaid(F, x, Global) /\ TableUpTo(F, x + n)
    <2>1. PICK y \in Nat : y = x + n /\ x <= y
      BY <1>4
    <2> QED BY <1>4, <1>5, <2>1, NothingSaid
  <1>7. open => start \in Nat /\ start < x + n
    BY <1>4, <1>5
  <1>8. ASSUME NEW a \in 1 .. (d + 1), B[a].kind = "instruction", P[a].line # NoLine
        PROVE  IF open /\ start <= r[a] THEN P[a].in = name ELSE FunctionSaid(F, r[a], P[a].in)
    <2>1. CASE a = d + 1
      <3>1. r[a] = x /\ P[a].in = IF open THEN name ELSE Global
        BY <1>4, <1>8, <2>1
      <3>2. open => start <= x
        BY <1>4, <1>5
      <3> QED BY <1>5, <1>6, <3>1, <3>2
    <2>2. CASE a # d + 1
      <3>1. a \in 1 .. d
        BY <1>1, <2>2
      <3>2. B[a] = A[a] /\ P[a] = O[a] /\ r[a] = q[a]
        BY <1>3, <3>1 DEF SameFirst
      <3>3. IF open /\ start <= q[a] THEN O[a].in = name ELSE FunctionSaid(F, q[a], O[a].in)
        BY <1>8, <3>1, <3>2 DEF FunctionsSay
      <3> QED BY <3>2, <3>3
    <2> QED BY <2>1, <2>2
  <1> QED BY <1>1, <1>4, <1>5, <1>6, <1>7, <1>8 DEF FunctionsSay

\* The header of a method is written.
LEMMA FunctionOpens ==
    ASSUME NEW q, NEW d, NEW A, NEW O, CodeAt(q, d, A, O), NEW F, NEW anyStart, NEW anyName,
           FunctionsSay(q, d, A, O, F, FALSE, anyStart, anyName),
           NEW B, NEW P, SameFirst(d, A, O, B, P), NEW n \in Nat, n >= 1, NEW r, Onward(r, q, d, n),
           B[d + 1].kind # "instruction",
           NEW open \in BOOLEAN, NEW name, open => name # Global, NEW start, start = q[d + 1]
    PROVE  FunctionsSay(r, d + 1, B, P, F, open, start, name)
  <1>1. d \in Nat /\ d + 1 \in 1 .. (d + 1) /\ (d + 1) + 1 = d + 2
    <2>1. PICK m \in Nat : m = Len(A)
      BY AnySequence DEF CodeAt, IsSeq
    <2> QED BY <2>1 DEF CodeAt
  <1>2. q[d + 1] \in Nat
    BY <1>1 DEF CodeAt
  <1>3. r[d + 1] = q[d + 1] /\ r[d + 2] = q[d + 1] + n /\ \A a \in 1 .. d : r[a] = q[a]
    <2>1. \A a \in 1 .. d : a \in 1 .. (d + 1)
      BY <1>1
    <2> QED BY <1>1, <2>1 DEF Onward
  <1>4. PICK x \in Nat : x = start /\ q[d + 1] = x /\ r[d + 2] = x + n
    BY <1>2, <1>3
  <1>5. TableUpTo(F, x)
    BY <1>4 DEF FunctionsSay
  <1>6. TableUpTo(F, x + n)
    <2>1. n \in Nat /\ x \in Nat
      BY <1>4
    <2>2. x + n \in Nat /\ x <= x + n
      BY <2>1
    <2>3. PICK y \in Nat : y = x + n /\ x <= y
      BY <2>2
    <2> QED BY <1>4, <1>5, <2>3, NothingSaid
  <1>7. start \in Nat /\ start < x + n
    BY <1>4
  <1>8. ASSUME NEW a \in 1 .. (d + 1), B[a].kind = "instruction", P[a].line # NoLine
        PROVE  IF open /\ start <= r[a] THEN P[a].in = name ELSE FunctionSaid(F, r[a], P[a].in)
    <2>1. a \in 1 .. d /\ a <= d /\ a \in 1 .. (d + 1)
      <3>1. a # d + 1
        BY <1>8
      <3> QED BY <1>1, <3>1
    <2>2. B[a] = A[a] /\ P[a] = O[a] /\ r[a] = q[a]
      BY <1>3, <2>1 DEF SameFirst
    <2>3. PICK y \in Nat : y = q[a] /\ y < x
      BY <1>4, <1>8, <2>1, <2>2, CodeGrows
    <2>4. ~ (start <= y)
      BY <1>4, <2>3
    <2>5. FunctionSaid(F, q[a], O[a].in)
      BY <1>8, <2>1, <2>2 DEF FunctionsSay
    <2> QED BY <2>2, <2>3, <2>4, <2>5
  <1> QED BY <1>1, <1>4, <1>5, <1>6, <1>7, <1>8 DEF FunctionsSay

\* The end of a function of the user: it gets its entry.
LEMMA FunctionCloses ==
    ASSUME NEW q, NEW d, NEW A, NEW O, CodeAt(q, d, A, O), NEW F, NEW start, NEW name,
           FunctionsSay(q, d, A, O, F, TRUE, start, name),
           NEW e, e = [start |-> start, end |-> q[d + 1], name |-> name],
           NEW G, G = Append(F, e), NEW anyStart, NEW anyName
    PROVE  FunctionsSay(q, d, A, O, G, FALSE, anyStart, anyName)
  <1>1. d \in Nat /\ d + 1 \in 1 .. (d + 1)
    <2>1. PICK m \in Nat : m = Len(A)
      BY AnySequence DEF CodeAt, IsSeq
    <2> QED BY <2>1 DEF CodeAt
  <1>2. q[d + 1] \in Nat
    BY <1>1 DEF CodeAt
  <1>3. PICK x \in Nat, y \in Nat : x = start /\ y = q[d + 1] /\ x < y
    BY <1>2 DEF FunctionsSay
  <1>4. TableUpTo(F, x) /\ name # Global
    BY <1>3 DEF FunctionsSay
  <1>5. e.start = x /\ e.end = y /\ e.name = name
    BY <1>3
  <1>6. StillSays(F, G, e)
    <2>1. ComesBehind(e, x)
      BY <1>3, <1>5 DEF ComesBehind
    <2> QED BY <1>4, <2>1, SaidStill
  <1>7. /\ TableUpTo(G, y)
        /\ \A z \in Nat : \A in : z < x /\ FunctionSaid(F, z, in) => FunctionSaid(G, z, in)
        /\ \E k \in 1 .. Len(G) : G[k] = e
    BY <1>5, <1>6 DEF StillSays
  <1>8. ASSUME NEW a \in 1 .. d, A[a].kind = "instruction", O[a].line # NoLine
        PROVE  FunctionSaid(G, q[a], O[a].in)
    <2>1. a <= d /\ a \in 1 .. (d + 1)
      BY <1>1
    <2>2. PICK z \in Nat : z = q[a] /\ z < y
      BY <1>3, <1>8, <2>1, CodeGrows
    <2>3. IF x <= z THEN O[a].in = name ELSE FunctionSaid(F, z, O[a].in)
      BY <1>3, <1>8, <2>2 DEF FunctionsSay
    <2>4. CASE x <= z
      <3>1. Spans(e, z)
        BY <1>3, <1>5, <2>2, <2>4 DEF Spans
      <3>2. PICK k \in 1 .. Len(G) : G[k] = e
        BY <1>7
      <3> QED BY <1>4, <1>5, <2>2, <2>3, <2>4, <3>1, <3>2 DEF FunctionSaid
    <2>5. CASE ~ (x <= z)
      <3>1. z < x
        BY <1>3, <2>2, <2>5
      <3> QED BY <1>7, <2>2, <2>3, <2>5, <3>1
    <2> QED BY <2>4, <2>5
  <1> QED BY <1>3, <1>7, <1>8 DEF FunctionsSay

\* Only the first statements matter, and the start and the name only while a
\* function is open.
LEMMA SaysKept ==
    ASSUME NEW q, NEW d, NEW A, NEW O, NEW B, NEW P, SameFirst(d, A, O, B, P)
    PROVE  /\ \A L : LinesSay(q, d, A, O, L) => LinesSay(q, d, B, P, L)
           /\ \A F, open, start, name :
                 FunctionsSay(q, d, A, O, F, open, start, name)
                    => FunctionsSay(q, d, B, P, F, open, start, name)
  BY DEF SameFirst, LinesSay, FunctionsSay

-----------------------------------------------------------------------------
(***************************************************************************)
(* The emitter's invariant.                                                *)
(***************************************************************************)
\* Item n belongs to a function of the user.
InUser(t, n) == \E i \in 1 .. (n - 1) : Encloses(t, i, n) /\ t[i].type = "USER"

\* The emitter's method is the one that item n belongs to.
MethodKnown(t, n, m) ==
    /\ \A i \in 1 .. (n - 1) : Encloses(t, i, n) => m = t[i]
    /\ (\A j \in 1 .. (n - 1) : t[j].kind \notin Brackets) => m = NoMethod

\* Which method an item belongs to, as one item after another is taken.
LEMMA MethodStill ==
    ASSUME NEW t, NEW n \in Nat \ {0}, NEW m, MethodKnown(t, n, m), t[n].kind \notin Brackets
    PROVE  MethodKnown(t, n + 1, m) /\ InUser(t, n + 1) = InUser(t, n)
  <1>1. \A i : Encloses(t, i, n + 1) <=> Encloses(t, i, n)
    BY OpensOn
  <1>2. \A i : Encloses(t, i, n) => i \in 1 .. (n - 1)
    BY DEF Encloses
  <1>3. (n + 1) - 1 = n /\ \A i \in 1 .. (n - 1) : i \in 1 .. n
    OBVIOUS
  <1> QED BY <1>1, <1>2, <1>3 DEF MethodKnown, InUser

\* A method begins.
LEMMA MethodOpened ==
    ASSUME NEW t, NEW n \in Nat \ {0}, t[n].kind = "method"
    PROVE  MethodKnown(t, n + 1, t[n]) /\ InUser(t, n + 1) = (t[n].type = "USER")
  <1>1. \A i : Encloses(t, i, n + 1) <=> i = n
    BY OpensOn
  <1>2. (n + 1) - 1 = n /\ n \in 1 .. n
    OBVIOUS
  <1> QED BY <1>1, <1>2 DEF MethodKnown, InUser, Brackets

\* A method ends.
LEMMA MethodClosed ==
    ASSUME NEW t, NEW n \in Nat \ {0}, NEW m, t[n].kind = "METHOD_DEF_END"
    PROVE  MethodKnown(t, n + 1, m) /\ InUser(t, n + 1) = FALSE
  <1>1. \A i : ~ Encloses(t, i, n + 1)
    BY OpensOn
  <1>2. (n + 1) - 1 = n /\ n \in 1 .. n
    OBVIOUS
  <1> QED BY <1>1, <1>2 DEF MethodKnown, InUser, Brackets

\* What the emitter takes the method to be.
LEMMA MethodIn ==
    ASSUME NEW t, GeneratedItems(t), NEW n \in 1 .. Len(t), n \in Nat, NEW m, MethodKnown(t, n, m),
           t[n].kind \in {"instruction", "METHOD_DEF_END"}
    PROVE  /\ InUser(t, n) <=> m # NoMethod /\ m.type = "USER"
           /\ InUser(t, n) => FunctionOf(m) = IdentifierOf[m.name]
           /\ FunctionOf(m) = IF InUser(t, n) THEN FunctionOf(m) ELSE Global
  <1>1. InUser(t, n) <=> m # NoMethod /\ m.type = "USER"
    <2>1. CASE \E i \in 1 .. (n - 1) : Encloses(t, i, n)
      <3>1. PICK i \in 1 .. (n - 1) : Encloses(t, i, n)
        BY <2>1
      <3>2. \A j \in 1 .. (n - 1) : Encloses(t, j, n) => i = j
        BY <3>1, OpensOne
      <3>3. m = t[i] /\ t[i].kind = "method"
        BY <3>1 DEF MethodKnown, Encloses
      <3>4. m # NoMethod
        BY <3>3 DEF NoMethod
      <3>5. InUser(t, n) <=> t[i].type = "USER"
        BY <3>1, <3>2 DEF InUser
      <3> QED BY <3>3, <3>4, <3>5
    <2>2. CASE ~ \E i \in 1 .. (n - 1) : Encloses(t, i, n)
      <3>1. \A j \in 1 .. (n - 1) : t[j].kind \notin Brackets
        BY <2>2 DEF GeneratedItems, Bracketed
      <3> QED BY <2>2, <3>1 DEF MethodKnown, InUser
    <2> QED BY <2>1, <2>2
  <1> QED BY <1>1 DEF FunctionOf

\* q holds the places of the statements written for the items of t before n.
Emission(q, d, t, n, address, A, O, L, F, start, m) ==
    /\ n \in 1 .. (Len(t) + 1)
    /\ CodeAt(q, d, A, O)
    /\ CodeSoFar(t, n) => d = Len(A) /\ address = q[d + 1]
    /\ LinesSay(q, d, A, O, L)
    /\ FunctionsSay(q, d, A, O, F, InUser(t, n), start, FunctionOf(m))
    /\ MethodKnown(t, n, m)

Reached(t, n, address, A, O, L, F, start, m) ==
    \E q, d : Emission(q, d, t, n, address, A, O, L, F, start, m)

Emitting ==
    Reached(assemblyIR, item, currentAddress, assembly, origin, lineTableMetadata,
            functionMetadata, startAddressOfCurrentMethodDecl, currentMethodDef)

\* No item of another kind leaves the code, and the code has been left if the
\* item is data.
LEMMA CodeItem ==
    ASSUME NEW t, NEW n \in Nat \ {0}, n \in 1 .. Len(t), DataLast(t)
    PROVE  /\ t[n].kind # "data" => CodeSoFar(t, n)
           /\ t[n].kind \in {"data", "directive"} => ~ CodeSoFar(t, n + 1)
           /\ CodeSoFar(t, n + 1) => CodeSoFar(t, n)
  <1>1. (n + 1) - 1 = n /\ n \in 1 .. n /\ \A j \in 1 .. (n - 1) : j \in 1 .. n
    OBVIOUS
  <1>2. (t[n].kind = "data") = ~ CodeSoFar(t, n)
    BY DEF DataLast
  <1> QED BY <1>1, <1>2 DEF CodeSoFar

\* The numbers of the items.
LEMMA NextItemNumber ==
    ASSUME NEW t, IsSeq(t), NEW n, n \in 1 .. (Len(t) + 1), n <= Len(t)
    PROVE  /\ n \in Nat \ {0} /\ n \in 1 .. Len(t) /\ n + 1 \in 1 .. (Len(t) + 1)
  <1>1. PICK l \in Nat : l = Len(t)
    BY AnySequence DEF IsSeq
  <1> QED BY <1>1

\* The invariant holds before the first item.
LEMMA EmissionBegins ==
    ASSUME NEW t, IsSeq(t), NEW start
    PROVE  Reached(t, 1, 0, <<>>, <<>>, <<>>, <<>>, start, NoMethod)
  <1>1. PICK l \in Nat : l = Len(t)
    BY AnySequence DEF IsSeq
  <1>2. PICK q, e : q = [a \in 1 .. 1 |-> 0] /\ e = <<>>
    OBVIOUS
  <1>3. IsSeq(e) /\ Len(e) = 0
    BY <1>2, EmptyFacts
  <1>4. q \in [1 .. (0 + 1) -> Nat] /\ q[1] = 0 /\ 0 + 1 = 1
    BY <1>2
  <1>5. 1 .. 0 = {} /\ (0 + 1) .. 0 = {} /\ 1 .. (1 - 1) = {} /\ 0 \in 0 .. 0
    OBVIOUS
  <1>6. CodeAt(q, 0, e, e)
    BY <1>3, <1>4, <1>5 DEF CodeAt
  <1>7. TableUpTo(e, 0)
    BY <1>3, <1>5 DEF TableUpTo, Ascending
  <1>8. LinesSay(q, 0, e, e, e)
    BY <1>4, <1>5, <1>7 DEF LinesSay
  <1>9. ~ InUser(t, 1) /\ InUser(t, 1) \in BOOLEAN
    BY <1>5 DEF InUser
  <1>10. FunctionsSay(q, 0, e, e, e, InUser(t, 1), start, FunctionOf(NoMethod))
    BY <1>4, <1>5, <1>7, <1>9 DEF FunctionsSay
  <1>11. MethodKnown(t, 1, NoMethod)
    BY <1>5 DEF MethodKnown
  <1>12. 1 \in 1 .. (Len(t) + 1)
    BY <1>1
  <1>13. Emission(q, 0, t, 1, 0, e, e, e, e, start, NoMethod)
    BY <1>3, <1>4, <1>6, <1>8, <1>10, <1>11, <1>12 DEF Emission
  <1> QED BY <1>2, <1>13 DEF Reached

-----------------------------------------------------------------------------
(***************************************************************************)
(* Each item of the emitter.                                               *)
(***************************************************************************)
LEMMA InstructionOn ==
    ASSUME NEW t, GeneratedItems(t), NEW n, n <= Len(t), t[n].kind = "instruction",
           NEW address, NEW A, NEW O, NEW L, NEW F, NEW start, NEW m,
           Reached(t, n, address, A, O, L, F, start, m),
           NEW s, s = Op(t[n].op, AsText(t[n].first), AsText(t[n].second)),
           NEW after,
           after = address + 1 + EmittedBytes(t[n].op, t[n].first) + EmittedBytes(t[n].op, t[n].second),
           NEW B, B = Append(A, s),
           NEW P, P = Append(O, [line |-> t[n].line, in |-> FunctionOf(m)]),
           NEW M, M = IF t[n].line = NoLine THEN L
                      ELSE Append(L, FromLine(address, after, t[n].line))
    PROVE  Reached(t, n + 1, after, B, P, M, F, start, m)
  <1>1. PICK q, d : Emission(q, d, t, n, address, A, O, L, F, start, m)
    BY DEF Reached
  <1>2. /\ n \in 1 .. (Len(t) + 1) /\ CodeAt(q, d, A, O)
        /\ CodeSoFar(t, n) => d = Len(A) /\ address = q[d + 1]
        /\ LinesSay(q, d, A, O, L)
        /\ FunctionsSay(q, d, A, O, F, InUser(t, n), start, FunctionOf(m))
        /\ MethodKnown(t, n, m)
    BY <1>1 DEF Emission
  <1>3. n \in Nat \ {0} /\ n \in 1 .. Len(t) /\ n + 1 \in 1 .. (Len(t) + 1)
    BY <1>2, NextItemNumber DEF GeneratedItems
  <1>4. d = Len(A) /\ address = q[d + 1] /\ d \in Nat /\ q[d + 1] \in Nat
    <2>1. DataLast(t)
      BY DEF GeneratedItems
    <2>2. CodeSoFar(t, n)
      BY <1>3, <2>1, CodeItem
    <2>3. PICK l \in Nat : l = Len(A)
      BY <1>2, AnySequence DEF CodeAt, IsSeq
    <2>4. d + 1 \in 1 .. (d + 1) /\ d \in Nat
      BY <1>2, <2>2, <2>3
    <2> QED BY <1>2, <2>2, <2>4 DEF CodeAt
  <1>5. PICK i, line : i = t[n] /\ line = i.line /\ Measured(i)
    BY <1>3 DEF GeneratedItems
  <1>6. PICK k \in Nat : k = Counted(s) /\ k >= 1 /\ after = address + k
    <2>1. /\ Counted(s) = 1 + EmittedBytes(i.op, i.first) + EmittedBytes(i.op, i.second)
          /\ Counted(s) \in Nat /\ Counted(s) >= 1
      BY <1>5, ItemCounts
    <2>2. EmittedBytes(i.op, i.first) \in Nat /\ EmittedBytes(i.op, i.second) \in Nat
      <3>1. ASSUME NEW o \in {i.first, i.second} PROVE EmittedBytes(i.op, o) \in Nat
        <4>1. calculateBytesFromType(i.first.of) \in Nat
          BY DEF calculateBytesFromType
        <4>2. /\ o.is \in {"type", "label", "number", "native", "error", "none"}
              /\ o.is = "number" /\ i.op \notin TakesDepth \cup {"loadL", "storeL"} => o.width \in Nat
          BY <1>5, <4>1 DEF Measured
        <4> QED BY <4>2 DEF EmittedBytes
      <3> QED BY <3>1
    <2>3. PICK u \in Nat, v \in Nat :
             u = EmittedBytes(i.op, i.first) /\ v = EmittedBytes(i.op, i.second)
      BY <2>2
    <2>4. PICK w \in Nat : w = address
      BY <1>4
    <2>5. after = w + 1 + u + v
      BY <1>5, <2>3, <2>4
    <2>6. PICK k \in Nat : k = Counted(s) /\ k >= 1
      BY <2>1
    <2>7. k = 1 + u + v
      BY <2>1, <2>3, <2>6
    <2>8. after = w + k
      BY <2>5, <2>7
    <2> QED BY <2>4, <2>6, <2>8
  <1>7. Early(s) /\ s.kind = "instruction"
    BY DEF Op, Early, CodeKinds
  <1>8. PICK o : o = [line |-> t[n].line, in |-> FunctionOf(m)] /\ o.line = line /\ o.in = FunctionOf(m)
    BY <1>5
  <1>9. /\ \E r : CodeAt(r, d + 1, B, P) /\ Onward(r, q, d, k)
        /\ SameFirst(d, A, O, B, P) /\ B[d + 1] = s /\ P[d + 1] = o /\ Len(B) = d + 1
    <2>1. OneMore(q, d, A, O, k, s, o, B, P)
      BY <1>2, <1>4, <1>5, <1>6, <1>7, <1>8, CodeOn
    <2> QED BY <2>1 DEF OneMore
  <1>10. PICK r : CodeAt(r, d + 1, B, P) /\ Onward(r, q, d, k)
    BY <1>9
  <1>11. LinesSay(r, d + 1, B, P, M)
    <2>1. CASE line = NoLine
      <3>1. P[d + 1].line = NoLine /\ M = L
        BY <1>5, <1>8, <1>9, <2>1
      <3> QED BY <1>2, <1>9, <1>10, <3>1, LinesStay
    <2>2. CASE line # NoLine
      <3>1. PICK e : e = FromLine(q[d + 1], q[d + 1] + k, line) /\ M = Append(L, e)
        BY <1>4, <1>5, <1>6, <2>2
      <3>2. P[d + 1].line = line /\ CodeAt(q, d, A, O) /\ LinesSay(q, d, A, O, L)
        BY <1>2, <1>8, <1>9
      <3>3. SameFirst(d, A, O, B, P) /\ Onward(r, q, d, k) /\ k \in Nat /\ k >= 1
        BY <1>6, <1>9, <1>10
      <3> QED BY <2>2, <3>1, <3>2, <3>3, LinesOn
    <2> QED BY <2>1, <2>2
  <1>12. FunctionsSay(r, d + 1, B, P, F, InUser(t, n), start, FunctionOf(m))
    <2>1. FunctionOf(m) = IF InUser(t, n) THEN FunctionOf(m) ELSE Global
      BY <1>2, <1>3, MethodIn
    <2>2. P[d + 1].in = IF InUser(t, n) THEN FunctionOf(m) ELSE Global
      BY <1>8, <1>9, <2>1
    <2> QED BY <1>2, <1>9, <1>10, <2>2, FunctionsOn
  <1>13. MethodKnown(t, n + 1, m) /\ InUser(t, n + 1) = InUser(t, n)
    BY <1>2, <1>3, MethodStill DEF Brackets
  <1>14. d + 1 = Len(B) /\ after = r[(d + 1) + 1]
    <2>1. (d + 1) + 1 = d + 2
      BY <1>4
    <2> QED BY <1>4, <1>6, <1>9, <1>10, <2>1 DEF Onward
  <1>15. Emission(r, d + 1, t, n + 1, after, B, P, M, F, start, m)
    BY <1>3, <1>10, <1>11, <1>12, <1>13, <1>14 DEF Emission
  <1> QED BY <1>15 DEF Reached

\* A label is emitted: it takes no bytes and no line.
LEMMA LabelOn ==
    ASSUME NEW t, GeneratedItems(t), NEW n, n <= Len(t), t[n].kind = "label",
           NEW address, NEW A, NEW O, NEW L, NEW F, NEW start, NEW m,
           Reached(t, n, address, A, O, L, F, start, m),
           NEW B, B = Append(A, t[n]), NEW o, NEW P, P = Append(O, o), o.line = NoLine
    PROVE  Reached(t, n + 1, address, B, P, L, F, start, m)
  <1>1. PICK q, d : Emission(q, d, t, n, address, A, O, L, F, start, m)
    BY DEF Reached
  <1>2. /\ n \in 1 .. (Len(t) + 1) /\ CodeAt(q, d, A, O)
        /\ CodeSoFar(t, n) => d = Len(A) /\ address = q[d + 1]
        /\ LinesSay(q, d, A, O, L)
        /\ FunctionsSay(q, d, A, O, F, InUser(t, n), start, FunctionOf(m))
        /\ MethodKnown(t, n, m)
    BY <1>1 DEF Emission
  <1>3. n \in Nat \ {0} /\ n \in 1 .. Len(t) /\ n + 1 \in 1 .. (Len(t) + 1)
    BY <1>2, NextItemNumber DEF GeneratedItems
  <1>4. d = Len(A) /\ address = q[d + 1] /\ d \in Nat /\ q[d + 1] \in Nat
    <2>1. DataLast(t)
      BY DEF GeneratedItems
    <2>2. CodeSoFar(t, n)
      BY <1>3, <2>1, CodeItem
    <2>3. PICK l \in Nat : l = Len(A)
      BY <1>2, AnySequence DEF CodeAt, IsSeq
    <2>4. d + 1 \in 1 .. (d + 1) /\ d \in Nat
      BY <1>2, <2>2, <2>3
    <2> QED BY <1>2, <2>2, <2>4 DEF CodeAt
  <1>5. PICK s : s = t[n] /\ s.kind = "label"
    OBVIOUS
  <1>6. PICK k \in Nat : k = 0 /\ k = Counted(s)
    BY <1>5 DEF Counted
  <1>7. Early(s) /\ s.kind # "instruction"
    BY <1>5 DEF Early, CodeKinds
  <1>9. /\ \E r : CodeAt(r, d + 1, B, P) /\ Onward(r, q, d, k)
        /\ SameFirst(d, A, O, B, P) /\ B[d + 1] = s /\ P[d + 1] = o /\ Len(B) = d + 1
    <2>1. OneMore(q, d, A, O, k, s, o, B, P)
      BY <1>2, <1>4, <1>5, <1>6, <1>7, CodeOn
    <2> QED BY <2>1 DEF OneMore
  <1>10. PICK r : CodeAt(r, d + 1, B, P) /\ Onward(r, q, d, k)
    BY <1>9
  <1>11. LinesSay(r, d + 1, B, P, L)
    BY <1>2, <1>9, <1>10, <1>7, LinesStay
  <1>12. FunctionsSay(r, d + 1, B, P, F, InUser(t, n), start, FunctionOf(m))
    BY <1>2, <1>7, <1>9, <1>10, FunctionsOn
  <1>13. MethodKnown(t, n + 1, m) /\ InUser(t, n + 1) = InUser(t, n)
    BY <1>2, <1>3, MethodStill DEF Brackets
  <1>14. d + 1 = Len(B) /\ address = r[(d + 1) + 1]
    <2>1. (d + 1) + 1 = d + 2
      BY <1>4
    <2> QED BY <1>4, <1>6, <1>9, <1>10, <2>1 DEF Onward
  <1>15. Emission(r, d + 1, t, n + 1, address, B, P, L, F, start, m)
    BY <1>3, <1>10, <1>11, <1>12, <1>13, <1>14 DEF Emission
  <1> QED BY <1>15 DEF Reached

\* A method is emitted: five bytes, and the line of its declaration.
LEMMA MethodOn ==
    ASSUME NEW t, GeneratedItems(t), NEW n, n <= Len(t), t[n].kind = "method",
           NEW address, NEW A, NEW O, NEW L, NEW F, NEW start, NEW m,
           Reached(t, n, address, A, O, L, F, start, m),
           NEW s, s.kind = "method", NEW B, B = Append(A, s), NEW o, NEW P, P = Append(O, o),
           NEW after, after = address + 5,
           NEW M, M = Append(L, FromLine(address, after, t[n].line))
    PROVE  Reached(t, n + 1, after, B, P, M, F, address, t[n])
  <1>1. PICK q, d : Emission(q, d, t, n, address, A, O, L, F, start, m)
    BY DEF Reached
  <1>2. /\ n \in 1 .. (Len(t) + 1) /\ CodeAt(q, d, A, O)
        /\ CodeSoFar(t, n) => d = Len(A) /\ address = q[d + 1]
        /\ LinesSay(q, d, A, O, L)
        /\ FunctionsSay(q, d, A, O, F, InUser(t, n), start, FunctionOf(m))
        /\ MethodKnown(t, n, m)
    BY <1>1 DEF Emission
  <1>3. n \in Nat \ {0} /\ n \in 1 .. Len(t) /\ n + 1 \in 1 .. (Len(t) + 1)
    BY <1>2, NextItemNumber DEF GeneratedItems
  <1>4. d = Len(A) /\ address = q[d + 1] /\ d \in Nat /\ q[d + 1] \in Nat
    <2>1. DataLast(t)
      BY DEF GeneratedItems
    <2>2. CodeSoFar(t, n)
      BY <1>3, <2>1, CodeItem
    <2>3. PICK l \in Nat : l = Len(A)
      BY <1>2, AnySequence DEF CodeAt, IsSeq
    <2>4. d + 1 \in 1 .. (d + 1) /\ d \in Nat
      BY <1>2, <2>2, <2>3
    <2> QED BY <1>2, <2>2, <2>4 DEF CodeAt
  <1>6. PICK k \in Nat : k = 5 /\ k >= 1 /\ k = Counted(s) /\ after = address + k
    BY DEF Counted
  <1>7. Early(s) /\ s.kind # "instruction"
    BY DEF Early, CodeKinds
  <1>9. /\ \E r : CodeAt(r, d + 1, B, P) /\ Onward(r, q, d, k)
        /\ SameFirst(d, A, O, B, P) /\ B[d + 1] = s /\ P[d + 1] = o /\ Len(B) = d + 1
    <2>1. OneMore(q, d, A, O, k, s, o, B, P)
      BY <1>2, <1>4, <1>6, <1>7, CodeOn
    <2> QED BY <2>1 DEF OneMore
  <1>10. PICK r : CodeAt(r, d + 1, B, P) /\ Onward(r, q, d, k)
    BY <1>9
  <1>11. LinesSay(r, d + 1, B, P, M)
    <2>1. PICK line, e : /\ line = t[n].line /\ e = FromLine(q[d + 1], q[d + 1] + k, line)
                         /\ M = Append(L, e)
      BY <1>4, <1>6
    <2> QED BY <1>2, <1>6, <1>7, <1>9, <1>10, <2>1, LinesOn
  <1>12. PICK open, name : /\ open \in BOOLEAN /\ open = (t[n].type = "USER")
                           /\ name = FunctionOf(t[n])
                           /\ open => name # Global
    <2>1. t[n] # NoMethod
      BY DEF NoMethod
    <2>2. t[n].type = "USER" => IdentifierOf[t[n].name] # Global
      BY <1>3 DEF GeneratedItems
    <2> QED BY <2>1, <2>2 DEF FunctionOf
  <1>13. open \in BOOLEAN
    BY <1>12
  <1>14. FunctionsSay(r, d + 1, B, P, F, open, address, name)
    <2>1. ~ InUser(t, n)
      <3>1. \A i : ~ Encloses(t, i, n)
        <4>1. PICK l \in Nat : l = Len(t)
          BY AnySequence DEF GeneratedItems, IsSeq
        <4>2. n \in 1 .. (l + 1) /\ Bracketed(t) /\ (n <= l => t[n].kind = "method")
          BY <1>2, <4>1 DEF GeneratedItems
        <4> QED BY <4>1, <4>2, ClosedBefore
      <3> QED BY <3>1 DEF InUser
    <2>2. InUser(t, n) = FALSE
      BY <2>1 DEF InUser
    <2>3. FunctionsSay(q, d, A, O, F, FALSE, start, FunctionOf(m)) /\ CodeAt(q, d, A, O)
      BY <1>2, <2>2
    <2>4. /\ SameFirst(d, A, O, B, P) /\ Onward(r, q, d, k) /\ k \in Nat /\ k >= 1
          /\ B[d + 1].kind # "instruction" /\ address = q[d + 1]
      BY <1>4, <1>6, <1>7, <1>9, <1>10
    <2>5. open => name # Global
      BY <1>12
    <2> QED BY <1>13, <2>3, <2>4, <2>5, FunctionOpens
  <1>15. MethodKnown(t, n + 1, t[n]) /\ InUser(t, n + 1) = open
    BY <1>3, <1>12, <1>13, MethodOpened
  <1>16. d + 1 = Len(B) /\ after = r[(d + 1) + 1]
    <2>1. (d + 1) + 1 = d + 2
      BY <1>4
    <2> QED BY <1>4, <1>6, <1>9, <1>10, <2>1 DEF Onward
  <1>17. Emission(r, d + 1, t, n + 1, after, B, P, M, F, address, t[n])
    <2>1. FunctionsSay(r, d + 1, B, P, F, InUser(t, n + 1), address, FunctionOf(t[n]))
      <3>1. FunctionOf(t[n]) = name
        BY <1>12
      <3>2. InUser(t, n + 1) = open
        BY <1>15
      <3> QED BY <1>14, <3>1, <3>2
    <2>2. MethodKnown(t, n + 1, t[n])
      BY <1>15
    <2> QED BY <1>3, <1>10, <1>11, <1>16, <2>1, <2>2 DEF Emission
  <1> QED BY <1>17 DEF Reached

\* A method's end: a function of the user is entered into its table.
LEMMA MarkerOn ==
    ASSUME NEW t, GeneratedItems(t), NEW n, n <= Len(t), t[n].kind = "METHOD_DEF_END",
           NEW address, NEW A, NEW O, NEW L, NEW F, NEW start, NEW m,
           Reached(t, n, address, A, O, L, F, start, m),
           NEW G, G = IF m # NoMethod /\ m.type = "USER"
                      THEN Append(F, [start |-> start, end |-> address, name |-> IdentifierOf[m.name]])
                      ELSE F
    PROVE  Reached(t, n + 1, address, A, O, L, G, start, m)
  <1>1. PICK q, d : Emission(q, d, t, n, address, A, O, L, F, start, m)
    BY DEF Reached
  <1>2. /\ n \in 1 .. (Len(t) + 1) /\ CodeAt(q, d, A, O)
        /\ CodeSoFar(t, n) => d = Len(A) /\ address = q[d + 1]
        /\ LinesSay(q, d, A, O, L)
        /\ FunctionsSay(q, d, A, O, F, InUser(t, n), start, FunctionOf(m))
        /\ MethodKnown(t, n, m)
    BY <1>1 DEF Emission
  <1>3. n \in Nat \ {0} /\ n \in 1 .. Len(t) /\ n + 1 \in 1 .. (Len(t) + 1)
    BY <1>2, NextItemNumber DEF GeneratedItems
  <1>4. d = Len(A) /\ address = q[d + 1]
    <2>1. DataLast(t)
      BY DEF GeneratedItems
    <2> QED BY <1>2, <1>3, <2>1, CodeItem
  <1>5. /\ InUser(t, n) <=> m # NoMethod /\ m.type = "USER"
        /\ InUser(t, n) => FunctionOf(m) = IdentifierOf[m.name]
    BY <1>2, <1>3, MethodIn
  <1>6. FunctionsSay(q, d, A, O, G, FALSE, start, FunctionOf(m))
    <2>1. CASE InUser(t, n)
      <3>1. PICK e, name : /\ name = FunctionOf(m) /\ e = [start |-> start, end |-> q[d + 1], name |-> name]
                           /\ G = Append(F, e)
        BY <1>4, <1>5, <2>1
      <3>2. InUser(t, n) = TRUE
        BY <2>1 DEF InUser
      <3>3. FunctionsSay(q, d, A, O, F, TRUE, start, name)
        BY <1>2, <3>1, <3>2
      <3> QED BY <1>2, <3>1, <3>3, FunctionCloses
    <2>2. CASE ~ InUser(t, n)
      <3>1. G = F
        BY <1>5, <2>2
      <3>2. InUser(t, n) = FALSE
        BY <2>2 DEF InUser
      <3> QED BY <1>2, <3>1, <3>2
    <2> QED BY <2>1, <2>2
  <1>7. MethodKnown(t, n + 1, m) /\ InUser(t, n + 1) = FALSE
    BY <1>3, MethodClosed
  <1>8. Emission(q, d, t, n + 1, address, A, O, L, G, start, m)
    BY <1>2, <1>3, <1>4, <1>6, <1>7 DEF Emission
  <1> QED BY <1>8 DEF Reached

\* What is written behind the code is not counted as code.
Prolongs(A, O, B, P) ==
    /\ IsSeq(B) /\ IsSeq(P) /\ Len(P) = Len(B) /\ Len(A) <= Len(B)
    /\ SameFirst(Len(A), A, O, B, P)
    /\ \A a \in (Len(A) + 1) .. Len(B) : Early(B[a]) /\ P[a].line = NoLine

\* What is emitted behind the code has no place and no line.
LEMMA BehindCode ==
    ASSUME NEW t, GeneratedItems(t), NEW n, n <= Len(t), t[n].kind \in {"data", "directive"},
           NEW address, NEW A, NEW O, NEW L, NEW F, NEW start, NEW m,
           Reached(t, n, address, A, O, L, F, start, m),
           NEW B, NEW P, Prolongs(A, O, B, P), NEW after
    PROVE  Reached(t, n + 1, after, B, P, L, F, start, m)
  <1>1. PICK q, d : Emission(q, d, t, n, address, A, O, L, F, start, m)
    BY DEF Reached
  <1>2. /\ n \in 1 .. (Len(t) + 1) /\ CodeAt(q, d, A, O)
        /\ LinesSay(q, d, A, O, L)
        /\ FunctionsSay(q, d, A, O, F, InUser(t, n), start, FunctionOf(m))
        /\ MethodKnown(t, n, m)
    BY <1>1 DEF Emission
  <1>3. n \in Nat \ {0} /\ n \in 1 .. Len(t) /\ n + 1 \in 1 .. (Len(t) + 1)
    BY <1>2, NextItemNumber DEF GeneratedItems
  <1>4. PICK j \in Nat, k \in Nat : j = Len(A) /\ k = Len(B) /\ j <= k
    BY <1>2, AnySequence DEF CodeAt, IsSeq, Prolongs
  <1>5. CodeAt(q, d, B, P) /\ SameFirst(d, A, O, B, P)
    BY <1>2, <1>4, CodeKept DEF Prolongs
  <1>6. LinesSay(q, d, B, P, L) /\ FunctionsSay(q, d, B, P, F, InUser(t, n), start, FunctionOf(m))
    BY <1>2, <1>5, SaysKept
  <1>7. MethodKnown(t, n + 1, m) /\ InUser(t, n + 1) = InUser(t, n)
    BY <1>2, <1>3, MethodStill DEF Brackets
  <1>8. ~ CodeSoFar(t, n + 1)
    <2>1. DataLast(t)
      BY DEF GeneratedItems
    <2> QED BY <1>3, <2>1, CodeItem
  <1>9. Emission(q, d, t, n + 1, after, B, P, L, F, start, m)
    BY <1>3, <1>5, <1>6, <1>7, <1>8 DEF Emission
  <1> QED BY <1>9 DEF Reached

\* A concatenation.
Joined(u, s, t, m, n) ==
    /\ IsSeq(u) /\ Len(u) = m + n
    /\ \A k \in 1 .. m : u[k] = s[k]
    /\ \A k \in 1 .. n : u[m + k] = t[k]

\* The parts of a concatenation.
LEMMA Together ==
    ASSUME NEW s, IsSeq(s), NEW t, IsSeq(t), NEW m \in Nat, m = Len(s), NEW n \in Nat, n = Len(t),
           NEW u, u = s \o t
    PROVE  Joined(u, s, t, m, n)
  BY Concatenated, ConcatElements DEF Joined

LEMMA Single ==
    ASSUME NEW x, NEW u, u = <<x>>
    PROVE  IsSeq(u) /\ Len(u) = 1 /\ u[1] = x
  <1>1. u \in Seq({x}) /\ Len(u) = 1 /\ u[1] = x
    OBVIOUS
  <1> QED BY <1>1, AnySequence

\* The text of the builtins and the directive.
LEMMA BuiltinsBehindCode ==
    ASSUME NEW A, IsSeq(A), NEW O, IsSeq(O), Len(O) = Len(A), NEW text, Coded(text),
           NEW s, Early(s), NEW o, o.line = NoLine,
           NEW B, B = A \o text \o <<s>>,
           NEW P, P = O \o [i \in 1 .. (Len(text) + 1) |-> o]
    PROVE  Prolongs(A, O, B, P)
  <1>1. PICK j \in Nat, k \in Nat : j = Len(A) /\ j = Len(O) /\ k = Len(text)
    BY AnySequence DEF Coded, IsSeq
  <1>2. PICK C : C = A \o text
    OBVIOUS
  <1>3. Joined(C, A, text, j, k)
    BY <1>1, <1>2, Together DEF Coded
  <1>4. PICK u : u = <<s>> /\ B = C \o u
    BY <1>2
  <1>5. IsSeq(u) /\ Len(u) = 1 /\ u[1] = s
    BY <1>4, Single
  <1>6. PICK l \in Nat, one \in Nat : l = j + k /\ one = 1
    BY <1>1
  <1>7. IsSeq(C) /\ l = Len(C) /\ one = Len(u)
    BY <1>3, <1>5, <1>6 DEF Joined
  <1>8. Joined(B, C, u, l, one)
    BY <1>4, <1>5, <1>7, Together
  <1>9. PICK h, v : h \in Nat /\ h = k + one /\ v = [i \in 1 .. h |-> o] /\ P = O \o v
    <2>1. PICK h \in Nat : h = k + one /\ h = Len(text) + 1
      BY <1>1, <1>6
    <2> QED BY <2>1
  <1>10. IsSeq(v) /\ Len(v) = h /\ \A i \in 1 .. h : v[i] = o
    <2>1. v \in [1 .. h -> {o}]
      BY <1>9
    <2> QED BY <1>9, <2>1, OfLength
  <1>11. Joined(P, O, v, j, h)
    BY <1>1, <1>9, <1>10, Together
  <1>12. IsSeq(B) /\ IsSeq(P) /\ Len(B) = j + h /\ Len(P) = j + h /\ j <= j + h
    BY <1>1, <1>6, <1>8, <1>9, <1>11 DEF Joined
  <1>13. \A a \in 1 .. j : a \in 1 .. l
    BY <1>1, <1>6
  <1>14. \A a \in 1 .. j : B[a] = A[a] /\ P[a] = O[a]
    BY <1>3, <1>8, <1>11, <1>13 DEF Joined
  <1>15. ASSUME NEW a \in (j + 1) .. (j + h) PROVE Early(B[a]) /\ P[a].line = NoLine
    <2>1. PICK i \in 1 .. h : a = j + i
      <3>1. a - j \in 1 .. h /\ a = j + (a - j)
        BY <1>1, <1>9
      <3> QED BY <3>1
    <2>2. P[a].line = NoLine
      BY <1>10, <1>11, <2>1 DEF Joined
    <2>3. CASE i \in 1 .. k
      <3>1. a \in 1 .. l
        BY <1>1, <1>6, <2>1, <2>3
      <3>2. B[a] = C[a] /\ C[a] = text[i]
        BY <1>3, <1>8, <2>1, <2>3, <3>1 DEF Joined
      <3>3. text[i].kind \in CodeKinds
        BY <1>1, <2>3 DEF Coded
      <3> QED BY <2>2, <3>2, <3>3 DEF Early
    <2>4. CASE i \notin 1 .. k
      <3>1. i = k + 1
        <4>1. h = k + 1
          BY <1>6, <1>9
        <4> QED BY <1>1, <2>1, <2>4, <4>1
      <3>3. a = l + 1 /\ 1 \in 1 .. one
        BY <1>1, <1>6, <2>1, <3>1
      <3>2. B[a] = s
        BY <1>5, <1>8, <3>3 DEF Joined
      <3> QED BY <2>2, <3>2
    <2> QED BY <2>3, <2>4
  <1> QED BY <1>1, <1>12, <1>14, <1>15 DEF Prolongs, SameFirst

\* One definition of data.
LEMMA OneBehindCode ==
    ASSUME NEW A, IsSeq(A), NEW O, IsSeq(O), Len(O) = Len(A), NEW s, Early(s), NEW o, o.line = NoLine,
           NEW B, B = Append(A, s), NEW P, P = Append(O, o)
    PROVE  Prolongs(A, O, B, P)
  <1>1. PICK j \in Nat : j = Len(A) /\ j = Len(O)
    BY AnySequence DEF IsSeq
  <1>2. IsSeq(B) /\ Len(B) = j + 1 /\ B[j + 1] = s /\ \A a \in 1 .. j : B[a] = A[a]
    BY <1>1, Appended
  <1>3. IsSeq(P) /\ Len(P) = j + 1 /\ P[j + 1] = o /\ \A a \in 1 .. j : P[a] = O[a]
    BY <1>1, Appended
  <1>4. \A a \in (j + 1) .. (j + 1) : a = j + 1
    OBVIOUS
  <1> QED BY <1>1, <1>2, <1>3, <1>4 DEF Prolongs, SameFirst

\* The text of all the builtins is code.
LEMMA BuiltinsCoded ==
    ASSUME Generated, NEW functions \in SetToSeqs(requiredBuiltinFunctions),
           NEW texts, texts = [j \in DOMAIN functions |-> builtinFunctionAssembly(functions[j])],
           NEW text, text = FlattenSeq(texts)
    PROVE  Coded(text)
  <1>1. PICK k \in Nat : k = Cardinality(requiredBuiltinFunctions)
    BY FS_CardinalityType DEF Generated, GeneratedBy
  <1>2. functions \in [1 .. k -> requiredBuiltinFunctions]
    BY <1>1 DEF SetToSeqs
  <1>3. DOMAIN functions = 1 .. k
    BY <1>2
  <1>4. PICK S : S = {builtinFunctionAssembly(f) : f \in requiredBuiltinFunctions}
    OBVIOUS
  <1>5. texts \in [1 .. k -> S]
    BY <1>2, <1>3, <1>4
  <1>6. ASSUME NEW j \in 1 .. k PROVE Coded(texts[j])
    <2>1. PICK f \in requiredBuiltinFunctions : f = functions[j]
      BY <1>2
    <2>2. KnownBuiltin(f)
      BY DEF Generated, GeneratedBy
    <2>3. texts[j] = builtinFunctionAssembly(f)
      BY <1>3, <2>1
    <2> QED BY <2>2, <2>3, BuiltinCoded
  <1> QED BY <1>5, <1>6, FlattenedCoded

\* The emitter takes its next item.
LEMMA EmitterOn ==
    ASSUME Generated, Emitting, emitProgram
    PROVE  Emitting'
  <1>1. PICK t, n, address, A, O, L, F, start, m :
            /\ t = assemblyIR /\ n = item /\ address = currentAddress /\ A = assembly /\ O = origin
            /\ L = lineTableMetadata /\ F = functionMetadata
            /\ start = startAddressOfCurrentMethodDecl /\ m = currentMethodDef
    OBVIOUS
  <1>2. Reached(t, n, address, A, O, L, F, start, m) /\ GeneratedItems(t)
    BY <1>1 DEF Emitting, Generated, GeneratedBy
  <1>3. IsSeq(A) /\ IsSeq(O) /\ Len(O) = Len(A)
    BY <1>2 DEF Reached, Emission, CodeAt
  <1>4. PICK i : i = t[n]
    OBVIOUS
  <1>5. CASE emitInstruction
    <2>1. n <= Len(t) /\ t[n].kind = "instruction"
      BY <1>1, <1>5 DEF emitInstruction, AtItem
    <2>2. PICK s, after : /\ s = Op(t[n].op, AsText(t[n].first), AsText(t[n].second))
                          /\ after = address + 1 + EmittedBytes(t[n].op, t[n].first)
                                        + EmittedBytes(t[n].op, t[n].second)
      OBVIOUS
    <2>3. PICK B, P, M : /\ B = Append(A, s)
                         /\ P = Append(O, [line |-> t[n].line, in |-> FunctionOf(m)])
                         /\ M = IF t[n].line = NoLine THEN L
                                ELSE Append(L, FromLine(address, after, t[n].line))
      OBVIOUS
    <2>4. Reached(t, n + 1, after, B, P, M, F, start, m)
      BY <1>2, <2>1, <2>2, <2>3, InstructionOn
    <2>5. /\ assemblyIR' = t /\ item' = n + 1 /\ functionMetadata' = F
          /\ startAddressOfCurrentMethodDecl' = start /\ currentMethodDef' = m
      BY <1>1, <1>5 DEF emitInstruction, NextItem, current
    <2>6. /\ currentAddress' = after /\ assembly' = B /\ origin' = P /\ lineTableMetadata' = M
      BY <1>1, <1>5, <2>2, <2>3 DEF emitInstruction, Written, AddressAfter, Item
    <2> QED BY <2>4, <2>5, <2>6 DEF Emitting
  <1>6. CASE emitLabelDef
    <2>1. n <= Len(t) /\ t[n].kind = "label"
      BY <1>1, <1>6 DEF emitLabelDef, AtItem
    <2>2. PICK o : o = [line |-> NoLine, in |-> FunctionOf(m)]
      OBVIOUS
    <2>7. o.line = NoLine
      BY <2>2
    <2>3. PICK B, P : B = Append(A, t[n]) /\ P = Append(O, o)
      OBVIOUS
    <2>4. Reached(t, n + 1, address, B, P, L, F, start, m)
      BY <1>2, <2>1, <2>3, <2>7, LabelOn
    <2>5. /\ assemblyIR' = t /\ item' = n + 1 /\ functionMetadata' = F /\ lineTableMetadata' = L
          /\ startAddressOfCurrentMethodDecl' = start /\ currentMethodDef' = m
          /\ currentAddress' = address
      BY <1>1, <1>6 DEF emitLabelDef, NextItem, current, metadata
    <2>6. assembly' = B /\ origin' = P
      BY <1>1, <1>6, <2>2, <2>3 DEF emitLabelDef, Written, Item
    <2> QED BY <2>4, <2>5, <2>6 DEF Emitting
  <1>7. CASE emitMethodDef
    <2>1. n <= Len(t) /\ t[n].kind = "method"
      BY <1>1, <1>7 DEF emitMethodDef, AtItem
    <2>2. PICK s : s = [kind |-> "method", name |-> t[n].name, arguments |-> t[n].arguments,
                        locals |-> t[n].locals]
      OBVIOUS
    <2>8. s.kind = "method"
      BY <2>2
    <2>3. PICK after, o : after = address + 5 /\ o = [line |-> t[n].line, in |-> FunctionOf(t[n])]
      OBVIOUS
    <2>4. PICK B, P, M : /\ B = Append(A, s) /\ P = Append(O, o)
                         /\ M = Append(L, FromLine(address, after, t[n].line))
      OBVIOUS
    <2>5. Reached(t, n + 1, after, B, P, M, F, address, t[n])
      BY <1>2, <2>1, <2>3, <2>4, <2>8, MethodOn
    <2>6. /\ assemblyIR' = t /\ item' = n + 1 /\ functionMetadata' = F
          /\ startAddressOfCurrentMethodDecl' = address /\ currentMethodDef' = t[n]
          /\ currentAddress' = after
      BY <1>1, <1>7, <2>3 DEF emitMethodDef, NextItem, Item
    <2>7. assembly' = B /\ origin' = P /\ lineTableMetadata' = M
      BY <1>1, <1>7, <2>2, <2>3, <2>4 DEF emitMethodDef, Written, Item
    <2> QED BY <2>5, <2>6, <2>7 DEF Emitting
  <1>8. CASE handleIRMarker
    <2>1. n <= Len(t) /\ t[n].kind = "METHOD_DEF_END"
      BY <1>1, <1>8 DEF handleIRMarker, AtItem
    <2>2. PICK G : G = IF m # NoMethod /\ m.type = "USER"
                       THEN Append(F, [start |-> start, end |-> address, name |-> IdentifierOf[m.name]])
                       ELSE F
      OBVIOUS
    <2>3. Reached(t, n + 1, address, A, O, L, G, start, m)
      BY <1>2, <2>1, <2>2, MarkerOn
    <2>4. /\ assemblyIR' = t /\ item' = n + 1 /\ lineTableMetadata' = L
          /\ startAddressOfCurrentMethodDecl' = start /\ currentMethodDef' = m
          /\ currentAddress' = address /\ assembly' = A /\ origin' = O
      BY <1>1, <1>8 DEF handleIRMarker, NextItem, current
    <2>5. functionMetadata' = G
      BY <1>1, <1>8, <2>2 DEF handleIRMarker
    <2> QED BY <2>3, <2>4, <2>5 DEF Emitting
  <1>9. ASSUME n <= Len(t), t[n].kind \in {"data", "directive"}, Prolongs(A, O, assembly', origin'),
               assemblyIR' = t, item' = n + 1, functionMetadata' = F, lineTableMetadata' = L,
               startAddressOfCurrentMethodDecl' = start, currentMethodDef' = m
        PROVE  Emitting'
    <2>1. PICK B, P, after : B = assembly' /\ P = origin' /\ after = currentAddress'
      OBVIOUS
    <2>2. Prolongs(A, O, B, P)
      BY <1>9, <2>1
    <2>3. Reached(t, n + 1, after, B, P, L, F, start, m)
      BY <1>2, <1>9, <2>2, BehindCode
    <2> QED BY <1>9, <2>1, <2>3 DEF Emitting
  <1>10. CASE emitDirective
    <2>1. n <= Len(t) /\ t[n].kind = "directive"
      BY <1>1, <1>10 DEF emitDirective, AtItem
    <2>2. PICK functions \in SetToSeqs(requiredBuiltinFunctions) :
             LET text == FlattenSeq([j \in DOMAIN functions |-> builtinFunctionAssembly(functions[j])])
             IN /\ assembly' = assembly \o text \o <<[kind |-> "directive", section |-> "DATA"]>>
                /\ origin' = origin \o [j \in 1 .. (Len(text) + 1) |-> [line |-> NoLine, in |-> Builtin]]
      BY <1>10 DEF emitDirective
    <2>3. PICK texts : texts = [j \in DOMAIN functions |-> builtinFunctionAssembly(functions[j])]
      OBVIOUS
    <2>4. PICK text, s, o : /\ text = FlattenSeq(texts) /\ s = [kind |-> "directive", section |-> "DATA"]
                            /\ o = [line |-> NoLine, in |-> Builtin]
      OBVIOUS
    <2>5. /\ assembly' = A \o text \o <<s>> /\ origin' = O \o [j \in 1 .. (Len(text) + 1) |-> o]
      BY <1>1, <2>2, <2>3, <2>4
    <2>6. Early(s) /\ o.line = NoLine
      BY <2>4 DEF Early
    <2>7. Coded(text)
      BY <2>3, <2>4, BuiltinsCoded
    <2>8. Prolongs(A, O, assembly', origin')
      <3>1. PICK B, P : B = A \o text \o <<s>> /\ P = O \o [j \in 1 .. (Len(text) + 1) |-> o]
        OBVIOUS
      <3>2. Prolongs(A, O, B, P)
        BY <1>3, <2>6, <2>7, <3>1, BuiltinsBehindCode
      <3> QED BY <2>5, <3>1, <3>2
    <2>9. /\ assemblyIR' = t /\ item' = n + 1 /\ lineTableMetadata' = L /\ functionMetadata' = F
          /\ startAddressOfCurrentMethodDecl' = start /\ currentMethodDef' = m
      BY <1>1, <1>10 DEF emitDirective, NextItem, current, metadata
    <2> QED BY <1>9, <2>1, <2>8, <2>9
  <1>11. CASE emitDataDef
    <2>1. n <= Len(t) /\ t[n].kind = "data"
      BY <1>1, <1>11 DEF emitDataDef, AtItem
    <2>2. PICK s, o : /\ s = [kind |-> "data", name |-> t[n].name, type |-> t[n].type,
                              value |-> AsText(t[n].value)]
                      /\ o = [line |-> NoLine, in |-> FunctionOf(NoMethod)]
      OBVIOUS
    <2>3. Early(s) /\ o.line = NoLine
      BY <2>2 DEF Early
    <2>4. assembly' = Append(A, s) /\ origin' = Append(O, o)
      BY <1>1, <1>11, <2>2 DEF emitDataDef, Written, Item
    <2>5. Prolongs(A, O, assembly', origin')
      <3>1. PICK B, P : B = Append(A, s) /\ P = Append(O, o)
        OBVIOUS
      <3>2. Prolongs(A, O, B, P)
        BY <1>3, <2>3, <3>1, OneBehindCode
      <3> QED BY <2>4, <3>1, <3>2
    <2>6. /\ assemblyIR' = t /\ item' = n + 1 /\ lineTableMetadata' = L /\ functionMetadata' = F
          /\ startAddressOfCurrentMethodDecl' = start /\ currentMethodDef' = m
      BY <1>1, <1>11 DEF emitDataDef, NextItem, current, metadata
    <2> QED BY <1>9, <2>1, <2>5, <2>6
  <1> QED BY <1>5, <1>6, <1>7, <1>8, <1>10, <1>11 DEF emitProgram

\* The emitter has not begun.
LEMMA EmitterBegins ==
    ASSUME NewEmitter, NEW t, IsSeq(t)
    PROVE  Reached(t, item, currentAddress, assembly, origin, lineTableMetadata,
                   functionMetadata, startAddressOfCurrentMethodDecl, currentMethodDef)
  BY EmissionBegins DEF NewEmitter

-----------------------------------------------------------------------------
(***************************************************************************)
(* The text, and the entries in it.                                        *)
(***************************************************************************)
Only(s, K) == IsSeq(s) /\ \A a \in 1 .. Len(s) : s[a].kind \in K

\* The statements of a kind stand behind each other, and are the n rows.
Rows(s, kind, rows, n) ==
    \E a \in Nat : /\ OfKind(s, kind) = (a + 1) .. (a + n)
                   /\ \A k \in 1 .. n : s[a + k] = rows[k]

\* Statements of some kinds, concatenated, and the rows of a kind among them.
LEMMA OnlyTogether ==
    ASSUME NEW K, NEW s, Only(s, K), NEW t, Only(t, K), NEW u, u = s \o t
    PROVE  Only(u, K)
  <1>1. PICK m \in Nat, n \in Nat : m = Len(s) /\ n = Len(t)
    BY AnySequence DEF Only, IsSeq
  <1>2. Joined(u, s, t, m, n)
    BY <1>1, Together DEF Only
  <1>3. ASSUME NEW a \in 1 .. (m + n) PROVE u[a].kind \in K
    <2>1. CASE a \in 1 .. m
      BY <1>1, <1>2, <2>1 DEF Joined, Only
    <2>2. CASE a \notin 1 .. m
      <3>1. PICK k \in 1 .. n : a = m + k
        <4>1. a - m \in 1 .. n /\ a = m + (a - m)
          BY <2>2
        <4> QED BY <4>1
      <3> QED BY <1>1, <1>2, <3>1 DEF Joined, Only
    <2> QED BY <2>1, <2>2
  <1> QED BY <1>2, <1>3 DEF Only, Joined

\* A text that has only rows.
LEMMA RowsAll ==
    ASSUME NEW s, NEW kind, Only(s, {kind}), NEW n \in Nat, n = Len(s)
    PROVE  Rows(s, kind, s, n)
  <1>1. \A k \in 1 .. n : 0 + k = k
    OBVIOUS
  <1>2. OfKind(s, kind) = 1 .. n
    BY DEF Only, OfKind
  <1>3. (0 + 1) .. (0 + n) = 1 .. n /\ 0 \in Nat
    OBVIOUS
  <1> QED BY <1>1, <1>2, <1>3 DEF Rows

\* Statements of other kinds in front.
LEMMA RowsBehind ==
    ASSUME NEW K, NEW s, Only(s, K), NEW kind, kind \notin K, NEW t, IsSeq(t), NEW rows, NEW n \in Nat,
           Rows(t, kind, rows, n), NEW u, u = s \o t
    PROVE  Rows(u, kind, rows, n)
  <1>1. PICK i \in Nat, j \in Nat : i = Len(s) /\ j = Len(t)
    BY AnySequence DEF Only, IsSeq
  <1>2. Joined(u, s, t, i, j)
    BY <1>1, Together DEF Only
  <1>3. PICK a \in Nat : /\ OfKind(t, kind) = (a + 1) .. (a + n)
                         /\ \A k \in 1 .. n : t[a + k] = rows[k]
    BY DEF Rows
  <1>4. PICK b \in Nat : b = i + a
    BY <1>1
  <1>5. ASSUME NEW k \in 1 .. n PROVE u[b + k] = rows[k]
    <2>1. a + k \in (a + 1) .. (a + n)
      BY <1>3
    <2>2. a + k \in 1 .. j
      BY <1>1, <1>3, <2>1 DEF OfKind
    <2>3. b + k = i + (a + k)
      BY <1>1, <1>3, <1>4
    <2> QED BY <1>2, <1>3, <2>2, <2>3 DEF Joined
  <1>6. ASSUME NEW x PROVE x \in OfKind(u, kind) <=> x \in (b + 1) .. (b + n)
    <2>1. CASE x \in OfKind(u, kind)
      <3>1. x \in 1 .. (i + j) /\ u[x].kind = kind
        BY <1>2, <2>1 DEF OfKind, Joined
      <3>2. x \notin 1 .. i
        BY <1>1, <1>2, <3>1 DEF Joined, Only
      <3>3. PICK y \in 1 .. j : x = i + y
        <4>1. x - i \in 1 .. j /\ x = i + (x - i)
          BY <1>1, <3>1, <3>2
        <4> QED BY <4>1
      <3>4. y \in OfKind(t, kind)
        BY <1>1, <1>2, <3>1, <3>3 DEF OfKind, Joined
      <3>5. y \in (a + 1) .. (a + n)
        BY <1>3, <3>4
      <3> QED BY <1>1, <1>3, <1>4, <2>1, <3>3, <3>5
    <2>2. CASE x \in (b + 1) .. (b + n)
      <3>5. PICK k \in 1 .. n : x = b + k
        <4>1. x - b \in 1 .. n /\ x = b + (x - b)
          BY <1>4, <2>2
        <4> QED BY <4>1
      <3>1. x = i + (a + k) /\ a + k \in (a + 1) .. (a + n)
        <4>1. i \in Nat /\ a \in Nat /\ k \in 1 .. n /\ b = i + a
          BY <1>1, <1>4
        <4> QED BY <3>5, <4>1
      <3>2. a + k \in 1 .. j /\ t[a + k].kind = kind
        BY <1>1, <1>3, <3>1 DEF OfKind
      <3>3. u[x].kind = kind
        BY <1>2, <3>1, <3>2 DEF Joined
      <3>4. x \in 1 .. (i + j)
        BY <1>1, <1>3, <3>1, <3>2
      <3> QED BY <1>2, <2>2, <3>3, <3>4 DEF OfKind, Joined
    <2> QED BY <2>1, <2>2
  <1>7. OfKind(u, kind) = (b + 1) .. (b + n)
    BY <1>6
  <1> QED BY <1>5, <1>7 DEF Rows

\* Statements of other kinds behind.
LEMMA RowsBefore ==
    ASSUME NEW K, NEW t, Only(t, K), NEW kind, kind \notin K, NEW s, IsSeq(s), NEW rows, NEW n \in Nat,
           Rows(s, kind, rows, n), NEW u, u = s \o t
    PROVE  Rows(u, kind, rows, n)
  <1>1. PICK i \in Nat, j \in Nat : i = Len(s) /\ j = Len(t)
    BY AnySequence DEF Only, IsSeq
  <1>2. Joined(u, s, t, i, j)
    BY <1>1, Together DEF Only
  <1>3. PICK a \in Nat : /\ OfKind(s, kind) = (a + 1) .. (a + n)
                         /\ \A k \in 1 .. n : s[a + k] = rows[k]
    BY DEF Rows
  <1>4. \A x \in 1 .. i : u[x] = s[x] /\ x \in 1 .. (i + j)
    BY <1>1, <1>2 DEF Joined
  <1>5. ASSUME NEW x \in 1 .. (i + j), x \notin 1 .. i PROVE u[x].kind # kind
    <2>1. PICK y \in 1 .. j : x = i + y
      <3>1. x - i \in 1 .. j /\ x = i + (x - i)
        BY <1>1, <1>5
      <3> QED BY <3>1
    <2> QED BY <1>1, <1>2, <2>1 DEF Joined, Only
  <1>6. OfKind(u, kind) = OfKind(s, kind)
    BY <1>1, <1>2, <1>4, <1>5 DEF OfKind, Joined
  <1>7. ASSUME NEW k \in 1 .. n PROVE u[a + k] = rows[k]
    <2>1. a + k \in (a + 1) .. (a + n)
      BY <1>3
    <2>2. a + k \in 1 .. i
      BY <1>1, <1>3, <2>1 DEF OfKind
    <2> QED BY <1>3, <1>4, <2>2
  <1> QED BY <1>3, <1>6, <1>7 DEF Rows

\* The metadata.
TableKinds == EntryKinds \cup {"directive"}

TableRows(M, functions, lines) ==
    /\ Only(M, TableKinds)
    /\ Rows(M, "function", functions, Len(functions))
    /\ Rows(M, "line", lines, Len(lines))

\* The metadata sections (AssemblyEmitter.cpp:329) have the rows of both tables.
LEMMA MetadataRows ==
    ASSUME NEW a, a.kind = "directive", NEW b, b.kind = "directive", NEW c, c.kind = "source",
           NEW d, d.kind = "directive", NEW e, e.kind = "directive",
           NEW functions, Only(functions, {"function"}), NEW lines, Only(lines, {"line"}),
           NEW M, M = <<a>> \o <<b>> \o <<c>> \o <<d>> \o functions \o <<e>> \o lines
    PROVE  TableRows(M, functions, lines)
  <1>1. PICK m \in Nat, n \in Nat : m = Len(functions) /\ n = Len(lines)
    BY AnySequence DEF Only, IsSeq
  <1>2. ASSUME NEW x, NEW K, x.kind \in K PROVE Only(<<x>>, K)
    <2>1. PICK u : u = <<x>>
      OBVIOUS
    <2>2. IsSeq(u) /\ Len(u) = 1 /\ u[1] = x
      BY <2>1, Single
    <2> QED BY <1>2, <2>1, <2>2 DEF Only
  <1>3. PICK s : s = <<a>> \o <<b>> \o <<c>> \o <<d>>
    OBVIOUS
  <1>4. Only(s, {"directive", "source"})
    <2>1. PICK K : K = {"directive", "source"}
      OBVIOUS
    <2>2. Only(<<a>>, K) /\ Only(<<b>>, K) /\ Only(<<c>>, K) /\ Only(<<d>>, K)
      BY <1>2, <2>1
    <2>3. PICK v : v = <<a>> \o <<b>> /\ Only(v, K)
      BY <2>2, OnlyTogether
    <2>4. PICK w : w = v \o <<c>> /\ Only(w, K)
      BY <2>2, <2>3, OnlyTogether
    <2>5. s = w \o <<d>>
      BY <1>3, <2>3, <2>4
    <2> QED BY <2>1, <2>2, <2>4, <2>5, OnlyTogether
  <1>5. PICK v : v = s \o functions
    OBVIOUS
  <1>6. PICK w : w = v \o <<e>>
    OBVIOUS
  <1>7. M = w \o lines
    BY <1>3, <1>5, <1>6
  <1>8. ASSUME NEW x, NEW K, Only(x, K), NEW J, K \subseteq J PROVE Only(x, J)
    BY <1>8 DEF Only
  <1>9. PICK J, E : J = {"directive", "source", "function"} /\ E = {"directive"}
    OBVIOUS
  <1>10. Only(v, J) /\ Only(w, J) /\ Only(<<e>>, E)
    <2>1. Only(s, J) /\ Only(functions, J) /\ Only(<<e>>, J)
      BY <1>2, <1>4, <1>8, <1>9
    <2>2. Only(v, J)
      BY <1>5, <2>1, OnlyTogether
    <2> QED BY <1>2, <1>6, <1>9, <2>1, <2>2, OnlyTogether
  <1>11. Only(M, TableKinds)
    <2>1. J \subseteq TableKinds /\ {"line"} \subseteq TableKinds
      BY <1>9 DEF TableKinds, EntryKinds
    <2>2. Only(w, TableKinds) /\ Only(lines, TableKinds)
      BY <1>8, <1>10, <2>1
    <2> QED BY <1>7, <2>2, OnlyTogether
  <1>12. Rows(M, "function", functions, m)
    <2>1. Rows(functions, "function", functions, m)
      BY <1>1, RowsAll
    <2>2. "function" \notin {"directive", "source"} /\ "function" \notin E /\ "function" \notin {"line"}
      BY <1>9
    <2>3. Rows(v, "function", functions, m)
      BY <1>4, <1>5, <2>1, <2>2, RowsBehind DEF Only
    <2>4. Rows(w, "function", functions, m)
      BY <1>6, <1>10, <2>2, <2>3, RowsBefore DEF Only
    <2> QED BY <1>7, <1>10, <2>2, <2>4, RowsBefore DEF Only
  <1>13. Rows(M, "line", lines, n)
    <2>1. Rows(lines, "line", lines, n)
      BY <1>1, RowsAll
    <2>2. "line" \notin J
      BY <1>9
    <2> QED BY <1>7, <1>10, <2>1, <2>2, RowsBehind DEF Only
  <1> QED BY <1>1, <1>11, <1>12, <1>13 DEF TableRows

FunctionRows(F) == [i \in DOMAIN F |-> FunctionStatement(F[i])]
LineRows(L) == [i \in DOMAIN L |-> LineStatement(L[i])]

\* The statements s are those of A and no other instruction, and hold the
\* tables F and L, merged, if there are lines at all.
HoldsText(s, A, F, L) ==
    /\ IsSeq(s) /\ Len(A) <= Len(s)
    /\ \A i \in 1 .. Len(A) : s[i] = A[i]
    /\ \A i \in 1 .. Len(s) : i > Len(A) => s[i].kind \notin {"instruction", "method"}
    /\ \A i \in 1 .. Len(s) : \A j \in 1 .. (i - 1) :
          s[j].kind = "directive" /\ s[j].section = "METADATA" => s[i].kind \in TableKinds
    /\ IF L = <<>> THEN OfKind(s, "line") = {}
       ELSE /\ Rows(s, "function", FunctionRows(F), Len(F))
            /\ Rows(s, "line", LineRows(Merged(L)), Len(Merged(L)))

RegionStarts(r) == [kind |-> "directive", section |-> r]

\* The rows that are written for a table.
LEMMA RowsOfKind ==
    ASSUME NEW T, IsSeq(T)
    PROVE  /\ Only(FunctionRows(T), {"function"}) /\ Len(FunctionRows(T)) = Len(T)
           /\ \A k \in 1 .. Len(T) : FunctionRows(T)[k] = FunctionStatement(T[k])
           /\ Only(LineRows(T), {"line"}) /\ Len(LineRows(T)) = Len(T)
           /\ \A k \in 1 .. Len(T) : LineRows(T)[k] = LineStatement(T[k])
  <1>1. PICK n \in Nat : n = Len(T) /\ DOMAIN T = 1 .. n
    BY LenProperties DEF IsSeq
  <1>2. PICK f, l : f = FunctionRows(T) /\ l = LineRows(T)
    OBVIOUS
  <1>3. f = [i \in 1 .. n |-> FunctionStatement(T[i])] /\ l = [i \in 1 .. n |-> LineStatement(T[i])]
    BY <1>1, <1>2 DEF FunctionRows, LineRows
  <1>4. PICK S, R : /\ S = {FunctionStatement(T[i]) : i \in 1 .. n}
                    /\ R = {LineStatement(T[i]) : i \in 1 .. n}
    OBVIOUS
  <1>5. f \in [1 .. n -> S] /\ l \in [1 .. n -> R]
    BY <1>3, <1>4
  <1>6. IsSeq(f) /\ Len(f) = n /\ IsSeq(l) /\ Len(l) = n
    BY <1>5, OfLength
  <1>7. \A k \in 1 .. n : f[k] = FunctionStatement(T[k]) /\ l[k] = LineStatement(T[k])
    BY <1>3
  <1>8. \A e : FunctionStatement(e).kind = "function" /\ LineStatement(e).kind = "line"
    BY DEF FunctionStatement, LineStatement
  <1>9. \A k \in 1 .. n : f[k].kind = "function" /\ l[k].kind = "line"
    BY <1>7, <1>8
  <1> QED BY <1>1, <1>2, <1>6, <1>7, <1>9 DEF Only

\* The whole text: its code is what was emitted, its rows are the tables'.
LEMMA TextHolds ==
    ASSUME NEW A, IsSeq(A), \A a \in 1 .. Len(A) : Early(A[a]), NEW D, Only(D, {"data"}),
           NEW F, IsSeq(F), NEW L, IsSeq(Merged(L)), NEW c, c.kind = "source",
           NEW M, M = IF L = <<>> THEN <<>>
                      ELSE <<RegionStarts("METADATA")>> \o <<RegionStarts("METADATA_SOURCE")>> \o <<c>>
                             \o <<RegionStarts("METADATA_FUNCTION")>> \o FunctionRows(F)
                             \o <<RegionStarts("METADATA_LINE_TABLE")>> \o LineRows(Merged(L)),
           NEW s, s = A \o D \o M
    PROVE  HoldsText(s, A, F, L)
  <1>1. PICK K : K = CodeKinds \cup {"data", "directive"}
    OBVIOUS
  <1>2. Only(A, K) /\ Only(D, K)
    BY <1>1 DEF Only, Early
  <1>3. PICK C : C = A \o D
    OBVIOUS
  <1>4. Only(C, K)
    BY <1>2, <1>3, OnlyTogether
  <1>5. PICK i \in Nat, j \in Nat, k \in Nat : i = Len(A) /\ j = Len(D) /\ k = Len(C)
    BY <1>4, AnySequence DEF Only, IsSeq
  <1>6. Joined(C, A, D, i, j) /\ k = i + j
    <2>1. Joined(C, A, D, i, j)
      BY <1>2, <1>3, <1>5, Together DEF Only
    <2> QED BY <1>5, <2>1 DEF Joined
  <1>7. \A r : RegionStarts(r).kind = "directive"
    BY DEF RegionStarts
  <1>8. L # <<>> => TableRows(M, FunctionRows(F), LineRows(Merged(L)))
    <2>1. Only(FunctionRows(F), {"function"}) /\ Only(LineRows(Merged(L)), {"line"})
      BY RowsOfKind
    <2>2. PICK f, l : f = FunctionRows(F) /\ l = LineRows(Merged(L))
      OBVIOUS
    <2>3. PICK a, b, d, e : /\ a = RegionStarts("METADATA") /\ b = RegionStarts("METADATA_SOURCE")
                            /\ d = RegionStarts("METADATA_FUNCTION")
                            /\ e = RegionStarts("METADATA_LINE_TABLE")
      OBVIOUS
    <2>4. /\ a.kind = "directive" /\ b.kind = "directive" /\ d.kind = "directive"
          /\ e.kind = "directive"
      BY <1>7, <2>3
    <2>5. L # <<>> => M = <<a>> \o <<b>> \o <<c>> \o <<d>> \o f \o <<e>> \o l
      BY <2>2, <2>3
    <2> QED BY <2>1, <2>2, <2>4, <2>5, MetadataRows
  <1>9. Only(M, TableKinds)
    <2>1. CASE L = <<>>
      <3>1. PICK u : u = <<>> /\ IsSeq(u) /\ Len(u) = 0
        BY EmptyFacts
      <3>2. M = u
        BY <2>1, <3>1
      <3> QED BY <3>1, <3>2 DEF Only
    <2>2. CASE L # <<>>
      BY <1>8, <2>2 DEF TableRows
    <2> QED BY <2>1, <2>2
  <1>10. PICK m \in Nat : m = Len(M)
    BY <1>9, AnySequence DEF Only, IsSeq
  <1>11. s = C \o M
    BY <1>3
  <1>12. Joined(s, C, M, k, m)
    BY <1>4, <1>5, <1>9, <1>10, <1>11, Together DEF Only
  <1>13. IsSeq(s) /\ Len(s) = k + m /\ i <= k + m
    <2>1. IsSeq(s) /\ Len(s) = k + m
      BY <1>12 DEF Joined
    <2>2. k = i + j /\ i \in Nat /\ j \in Nat /\ m \in Nat
      BY <1>5, <1>6, <1>10
    <2>3. i <= k + m
      BY <2>2
    <2> QED BY <2>1, <2>3
  <1>14. \A a \in 1 .. k : s[a] = C[a]
    BY <1>12 DEF Joined
  <1>15. ASSUME NEW a \in 1 .. (k + m), a \notin 1 .. k PROVE s[a].kind \in TableKinds
    <2>1. PICK b \in 1 .. m : a = k + b
      <3>1. a - k \in 1 .. m /\ a = k + (a - k)
        BY <1>5, <1>15
      <3> QED BY <3>1
    <2> QED BY <1>9, <1>10, <1>12, <2>1 DEF Joined, Only
  <1>16. \A a \in 1 .. i : a \in 1 .. k /\ C[a] = A[a]
    BY <1>5, <1>6 DEF Joined
  <1>17. ASSUME NEW a \in 1 .. k, a \notin 1 .. i PROVE C[a].kind = "data"
    <2>1. PICK b \in 1 .. j : a = i + b
      <3>1. a - i \in 1 .. j /\ a = i + (a - i)
        BY <1>5, <1>6, <1>17
      <3> QED BY <3>1
    <2> QED BY <1>5, <1>6, <2>1 DEF Joined, Only
  <1>18. ASSUME NEW a \in 1 .. (k + m), a > i PROVE s[a].kind \notin {"instruction", "method"}
    <2>1. CASE a \in 1 .. k
      <3>1. a \notin 1 .. i
        BY <1>5, <1>18
      <3> QED BY <1>14, <1>17, <2>1, <3>1
    <2>2. CASE a \notin 1 .. k
      <3>1. s[a].kind \in TableKinds
        BY <1>15, <2>2
      <3> QED BY <3>1 DEF TableKinds, EntryKinds
    <2> QED BY <2>1, <2>2
  <1>19. ASSUME NEW a \in 1 .. (k + m), NEW b \in 1 .. (a - 1), s[b].kind = "directive",
                s[b].section = "METADATA"
         PROVE  s[a].kind \in TableKinds
    <2>1. b \notin 1 .. k
      <3> SUFFICES ASSUME b \in 1 .. k PROVE FALSE
        OBVIOUS
      <3>1. s[b] = C[b]
        BY <1>14
      <3>2. CASE b \in 1 .. i
        <4>1. Early(A[b]) /\ s[b] = A[b]
          BY <1>5, <1>16, <3>1, <3>2
        <4>2. PICK x : x = A[b] /\ Early(x) /\ x.kind = "directive" /\ x.section = "METADATA"
          BY <1>19, <4>1
        <4> QED BY <4>2 DEF Early, CodeKinds
      <3>3. CASE b \notin 1 .. i
        BY <1>17, <1>19, <3>1, <3>3
      <3> QED BY <3>2, <3>3
    <2>2. a \notin 1 .. k
      BY <1>5, <1>10, <2>1
    <2> QED BY <1>15, <2>2
  <1>20. /\ IsSeq(s) /\ Len(A) <= Len(s)
         /\ \A a \in 1 .. Len(A) : s[a] = A[a]
         /\ \A a \in 1 .. Len(s) : a > Len(A) => s[a].kind \notin {"instruction", "method"}
         /\ \A a \in 1 .. Len(s) : \A b \in 1 .. (a - 1) :
               s[b].kind = "directive" /\ s[b].section = "METADATA" => s[a].kind \in TableKinds
    <2>1. i = Len(A) /\ k + m = Len(s)
      BY <1>5, <1>13
    <2>2. \A a \in 1 .. i : s[a] = A[a]
      BY <1>14, <1>16
    <2>3. \A a \in 1 .. (k + m) : a > i => s[a].kind \notin {"instruction", "method"}
      BY <1>18
    <2>4. \A a \in 1 .. (k + m) : \A b \in 1 .. (a - 1) :
             s[b].kind = "directive" /\ s[b].section = "METADATA" => s[a].kind \in TableKinds
      BY <1>19
    <2> QED BY <1>13, <2>1, <2>2, <2>3, <2>4
  <1>21. CASE L = <<>>
    <2>1. m = 0
      <3>1. PICK u : u = <<>> /\ IsSeq(u) /\ Len(u) = 0
        BY EmptyFacts
      <3> QED BY <1>10, <1>21, <3>1
    <2>2. \A a \in 1 .. (k + m) : a \in 1 .. k
      BY <1>5, <2>1
    <2>3. "line" \notin K
      BY <1>1 DEF CodeKinds
    <2>4. \A a \in 1 .. (k + m) : s[a].kind # "line"
      BY <1>4, <1>5, <1>14, <2>2, <2>3 DEF Only
    <2>5. OfKind(s, "line") = {}
      BY <1>13, <2>4 DEF OfKind
    <2> QED BY <1>20, <1>21, <2>5 DEF HoldsText
  <1>22. CASE L # <<>>
    <2>1. PICK f, l : f = FunctionRows(F) /\ l = LineRows(Merged(L))
      OBVIOUS
    <2>2. PICK x \in Nat, y \in Nat : x = Len(f) /\ x = Len(F) /\ y = Len(l) /\ y = Len(Merged(L))
      <3>1. PICK x \in Nat : x = Len(F)
        BY AnySequence DEF IsSeq
      <3>2. PICK y \in Nat : y = Len(Merged(L))
        BY AnySequence DEF IsSeq
      <3>3. Len(f) = Len(F)
        BY <2>1, RowsOfKind
      <3>4. Len(l) = Len(Merged(L))
        BY <2>1, RowsOfKind
      <3> QED BY <3>1, <3>2, <3>3, <3>4
    <2>3. Rows(M, "function", f, x) /\ Rows(M, "line", l, y) /\ IsSeq(M)
      BY <1>8, <1>22, <2>1, <2>2 DEF TableRows, Only
    <2>4. "function" \notin K /\ "line" \notin K
      BY <1>1 DEF CodeKinds
    <2>5. Rows(s, "function", f, x) /\ Rows(s, "line", l, y)
      BY <1>4, <1>11, <2>3, <2>4, RowsBehind
    <2> QED BY <1>20, <1>22, <2>1, <2>2, <2>5 DEF HoldsText
  <1> QED BY <1>21, <1>22

\* The text that the assembler is given.
LEMMA TextAssembled ==
    ASSUME Generated, Emitting, NEW text \in Assembly(Path)
    PROVE  HoldsText(text, assembly, functionMetadata, lineTableMetadata)
  <1>1. PICK A, F, L, t, n : /\ A = assembly /\ F = functionMetadata /\ L = lineTableMetadata
                             /\ t = assemblyIR /\ n = item
    OBVIOUS
  <1>2. PICK q, d, O, open, start, name :
           /\ CodeAt(q, d, A, O) /\ LinesSay(q, d, A, O, L)
           /\ FunctionsSay(q, d, A, O, F, open, start, name)
    BY <1>1 DEF Emitting, Reached, Emission
  <1>3. IsSeq(A) /\ \A a \in 1 .. Len(A) : Early(A[a])
    BY <1>2 DEF CodeAt
  <1>4. IsSeq(F)
    BY <1>2 DEF FunctionsSay, TableUpTo
  <1>5. IsSeq(Merged(L))
    <2>1. PICK l \in Nat : l = Len(L) /\ Ascending(L, l)
      BY <1>2, AnySequence DEF LinesSay, TableUpTo, IsSeq
    <2> QED BY <2>1, Merging DEF MergesFrom
  <1>6. PICK data \in SetToSeqs(requiredBuiltinData) :
           text = A \o [i \in DOMAIN data |-> builtinData(data[i])]
                    \o (IF L = <<>> THEN <<>> ELSE MetadataStatements(Path))
    BY <1>1 DEF Assembly
  <1>7. PICK D : D = [i \in DOMAIN data |-> builtinData(data[i])]
    OBVIOUS
  <1>8. Only(D, {"data"})
    <2>1. PICK k \in Nat : k = Cardinality(requiredBuiltinData)
      BY FS_CardinalityType DEF Generated, GeneratedBy
    <2>2. data \in [1 .. k -> requiredBuiltinData]
      BY <2>1 DEF SetToSeqs
    <2>3. DOMAIN data = 1 .. k
      BY <2>2
    <2>4. PICK S : S = {builtinData(e) : e \in requiredBuiltinData}
      OBVIOUS
    <2>5. D \in [1 .. k -> S]
      BY <1>7, <2>2, <2>3, <2>4
    <2>6. IsSeq(D) /\ Len(D) = k
      BY <2>5, OfLength
    <2>7. \A e : builtinData(e).kind = "data"
      BY DEF builtinData
    <2>8. \A i \in 1 .. k : D[i].kind = "data"
      BY <2>4, <2>5, <2>7
    <2> QED BY <2>6, <2>8 DEF Only
  <1>9. PICK c : c = [kind |-> "source", path |-> Path]
    OBVIOUS
  <1>10. c.kind = "source"
    BY <1>9
  <1>11. MetadataStatements(Path) =
            <<RegionStarts("METADATA")>> \o <<RegionStarts("METADATA_SOURCE")>> \o <<c>>
               \o <<RegionStarts("METADATA_FUNCTION")>> \o FunctionRows(F)
               \o <<RegionStarts("METADATA_LINE_TABLE")>> \o LineRows(Merged(L))
    BY <1>1, <1>9 DEF MetadataStatements, RegionStarts, FunctionRows, LineRows
  <1>12. PICK M : M = IF L = <<>> THEN <<>>
                      ELSE <<RegionStarts("METADATA")>> \o <<RegionStarts("METADATA_SOURCE")>> \o <<c>>
                             \o <<RegionStarts("METADATA_FUNCTION")>> \o FunctionRows(F)
                             \o <<RegionStarts("METADATA_LINE_TABLE")>> \o LineRows(Merged(L))
    OBVIOUS
  <1>13. text = A \o D \o M
    BY <1>6, <1>7, <1>11, <1>12
  <1>14. HoldsText(text, A, F, L)
    BY <1>3, <1>4, <1>5, <1>8, <1>10, <1>12, <1>13, TextHolds
  <1> QED BY <1>1, <1>14

-----------------------------------------------------------------------------
(***************************************************************************)
(* The order of a compiled text.                                           *)
(***************************************************************************)
\* No code is behind a directive.
CodeInFront(A) ==
    \A i \in 1 .. Len(A) : \A j \in 1 .. (i - 1) :
        A[i].kind \in {"instruction", "method"} => A[j].kind # "directive"

\* A is what the emitter has written for the items of t before n.
Directed(t, n, A) ==
    /\ IsSeq(A) /\ CodeInFront(A)
    /\ CodeSoFar(t, n) => \A a \in 1 .. Len(A) : A[a].kind # "directive"

\* Code goes behind code,
LEMMA CodeDirected ==
    ASSUME NEW t, DataLast(t), NEW n \in Nat \ {0}, n \in 1 .. Len(t),
           t[n].kind \notin {"data", "directive"}, NEW A, Directed(t, n, A),
           NEW s, s.kind \in CodeKinds, NEW B, B = Append(A, s)
    PROVE  Directed(t, n + 1, B)
  <1>1. CodeSoFar(t, n)
    BY CodeItem
  <1>2. PICK l \in Nat : l = Len(A) /\ IsSeq(A) /\ \A a \in 1 .. l : A[a].kind # "directive"
    BY <1>1, AnySequence DEF Directed, IsSeq
  <1>3. IsSeq(B) /\ Len(B) = l + 1 /\ B[l + 1] = s /\ \A a \in 1 .. l : B[a] = A[a]
    BY <1>2, Appended
  <1>4. s.kind # "directive"
    BY DEF CodeKinds
  <1>5. \A a \in 1 .. (l + 1) : a \in 1 .. l \/ a = l + 1
    OBVIOUS
  <1>6. \A a \in 1 .. (l + 1) : B[a].kind # "directive"
    BY <1>2, <1>3, <1>4, <1>5
  <1>7. \A i \in 1 .. (l + 1) : \A j \in 1 .. (i - 1) : j \in 1 .. (l + 1)
    OBVIOUS
  <1>8. CodeInFront(B)
    BY <1>3, <1>6, <1>7 DEF CodeInFront
  <1> QED BY <1>3, <1>6, <1>8 DEF Directed

\* and what is not code may go anywhere.
LEMMA DataDirected ==
    ASSUME NEW t, DataLast(t), NEW n \in Nat \ {0}, n \in 1 .. Len(t),
           t[n].kind \in {"data", "directive"}, NEW A, IsSeq(A), CodeInFront(A),
           NEW s, s.kind \notin {"instruction", "method"}, NEW B, B = Append(A, s)
    PROVE  Directed(t, n + 1, B)
  <1>1. ~ CodeSoFar(t, n + 1)
    BY CodeItem
  <1>2. PICK l \in Nat : l = Len(A)
    BY AnySequence DEF IsSeq
  <1>3. IsSeq(B) /\ Len(B) = l + 1 /\ B[l + 1] = s /\ \A a \in 1 .. l : B[a] = A[a]
    BY <1>2, Appended
  <1>4. ASSUME NEW i \in 1 .. (l + 1), NEW j \in 1 .. (i - 1), B[i].kind \in {"instruction", "method"}
        PROVE  B[j].kind # "directive"
    <2>1. i # l + 1
      BY <1>3, <1>4
    <2>2. i \in 1 .. l /\ j \in 1 .. l
      BY <2>1
    <2>3. B[i] = A[i] /\ B[j] = A[j]
      BY <1>3, <2>2
    <2> QED BY <1>2, <1>4, <2>2, <2>3 DEF CodeInFront
  <1>5. CodeInFront(B)
    BY <1>3, <1>4 DEF CodeInFront
  <1> QED BY <1>1, <1>3, <1>5 DEF Directed

\* The builtins are code, in front of the directive.
LEMMA BuiltinsDirected ==
    ASSUME NEW t, DataLast(t), NEW n \in Nat \ {0}, n \in 1 .. Len(t), t[n].kind = "directive",
           NEW A, Directed(t, n, A), NEW text, Coded(text), NEW s, s.kind = "directive",
           NEW B, B = A \o text \o <<s>>
    PROVE  Directed(t, n + 1, B)
  <1>1. CodeSoFar(t, n)
    BY CodeItem
  <1>2. PICK l \in Nat : l = Len(A) /\ IsSeq(A) /\ \A a \in 1 .. l : A[a].kind # "directive"
    BY <1>1, AnySequence DEF Directed, IsSeq
  <1>3. PICK k \in Nat : k = Len(text) /\ IsSeq(text) /\ \A a \in 1 .. k : text[a].kind \in CodeKinds
    BY AnySequence DEF Coded, IsSeq
  <1>4. PICK C : C = A \o text
    OBVIOUS
  <1>5. Joined(C, A, text, l, k)
    BY <1>2, <1>3, <1>4, Together
  <1>6. IsSeq(C) /\ Len(C) = l + k
    BY <1>5 DEF Joined
  <1>7. ASSUME NEW a \in 1 .. (l + k) PROVE C[a].kind # "directive"
    <2>1. CASE a \in 1 .. l
      BY <1>2, <1>5, <2>1 DEF Joined
    <2>2. CASE a \notin 1 .. l
      <3>1. PICK b \in 1 .. k : a = l + b
        <4>1. a - l \in 1 .. k /\ a = l + (a - l)
          BY <2>2
        <4> QED BY <4>1
      <3>2. C[a] = text[b] /\ text[b].kind \in CodeKinds
        BY <1>3, <1>5, <3>1 DEF Joined
      <3> QED BY <3>2 DEF CodeKinds
    <2> QED BY <2>1, <2>2
  <1>8. CodeInFront(C)
    <2>1. \A i \in 1 .. (l + k) : \A j \in 1 .. (i - 1) : j \in 1 .. (l + k)
      OBVIOUS
    <2> QED BY <1>6, <1>7, <2>1 DEF CodeInFront
  <1>9. B = Append(C, s)
    <2>1. PICK S : S = {C[a] : a \in DOMAIN C} \cup {s}
      OBVIOUS
    <2>2. C \in Seq(S) /\ s \in S
      <3>1. C \in Seq({C[a] : a \in DOMAIN C})
        BY <1>6 DEF IsSeq
      <3> QED BY <2>1, <3>1
    <2>3. C \o <<s>> = Append(C, s)
      BY <2>2
    <2> QED BY <1>4, <2>3
  <1> QED BY <1>6, <1>8, <1>9, DataDirected

Directing == Directed(assemblyIR, item, assembly)

\* The emitter takes its next item.
LEMMA DirectedOn ==
    ASSUME Generated, Emitting, Directed(assemblyIR, item, assembly), emitProgram
    PROVE  Directed(assemblyIR', item', assembly')
  <1>1. PICK t, n, A : t = assemblyIR /\ n = item /\ A = assembly
    OBVIOUS
  <1>2. Directed(t, n, A) /\ IsSeq(A) /\ CodeInFront(A)
    BY <1>1 DEF Directed
  <1>3. IsSeq(t) /\ DataLast(t) /\ n \in 1 .. (Len(t) + 1)
    <2>1. GeneratedItems(t)
      BY <1>1 DEF Generated, GeneratedBy
    <2>2. n \in 1 .. (Len(t) + 1)
      BY <1>1 DEF Emitting, Reached, Emission
    <2> QED BY <2>1, <2>2 DEF GeneratedItems
  <1>4. ASSUME n <= Len(t) PROVE n \in Nat \ {0} /\ n \in 1 .. Len(t)
    BY <1>3, <1>4, NextItemNumber
  <1>5. ASSUME n <= Len(t), t[n].kind \notin {"data", "directive"}, assemblyIR' = t, item' = n + 1,
               NEW s, s.kind \in CodeKinds, assembly' = Append(A, s)
        PROVE  Directed(assemblyIR', item', assembly')
    <2>1. PICK B : B = Append(A, s)
      OBVIOUS
    <2>2. Directed(t, n + 1, B)
      BY <1>2, <1>3, <1>4, <1>5, <2>1, CodeDirected
    <2> QED BY <1>5, <2>1, <2>2
  <1>6. CASE emitInstruction
    <2>1. n <= Len(t) /\ t[n].kind = "instruction"
      BY <1>1, <1>6 DEF emitInstruction, AtItem
    <2>2. PICK s : s = Op(t[n].op, AsText(t[n].first), AsText(t[n].second))
      OBVIOUS
    <2>3. s.kind \in CodeKinds
      BY <2>2 DEF Op, CodeKinds
    <2>4. assemblyIR' = t /\ item' = n + 1 /\ assembly' = Append(A, s)
      BY <1>1, <1>6, <2>2 DEF emitInstruction, NextItem, Written, Item
    <2> QED BY <1>5, <2>1, <2>3, <2>4
  <1>7. CASE emitLabelDef
    <2>1. n <= Len(t) /\ t[n].kind = "label"
      BY <1>1, <1>7 DEF emitLabelDef, AtItem
    <2>2. PICK s : s = t[n] /\ s.kind \in CodeKinds
      BY <2>1 DEF CodeKinds
    <2>3. assemblyIR' = t /\ item' = n + 1 /\ assembly' = Append(A, s)
      BY <1>1, <1>7, <2>2 DEF emitLabelDef, NextItem, Written, Item
    <2> QED BY <1>5, <2>1, <2>2, <2>3
  <1>8. CASE emitMethodDef
    <2>1. n <= Len(t) /\ t[n].kind = "method"
      BY <1>1, <1>8 DEF emitMethodDef, AtItem
    <2>2. PICK s : s = [kind |-> "method", name |-> t[n].name, arguments |-> t[n].arguments,
                        locals |-> t[n].locals]
      OBVIOUS
    <2>3. s.kind \in CodeKinds
      BY <2>2 DEF CodeKinds
    <2>4. assemblyIR' = t /\ item' = n + 1 /\ assembly' = Append(A, s)
      BY <1>1, <1>8, <2>2 DEF emitMethodDef, NextItem, Written, Item
    <2> QED BY <1>5, <2>1, <2>3, <2>4
  <1>9. CASE handleIRMarker
    <2>1. n <= Len(t) /\ t[n].kind = "METHOD_DEF_END"
      BY <1>1, <1>9 DEF handleIRMarker, AtItem
    <2>2. assemblyIR' = t /\ item' = n + 1 /\ assembly' = A
      BY <1>1, <1>9 DEF handleIRMarker, NextItem
    <2>3. CodeSoFar(t, n + 1) => CodeSoFar(t, n)
      BY <1>3, <1>4, <2>1, CodeItem
    <2> QED BY <1>2, <2>2, <2>3 DEF Directed
  <1>10. CASE emitDirective
    <2>1. n <= Len(t) /\ t[n].kind = "directive"
      BY <1>1, <1>10 DEF emitDirective, AtItem
    <2>2. PICK functions \in SetToSeqs(requiredBuiltinFunctions) :
             assembly' = assembly \o FlattenSeq([j \in DOMAIN functions |-> builtinFunctionAssembly(functions[j])])
                           \o <<[kind |-> "directive", section |-> "DATA"]>>
      BY <1>10 DEF emitDirective
    <2>3. PICK texts, s : /\ texts = [j \in DOMAIN functions |-> builtinFunctionAssembly(functions[j])]
                          /\ s = [kind |-> "directive", section |-> "DATA"]
      OBVIOUS
    <2>4. PICK text, B : text = FlattenSeq(texts) /\ B = A \o text \o <<s>>
      OBVIOUS
    <2>5. assembly' = B /\ s.kind = "directive"
      BY <1>1, <2>2, <2>3, <2>4
    <2>6. Coded(text)
      BY <2>3, <2>4, BuiltinsCoded
    <2>7. Directed(t, n + 1, B)
      BY <1>2, <1>3, <1>4, <2>1, <2>4, <2>5, <2>6, BuiltinsDirected
    <2>8. assemblyIR' = t /\ item' = n + 1
      BY <1>1, <1>10 DEF emitDirective, NextItem
    <2> QED BY <2>5, <2>7, <2>8
  <1>11. CASE emitDataDef
    <2>1. n <= Len(t) /\ t[n].kind = "data"
      BY <1>1, <1>11 DEF emitDataDef, AtItem
    <2>2. PICK s : s = [kind |-> "data", name |-> t[n].name, type |-> t[n].type,
                        value |-> AsText(t[n].value)]
      OBVIOUS
    <2>3. s.kind = "data"
      BY <2>2
    <2>4. PICK B : B = Append(A, s)
      OBVIOUS
    <2>5. assemblyIR' = t /\ item' = n + 1 /\ assembly' = B
      BY <1>1, <1>11, <2>2, <2>4 DEF emitDataDef, NextItem, Written, Item
    <2>6. Directed(t, n + 1, B)
      BY <1>2, <1>3, <1>4, <2>1, <2>3, <2>4, DataDirected
    <2> QED BY <2>5, <2>6
  <1> QED BY <1>6, <1>7, <1>8, <1>9, <1>10, <1>11 DEF emitProgram

\* Before the first item nothing is written.
LEMMA NothingDirected == ASSUME NewEmitter, NEW t PROVE Directed(t, item, assembly)
  <1>1. assembly = <<>>
    BY DEF NewEmitter
  <1>2. IsSeq(assembly) /\ Len(assembly) = 0
    BY <1>1, EmptyFacts
  <1> QED BY <1>2 DEF Directed, CodeInFront

-----------------------------------------------------------------------------
(***************************************************************************)
(* The emitter's part of the toolchain's invariant.                        *)
(***************************************************************************)
EInv ==
    /\ tool = "driver" => NewEmitter
    /\ Generated => Emitting /\ Directing
    /\ Generated /\ IsCompiled /\ tool \notin {"driver", "emitter"} =>
          Emitted /\ HoldsText(statements, assembly, functionMetadata, lineTableMetadata)

\* The invariant in the initial state.
LEMMA NothingEmitted == Init => EInv
  <1> SUFFICES ASSUME Init PROVE EInv
    OBVIOUS
  <1>1. tool = "driver" /\ NewEmitter
    BY DEF Init
  <1>2. Generated => Emitting
    BY <1>1, EmitterBegins DEF Emitting, Generated, GeneratedBy, GeneratedItems
  <1>3. Directing
    BY <1>1, NothingDirected DEF Directing
  <1> QED BY <1>1, <1>2, <1>3 DEF EInv

LEMMA SameStatements == ASSUME assemble PROVE statements' = statements
  BY DEF assemble, parse, parseToken, Parsed, constructLabelTable, generateBytecode, ProcessLabel,
         ProcessMethod, ProcessInstruction, ProcessData, ProcessDirective, DuplicateLabel,
         UndefinedLabel, LabelTableConstructed, EncodeLabel, EncodeDirective, EncodeMethod,
         EncodeInstruction, EncodeFails, EncodeData, EncodeMetadata, BytecodeGenerated,
         Laying, Encoding, Fail, Step, Emit

\* What the other tools leave alone.
LEMMA EmitterIdle ==
    ASSUME UNCHANGED emitVars
    PROVE  /\ Generated' <=> Generated
           /\ Emitting' <=> Emitting
           /\ Directing' <=> Directing
           /\ IsCompiled' <=> IsCompiled
           /\ Emitted' <=> Emitted
           /\ NewEmitter' <=> NewEmitter
           /\ assembly' = assembly /\ functionMetadata' = functionMetadata
           /\ lineTableMetadata' = lineTableMetadata
  <1> USE DEF emitVars, required, current, metadata
  <1>1. Generated' <=> Generated
    BY DEF Generated, GeneratedBy
  <1>2. (Emitting' <=> Emitting) /\ (Directing' <=> Directing)
    BY DEF Emitting, Directing
  <1> QED BY <1>1, <1>2 DEF IsCompiled, Emitted, NewEmitter

\* Every step keeps the emitter's invariant.
LEMMA EmittedOn ==
    ASSUME EInv, [Next]_vars
    PROVE  EInv'
  <1>0. /\ tool = "driver" => NewEmitter
        /\ Generated => Emitting /\ Directing
        /\ Generated /\ IsCompiled /\ tool \notin {"driver", "emitter"} =>
              Emitted /\ HoldsText(statements, assembly, functionMetadata, lineTableMetadata)
    BY DEF EInv
  <1>1. CASE runSV
    <2>1. tool = "driver" /\ tool' = "emitter" /\ \E k \in DOMAIN Programs : emitAssembly(Programs[k])
      BY <1>1 DEF runSV
    <2>2. PICK program : emitAssembly(program)
      BY <2>1
    <2>3. PICK t : t = assemblyIR'
      OBVIOUS
    <2>4. ASSUME IsSeq(t) PROVE Emitting'
      <3>1. Reached(t, item, currentAddress, assembly, origin, lineTableMetadata,
                    functionMetadata, startAddressOfCurrentMethodDecl, currentMethodDef)
        BY <1>0, <2>1, <2>4, EmitterBegins
      <3> QED BY <2>2, <2>3, <3>1 DEF emitAssembly, Emitting, current, metadata
    <2>5. Generated' => IsSeq(t)
      BY <2>3 DEF Generated, GeneratedBy, GeneratedItems
    <2>6. Directing'
      <3>1. Directed(t, item, assembly)
        BY <1>0, <2>1, NothingDirected
      <3> QED BY <2>2, <2>3, <3>1 DEF emitAssembly, Directing
    <2> QED BY <2>1, <2>4, <2>5, <2>6 DEF EInv
  <1>2. CASE runSVA
    <2>1. tool = "driver" /\ tool' = "assembler" /\ UNCHANGED emitVars
      BY <1>2 DEF runSVA
    <2>2. ~ IsCompiled
      BY <1>0, <2>1 DEF NewEmitter, IsCompiled
    <2> QED BY <1>0, <2>1, <2>2, EmitterIdle DEF EInv
  <1>3. CASE Emits
    <2>1. tool = "emitter" /\ tool' = "emitter" /\ emitProgram
      BY <1>3 DEF Emits
    <2>2. /\ assemblyIR' = assemblyIR /\ requiredBuiltinFunctions' = requiredBuiltinFunctions
          /\ requiredBuiltinData' = requiredBuiltinData
      BY <2>1 DEF emitProgram, emitInstruction, emitLabelDef, emitMethodDef, handleIRMarker,
                  emitDirective, emitDataDef, NextItem, required
    <2>3. Generated' => Generated
      BY <2>2 DEF Generated, GeneratedBy
    <2>4. Generated' => Emitting'
      BY <1>0, <2>1, <2>3, EmitterOn
    <2>5. Generated' => Directing'
      BY <1>0, <2>1, <2>3, DirectedOn DEF Directing
    <2> QED BY <2>1, <2>4, <2>5 DEF EInv
  <1>4. CASE AssembleEmitted
    <2>1. /\ tool = "emitter" /\ tool' = "assembler" /\ Emitted /\ UNCHANGED emitVars
          /\ \E text \in Assembly(Path) : assembleString(text)
      BY <1>4 DEF AssembleEmitted
    <2>2. PICK text \in Assembly(Path) : statements' = text
      BY <2>1 DEF assembleString
    <2>3. Generated => HoldsText(text, assembly, functionMetadata, lineTableMetadata)
      BY <1>0, TextAssembled
    <2>4. Generated =>
             HoldsText(statements', assembly', functionMetadata', lineTableMetadata')
      BY <2>1, <2>2, <2>3, EmitterIdle
    <2> QED BY <1>0, <2>1, <2>4, EmitterIdle DEF EInv
  <1>5. ASSUME UNCHANGED emitVars, statements' = statements, tool' = "driver" => tool = "driver",
               tool \in {"driver", "emitter"} => tool' = tool
        PROVE  EInv'
    <2>1. HoldsText(statements, assembly, functionMetadata, lineTableMetadata) =>
             HoldsText(statements', assembly', functionMetadata', lineTableMetadata')
      BY <1>5, EmitterIdle
    <2> QED BY <1>0, <1>5, <2>1, EmitterIdle DEF EInv
  <1>6. CASE Assembles
    BY <1>5, <1>6, SameStatements DEF Assembles
  <1>7. ASSUME UNCHANGED asmVars PROVE statements' = statements
    BY <1>7 DEF asmVars
  <1>8. CASE Refuse \/ runVM \/ Executes
    BY <1>5, <1>7, <1>8 DEF Refuse, runVM, Executes
  <1>9. CASE Ended \/ UNCHANGED vars
    BY <1>5, <1>7, <1>9 DEF Ended, vars
  <1> QED BY <1>1, <1>2, <1>3, <1>4, <1>6, <1>8, <1>9 DEF Next, Builds

\* The order of a text follows.
LEMMA EmittedInOrder ==
    EInv => (Generated /\ IsCompiled /\ tool \notin {"driver", "emitter"} => CodeFirst)
  <1> SUFFICES ASSUME EInv, Generated, IsCompiled, tool \notin {"driver", "emitter"},
                      NEW i \in 1 .. Len(statements), NEW j \in 1 .. (i - 1),
                      statements[i].kind \in {"instruction", "method"}
               PROVE  statements[j].kind # "directive"
    BY DEF CodeFirst
  <1>1. HoldsText(statements, assembly, functionMetadata, lineTableMetadata) /\ Directing
    BY DEF EInv
  <1>2. IsSeq(assembly) /\ CodeInFront(assembly)
    BY <1>1 DEF Directing, Directed
  <1>3. PICK n \in Nat : n = Len(assembly)
    BY <1>2, AnySequence DEF IsSeq
  <1>4. PICK l \in Nat : l = Len(statements)
    BY <1>1, AnySequence DEF HoldsText, IsSeq
  <1>5. ~ (i > n)
    BY <1>1, <1>3 DEF HoldsText
  <1>6. i \in 1 .. n /\ j \in 1 .. n
    BY <1>3, <1>4, <1>5
  <1>7. statements[i] = assembly[i] /\ statements[j] = assembly[j]
    BY <1>1, <1>3, <1>6 DEF HoldsText
  <1> QED BY <1>2, <1>3, <1>6, <1>7 DEF CodeInFront

-----------------------------------------------------------------------------
(***************************************************************************)
(* What the tables of the VM say.                                          *)
(***************************************************************************)
\* Each of the rows is that of one statement, whose number it has.
LEMMA RowsNumbered ==
    ASSUME NEW s, NEW kind, NEW rows, NEW n \in Nat, Rows(s, kind, rows, n)
    PROVE  /\ Cardinality(OfKind(s, kind)) = n
           /\ \A k \in 1 .. n : \E i \in OfKind(s, kind) : NumberOf(s, kind, i) = k /\ s[i] = rows[k]
  <1>1. PICK a \in Nat : /\ OfKind(s, kind) = (a + 1) .. (a + n)
                         /\ \A k \in 1 .. n : s[a + k] = rows[k]
    BY DEF Rows
  <1>2. PICK b, S : b \in Nat /\ b = a + 1 /\ S = OfKind(s, kind)
    BY <1>1
  <1>3. S = b .. (b + n - 1)
    <2>1. b + n - 1 = a + n
      BY <1>1, <1>2
    <2> QED BY <1>1, <1>2, <2>1
  <1>4. Numbered(S, b, n)
    BY <1>2, <1>3, SectionCounts
  <1>5. ASSUME NEW k \in 1 .. n
        PROVE  \E i \in S : NumberOf(s, kind, i) = k /\ s[i] = rows[k]
    <2>1. PICK i \in Nat : i = a + k /\ i = b + k - 1 /\ i \in S
      <3>1. a + k \in Nat /\ a + k = b + k - 1 /\ a + k \in b .. (b + n - 1)
        BY <1>1, <1>2
      <3> QED BY <1>3, <3>1
    <2>2. PICK l \in 1 .. n : i = b + l - 1 /\ Cardinality({j \in S : j <= i}) = l
      BY <1>4, <2>1 DEF Numbered
    <2>3. l = k
      BY <1>2, <2>1, <2>2
    <2> QED BY <1>1, <1>2, <2>1, <2>2, <2>3 DEF NumberOf
  <1> QED BY <1>2, <1>4, <1>5 DEF Numbered

\* The table T has the lines of the text s.
LinesOf(T, s) ==
    /\ IsSeq(T) /\ Len(T) = Cardinality(OfKind(s, "line"))
    /\ \A i \in OfKind(s, "line") : LineStatement(T[NumberOf(s, "line", i)]) = s[i]

FunctionsOf(T, s) ==
    /\ IsSeq(T) /\ Len(T) = Cardinality(OfKind(s, "function"))
    /\ \A i \in OfKind(s, "function") : FunctionStatement(T[NumberOf(s, "function", i)]) = s[i]

\* The line table that was loaded is the merged one.
LEMMA LinesAre ==
    ASSUME NEW T, NEW s, LinesOf(T, s), NEW L, IsSeq(L), NEW n \in Nat, n = Len(L),
           Rows(s, "line", LineRows(L), n)
    PROVE  /\ DOMAIN T = 1 .. n
           /\ \A k \in 1 .. n : T[k].start = L[k].start /\ T[k].end = L[k].end /\ T[k].line = L[k].line
  <1>1. PICK rows : rows = LineRows(L) /\ Rows(s, "line", rows, n)
    OBVIOUS
  <1>2. /\ Cardinality(OfKind(s, "line")) = n
        /\ \A k \in 1 .. n : \E i \in OfKind(s, "line") : NumberOf(s, "line", i) = k /\ s[i] = rows[k]
    BY <1>1, RowsNumbered
  <1>3. DOMAIN T = 1 .. n
    <2>1. Len(T) = n
      BY <1>2 DEF LinesOf
    <2> QED BY <2>1, LenProperties DEF LinesOf, IsSeq
  <1>4. ASSUME NEW k \in 1 .. n
        PROVE  T[k].start = L[k].start /\ T[k].end = L[k].end /\ T[k].line = L[k].line
    <2>1. PICK i \in OfKind(s, "line") : NumberOf(s, "line", i) = k /\ s[i] = rows[k]
      BY <1>2
    <2>2. rows[k] = LineStatement(L[k])
      BY <1>1, RowsOfKind
    <2>3. LineStatement(T[k]) = LineStatement(L[k])
      BY <2>1, <2>2 DEF LinesOf
    <2>4. PICK e, g : e = T[k] /\ g = L[k] /\ LineStatement(e) = LineStatement(g)
      BY <2>3
    <2>5. /\ LineStatement(e).start = e.start /\ LineStatement(e).end = e.end
          /\ LineStatement(e).line = e.line /\ LineStatement(g).start = g.start
          /\ LineStatement(g).end = g.end /\ LineStatement(g).line = g.line
      BY DEF LineStatement
    <2> QED BY <2>4, <2>5
  <1> QED BY <1>3, <1>4

\* The function table that was loaded is the emitter's.
LEMMA FunctionsAre ==
    ASSUME NEW T, NEW s, FunctionsOf(T, s), NEW F, IsSeq(F), NEW n \in Nat, n = Len(F),
           Rows(s, "function", FunctionRows(F), n)
    PROVE  /\ DOMAIN T = 1 .. n
           /\ \A k \in 1 .. n : T[k].start = F[k].start /\ T[k].end = F[k].end /\ T[k].name = F[k].name
  <1>1. PICK rows : rows = FunctionRows(F) /\ Rows(s, "function", rows, n)
    OBVIOUS
  <1>2. /\ Cardinality(OfKind(s, "function")) = n
        /\ \A k \in 1 .. n : \E i \in OfKind(s, "function") :
              NumberOf(s, "function", i) = k /\ s[i] = rows[k]
    BY <1>1, RowsNumbered
  <1>3. DOMAIN T = 1 .. n
    <2>1. Len(T) = n
      BY <1>2 DEF FunctionsOf
    <2> QED BY <2>1, LenProperties DEF FunctionsOf, IsSeq
  <1>4. ASSUME NEW k \in 1 .. n
        PROVE  T[k].start = F[k].start /\ T[k].end = F[k].end /\ T[k].name = F[k].name
    <2>1. PICK i \in OfKind(s, "function") : NumberOf(s, "function", i) = k /\ s[i] = rows[k]
      BY <1>2
    <2>2. rows[k] = FunctionStatement(F[k])
      BY <1>1, RowsOfKind
    <2>3. FunctionStatement(T[k]) = FunctionStatement(F[k])
      BY <2>1, <2>2 DEF FunctionsOf
    <2>4. PICK e, g : e = T[k] /\ g = F[k] /\ FunctionStatement(e) = FunctionStatement(g)
      BY <2>3
    <2>5. /\ FunctionStatement(e).start = e.start /\ FunctionStatement(e).end = e.end
          /\ FunctionStatement(e).name = e.name /\ FunctionStatement(g).start = g.start
          /\ FunctionStatement(g).end = g.end /\ FunctionStatement(g).name = g.name
      BY DEF FunctionStatement
    <2> QED BY <2>4, <2>5
  <1> QED BY <1>3, <1>4

\* What a look-up gives.
LineIs(T, x, line) ==
    IF line = NoLine THEN LookUp(T, x) = NoEntry
    ELSE LookUp(T, x) # NoEntry /\ LookUp(T, x).line = line

FunctionIs(T, x, in) ==
    IF in = Global THEN LookUp(T, x) = NoEntry
    ELSE LookUp(T, x) # NoEntry /\ LookUp(T, x).name = in

\* What the emitter's table says, the VM's look-up in the merged one finds.
LEMMA LineLookedUp ==
    ASSUME NEW s, NEW A, NEW F, NEW L, HoldsText(s, A, F, L), IsSeq(L), Ascending(L, Len(L)),
           NEW T, LinesOf(T, s), NEW x \in Nat, NEW line, LineSaid(L, x, line)
    PROVE  LineIs(T, x, line)
  <1>1. PICK l \in Nat : l = Len(L)
    BY AnySequence DEF IsSeq
  <1>2. CASE L = <<>>
    <2>1. l = 0
      BY <1>1, <1>2, EmptyFacts
    <2>2. line = NoLine
      BY <1>1, <2>1 DEF LineSaid
    <2>3. PICK n \in Nat : n = 0 /\ DOMAIN T = 1 .. n
      <3>1. OfKind(s, "line") = {}
        BY <1>2 DEF HoldsText
      <3>2. Len(T) = 0 /\ IsSeq(T)
        BY <3>1, FS_EmptySet DEF LinesOf
      <3>3. DOMAIN T = 1 .. 0
        BY <3>2, LenProperties DEF IsSeq
      <3> QED BY <3>3
    <2>4. LookUp(T, x) = NoEntry
      BY <2>3, LookUpMisses
    <2> QED BY <2>2, <2>4 DEF LineIs
  <1>3. CASE L # <<>>
    <2>1. PICK N : N = Merged(L) /\ MergesFrom(N, L, 1, l)
      BY <1>1, Merging
    <2>2. PICK n \in Nat : n = Len(N) /\ IsSeq(N) /\ Ascending(N, n) /\ SaysSame(N, L, 1, l)
      BY <2>1, AnySequence DEF MergesFrom, IsSeq
    <2>3. Rows(s, "line", LineRows(N), n)
      BY <1>3, <2>1, <2>2 DEF HoldsText
    <2>4. /\ DOMAIN T = 1 .. n
          /\ \A k \in 1 .. n : T[k].start = N[k].start /\ T[k].end = N[k].end /\ T[k].line = N[k].line
      BY <2>2, <2>3, LinesAre
    <2>5. Ascending(T, n)
      BY <2>2, <2>4 DEF Ascending
    <2>6. \A k \in 1 .. n : Spans(T[k], x) <=> Spans(N[k], x)
      BY <2>4 DEF Spans
    <2>7. CASE line = NoLine
      <3>1. \A k \in 1 .. l : ~ Spans(L[k], x)
        BY <1>1, <2>7 DEF LineSaid
      <3>2. \A k \in 1 .. n : ~ Spans(N[k], x)
        BY <2>2, <3>1 DEF SaysSame
      <3>3. \A k \in 1 .. n : ~ Spans(T[k], x)
        BY <2>6, <3>2
      <3>4. LookUp(T, x) = NoEntry
        BY <2>4, <3>3, LookUpMisses
      <3> QED BY <2>7, <3>4 DEF LineIs
    <2>8. CASE line # NoLine
      <3>1. PICK k \in 1 .. l : Spans(L[k], x) /\ L[k].line = line
        BY <1>1, <2>8 DEF LineSaid
      <3>2. PICK m \in 1 .. n : Spans(N[m], x) /\ N[m].line = line
        BY <2>2, <3>1 DEF SaysSame
      <3>3. Spans(T[m], x) /\ T[m].line = line
        BY <2>4, <2>6, <3>2
      <3>4. LookUp(T, x) = T[m] /\ T[m] # NoEntry
        BY <2>4, <2>5, <3>3, LookUpFinds
      <3> QED BY <2>8, <3>3, <3>4 DEF LineIs
    <2> QED BY <2>7, <2>8
  <1> QED BY <1>2, <1>3

\* What the function table says of an address is found there.
LEMMA FunctionLookedUp ==
    ASSUME NEW s, NEW A, NEW F, NEW L, HoldsText(s, A, F, L), L # <<>>, IsSeq(F), Ascending(F, Len(F)),
           NEW T, FunctionsOf(T, s), NEW x \in Nat, NEW in, FunctionSaid(F, x, in)
    PROVE  FunctionIs(T, x, in)
  <1>1. PICK n \in Nat : n = Len(F)
    BY AnySequence DEF IsSeq
  <1>2. Rows(s, "function", FunctionRows(F), n)
    BY <1>1 DEF HoldsText
  <1>3. /\ DOMAIN T = 1 .. n
        /\ \A k \in 1 .. n : T[k].start = F[k].start /\ T[k].end = F[k].end /\ T[k].name = F[k].name
    BY <1>1, <1>2, FunctionsAre
  <1>4. Ascending(T, n)
    BY <1>1, <1>3 DEF Ascending
  <1>5. \A k \in 1 .. n : Spans(T[k], x) <=> Spans(F[k], x)
    BY <1>3 DEF Spans
  <1>6. CASE in = Global
    <2>1. \A k \in 1 .. n : ~ Spans(T[k], x)
      BY <1>1, <1>5, <1>6 DEF FunctionSaid
    <2>2. LookUp(T, x) = NoEntry
      BY <1>3, <2>1, LookUpMisses
    <2> QED BY <1>6, <2>2 DEF FunctionIs
  <1>7. CASE in # Global
    <2>1. PICK k \in 1 .. n : Spans(F[k], x) /\ F[k].name = in
      BY <1>1, <1>7 DEF FunctionSaid
    <2>2. Spans(T[k], x) /\ T[k].name = in
      BY <1>3, <1>5, <2>1
    <2>3. LookUp(T, x) = T[k] /\ T[k] # NoEntry
      BY <1>3, <1>4, <2>2, LookUpFinds
    <2> QED BY <1>7, <2>2, <2>3 DEF FunctionIs
  <1> QED BY <1>6, <1>7

\* The emitter counts the addresses that the assembler gives to the code.
LEMMA PlacesAgree ==
    ASSUME NEW p, NEW s, ChainOf(p, s), NEW q, NEW d, NEW A, NEW O, CodeAt(q, d, A, O),
           \A i \in 1 .. Len(A) : s[i] = A[i], NEW i \in 1 .. Len(p)
    PROVE  /\ i \in 1 .. (d + 1) => p[i] = q[i]
           /\ i > d => q[d + 1] <= p[i]
           /\ p[i] \in Nat /\ d \in Nat /\ q[d + 1] \in Nat
  <1>1. PICK m \in Nat : m = Len(p)
    BY LenProperties DEF ChainOf
  <1>2. d \in Nat /\ d + 1 \in 1 .. (d + 1) /\ \A a \in 1 .. d : a \in 1 .. Len(A)
    <2>1. PICK l \in Nat : l = Len(A)
      BY AnySequence DEF CodeAt, IsSeq
    <2> QED BY <2>1 DEF CodeAt
  <1>3. \A a \in 1 .. (d + 1) : q[a] \in Nat
    BY DEF CodeAt
  <1>4. \A a \in 1 .. m : p[a] \in Nat
    BY <1>1, ElementOfSeq DEF ChainOf
  <1> DEFINE T == {a \in 1 .. m : a <= d + 1 /\ p[a] # q[a]}
  <1>5. T = {}
    <2> SUFFICES ASSUME T # {} PROVE FALSE
      OBVIOUS
    <2>1. PICK a \in T : \A b \in T : a <= b
      <3>1. T \subseteq Nat
        OBVIOUS
      <3> HIDE DEF T
      <3> QED BY <3>1, LeastOfNaturals
    <2>2. a \in 1 .. m /\ a <= d + 1 /\ p[a] # q[a]
      BY <2>1
    <2>3. a # 1
      BY <2>2 DEF ChainOf, Chain, CodeAt
    <2>4. PICK b \in Nat : b + 1 = a /\ b \in 1 .. (m - 1) /\ b \in 1 .. d /\ b \in 1 .. m
      <3>1. a - 1 \in Nat /\ (a - 1) + 1 = a /\ a - 1 \in 1 .. (m - 1) /\ a - 1 \in 1 .. d
            /\ a - 1 \in 1 .. m
        BY <1>2, <2>2, <2>3
      <3> QED BY <3>1
    <2>5. p[b] = q[b]
      <3>1. b <= d + 1 /\ ~ (a <= b)
        BY <1>2, <2>4
      <3> QED BY <2>1, <2>4, <3>1
    <2>6. p[b + 1] = p[b] + Counted(s[b])
      BY <1>1, <2>4 DEF ChainOf, Chain
    <2>7. q[b + 1] = q[b] + Counted(A[b])
      BY <2>4 DEF CodeAt
    <2>8. s[b] = A[b]
      BY <1>2, <2>4
    <2> QED BY <2>2, <2>4, <2>5, <2>6, <2>7, <2>8
  <1>6. \A a \in 1 .. m : a <= d + 1 => p[a] = q[a]
    BY <1>5
  <1> HIDE DEF T
  <1>7. ASSUME i > d PROVE q[d + 1] <= p[i]
    <2>1. d + 1 \in 1 .. m /\ i \in (d + 1) .. m /\ d + 1 <= d + 1
      BY <1>1, <1>2, <1>7
    <2>2. p[d + 1] = q[d + 1]
      BY <1>6, <2>1
    <2>3. p[d + 1] <= p[i]
      BY <1>1, <2>1, ChainGrows
    <2> QED BY <2>2, <2>3
  <1>8. i \in 1 .. (d + 1) => i <= d + 1
    BY <1>2
  <1> QED BY <1>1, <1>2, <1>3, <1>4, <1>6, <1>7, <1>8

\* So the tables say of every instruction where it comes from.
LEMMA Blames ==
    ASSUME NEW p, NEW s, ChainOf(p, s), NEW q, NEW d, NEW A, NEW O, CodeAt(q, d, A, O),
           NEW L, LinesSay(q, d, A, O, L), NEW F, NEW start, NEW name,
           FunctionsSay(q, d, A, O, F, FALSE, start, name), HoldsText(s, A, F, L),
           NEW lines, LinesOf(lines, s), NEW functions, FunctionsOf(functions, s),
           NEW i \in 1 .. Len(p), i \in 1 .. Len(s), s[i].kind = "instruction"
    PROVE  /\ LineIs(lines, p[i], O[i].line)
           /\ O[i].line # NoLine => FunctionIs(functions, p[i], O[i].in)
  <1>1. PICK l \in Nat : l = Len(A)
    BY AnySequence DEF CodeAt, IsSeq
  <1>2. i \in 1 .. l /\ s[i] = A[i]
    <2>1. ~ (i > l) /\ i \in Nat /\ 1 <= i
      BY <1>1, AnySequence DEF HoldsText, IsSeq
    <2>2. i \in 1 .. l
      BY <1>1, <2>1
    <2> QED BY <1>1, <2>2 DEF HoldsText
  <1>3. PICK x \in Nat : /\ x = p[i] /\ (i \in 1 .. (d + 1) => x = q[i]) /\ (i > d => q[d + 1] <= x)
                         /\ d \in Nat /\ q[d + 1] \in Nat
    <2>1. \A j \in 1 .. Len(A) : s[j] = A[j]
      BY DEF HoldsText
    <2> QED BY <2>1, PlacesAgree
  <1>4. TableUpTo(L, q[d + 1]) /\ TableUpTo(F, q[d + 1])
    BY DEF LinesSay, FunctionsSay
  <1>5. IsSeq(L) /\ Ascending(L, Len(L)) /\ IsSeq(F) /\ Ascending(F, Len(F))
    BY <1>4 DEF TableUpTo
  <1>6. PICK line : line = O[i].line
    OBVIOUS
  <1>7. CASE i > d
    <2>1. line = NoLine
      <3>1. i \in (d + 1) .. Len(A)
        BY <1>1, <1>2, <1>3, <1>7
      <3> QED BY <1>6, <3>1 DEF CodeAt
    <2>2. LineSaid(L, x, NoLine)
      <3>1. PICK y \in Nat : y = q[d + 1] /\ y <= x
        BY <1>3, <1>7
      <3>2. TableUpTo(L, y)
        BY <1>4, <3>1
      <3>3. TableUpTo(L, x)
        BY <3>1, <3>2, NothingSaid
      <3> QED BY <3>3, NothingSaid
    <2>3. LineIs(lines, x, line)
      BY <1>5, <2>1, <2>2, LineLookedUp
    <2> QED BY <1>3, <1>6, <2>1, <2>3
  <1>8. CASE ~ (i > d)
    <2>1. i \in 1 .. d /\ i \in 1 .. (d + 1)
      BY <1>1, <1>2, <1>3, <1>8
    <2>2. x = q[i] /\ A[i].kind = "instruction"
      BY <1>2, <1>3, <2>1
    <2>3. LineSaid(L, x, line)
      BY <1>6, <2>1, <2>2 DEF LinesSay
    <2>4. LineIs(lines, x, line)
      BY <1>5, <2>3, LineLookedUp
    <2>5. ASSUME line # NoLine PROVE FunctionIs(functions, x, O[i].in)
      <3>1. FunctionSaid(F, x, O[i].in)
        BY <1>6, <2>1, <2>2, <2>5 DEF FunctionsSay
      <3>2. L # <<>>
        <4>1. PICK k \in 1 .. Len(L) : Spans(L[k], x)
          BY <2>3, <2>5 DEF LineSaid
        <4>2. PICK m \in Nat : m = Len(L)
          BY <1>5, AnySequence DEF IsSeq
        <4>3. m # 0
          BY <4>1, <4>2
        <4> QED BY <4>2, <4>3, EmptyFacts
      <3>3. PICK in : in = O[i].in
        OBVIOUS
      <3> QED BY <1>5, <3>1, <3>2, <3>3, FunctionLookedUp
    <2> QED BY <1>3, <1>6, <2>4, <2>5
  <1> QED BY <1>3, <1>7, <1>8

\* At the end of the items no function is open.
LEMMA NoneOpen ==
    ASSUME Generated, Emitting, Emitted
    PROVE  \E q, d, start, name :
              /\ CodeAt(q, d, assembly, origin)
              /\ LinesSay(q, d, assembly, origin, lineTableMetadata)
              /\ FunctionsSay(q, d, assembly, origin, functionMetadata, FALSE, start, name)
  <1>1. PICK t, n, A, O, F, L : /\ t = assemblyIR /\ n = item /\ A = assembly /\ O = origin
                                /\ F = functionMetadata /\ L = lineTableMetadata
    OBVIOUS
  <1>2. PICK q, d, address, start, m : Emission(q, d, t, n, address, A, O, L, F, start, m)
    BY <1>1 DEF Emitting, Reached
  <1>3. PICK l \in Nat : l = Len(t) /\ GeneratedItems(t)
    BY <1>1, AnySequence DEF Generated, GeneratedBy, GeneratedItems, IsSeq
  <1>4. n \in 1 .. (l + 1) /\ ~ (n <= l)
    BY <1>1, <1>2, <1>3 DEF Emission, Emitted
  <1>5. \A i : ~ Encloses(t, i, n)
    BY <1>3, <1>4, ClosedBefore DEF GeneratedItems
  <1>6. InUser(t, n) = FALSE
    BY <1>5 DEF InUser
  <1>7. FunctionsSay(q, d, A, O, F, FALSE, start, FunctionOf(m))
    BY <1>2, <1>6 DEF Emission
  <1>8. CodeAt(q, d, A, O) /\ LinesSay(q, d, A, O, L)
    BY <1>2 DEF Emission
  <1> QED BY <1>1, <1>7, <1>8

\* What the invariants are for.
LEMMA TablesBlame == LInv /\ EInv => (Ordered /\ Generated => TablesBlameTheirStatements)
  <1> SUFFICES ASSUME LInv, EInv, Ordered, Generated, tool = "vm", IsCompiled, NEW i \in Instructions
               PROVE  /\ LineIs(lineTable, placed[i], origin[i].line)
                      /\ origin[i].line # NoLine => FunctionIs(functionTable, placed[i], origin[i].in)
    BY DEF TablesBlameTheirStatements, LineIs, FunctionIs
  <1>1. pass = "done" /\ Assembling
    BY DEF LInv, TInv, Executing
  <1>2. ChainOf(placed, statements)
    BY <1>1, Finished DEF Assembling
  <1>3. /\ HoldsText(statements, assembly, functionMetadata, lineTableMetadata)
        /\ Emitting /\ Emitted
    BY DEF EInv
  <1>4. TablesHoldEntries
    BY <1>3 DEF HoldsText, TablesHoldEntries, TableKinds
  <1>5. LoaderReadsEntries /\ IsSeq(functionTable) /\ IsSeq(lineTable)
    BY <1>4, TablesLoaded DEF TablesRead
  <1>6. \A kind : OfKind(statements, kind) = EntriesOf(kind)
    BY DEF OfKind, EntriesOf
  <1>7. ASSUME NEW kind, NEW j \in OfKind(statements, kind)
        PROVE  NumberOf(statements, kind, j) = Ordinal(j)
    <2>1. statements[j].kind = kind
      BY DEF OfKind
    <2> QED BY <1>6, <2>1 DEF NumberOf, Ordinal
  <1>8. LinesOf(lineTable, statements)
    <2>1. /\ Len(lineTable) = Cardinality(EntriesOf("line"))
          /\ \A j \in EntriesOf("line") : LineStatement(lineTable[Ordinal(j)]) = statements[j]
      BY <1>5 DEF LoaderReadsEntries
    <2> QED BY <1>5, <1>6, <1>7, <2>1 DEF LinesOf
  <1>9. FunctionsOf(functionTable, statements)
    <2>1. /\ Len(functionTable) = Cardinality(EntriesOf("function"))
          /\ \A j \in EntriesOf("function") :
                FunctionStatement(functionTable[Ordinal(j)]) = statements[j]
      BY <1>5 DEF LoaderReadsEntries
    <2> QED BY <1>5, <1>6, <1>7, <2>1 DEF FunctionsOf
  <1>10. PICK q, d, start, name :
            /\ CodeAt(q, d, assembly, origin)
            /\ LinesSay(q, d, assembly, origin, lineTableMetadata)
            /\ FunctionsSay(q, d, assembly, origin, functionMetadata, FALSE, start, name)
    BY <1>3, NoneOpen
  <1>11. i \in 1 .. Len(placed) /\ i \in 1 .. Len(statements) /\ statements[i].kind = "instruction"
    <2>1. Len(placed) \in Nat /\ Len(statements) \in Nat
      BY <1>2, LenProperties DEF ChainOf
    <2> QED BY <2>1 DEF Instructions, IsInstruction
  <1> QED BY <1>2, <1>3, <1>8, <1>9, <1>10, <1>11, Blames

-----------------------------------------------------------------------------
\* What the compiler hands to the assembler has all of its code in front of the
\* first directive, the builtins' included, whose text the emitter inserts when
\* it comes to the DATA directive (AssemblyEmitter.cpp:58).  Where that fails
\* the two passes of the assembler place statements differently.
THEOREM CompiledInOrder ==
    Spec => [](Generated /\ IsCompiled /\ tool \notin {"driver", "emitter"} => CodeFirst)
  <1>1. Init => EInv
    BY NothingEmitted
  <1>2. EInv /\ [Next]_vars => EInv'
    BY EmittedOn
  <1> QED BY <1>1, <1>2, EmittedInOrder, PTL DEF Spec

\* In a compiled program that has been loaded, the tables give every instruction
\* that came from a line of the source that line and, in a function of the user,
\* that function, and give no line to any other.  The emitter reckons the
\* addresses in them item by item (AssemblyEmitter.cpp:204) and merges the
\* lines (AssemblyEmitter.cpp:410), the assembler copies them
\* (src/src/assembler/Assembler.cpp:488), the loader cuts them out of the file
\* (src/src/vm/VM.cpp:104) and searches them (src/src/vm/
\* RuntimeErrorHandler.cpp:46): the address that it looks up is the one at
\* which the assembler has placed the statement.
THEOREM TablesNameTheirStatements ==
    Spec => [](statements \in Seq(Statement) /\ ShortTexts /\ Generated =>
                   TablesBlameTheirStatements)
  <1>1. Init => LInv /\ EInv
    BY TablesStart, NothingEmitted
  <1>2. LInv /\ EInv /\ [Next]_vars => (LInv /\ EInv)'
    BY TablesStep, EmittedOn
  <1>3. LInv /\ EInv => (statements \in Seq(Statement) /\ ShortTexts /\ Generated =>
                             TablesBlameTheirStatements)
    <2>1. (tool = "vm" /\ IsCompiled) \/ TablesBlameTheirStatements
      BY DEF TablesBlameTheirStatements
    <2> QED BY <2>1, EmittedInOrder, TablesBlame DEF Ordered
  <1> QED BY <1>1, <1>2, <1>3, PTL DEF Spec
=============================================================================
