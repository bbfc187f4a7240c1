----------------------------- MODULE Execution ------------------------------
(***************************************************************************)
(* The VM from a bytecode file to its end: the loader, the run loop with   *)
(* the program counter and the return addresses, and the report of a       *)
(* runtime error (src/src/vm/VM.cpp, RuntimeErrorHandler.cpp).  Values are *)
(* left out: a conditional jump may jump or not, and an instruction that   *)
(* can fail may fail.  What happens to values is said by OperandStack,     *)
(* what happens to frames by CallStack, of which this module keeps the     *)
(* return addresses.                                                       *)
(***************************************************************************)
EXTENDS Integers, Sequences, AssemblyCode

CONSTANTS
    MaxFrames,     \* calls that fit the memory
    ExitStatuses   \* what programs pass to `exit'

ASSUME FramesAssumption == MaxFrames \in Nat

VARIABLES
    code,          \* memory from address 0 on: code, then data
    HB,
    sourceMetadata, functionTable, lineTable, errorContext,
    PC,
    frames,        \* return addresses, innermost first
    running, exitCode, thrown,
    report,        \* what handleRuntimeError printed
    started        \* history: where the last instruction began

loaded  == <<code, HB, sourceMetadata, functionTable, lineTable, errorContext>>
machine == <<PC, frames, running, exitCode, thrown, report, started>>
vmVars  == <<loaded, machine>>

NoReport == [kind |-> "none", line |-> 0, trace |-> <<>>]
InternalReport == [NoReport EXCEPT !.kind = "internal"]

NewVM ==
    /\ code = <<>> /\ HB = 0
    /\ sourceMetadata = <<>> /\ functionTable = <<>> /\ lineTable = <<>>
    /\ errorContext = "INTERNAL"
    /\ PC = 0 /\ frames = <<>>
    /\ running = TRUE /\ exitCode = 0 /\ thrown = FALSE
    /\ report = NoReport /\ started = 0

-----------------------------------------------------------------------------
(***************************************************************************)
(* readBytecode.  `bytes' are the file behind the header's 20 bytes, so    *)
(* that index i of the file is bytes[i - 19].                              *)
(***************************************************************************)
BYTECODE_HEADER_SIZE == 20
At(i) == i - BYTECODE_HEADER_SIZE + 1

\* A number that is not one: bytes of something else, or past the end.
Garbage == -1

ReadNumber(bytes, i, n) ==
    IF Encodes(bytes, At(i), "number", n) THEN bytes[At(i)].of ELSE Garbage

ReadString(bytes, i) ==
    LET size == ReadNumber(bytes, i, 4)
    IN IF size > 0 /\ Encodes(bytes, At(i + 4), "text", size) THEN bytes[At(i + 4)].of ELSE ""

\* The entries from index i on, up to `end': the loop reads one and goes on
\* behind it.  `size' and `entry' are what it finds at every index.
Entries(i, end, size, entry) ==
    LET from[k \in i .. (end + 1)] ==
            IF k >= end THEN <<>>
            ELSE <<entry[k]>> \o IF k + size[k] \in (k + 1) .. (end + 1) THEN from[k + size[k]] ELSE <<>>
    IN from[i]

\* The code keeps sources in a map, the first of an id; a text has one source,
\* of id 0.
Sources(bytes, header) ==
    Entries(header.dataEnd + 1, header.sourceEnd,
            [i \in Nat |-> 6 + ReadNumber(bytes, i + 2, 4)],
            [i \in Nat |-> [id |-> ReadNumber(bytes, i, 2), path |-> ReadString(bytes, i + 2)]])

Functions(bytes, header) ==
    Entries(header.sourceEnd + 1, header.functionEnd,
            [i \in Nat |-> 14 + ReadNumber(bytes, i + 10, 4)],
            [i \in Nat |-> [start |-> ReadNumber(bytes, i, 4), end |-> ReadNumber(bytes, i + 4, 4),
                                name |-> ReadString(bytes, i + 10)]])

Lines(bytes, header) ==
    Entries(header.functionEnd + 1, header.lineEnd,
            [i \in Nat |-> 16],
            [i \in Nat |-> [start |-> ReadNumber(bytes, i, 4), end |-> ReadNumber(bytes, i + 4, 4),
                                line |-> bytes[At(i + 10)].of]])

readBytecode(bytes, header) ==
    /\ code' = SubSeq(bytes, 1, At(header.dataEnd))
    /\ HB' = header.dataEnd + 1 - BYTECODE_HEADER_SIZE
    /\ sourceMetadata' = Sources(bytes, header)
    /\ functionTable' = Functions(bytes, header)
    /\ lineTable' = Lines(bytes, header)
    /\ errorContext' = IF header.dataEnd = header.sourceEnd /\ header.sourceEnd = header.lineEnd
                       THEN "INTERNAL" ELSE "LANGUAGE"
    /\ UNCHANGED machine

-----------------------------------------------------------------------------
(***************************************************************************)
(* RuntimeErrorHandler.                                                    *)
(***************************************************************************)
NoEntry == [start |-> 0, end |-> 0]

\* upper_bound, one back: the last entry that starts at or before `address',
\* if it reaches it.
LookUp(table, address) ==
    LET before == {i \in DOMAIN table : table[i].start <= address}
        last   == CHOOSE i \in before : \A j \in before : j <= i
    IN IF before # {} /\ address < table[last].end THEN table[last] ELSE NoEntry

\* The address that is looked up for an instruction which left PC behind it.
\* Fault: the address behind it.
SiteOf_Behind(address) == address

SiteOf(address) == address - 1

\* A return address as a line of the trace; an address without a line would
\* be a null pointer here.
TraceLine(address) ==
    LET line == LookUp(lineTable, SiteOf(address))
        f    == LookUp(functionTable, SiteOf(address))
    IN [name |-> IF f = NoEntry THEN "<global>" ELSE f.name,
        line |-> IF line = NoEntry THEN Garbage ELSE line.line]

\* The outermost call is in the statements outside of every function; it is
\* left out if a frame in front of it was such a statement's already.
TraceOf(addresses) ==
    LET inner == [i \in 1 .. (Len(addresses) - 1) |-> TraceLine(addresses[i])]
    IN IF \E i \in DOMAIN inner : inner[i].name = "<global>"
       THEN inner
       ELSE Append(inner, [name |-> "<global>", line |-> TraceLine(addresses[Len(addresses)]).line])

raiseRuntimeError(pc, stack) ==
    LET line == LookUp(lineTable, SiteOf(pc))
        f    == LookUp(functionTable, SiteOf(pc))
    IN IF errorContext = "INTERNAL" THEN InternalReport
       ELSE IF line = NoEntry THEN NoReport
       ELSE [kind |-> "language", line |-> line.line,
             trace |-> IF stack = <<>> \/ f = NoEntry
                       THEN <<[name |-> "<global>", line |-> line.line]>>
                       ELSE <<[name |-> f.name, line |-> line.line]>> \o TraceOf(stack)]

-----------------------------------------------------------------------------
(***************************************************************************)
(* The run loop: one instruction, then the tests for its end.  An error    *)
(* leaves the loop as an exception and sets the exit code to 1.            *)
(***************************************************************************)
Looping == running /\ exitCode = 0 /\ ~ thrown

Fetched(op) ==
    /\ Looping
    /\ Encodes(code, PC + 1, "opcode", 1) /\ code[PC + 1].of = op

\* The label operand behind the opcode.
JumpAddress ==
    IF Encodes(code, PC + 2, "number", 4) THEN code[PC + 2].of ELSE Garbage

\* How far an instruction's operands reach.
OperandSize(op) ==
    CASE op \in TakesLabel \cup {"storeL", "addrL"} -> 4
      [] op \in TakesDepth                          -> 2
      [] op \in {"load", "conv", "native", "throw"} -> 1
      [] op = "loadL"                               -> 5
      [] op = "push"                                -> 1 + calculateBytesFromType(code[PC + 2].of)
      [] OTHER                                      -> 0

Behind(op) == PC + 1 + OperandSize(op)

GoesOn(pc) == PC' = pc /\ started' = PC /\ UNCHANGED <<running, exitCode, thrown, report>>

Throws(pc) ==
    /\ PC' = pc /\ started' = PC
    /\ exitCode' = 1 /\ thrown' = TRUE
    /\ report' = raiseRuntimeError(pc, frames)
    /\ UNCHANGED <<running, frames>>

\* conv: out of range.  The other instructions fail only in programs that the
\* compiler does not make, with internal errors.
CanFail == {"div", "mod", "alloc", "conv"}

Plain == Opcode \ (Jumps \cup {"halt", "call", "ret", "native", "throw"})

executePlain ==
    /\ \E op \in Plain : Fetched(op) /\ GoesOn(Behind(op))
    /\ UNCHANGED frames

executeFails == \E op \in CanFail \cup {"throw"} : Fetched(op) /\ Throws(Behind(op))

executeJump ==
    /\ \E op \in Jumps : Fetched(op) /\ GoesOn(JumpAddress)
    /\ UNCHANGED frames

executeNoJump ==
    /\ \E op \in Jumps \ {"jmp"} : Fetched(op) /\ GoesOn(Behind(op))
    /\ UNCHANGED frames

\* Fault: the address of a method is taken for that of its code.
executeCall_AtHeader ==
    /\ Fetched("call") /\ Len(frames) < MaxFrames
    /\ GoesOn(JumpAddress)
    /\ frames' = <<Behind("call")>> \o frames

\* Fault: the memory is not looked at.
executeCall_Unbounded ==
    /\ Fetched("call")
    /\ GoesOn(JumpAddress + 5)
    /\ frames' = <<Behind("call")>> \o frames

executeCall ==
    /\ Fetched("call") /\ Len(frames) < MaxFrames
    /\ GoesOn(JumpAddress + 5)
    /\ frames' = <<Behind("call")>> \o frames

executeCallOverflow == Fetched("call") /\ Len(frames) = MaxFrames /\ Throws(Behind("call"))

executeRet ==
    /\ Fetched("ret") /\ frames # <<>>
    /\ GoesOn(Head(frames))
    /\ frames' = Tail(frames)

\* An internal error, in either context.
executeRetWithoutFrame ==
    /\ Fetched("ret") /\ frames = <<>>
    /\ PC' = Behind("ret") /\ started' = PC
    /\ exitCode' = 1 /\ thrown' = TRUE /\ report' = InternalReport
    /\ UNCHANGED <<running, frames>>

\* native: print and its kin, and exit.
executeNative ==
    /\ Fetched("native") /\ code[PC + 2].of # "exit"
    /\ GoesOn(Behind("native"))
    /\ UNCHANGED frames

\* exit only sets the exit code; it is the loop that ends, if that is not 0.
executeExit ==
    /\ Fetched("native") /\ code[PC + 2].of = "exit"
    /\ \E status \in ExitStatuses : exitCode' = status
    /\ PC' = Behind("native") /\ started' = PC
    /\ UNCHANGED <<frames, running, thrown, report>>

executeHalt ==
    /\ Fetched("halt")
    /\ running' = FALSE
    /\ PC' = Behind("halt") /\ started' = PC
    /\ UNCHANGED <<frames, exitCode, thrown, report>>

execute ==
    /\ \/ executePlain \/ executeFails \/ executeJump \/ executeNoJump
       \/ executeCall \/ executeCallOverflow \/ executeRet
       \/ executeRetWithoutFrame \/ executeNative \/ executeExit \/ executeHalt
    /\ UNCHANGED loaded
=============================================================================
