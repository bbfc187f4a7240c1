----------------------------- MODULE Toolchain ------------------------------
(***************************************************************************)
(* The path of a program from the generator to the end of its run, as the  *)
(* driver takes it (src/src/Driver.cpp:221, src/src/compiler/              *)
(* Compiler.cpp:17): emitter, assembler, loader, run loop.  Files between  *)
(* the tools hold what one wrote for the next.  An .sva file, written by   *)
(* hand, starts at the assembler.                                          *)
(***************************************************************************)
EXTENDS AssemblyEmitter, Assembler, Execution

CONSTANTS
    Programs,      \* what the generator made, as a sequence
    HandWritten,   \* a sequence of assembly: .sva files
    Path           \* of the source file

VARIABLE
    tool           \* "driver", "emitter", "assembler", "vm" or "refused"

vars == <<tool, emitVars, asmVars, vmVars>>

Init == tool = "driver" /\ NewEmitter /\ NewAssembler /\ NewVM

-----------------------------------------------------------------------------
runSV ==
    /\ tool = "driver" /\ tool' = "emitter"
    /\ \E k \in DOMAIN Programs : emitAssembly(Programs[k])
    /\ UNCHANGED <<asmVars, vmVars>>

runSVA ==
    /\ tool = "driver" /\ tool' = "assembler"
    /\ \E k \in DOMAIN HandWritten : assembleString(HandWritten[k])
    /\ UNCHANGED <<emitVars, vmVars>>

Emits == tool = "emitter" /\ emitProgram /\ UNCHANGED <<tool, asmVars, vmVars>>

AssembleEmitted ==
    /\ tool = "emitter" /\ Emitted /\ tool' = "assembler"
    /\ \E text \in Assembly(Path) : assembleString(text)
    /\ UNCHANGED <<emitVars, vmVars>>

Assembles == tool = "assembler" /\ assemble /\ UNCHANGED <<tool, emitVars, vmVars>>

\* The driver prints the AssemblerError and returns 1.
Refuse ==
    /\ tool = "assembler" /\ pass = "error" /\ tool' = "refused"
    /\ UNCHANGED <<emitVars, asmVars, vmVars>>

runVM ==
    /\ tool = "assembler" /\ pass = "done" /\ tool' = "vm"
    /\ readBytecode(bytecode, header)
    /\ UNCHANGED <<emitVars, asmVars>>

Executes == tool = "vm" /\ execute /\ UNCHANGED <<tool, emitVars, asmVars>>

\* The process has ended.
Ended ==
    /\ tool = "refused" \/ (tool = "vm" /\ ~ Looping)
    /\ UNCHANGED vars

Builds == Emits \/ AssembleEmitted \/ Assembles \/ Refuse \/ runVM

Next == runSV \/ runSVA \/ Builds \/ Executes \/ Ended

\* The tools run to their end; the program may wait or loop for ever.
Spec == Init /\ [][Next]_vars /\ WF_vars(Builds)

-----------------------------------------------------------------------------
(***************************************************************************)
(* The statements behind the addresses.  Up to the data, statement i of    *)
(* the text begins at placed[i].                                           *)
(***************************************************************************)
IsCompiled == assemblyIR # <<>>

Instructions == {i \in 1 .. Len(placed) : i <= Len(statements) /\ IsInstruction(statements[i])}

StatementAt(address) == {i \in Instructions : placed[i] = address}

FailingStatement == CHOOSE i \in StatementAt(started) : TRUE

\* The call behind which a return address points.
CallBefore(address) ==
    CHOOSE i \in Instructions : statements[i].op = "call" /\ placed[i] + 5 = address

\* The statements of a kind, and how many there are of statement i's up to it.
EntriesOf(kind) == {i \in 1 .. Len(statements) : statements[i].kind = kind}
Ordinal(i) == Cardinality({j \in EntriesOf(statements[i].kind) : j <= i})

\* What a trace says of statement i.
Blamed(i) == [name |-> origin[i].in, line |-> origin[i].line]

TypeOK ==
    /\ tool \in {"driver", "emitter", "assembler", "vm", "refused"}
    /\ AsmTypeOK
    /\ currentAddress \in Nat /\ item \in Nat
    /\ PC \in Nat /\ Len(frames) <= MaxFrames /\ exitCode \in ExitStatuses \cup {0, 1}

(***************************************************************************)
(* Properties.                                                             *)
(***************************************************************************)
\* The tables that the VM has loaded give every instruction that came from a
\* line that line and, in a function of the user, that function; and no other
\* instruction has a line.  The addresses in them are the emitter's count
\* (AssemblyEmitter.cpp:204), merged (:410), as text, counted again as bytes
\* (Assembler.cpp:488) and cut at the header's fields (VM.cpp:104); the
\* addresses of the instructions are the assembler's.
TablesBlameTheirStatements ==
    tool = "vm" /\ IsCompiled =>
        \A i \in Instructions :
            LET line == LookUp(lineTable, placed[i])
                f    == LookUp(functionTable, placed[i])
            IN IF origin[i].line = NoLine THEN line = NoEntry
               ELSE /\ line # NoEntry /\ line.line = origin[i].line
                    /\ IF origin[i].in = Global THEN f = NoEntry
                       ELSE f # NoEntry /\ f.name = origin[i].in

\* The loader cuts the three metadata sections, whose lengths it knows only
\* from the header, into the entries that were written: entry n of a table is
\* the n-th statement of its kind, and there are no others.
LoaderReadsEntries ==
    tool = "vm" =>
        /\ Len(sourceMetadata) = Cardinality(EntriesOf("source"))
        /\ Len(functionTable) = Cardinality(EntriesOf("function"))
        /\ Len(lineTable) = Cardinality(EntriesOf("line"))
        /\ \A i \in EntriesOf("source") : sourceMetadata[Ordinal(i)].path = statements[i].path
        /\ \A i \in EntriesOf("function") : FunctionStatement(functionTable[Ordinal(i)]) = statements[i]
        /\ \A i \in EntriesOf("line") : LineStatement(lineTable[Ordinal(i)]) = statements[i]

\* The loop never fetches from the middle of an instruction, from a method's
\* header or from data: jumps, calls and returns go where an instruction that
\* the assembler placed begins.
FetchesInstructions ==
    tool = "vm" /\ Looping => StatementAt(PC) # {}

\* A report names the line of the instruction that failed, and its trace the
\* functions of the user that are active, innermost first, each with the line
\* it stands at; the lines of statements outside of functions follow, the
\* innermost first.  Only a failure in the text of a builtin has no report.
\* The handler knows one address behind each of them (RuntimeErrorHandler.cpp:46).
ReportBlamesFailingSource ==
    tool = "vm" /\ thrown /\ IsCompiled =>
        LET active == <<FailingStatement>> \o [k \in DOMAIN frames |-> CallBefore(frames[k])]
            blamed == [k \in DOMAIN active |-> Blamed(active[k])]
            OfUser(trace) == SelectSeq(trace, LAMBDA entry : entry.name # Global)
            Outside(trace) == SelectSeq(trace, LAMBDA entry : entry.name = Global)
        IN IF origin[FailingStatement].in = Builtin THEN report = NoReport
           ELSE /\ report.kind = "language" /\ report.line = blamed[1].line
                /\ OfUser(report.trace) = OfUser(blamed)
                /\ Outside(report.trace) # <<>>
                /\ Head(Outside(report.trace)) = Head(Outside(blamed))

\* What the generator made is assembled: it has every label it refers to, once.
CompiledProgramsRun == (tool = "emitter") ~> (tool = "vm")
=============================================================================
