--------------------------- MODULE CompiledProgram --------------------------
(***************************************************************************)
(* Compiled programs at work, beside what their source means: the items    *)
(* that the generator made of a program (AssemblyGenerator) are executed   *)
(* one by one, as the VM would (src/src/vm/VM.cpp), with the evaluator of  *)
(* Language in step.  An instruction that the evaluator can see - an       *)
(* access, an operation, a test, a call, an error - is an event of both;   *)
(* every other one moves the machine alone.                                *)
(*                                                                         *)
(* A value is known by its type and by the line of the instruction that    *)
(* computed it, so whatever the machine reads, tests, passes or returns    *)
(* must be what the source says.  A test may find both truths.             *)
(***************************************************************************)
EXTENDS AssemblyGenerator, Language

CONSTANTS
    Programs,      \* sequence of programs as Compile makes them
    MaxFrames      \* calls that fit the memory

VARIABLES
    program,       \* index of the compiled program
    pc,            \* index of the item that is next
    operands,      \* top first
    frames,        \* innermost first
    globals,       \* their values in the data section
    ended,         \* how the run ended
    source         \* the evaluator

machine == <<pc, operands, frames, globals, ended>>
vars == <<program, machine, source>>

-----------------------------------------------------------------------------
(* What is fixed once a program is compiled. *)
Compile(program_) ==
    LET analysis == processProgram(program_)
    IN [program |-> program_, analysis |-> analysis,
        items |-> IF analysis.ok THEN compileProgram(program_, analysis).items ELSE <<>>]

\* A program with errors is refused.
Compiled == SelectSeq(Programs, LAMBDA p : p.analysis.ok)

Code == Compiled[program].items
Item == Code[pc]

\* Where a label or a method is.
Address(label) ==
    CHOOSE n \in DOMAIN Code : Code[n].kind \in {"label", "method"} /\ Code[n].name = label

\* The declaration of a function, or of none: a builtin's.
Declaration(f) ==
    LET declared == {d \in ToSet(Compiled[program].program.functions) : SymbolOf(d) = f}
    IN IF declared = {} THEN [line |-> -1] ELSE CHOOSE d \in declared : TRUE

-----------------------------------------------------------------------------
(* Values. *)
NoPlace == <<>>
Value(type, line)   == [type |-> type, line |-> line, place |-> NoPlace]
Pointer(place, line) == [type |-> "ptr", line |-> line, place |-> place]
Zeroed == Value("none", Unset)

InitialGlobals ==
    LET data == SelectSeq(Code, LAMBDA i : i.kind = "data")
    IN [label \in {data[i].name : i \in DOMAIN data} |-> Zeroed]

TypeOfGlobal(label) ==
    Code[CHOOSE n \in DOMAIN Code : Code[n].kind = "data" /\ Code[n].name = label].type

\* The slots of a call's frame.
Slots(method, arguments) ==
    [slot \in (- method.locals) .. method.arguments |->
        IF slot > 0 THEN arguments[method.arguments + 1 - slot] ELSE Zeroed]

Load(place) == IF place[1] = "global" THEN globals[place[2]] ELSE frames[Len(frames) + 1 - place[2]].slots[place[3]]

SlotPlace(slot) == <<"slot", Len(frames), slot>>

\* Where an access goes.
Place ==
    CASE Item.op \in {"loadG", "storeG"} -> <<"global", Item.first.of>>
      [] Item.op = "loadL"               -> SlotPlace(Item.second.of)
      [] Item.op \in {"storeL", "addrL"} -> SlotPlace(Item.first.of)
      [] Item.op = "load"                -> Head(operands).place
      [] Item.op = "store"               -> operands[2].place

\* The type a load pushes.
LoadedType ==
    IF Item.op = "loadG" THEN TypeOfGlobal(Item.first.of) ELSE Item.first.of

-----------------------------------------------------------------------------
(* Items that the evaluator does not see. *)
Running == ended = "no"
At(kind) == Running /\ pc <= Len(Code) /\ Item.kind = kind
AtOp(ops) == At("instruction") /\ Item.op \in ops

Silently(stack) ==
    /\ operands' = stack /\ pc' = pc + 1
    /\ UNCHANGED <<program, frames, globals, ended, source>>

executeLabel == At("label") /\ Silently(operands)

executePush ==
    /\ AtOp({"push"})
    /\ Silently(<<IF Item.first.of = "ptr" THEN Pointer(<<"global", Item.second.of>>, Item.line)
                  ELSE Value(Item.first.of, Item.line)>> \o operands)

executeAddrL == AtOp({"addrL"}) /\ Silently(<<Pointer(Place, Item.line)>> \o operands)

executeMove ==
    \/ AtOp({"pop"})  /\ Silently(Tail(operands))
    \/ AtOp({"dup"})  /\ Silently(<<operands[Item.first.of + 1]>> \o operands)
    \/ AtOp({"swap"}) /\ Silently(<<operands[2], operands[1]>> \o Behind(2, operands))
    \/ AtOp({"rotU"}) /\ Silently(SubSeq(operands, 2, Item.first.of) \o <<Head(operands)>>
                                    \o Behind(Item.first.of, operands))

executeConv == AtOp({"conv"}) /\ Silently([operands EXCEPT ![1].type = Item.first.of])

executeJmp ==
    /\ AtOp({"jmp"})
    /\ pc' = Address(Item.first.of)
    /\ UNCHANGED <<program, operands, frames, globals, ended, source>>

\* Calls of scope functions and returns from them are the generator's own.
Entered(label) ==
    LET method == Code[Address(label)]
    IN /\ pc' = Address(label) + 1
       /\ operands' = Behind(method.arguments, operands)
       /\ frames' = <<[return |-> pc + 1, type |-> method.type,
                       slots |-> Slots(method, operands),
                       below |-> Len(operands) - method.arguments]>> \o frames

Left ==
    /\ pc' = Head(frames).return
    /\ frames' = Tail(frames)

executeScopeCall ==
    /\ AtOp({"call"}) /\ IsScopeCall(Item) /\ Len(frames) < MaxFrames
    /\ Entered(Item.first.of)
    /\ UNCHANGED <<program, globals, ended, source>>

executeScopeRet ==
    /\ AtOp({"ret"}) /\ frames # <<>> /\ Head(frames).type = "SCOPE"
    /\ Left
    /\ UNCHANGED <<program, operands, globals, ended, source>>

\* A stack overflow: an error of the VM, of which the source knows nothing.
executeCallOverflow ==
    /\ AtOp({"call"}) /\ Len(frames) = MaxFrames
    /\ ended' = "overflow"
    /\ UNCHANGED <<program, pc, operands, frames, globals, source>>

-----------------------------------------------------------------------------
(***************************************************************************)
(* Events: what the instruction does, to how many operands, in the words   *)
(* of Language.                                                            *)
(***************************************************************************)
Loads     == {"load", "loadL", "loadG"}
Stores    == {"store", "storeL", "storeG"}
Operators == {OpcodeOf(op) : op \in BinaryOperator \ LogicalOperator} \cup {"not"}

\* Whether the evaluator is about to do what the next item does.
Does(what) == NextEvent(source).do = what
SameLine == NextEvent(source).line = Item.line

OpcodeOfEvent ==
    IF NextEvent(source).op = "BITWISE_NOT" THEN "not" ELSE OpcodeOf(NextEvent(source).op)

Matches ==
    CASE Item.op \in Loads           -> Does("read") /\ SameLine
      [] Item.op \in Stores          -> Does("assign") /\ SameLine
      [] Item.op \in {"jez", "jnz"}  -> Does("test") /\ SameLine
      [] Item.op \in Operators       -> Does("apply") /\ SameLine /\ OpcodeOfEvent = Item.op
      [] Item.op = "call"            ->
            Does("call") /\ SameLine /\ LabelOf(NextEvent(source).f) = Item.first.of
      [] Item.op = "ret"             -> Does("return") /\ SameLine
      [] Item.op = "throw"           -> Does("throw") /\ SameLine
      [] Item.op = "halt"            -> Does("end")

IsEventItem ==
    /\ At("instruction")
    /\ \/ Item.op \in Loads \cup Stores \cup {"jez", "jnz", "throw", "halt"} \cup Operators
       \/ Item.op = "call" /\ ~ IsScopeCall(Item)
       \/ Item.op = "ret" /\ (frames = <<>> \/ Head(frames).type = "USER")

Event(ops) == IsEventItem /\ Item.op \in ops /\ Matches

Happens(truth, f) ==
    source' = UpToEvent(Happened(source, truth, f), Compiled[program].analysis.notes)

JustHappens == Happens(TRUE, NoFunction)

executeLoad ==
    /\ Event(Loads)
    /\ operands' = <<[Load(Place) EXCEPT !.type = LoadedType]>>
                     \o (IF Item.op = "load" THEN Tail(operands) ELSE operands)
    /\ pc' = pc + 1 /\ JustHappens
    /\ UNCHANGED <<program, frames, globals, ended>>

\* storeG wants the type of the data, an operator one type (float operands of
\* bitwise operators are not compiled).
TypesAccepted ==
    CASE Item.op = "storeG" -> Head(operands).type = TypeOfGlobal(Item.first.of)
      [] Item.op \in Operators \ {"not", "shl", "sar", "shr"} -> operands[1].type = operands[2].type
      [] OTHER -> TRUE

executeStore ==
    /\ Event(Stores) /\ TypesAccepted
    /\ IF Place[1] = "global"
       THEN /\ globals' = [globals EXCEPT ![Place[2]] = Head(operands)]
            /\ UNCHANGED frames
       ELSE /\ frames' = [frames EXCEPT ![Len(frames) + 1 - Place[2]].slots[Place[3]] = Head(operands)]
            /\ UNCHANGED globals
    /\ operands' = Behind(IF Item.op = "store" THEN 2 ELSE 1, operands)
    /\ pc' = pc + 1 /\ JustHappens
    /\ UNCHANGED <<program, ended>>

ResultType == IF Item.op \in {"ceq", "cne", "clt", "cle", "cgt", "cge"} THEN "ui32"
              ELSE operands[IF Item.op = "not" THEN 1 ELSE 2].type

executeOperator ==
    /\ Event(Operators) /\ TypesAccepted
    /\ operands' = <<Value(ResultType, Item.line)>> \o Behind(IF Item.op = "not" THEN 1 ELSE 2, operands)
    /\ pc' = pc + 1 /\ JustHappens
    /\ UNCHANGED <<program, frames, globals, ended>>

\* An internal error: the operands are gone.
executeRefused ==
    /\ Event(Operators \cup {"storeG"}) /\ ~ TypesAccepted
    /\ operands' = Behind(IF Item.op = "storeG" THEN 1 ELSE 2, operands)
    /\ ended' = "internal"
    /\ UNCHANGED <<program, pc, frames, globals, source>>

executeBranch ==
    /\ Event({"jez", "jnz"})
    /\ \E truth \in BOOLEAN :
          /\ pc' = IF truth = (Item.op = "jnz") THEN Address(Item.first.of) ELSE pc + 1
          /\ Happens(truth, NoFunction)
    /\ operands' = Tail(operands)
    /\ UNCHANGED <<program, frames, globals, ended>>

executeCall ==
    /\ Event({"call"}) /\ Len(frames) < MaxFrames
    /\ LET f == NextEvent(source).f
       IN IF f.builtin
          THEN pc' = pc + 1 /\ operands' = Behind(Len(f.parameters), operands) /\ UNCHANGED frames
          ELSE Entered(Item.first.of)
    /\ Happens(TRUE, Declaration(NextEvent(source).f))
    /\ UNCHANGED <<program, globals, ended>>

executeRet ==
    /\ Event({"ret"}) /\ frames # <<>> /\ Left /\ JustHappens
    /\ UNCHANGED <<program, operands, globals, ended>>

executeEnd ==
    /\ Event({"halt", "throw"})
    /\ ended' = Item.op
    /\ UNCHANGED <<program, pc, operands, frames, globals, source>>

HasEnded == ~ Running /\ UNCHANGED vars

execute ==
    \/ executeLabel \/ executePush \/ executeAddrL \/ executeMove \/ executeConv \/ executeJmp
    \/ executeScopeCall \/ executeScopeRet \/ executeCallOverflow
    \/ executeLoad \/ executeStore \/ executeOperator \/ executeRefused \/ executeBranch
    \/ executeCall \/ executeRet \/ executeEnd

Init ==
    /\ program \in DOMAIN Compiled
    /\ pc = 1 /\ operands = <<>> /\ frames = <<>> /\ globals = InitialGlobals /\ ended = "no"
    /\ source = UpToEvent(Begun(Compiled[program].program), Compiled[program].analysis.notes)

Next == execute \/ HasEnded
Spec == Init /\ [][Next]_vars

-----------------------------------------------------------------------------
(***************************************************************************)
(* Properties.                                                             *)
(***************************************************************************)
TypeOK ==
    /\ program \in DOMAIN Compiled /\ pc \in 1 .. Len(Code)
    /\ Len(frames) <= MaxFrames
    /\ ended \in {"no", "halt", "throw", "overflow", "internal"}
    /\ \A i \in DOMAIN operands : operands[i].type \in {"i32", "ui32", "f32", "ptr"}

\* Whatever the machine is about to do that can be told is what the source
\* does next, for the same line: the right operation, test, access, function,
\* return or end.  The generator (AssemblyGenerator.cpp) spreads every loop,
\* branch and short circuit over labels and jumps, and moves blocks and loops
\* of the global scope into functions of their own (:310, :567).  No function
\* runs into the code behind it.
FollowsSource == ~ At("METHOD_DEF_END") /\ (IsEventItem => Matches)

\* What the item works on, the last operand first.
ItemValues ==
    CASE Item.op \in Stores \cup {"jez", "jnz"} -> First(1, operands)
      [] Item.op \in Operators \cup {"call"} -> First(NextEvent(source).n, operands)
      [] Item.op = "ret" -> First(NextEvent(source).n, operands)
      [] OTHER -> <<>>

Agree(values, meant) ==
    /\ Len(values) = Len(meant)
    /\ \A i \in DOMAIN meant : meant[i].line \in {Unset, values[i].line}

\* Every operation, test, assignment, call and return gets the values that the
\* source gives it.  They wait on the operand stack, over other operations,
\* calls and jumps, and a loop keeps up to five values there (:827), reached by
\* their depth.
OperandsAgree ==
    IsEventItem /\ Matches /\ ~ (Item.op \in Loads) => Agree(ItemValues, EventValues(source))

\* A variable holds what was last assigned to it, in the scope that the name
\* has there (docs/Language/Semantics.md 5.4), although its slot is shared with
\* variables of other blocks (SymbolTable.h:122) and a name is looked up anew
\* whenever it is compiled (:2280).
ReadsAgree ==
    IsEventItem /\ Matches /\ Item.op \in Loads => Agree(<<Load(Place)>>, EventValues(source))

\* Every operation, assignment, call and return gets values of the types that
\* docs/Language/Semantics.md (3.7, 6) has them converted to: an assignment the
\* declared type of its variable, whatever its slot held before
\* (SymbolTable.h:122), a call the types of the parameters.  A variable is read
\* in its declared type.  Where a conversion is missing, the VM ends the program
\* with an internal error (ArithmeticOps.cpp:394) or takes the bytes for another
\* type's.  The two cases in which the compiler is known to miss one, and what
\* is computed from them, are not exact.
TypesAgree ==
    IsEventItem /\ Matches =>
        LET meant == EventValues(source)
            types == EventTypes(source)
        IN IF Item.op \in Loads THEN LoadedType = toAssemblyType(types[1])
           ELSE (\A i \in DOMAIN meant : meant[i].exact) =>
                    \A i \in DOMAIN meant : ItemValues[i].type = toAssemblyType(types[i])

\* Nothing is left behind: a method returns with the operands its caller had
\* and its result, a scope function with those alone, and the program ends
\* with no operand and no frame.
StacksBalanced ==
    /\ AtOp({"ret"}) /\ frames # <<>> =>
        Len(operands) = Head(frames).below
                          + IF Head(frames).type = "USER" /\ Does("return") THEN NextEvent(source).n ELSE 0
    /\ AtOp({"halt"}) => operands = <<>> /\ frames = <<>>
=============================================================================
