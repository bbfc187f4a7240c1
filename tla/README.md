# Verification of the Simple Virtual Language toolchain

A TLA+ development of the compiler, assembler and virtual machine in `src/`.
Modules are translated from the C++ source; where the documentation under
`docs/` promises something, the promise is a separate abstract module or a
property, and the runs compare the two. All paths below are relative to the
repository.

## 1. The system

A program is compiled (`svc`) to assembly, assembled (`sva`) to bytecode, and
run by a stack machine (`svm`); `sv` does all three in one process
(`src/Driver.cpp`). Everything is sequential: no threads, no callbacks, no
persistent state. What is hard is that the parts agree on numbers without ever
meeting: a compiler that counts slots, an emitter and an assembler that count
bytes, a heap and a stack that grow into the same memory, a page table under
both, and raw 64-bit values read as numbers of seven types.

| component | source | state | operations | must be right |
|---|---|---|---|---|
| Driver | `src/Driver.cpp`, `src/compiler/Compiler.cpp` | command line | read, call the stages, report | stages in order, exit status |
| Tokeniser, Parser | `src/compiler/Tokeniser.cpp`, `Parser.cpp` | position, precedence table | one function per production | the grammar of `docs/Language` |
| Semantic analyser | `src/compiler/semantic/` | scope stack, next slot, overload sets, loop depth, type registry | enter and leave scope, declare, resolve, analyse each node | slots of live variables distinct; resolution unambiguous; no valid program rejected by a crash |
| Optimiser | `src/compiler/optimiser/` | none | fold constants bottom-up | folded value = value the VM would compute |
| Assembly generator | `src/compiler/codegen/AssemblyGenerator.cpp` | current function, label counters, loop labels, list of scope functions | one visit per node | every `call` has its label; operand stack and frames balanced on every path, `break` and `continue` included |
| Assembly emitter | `src/compiler/codegen/AssemblyEmitter.cpp` | text, address, line and function tables | emit functions, data, metadata | its addresses are the assembler's; merged line entries cover the same addresses |
| Builtins | `src/compiler/codegen/Builtins.*` | none | assembly texts | |
| Assembly lexer, parser | `src/assembler/Lexer.cpp`, `Parser.cpp` | position | statements | order of sections, operand checks |
| Assembler | `src/assembler/Assembler.cpp` | label table, unresolved references, code and data lengths; then bytecode | pass 1: addresses; pass 2: bytes | every reference is the address where its definition's bytes are |
| Bytecode loader, run loop | `src/vm/VM.cpp` | PC, registers, exit status | load, fetch, execute, halt | instructions decode as assembled; `halt`, `exit` and errors end the program |
| Operand stack | `src/vm/OperandStack.*` | values | push, pop, dup, swap, rot | errors at the limits, order of operands |
| Arithmetic, conversions | `src/vm/ArithmeticOps.cpp`, `TypeConversions.cpp`, `OperandStack.h` | none | 19 instructions and `conv` | the number the documentation names, for every type |
| Memory manager | `src/vm/memory/MemoryManager.cpp` | page table, region bounds | read and write 8, 32, 64 bits in a scope | what is written is read; code cannot be changed |
| Heap manager | `src/vm/memory/HeapManager.cpp` | free list, HP | alloc, free | nothing shared, lost or refused without need |
| Call stack manager | `src/vm/memory/CallStackManager.cpp` | FP, SP, frameInfoStack | call, ret, slots, trace | callers restored, locals zero, trace names the calls |
| Runtime error handler | `src/vm/RuntimeErrorHandler.cpp` | line and function tables | report | the line of the failing instruction |
| Native functions | `src/vm/NativeFunctionManager.h` | output | print, exit | |

Interactions: the generator's output reaches the assembler as text; the
assembler's output reaches the VM as bytes in memory; in the VM all managers
share one memory and the registers HP, SP, FP and PC. The heap reads SP and
the call stack reads HP before it grows. An error raised anywhere throws
through the instruction to the run loop, which reports and ends.

## 2. Modules

`X` is the model, `MCX` its instances for TLC, `XProofs` its theorems.
Operators named `X_Y` after a definition `X`, marked *Fault*, are not part of
a model: each is `X` with a plausible mistake, and a run must notice when it
takes the place of `X`.

The modules form three groups, which meet where the programs do:

    source tree --SemanticAnalyser--> tree with types --AssemblyGenerator--> items
    items --AssemblyEmitter--> statements --Assembler--> bytes --Execution--> the run
    Heap, CallStack, PagedMemory, OperandStack: what an instruction does to values

`ConstantFolder` rewrites the tree between the two steps of the first line, and
`FoldedProgram` compares what comes out with and without it. `CompiledProgram`
runs the items beside the meaning of the source; `Toolchain` takes items through the second line to the end of a run.

### The compiler

**SourceProgram, Language.** `SourceProgram` is the syntax tree the parser
makes, a record per node. `Language` is the promise: an evaluator on the tree
itself, after `docs/Language/Semantics.md`, with scopes that open and close
while it runs, with the types that the document gives to expressions (3.7, 6),
parameters and variables, and no slots or jumps. It goes from one event (an
access to a variable, an operation, a test, a call, a return, an error, the
end) to the next. A value is its type and the line of the node that computed
it, and what a test decides is a parameter. A value is marked as not exact
where the compiler is known to give it another type than the document (the
sign of a char, `?:` of an int and a char), and so is what is computed from it,
up to the next assignment, argument or cast.

**Builtins, SymbolTable, SemanticAnalyser, AssemblyGenerator** are functions
of the program, in the order of `Compiler::compile`: the tree of scopes with
slots (`assignSlotsToLocalSymbols`: siblings share), overloads
(`resolveFunction`), the type of every expression, and the items for every node
with their labels, conversions and scope functions (blocks and loops of the
global scope become functions that are compiled after the rest). A node is
compiled once, so the code's label counters are left out and a label is named
after its node. Arrays are left out.

**FloatNumbers, ConstantFolder, FoldedProgram.** `ConstantFolder` is the
optimiser, a function from the analysed tree to the folded one, with the
conversions of each statement and the errors as nodes. An int or a char has
`Width` bits; a float is a count of sixteenths with `Mantissa` significant bits,
rounded to even after every operation, which is what makes `//` on integers
and conversions differ (`FloatNumbers`). `FoldedProgram` compiles one function
twice, from the plain and from the folded tree, executes both with numbers
(`RawValues`, with its stray bits, and `FloatNumbers`), and compares the operand
stack, the slots, the calls with their arguments and the way of ending. A call
is noted and not entered. Where the two are known to differ is a predicate on
the program, each named after its reason: `RightDecides`, `SignsMixed`,
`SignOfChar`, `DividesAsFloats`, `TypeLost`, `StrayBits`, `ConvertedEarly`,
`RangeConverted`, `LosesDecimals`. A tenth, `RefusesUnreached`, names the
programs with a constant division by zero that they may not come to: those may
be refused when compiled, and must otherwise do the same. `FoldingKeepsOutcome`
says that nothing else differs; without any one of the ten the run fails.

**CompiledProgram** executes the items one by one: `operands`, `frames` with
slots, `globals`, `pc`. Each action is one or a few opcodes. An instruction
that the evaluator can see is an event of both, every other one (`push`,
`dup`, `conv`, `jmp`, calls of scope functions) moves the machine alone. The
machine takes a value for its type and the line that computed it; a
conditional jump may go both ways, and the evaluator goes along. An operator on
operands of two types, and `storeG` of another type than the variable's, end
the program with an internal error (`executeRefused`), as in the VM.
`TypesAgree` compares the types on the stack, and the type in which a variable
is loaded, with the evaluator's: those that the document has the values
converted to, and the declared type of the variable, not what its slot held
before. It says nothing of a value that is not exact.

### The path of a program

**AssemblyCode, AssemblyEmitter** turn items into statements, one action per
item, keeping `currentAddress`, which the code computes operand by operand,
apart from the assembler; then the line and function tables, merged as
`emitLineMetadata` merges them, the data and the builtins in use. `origin` is
a history variable: the line and function of each statement.

**Assembler** is the parser's decisions (regions, operands), then
`constructLabelTable` and `assembleCode`, statement by statement: label table,
unresolved references, `numberOfBytes...` of each section in pass one; bytes
and header in pass two; every error of both is `pass = "error"`. A number, a
text or an opcode in the bytes is one unit at its first byte, with its width,
so that reading it at a wrong place or width gives `Garbage`. The length of a
data definition keeps its `uint8_t`.

**Execution** is `VM::readBytecode`, the run loop and `RuntimeErrorHandler`:
metadata read entry by entry up to the header's addresses, fetch, operand
sizes, jumps, `call`, `ret`, `exit`, `halt`, errors and the report. Values are
left out: a conditional jump may jump or not, an instruction that can fail may
fail. **Toolchain** composes the three as `Driver.cpp` calls them, for
compiled programs (`sv`) and for text written by hand (`sva`).

### The machine

**HeapBlocks, Heap, Allocator.** `Heap` is `HeapManager`: `freeList` is the
linked list, in order; `Alloc`, `AllocZero`, `AllocOutOfMemory` and
`AllocWrapped` are the outcomes of `allocateBlock` (first fit, test against
SP, header, zeroing, HP, remainder), `Dealloc` is `deallocateBlock` with both
merges, `Store` a `storeB` into a held block. `live` is a history variable.
`Allocator` is what a program may rely on: a new block is disjoint from those
held, holds zeros and keeps what is stored. `RefusedOnlyWhenFull` adds that
`alloc` fails only when no address could hold the block. `AllocWrapped` is the request whose size plus header
wraps 2^32: the block gets fewer bytes than its header and zeroing runs past
HP, where `write8` throws.

**Frames, CallStack, FrameStack.** `CallStack` is `CallStackManager` and the
instructions `call`, `ret`, `loadL`, `storeL`, `addrL` of `VM.cpp`: frames lie
in `mem`, and `Ret` takes FP and PC from there, but the frame's size from
`frameInfoStack`. `StorePointer` stores through an address that `addrL` gave.
`callers` is a history variable. `FrameStack` is the promise: a stack of
method activations with slots that hold the last value stored, locals that
start as zero.

**MemoryLayout** composes `Heap` and `CallStack` over one `mem`, `HP` and
`SP`. What each of the two assumes of its environment (`MoveSP`, `GrowHeap`)
is here what the other does. Its properties are that the heap and the stack
still implement `Allocator` and `FrameStack`.

**Pages, PagedMemory.** `Pages` is how a value's bytes reach a page and come
back: a write takes the page of its first byte and runs on past that page's
array (undefined in C++: every outcome that leaves other pages' bytes
arbitrary), a read wraps around in the page. `PagedMemory` adds the regions
(`checkAddressInRegion`) and the loader, beside a flat memory for comparison.

**PagedStack** is the call stack again, over `Pages`: links, arguments and
locals as bytes. SP starts at 2^32-1, so every slot begins at an address
congruent to 7 modulo 8, and one slot in 512 lies in two pages. Until such a
slot is written PagedStack implements `CallStack`; after that, returns go
wrong.

**ValueTypes, RawValues, OperandStack, ValueStack.** `RawValues` is
`ArithmeticOps`, `TypeConversions` and `Value`: operations on raw 64-bit values
tagged with a type. `OperandStack` is the stack and the instructions over it.
`ValueStack` is `docs/SVM/Instruction-Semantics.md`: typed numbers and
arithmetic that wraps. A 32-bit value is modelled at `2^Width` bits and a
64-bit one at twice that. Floating-point types are left out here.

Bits above a 32-bit value ("stray" bits) enter the stack in two ways, and
`StrayBitsEnter` says that there is no third: `not` negates all 64 bits, and
`loadL` (`LoadL(t, word)`) reads the 64 bits of a slot whatever its type.
Exploration goes on with such values on the stack.

The refinements are checked instruction by instruction: `SameRequest` and
`SameInstruction` say that a step which the code takes for an instruction is
one the promise allows for that same instruction, not for some other one.

For the operand stack the refinement is not true of `Spec`: there are
instructions that do not compute what the document says. `StepsOfValueStack`
is the refinement of every instruction but these, `Departs` names the operands
on which they depart, and without any one of its five lines the run fails:

- `ceq` and `cne` compare raw values, and one number has two of them
  (`ArithmeticOps.cpp:527`; `Instruction-Semantics.md:679`);
- so do `clt`, `cle`, `cgt` and `cge` of unsigned values with stray bits;
- `div` and `mod` of the least number by -1 end the process, where `:545` asks
  for a remainder, and a divisor that is zero but for its stray bits is taken
  for not zero, so that the process ends and no error is reported;
- `shr` shifts stray bits down into the number;
- `sar` of a ui32 does not copy the top bit (`ArithmeticOps.cpp:505`), that of a
  ui64 does.

The operand of `dup`, `rotD` and `rotU` is cut to its low byte (`VM.cpp:402`,
431, 449): the promise is asked for the depth that is left (`Depth`).

## 3. Runs

Fairness is assumed in one place: `Toolchain!Spec` has `WF_vars(Builds)`. The
emitter, the assembler and the loader are loops over finite sequences in one
process, which nothing but their end stops, so a step that is enabled is taken.
The program that runs afterwards is arbitrary and has no fairness; it may loop
for ever. `CompiledProgramsRun` is the liveness property: what the generator
made is never refused by the assembler and reaches the VM. The other
specifications state no fairness, for no component there is bound to be called.
Deadlock checking is off where the model ends, as the VM does, with an error
status; in `Toolchain` and `CompiledProgram` it is on and the end is a step of
its own, so that a machine which is stuck before it is reported.

| run | question | bounds |
|---|---|---|
| MCHeap | Do `alloc` and `free` keep the list sorted and coalesced, blocks apart, nothing lost, headers intact, the heap below the stack; is it an `Allocator`; is a request refused only when nothing could hold it? | eleven cells, requests of 0, 1, 2 and too many bytes, a stack top that comes and goes. Up to five blocks at once: all four merge cases, remainders of 0, 1 and more, refusal by SP, wrap |
| MCCallStack | Do returns restore the caller, does the trace name the calls, do frames tile the stack; is it a `FrameStack`? | 39 bytes, frames of 8 to 24 bytes, three methods, two sites, four deep; HP may come up once, so that both halves of the overflow test decide |
| MCMemoryLayout | Do heap and stack in one memory disturb each other? | 28 bytes, of which blocks and frames compete for all |
| MCPagedMemory | Do reads agree with a flat memory, as long as no write has straddled pages; is code read-only? | three pages of three bytes, values of one and two |
| MCPagedStack | Is the paged stack a `CallStack` as long as no slot has straddled; does SP stay in the region and agree with the frames, also when a program stores over links (offset 0)? | pages of four slots, base-16 bytes, six slots: frames before, on and behind a page's end |
| MCPagedStackDoc | Does `ret` always restore the caller? **No.** | same |
| MCOperandStack | Does every instruction compute the documented number, on operands with stray bits or without, but for the named departures; do moves lose nothing; are `not` and `loadL` alone in bringing stray bits? | all pairs of numbers of all types at 2 and 4 bits; words of a slot with one stray bit and with all; stacks of four, where more than two values are of two kinds (`Explored`); a "byte" of three bits |
| MCToolchain | Do references name their bytes and both passes count alike; do the loaded tables blame every instruction on its line and function; does PC stay on instructions; does a report name the failing source; does every compiled program get to run? | two compiled programs (overloads, builtins that need others, a `for` with a step, scope functions, `exit`, division) and ten texts by hand: operands of every width, data of every kind, own tables, none, a `ret` without a frame, and one text for each error of the assembler; two frames, exit statuses 0 and 1 |
| MCCompiler | Does the compiled program do what its source means: the same operations in the same order on the same values, each variable read with its last value and in its declared type, operands converted to the documented types, stacks balanced? | six programs with every kind of node but arrays: nested and sibling blocks at global scope and in functions, loops with and without step and declaration, nested, with `break` and `continue`, recursion, overloads, prefix, postfix and compound operators, every conversion, sibling blocks of different types in one slot, signs of chars and `?:` of two types, which have conversions missing, a missing return; every outcome of every test; four frames |
| MCCompilerShadow | Does a name mean the declaration made before it? **No**, if its block declares it later. | one program |
| MCConstantFolder | Does a program do the same with the optimiser as without, except in the named cases? | some 2400 functions and blocks, on two inputs of opposite signs and truth: each operator on every pair of seven constants of three types (near the limits, not exact as floats, chars with the sign bit), mixed with variables and nested; each statement that converts; every conditional and short circuit with constant and variable parts; divisions by zero that one of the inputs does not reach; 8-bit integers, 5-bit mantissas, decimals of an eighth |
| MCConstantFolderDoc | Is only folded what does not depend on operands that are not constant? **No**: `b && true` and `b \|\| false` are folded. | four functions |

Why small bounds are enough: heap decisions compare neighbours, one request
and SP, so five blocks show every relation among a freed block, its two
neighbours and a bystander; a frame interacts with its caller's frame and with
HP only; a page with the next one; the operand stack's instructions read a
fixed number of values. The compiler is compositional: code of a node depends
on the kinds of its children and its enclosing function, loop and scope, and
the programs nest each kind in the others that it can tell apart. The
assembler and the tables treat statements one after the other; the texts have
each kind of statement before and behind others that change the same count.
Arithmetic at two and four bits has the same cases
(wrap, sign, least integer by -1, shift amounts of at least the width) as at 32
and 64. The folder treats a node by the kinds, types and constancy of its parts,
and eight bits with a mantissa of five have integers that are exact as floats
and others that are not, as 32 and 24 have. The theorems below do not have bounds.

### Disagreements between code and documentation

Three are shown by runs: values across pages
(`MemoryManager.cpp:52` and `:99`; recursion some 170 calls deep ends in an
internal error), the read of a global that binds to a local declared later
(`AssemblyGenerator.cpp:2281` and `docs/Language/Semantics.md:332`), and the
folding of `x && true` to `true` and of `x || false` to `false`, whatever `x`
is, calls in it included (`ConstantFolder.cpp:256`, `:280` and
`docs/SVC/Optimisation/Constant-Folder.md:29`).

Met and modelled as the code has them:

- a request whose size plus header wraps 2^32 becomes a tiny block and ends in
  an internal error, not in an OutOfMemoryError (`HeapManager.cpp:21` and
  `docs/SVM/Runtime-Errors.md:224`);
- the departures of `OperandStack` listed above. One reaches the language:
  `not` negates all 64 raw bits of a 32-bit value (`ArithmeticOps.cpp:379`), so
  `~y == -1` is false for `y = 0`, and true when it is folded;
- `storeL` takes offset 0 in bytecode. The assembler refuses the spelling `0`
  (`assembler/Parser.cpp:606` compares the text) but not `00` or `-0`; in
  `Assembler` a number has one spelling;
- `exit(0)` does not end the program (`VM.cpp:69`);
- an error in the text of a builtin, such as a stack overflow under `println`,
  has no report at all (`RuntimeErrorHandler.cpp:48`);
- an overload with more parameters than an earlier one of its name makes the
  compiler throw (`SymbolTable.cpp:37`, `at`);
- a `for` in a user function calls a scope function that is never compiled
  (`AssemblyGenerator.cpp:568`): the assembler refuses the program;
- `break` and `continue` in a `while` of the global scope leave the frame of
  the scope function they jump out of (`AssemblyGenerator.cpp:1076`);
- a local without initialiser starts with what a sibling scope left in its
  slot (`SymbolTable.h:122`); `ReadsAgree` says nothing of reads before the
  first assignment;
- the sign of a char is an int for the analyser, as the document has it, but the
  generator gives its operand no conversion (`SemanticAnalyser.cpp:661`,
  `AssemblyGenerator.cpp:1359`): the value stays a ui32, which an operator beside
  an int and a store into a global int refuse with an internal error;
- `?:` of an int and a char is an int in `docs/Language/Semantics.md` 6.10 and in
  the comment above the code (`SemanticAnalyser.cpp:1047`), and a char in the code
  (`:1066`).

The programs of MCCompiler have the last two of these, marked as not exact, and
none of the three before.

What the optimiser changes, beside `x && true` and `x || false`:

- a range with an end that is not constant aborts the compiler with an
  exception that nobody catches (`ConstantFolder.cpp:51`), and a float in a
  range is cut to an int, also when the loop variable is a float;
- `x //= 0.5` with an int x is a division by zero: the operand is made an int
  before the operator sees it (`:29`);
- a char is compared as an unsigned number, and an int beside it too: the
  literals meet as C++ numbers (`:507`);
- integers are divided as floats, so `//` is inexact from 2^24 on (`:297`);
- `-c` and `~c` of a constant char are negative ints, where the plain code
  computes without sign (`:222`);
- a branch chosen by a constant condition keeps its own type, against "retains
  the type determined by semantic analysis" of `Constant-Folder.md` 3: a sign
  before it, or an int that the float would have rounded, shows it (`:102`);
- a float is written into the assembly with six decimals
  (`AssemblyEmitter.cpp:223`), and the folder makes floats that need more;
- an operation that would divide by zero is refused when compiled, although the
  program might never reach it.

Seen in the array code,
which is not modelled: a compound assignment to an element loads it with the
array's type (`AssemblyGenerator.cpp:459`), and a `for` over an array stores
elements into the loop variable without conversion (`:967`).

## 4. Theorems

Proved by TLAPS for every value of the constants that satisfies the modules'
assumptions, with no bound on memory, programs or nesting.

| module | theorems |
|---|---|
| HeapProofs | `TypeCorrect`, `ListStaysSorted`, `BlocksStayApart`, `NothingLeaks`, `HeadersSurvive`, `HeapStaysBelowStack`, `NoNeedlessRefusal`, `HeapImplements` |
| CallStackProofs | `TypeCorrect`, `FramesTile`, `RetRestores`, `TraceIsRight`, `FramesImplement` |
| MemoryLayoutProofs | `RegionsStayApart`, `BlocksStayUndisturbed`, `FramesStayUndisturbed` |
| PagedMemoryProofs | `TypeCorrect`, `PagesReadFlat`, `CodeStaysReadOnly` |
| PagedStackProofs | `FramesCountedAlways`, `ImplementsCallStack`, `RetRestores` |
| AssemblerProofs | `PassesCountAlike`, `LabelsRight` |
| ToolchainProofs | `NeverMidInstruction`, `ReadsInstructions`, `LoadsTables`, `CompiledInOrder`, `TablesNameTheirStatements` |

`PagesProofs` has the lemmas about pages that both memories need: division by
the page size, and that an access which ends in its page touches that page's
bytes only. Each module's invariant is `Invariance == Spec => []IInv`, from a
lemma about the initial states, one per action, and one that puts the actions
together.

**HeapProofs** proves the six invariants of `MCHeap`, `RefusedOnlyWhenFull`
and `ImplementsAllocator`. Assumptions: `HeapAssumption` only (base below the
last address, header of at least one byte, requests that fit 32 bits, stack
tops above the base). None of the six is inductive. `IInv` adds to them that
held blocks lie between HB and HP and are disjoint from each other and from the
list, that each block is larger than its header, and that free and held blocks
cover the range (`Whole`): `NothingShared` needs `HeadersIntact`, because
`free` takes its block's size from memory; `HeadersIntact` needs
`NothingShared`, because a store must not reach another block's header; and
merging needs `FreeListSorted`. Two lemmas carry the argument: `TakeKeepsList`
(removing the front of an entry) and `InsertKeepsList` (the four merge cases).
`NoNeedlessRefusal` follows from the invariant: a hole between blocks lies in
one entry (`HoleInOneEntry`), for free addresses are covered and entries do not
touch; the first fit is no later in the list than that entry, hence no higher,
and would have been placed. `HeapImplements` maps each action to the one of
`Allocator` with the same name: the block that first fit chooses is free for
the promise because of `LiveNotFree`, its bytes are zero because all of its
payload was zeroed, and the other blocks keep theirs because the header and the
zeroes fall outside of them.

**CallStackProofs** proves `TypeOK`, `FramesFillStack`, `RetRestoresCaller`,
`TraceNamesCallers` and `ImplementsFrameStack`, for every set of methods,
values, sites and heap movements. `CallStackAssumption` has no 0 among the
offsets: no instruction names the link as a slot, which the assembler
guarantees (`Assembler.cpp`); what a program with offset 0 can do is part of
`PagedStack`. `IInv` says where every frame lies (`Stacked`) and what its link
holds (`Linked`). Neither half is inductive alone: calls keep old links because
the new frame is below them, returns find the caller's frame because the link
still names it. The trace is a recursive function over links in memory;
`LinksLeadOutwards` shows, by the least position at which it could go wrong,
that it meets the frames from the innermost to the outermost. For
`FramesImplement`, `SlotsApart` says that the slots of all active frames are
different words, none of them a link, so that a store changes one slot of the
promise's stack and a call starts with the arguments and zeroes
(`NewFrameSlots`). The refinement is needed as much as the invariants: it is
there that a local which is not zeroed, or one that shares its word with an
argument of the frame below, would show.

**MemoryLayoutProofs** composes the two. Its invariant `LInv` is that of the
heap and that of the call stack, over one memory, HP and SP. A step of one is
for the other a step of the environment that its module assumes:
`WritesBelowStack` and `WritesAboveHeap` bound what the heap and the stack write
to, and `Undisturbed`, in each of the two proof modules, says which writes of
others leave its invariant and its promise alone. So every block keeps its
bytes while calls are made, and every frame its slots while blocks are handed
out and zeroed. `LayoutAssumption` joins the assumptions of the parts.

**PagedMemoryProofs.** The invariant compares pages and flat memory byte by
byte: `Agree` says that every address that no straddling write has reached
(`spoiled`) reads as in the flat memory. `ReadsAgree`, which is about values of
several bytes, is a consequence; it is not inductive, for the bytes of a value
that straddles say nothing about its neighbours. `WrittenByte` is what a write
does to each byte, the arbitrary outcome of the overrun included.
`CodeStaysReadOnly` needs more than the guard on a write's first byte: it rests
on the data region starting behind the code, on HB and SP staying in order behind it,
and on wide writes running upwards only.

**PagedStackProofs** is the refinement from bytes in pages to the words of
`CallStack`. Two parts of the invariant, `Typed` and `Counted`, hold whatever
happens to the bytes, for `frameInfoStack` is not in memory: with them
`FramesCountedAlways` is true also of programs that overwrite links. The third
is that `CallStack`'s own invariant holds of the words as long as nothing is
`spoilt`. A call writes arguments, locals and link one after another, each
through `Written`; `AfterAllWrites` says what the words are when all of a
sequence of writes ended in their pages, and `FrameWords` that these are the
words `CallStack!Call` asks for. The heart is `WordsWritten`: a word or slot
that lies in one page changes the words at its own addresses only, which is
true because all addresses used are congruent to 3 modulo 4 and a page's size is
a multiple of 8; a word that begins at the last byte of its page and is read by
wrap-around is not disturbed either. `DigitsOfWord` shows that little-endian
bytes of any base give the word back. `PagedStackAssumption` asks that a page
holds whole slots and the memory whole pages, as 4096 and 2^32 do.

**AssemblerProofs** is about every sequence of statements. The passes reckon a
statement's bytes in two ways, `Counted` and the length of what is converted;
`OperandBytes`, `InstructionBytes`, `MethodBytes` and `DataBytes` show kind by
kind that they agree, and the last one needs `ShortTexts`, for the length of a
definition is a `uint8_t`. `IInv` then relates `placed`, the label table and
the bytes written: `placed` is a chain in which every statement begins where
the one before it ends. Code is placed at `codeSectionLength` and data at
`codeSectionLength + dataSectionLength`, so this holds only because no data is
counted while code is placed; for that the invariant keeps what the parser has
let through (`AcceptedUpTo`). `CodeFirst`, that instructions come before the
data, is asked for by `docs/SVA/Assembly-Language.md` and enforced by nothing;
it and `ShortTexts` are premises in the properties themselves. In `AsmSpec` the
assembler is on its own and given any text; `Toolchain`, where the runs check
these properties, gives it the emitter's.

**ToolchainProofs** takes the argument from the assembler to the end of the
run: for a text that is `WellFormed`, `FetchesInstructions` holds and what the
loop fetches is what the text says (`ReadsWhatStands`). `WellFormed` is
`CodeFirst` and `ShortTexts`, and that after a label, the beginning of a method
or an instruction which does not leave (`jmp`, `ret`, `throw` and `halt` do)
another instruction comes, labels aside. The assembler checks none of this: a
text without it makes the loop read data, or the five bytes in front of a
method, for instructions. Whether a text is well-formed does not depend on how
it is assembled or run; that a compiled one is so rests on the generator and is
not proved (every text that reaches the VM in `MCToolchain` is, by TLC's
evaluation of `WellFormed` there). `TInv` follows the text through the tools.
While pass 2 writes, `WrittenIn` says that every instruction before `next`
stands at its place: bytes are only ever appended (`HoldsBehind`), and where is
AssemblerProofs' invariant. `CodeLoaded` says that the loader's cut at the
header's `dataEnd` loses none of it. Then `Executing`: while the loop runs, PC
and all return addresses are among the places of instructions. A step keeps
this because the bytes decode to the statement (`InstructionDecodes`), its
operands are as long for the loop as for the assembler (`StepsOver`, a third
count of the same bytes), the statements behind it are placed behind it
(`LeadsOn`, `ChainGrows`), and a label's address is that of a label or method
of the text (`KnownBefore`, `LabelStarts`); a call skips the five bytes.

`LoadsTables` is about the loader's other half: `LoaderReadsEntries` for every
text, compiled or written by hand, that is `Ordered` (`CodeFirst`, `ShortTexts`)
and has nothing but entries and directives behind `METADATA`
(`TablesHoldEntries`; the parser would take instructions there). Entries have no
separators: the loader has three lengths from the header and the length in front
of every string. `Entering` follows pass 2: the metadata written so far is the
entries so far, each at the offset that `EntriesIn` tallies by kind, and
`metadataLength` counts their bytes. Two things make the header's lengths enough.
The parser's regions are ordered (`TablesInOrder`), so that a table's entries
are contiguous (`SectionFound`); and an entry's bytes read back as the entry
with the length that was written (`SourceRead`, `FunctionRead`, `LineRead`),
where `AssemblyCode`'s assumption on texts is used: none but the empty one has no
characters. The loader's readers are recursive functions over positions.
`EntriesEquation` shows that their defining equation has a solution, by the least
position without one; `EntriesAlong` that a reader put on the first of a row of
entries returns the row: a second such argument, over the entries that are left.

`TablesNameTheirStatements` is `TablesBlameTheirStatements` for every program
whose items are as the emitter takes them for granted (`Generated`, in
AssemblyEmitter), with statements of the assembly language and `ShortTexts`: methods and their ends alternate,
data is behind the code, an immediate is as wide as its type in bytecode, the
builtins are known ones. Nothing in the emitter checks this; that the
generator's items are so is not proved, but `MCToolchain` has it as an `ASSUME`
about its programs, which TLC evaluates, and the invariant is what would fail
if, say, the generator chose another C++ type for an immediate. That
the text has its code in front of its data is no premise here but a theorem,
`CompiledInOrder`: only data is behind the generator's directive, and the
emitter inserts the builtins' text in front of it (`Directed`). The argument
joins four counts of the same bytes:

- the emitter's. `Emission` is the invariant of its loop. There are places `q`,
  one for each statement emitted, that follow each other by what the assembler
  will count (`CodeAt`; `ItemCounts` compares the two counts), the emitter's
  address is the last of them, and both tables say of every address in front of
  it what the history variable `origin` says of the statement that stands there
  (`LinesSay`, `FunctionsSay`). A method that is still open is in no table yet, so
  `FunctionsSay` has a case for it. There is one lemma per kind of item
  (`InstructionOn`, `LabelOn`, `MethodOn`, `MarkerOn`, `BehindCode`), and `EmitterOn`
  puts them together; the text of the builtins, which the emitter does not
  count, comes behind all code of the user and moves no place;
- merging. `Merged` is a recursive function over the line table; `Merging` says
  that it says of every address what the table said, and is `Ascending` again,
  by the least position at which it would not;
- writing, assembling and loading. `TextHolds` finds the tables' rows in the text,
  `LoadsTables` in the VM (`LinesAre`, `FunctionsAre`);
- the assembler's own. `PlacesAgree` compares `q` with `placed`, the least statement
  at which they part being impossible, and `LookUpFinds` and `LookUpMisses` say that
  the handler's binary search over an ascending table finds the entry of an
  address, and none where there is none.

Only model-checked:

- what the optimiser does, the analyser and the generator: recursive on the
  syntax tree, which needs induction over data;
- the operand stack and arithmetic (`StepsOfValueStack`). That `OperandStack`
  implements `ValueStack` is not a theorem: it is false in the departures that
  section 2 lists. What is true, the steps outside of them, rests on a library of
  recursive bit operations that the prover's backends cannot take;
- the reports built on the tables (`ReportBlamesFailingSource`), whose traces
  need the call behind each return address, and `Toolchain`'s `TypeOK`;
- liveness (`CompiledProgramsRun`), which rests on ENABLED.

## 5. Not modelled, and the plan

- Arrays in the compiler: literals, indices, bounds checks, iteration, and
  `TypeRegistry`, which interns their types. The instructions they compile to
  (`alloc`, `load`, `store`, `throw`) are in the machine's modules.
- Array initialisers and indices in the optimiser.
- Tokeniser, parser of the language, lexer of the assembly: text without state
  that outlives a token, a matter for tests.
- f64, and of f32 infinities, NaN and the negative zero. TLA+ has no floating
  point: `FloatNumbers` stands for f32 in the comparison of plain and folded
  code; elsewhere both occur as types only.
- Console output, files and command lines.
- `free` of what `alloc` did not return, to which the documentation gives no
  meaning, and stores through pointers to blocks or frames that are gone.

What is left to prove: that the emitter's texts are `WellFormed` if the
generator's items are; that a report's line and trace are those of the
active statements, now that the tables are known to be right
(`ReportBlamesFailingSource`); and that the generator's items are `Generated`,
which is an induction over the syntax tree.
