----------------------------- MODULE CallStack ------------------------------
(***************************************************************************)
(* The VM's call stack (src/src/vm/memory/CallStackManager.cpp and the     *)
(* instructions of src/src/vm/VM.cpp that use it).  Frames lie in memory,  *)
(* below MaxAddress; each one's link word holds the caller's frame pointer *)
(* and the return address, so `ret` trusts what is in memory.  The number  *)
(* of arguments and locals of each frame is kept outside memory, in        *)
(* frameInfoStack.                                                         *)
(*                                                                         *)
(* A 32-bit word is kept whole in the cell of its first byte, so a 64-bit  *)
(* value takes the cells a and a + Half.  The heap is an environment that  *)
(* raises HP but keeps it below SP, which Heap guarantees.  A program is   *)
(* assumed to store through pointers only where `addrL` took them, into a  *)
(* slot of a frame that is still active, and not to use slot offset 0,     *)
(* which the code takes for a slot although the link lies there.  Module   *)
(* PagedStack has programs that do, and returns that find no frame then.   *)
(***************************************************************************)
EXTENDS Sequences, Frames

CONSTANTS
    HB,         \* heap base, where the heap pointer starts
    MaxAddress, \* 2^32 - 1, where the stack starts
    Methods,    \* methods a program calls
    Sites,      \* addresses that follow a `call` instruction
    Values,     \* 64-bit values a program passes and stores
    Offsets,    \* slot offsets in `loadL` and `storeL` instructions
    HeapTops    \* how far the heap may come up

\* No frame's size wraps: a method has fewer than 2^29 locals.  No
\* instruction names a link as if it were a slot.
ASSUME CallStackAssumption ==
    /\ HB \in Nat /\ MaxAddress \in Nat /\ HB < MaxAddress
    /\ Methods \subseteq Method
    /\ \A m \in Methods : FrameBytes(m) <= MaxAddress
    /\ Sites \subseteq Nat
    /\ Values \subseteq Value
    /\ Offsets \subseteq Int \ {0}
    /\ HeapTops \subseteq HB .. MaxAddress

VARIABLES
    FP,             \* frame pointer: the address of the current frame's link
    SP,             \* stack pointer: the lowest address of the stack region
    HP,             \* heap pointer: the end of the heap region
    PC,             \* program counter
    mem,            \* the words of the stack
    frameInfoStack, \* the method of each active call, outermost first
    callers,        \* history: FP, SP and PC of the caller at each call
    status          \* "running", or the RuntimeErrorType that ended the program

vars == <<FP, SP, HP, PC, mem, frameInfoStack, callers, status>>

Addresses == HB .. MaxAddress

Depth == Len(frameInfoStack)

Current == frameInfoStack[Depth] \* peekFrameInfo

\* The constructor of VM, and HP once the bytecode is loaded.
Init ==
    /\ FP = MaxAddress /\ SP = MaxAddress
    /\ HP = HB
    /\ PC = 0
    /\ mem = [a \in Addresses |-> 0]
    /\ frameInfoStack = <<>>
    /\ callers = <<>>
    /\ status = "running"

\* What write64 leaves at the i-th byte of a slot.
Word(v, i) == CASE i = 0    -> v.low
                [] i = Half -> v.high
                [] OTHER    -> 0

Write64(a, v) == [mem EXCEPT ![a] = v.low, ![a + Half] = v.high]

Read64(a) == [low |-> mem[a], high |-> mem[a + Half]]

\* uint32_t subtraction.
Wrapped(n) == IF n < 0 THEN n + MaxAddress + 1 ELSE n

\* Fault: the second half of the test, against wrapping, is missing.
Overflows_Wraps(m) == Wrapped(SP - FrameBytes(m)) <= HP

\* Fault: HP is not looked at.
Overflows_IgnoresHeap(m) == FrameBytes(m) > SP

\* Fault: `<` for `<=`.
Overflows_ReachesHP(m) ==
    Wrapped(SP - FrameBytes(m)) < HP \/ FrameBytes(m) > SP

\* The frame would reach the heap, or lie below address 0.
Overflows(m) == Wrapped(SP - FrameBytes(m)) <= HP \/ FrameBytes(m) > SP

\* Fault: the locals are not zeroed.
FrameByte_StaleLocals(m, args, link, fp, a) ==
    LET k == (a - fp) \div Slot
    IN  IF a < fp THEN mem[a]
        ELSE Word(IF k = 0 THEN link ELSE args[m.arguments + 1 - k],
                  (a - fp) % Slot)

\* The byte at `a` of the frame of m whose link is at fp: arguments, the
\* first one popped highest; the link; zeroed locals.
FrameByte(m, args, link, fp, a) ==
    LET k == (a - fp) \div Slot
    IN  IF a < fp THEN 0
        ELSE Word(IF k = 0 THEN link ELSE args[m.arguments + 1 - k],
                  (a - fp) % Slot)

\* executeCall with CallStackManager::push, from the call before `site`.
Call(m, args, site) ==
    LET fp   == SP - (m.arguments * Slot + Slot)
        sp   == SP - FrameBytes(m)
        link == [low |-> FP, high |-> site]
    IN  /\ status = "running"
        /\ ~ Overflows(m)
        /\ FP' = fp
        /\ SP' = sp
        /\ mem' = [a \in Addresses |->
                      IF sp <= a /\ a < SP
                      THEN FrameByte(m, args, link, fp, a)
                      ELSE mem[a]]
        /\ frameInfoStack' = Append(frameInfoStack, m)
        /\ PC' = m.entry
        /\ callers' = Append(callers, [FP |-> FP, SP |-> SP, PC |-> site])
        /\ UNCHANGED <<HP, status>>

CallOverflow(m) ==
    /\ status = "running"
    /\ Overflows(m)
    /\ status' = "STACK_OVERFLOW"
    /\ UNCHANGED <<FP, SP, HP, PC, mem, frameInfoStack, callers>>

\* What checkAddressInRegion lets through.
InStack(a) == SP <= a /\ a <= MaxAddress

\* executeRet with CallStackManager::pop.
Ret ==
    /\ status = "running"
    /\ frameInfoStack # <<>>
    /\ InStack(FP) /\ InStack(FP + Half)
    /\ PC' = mem[FP + Half]
    /\ FP' = mem[FP]
    /\ SP' = SP + FrameBytes(Current)
    /\ frameInfoStack' = SubSeq(frameInfoStack, 1, Depth - 1)
    /\ callers' = SubSeq(callers, 1, Depth - 1)
    /\ UNCHANGED <<HP, mem, status>>

RetEmpty ==
    /\ status = "running"
    /\ frameInfoStack = <<>>
    /\ status' = "INTERNAL"
    /\ UNCHANGED <<FP, SP, HP, PC, mem, frameInfoStack, callers>>

\* Fault: off by one at the arguments' end.
ValidOffset_OnePast(o) ==
    /\ frameInfoStack # <<>>
    /\ ~ (o > 0 /\ o > Current.arguments + 1)
    /\ ~ (- o > Current.locals)

\* calculateAndValidateFrameAddress: its test and its result.
ValidOffset(o) ==
    /\ frameInfoStack # <<>>
    /\ ~ (o > 0 /\ o > Current.arguments)
    /\ ~ (- o > Current.locals)

FrameAddress(o) == FP + o * Slot

StoreL(o, v) ==
    /\ status = "running"
    /\ ValidOffset(o)
    /\ InStack(FrameAddress(o))
    /\ mem' = Write64(FrameAddress(o), v)
    /\ UNCHANGED <<FP, SP, HP, PC, frameInfoStack, callers, status>>

\* loadL, storeL or addrL with an offset that is refused, or loadL or
\* storeL with a frame pointer that leads out of the stack.
BadOffset(o) ==
    /\ status = "running"
    /\ ValidOffset(o) => ~ InStack(FrameAddress(o))
    /\ status' = "INTERNAL"
    /\ UNCHANGED <<FP, SP, HP, PC, mem, frameInfoStack, callers>>

\* The frame pointer that the k-th active call had, or has.
FrameOf(k) == IF k = Depth THEN FP ELSE callers[k + 1].FP

\* `store` through a pointer that `addrL` took to slot o of the k-th frame:
\* write64 or, for a 32-bit value, write32.
StorePointer(k, o, v) ==
    /\ status = "running"
    /\ o \in SlotsOf(frameInfoStack[k])
    /\ mem' = Write64(FrameOf(k) + o * Slot, v)
    /\ UNCHANGED <<FP, SP, HP, PC, frameInfoStack, callers, status>>

StorePointer32(k, o, v) ==
    /\ status = "running"
    /\ o \in SlotsOf(frameInfoStack[k])
    /\ mem' = [mem EXCEPT ![FrameOf(k) + o * Slot] = v.low]
    /\ UNCHANGED <<FP, SP, HP, PC, frameInfoStack, callers, status>>

\* The environment: `alloc` raises HP.
GrowHeap(hp) ==
    /\ status = "running"
    /\ HP < hp /\ hp < SP
    /\ HP' = hp
    /\ UNCHANGED <<FP, SP, PC, mem, frameInfoStack, callers, status>>

Next ==
    \/ \E m \in Methods, site \in Sites :
          \E args \in [1 .. m.arguments -> Values] : Call(m, args, site)
    \/ \E m \in Methods : CallOverflow(m)
    \/ Ret \/ RetEmpty
    \/ \E o \in Offsets, v \in Values : StoreL(o, v)
    \/ \E o \in Offsets : BadOffset(o)
    \/ \E k \in DOMAIN frameInfoStack, o \in Offsets, v \in Values :
          StorePointer(k, o, v) \/ StorePointer32(k, o, v)
    \/ \E hp \in HeapTops : GrowHeap(hp)

Spec == Init /\ [][Next]_vars
-----------------------------------------------------------------------------

TypeOK ==
    /\ FP \in Nat
    /\ SP \in Addresses
    /\ HP \in Addresses
    /\ PC \in Nat
    /\ mem \in [Addresses -> Nat]
    /\ frameInfoStack \in Seq(Methods)
    /\ callers \in Seq([FP : Nat, SP : Nat, PC : Nat])
    /\ status \in {"running", "STACK_OVERFLOW", "INTERNAL"}

\* `ret` gives back the registers the caller had, whatever was stored in
\* memory since the call.
RetRestoresCaller ==
    [][Depth' < Depth => /\ FP' = callers[Depth].FP
                         /\ SP' = callers[Depth].SP
                         /\ PC' = callers[Depth].PC]_vars

\* Fault: the return address is read after moving on to the caller's frame.
StackTrace_LinkFirst ==
    LET fp[i \in Nat] == IF i = 1 THEN FP ELSE mem[fp[i - 1]]
    IN  [i \in 1 .. Depth |->
            IF InStack(fp[i + 1]) /\ InStack(fp[i + 1] + Half)
            THEN mem[fp[i + 1] + Half] ELSE 0]

\* The frame pointers that getStackTrace finds by following the links in
\* memory, innermost first.
FramePointers[i \in 1 .. Depth] ==
    IF i = 1 THEN FP ELSE mem[FramePointers[i - 1]]

\* getStackTrace: the return addresses.
StackTrace == [i \in 1 .. Depth |-> mem[FramePointers[i] + Half]]

\* The trace printed for an error names the calls that are active.
TraceNamesCallers ==
    StackTrace = [i \in 1 .. Depth |-> callers[Depth + 1 - i].PC]

\* The frames of the active calls fill the stack region, one below the
\* other, and the stack region stays above the heap region.
FramesFillStack ==
    /\ HP < SP
    /\ \A k \in 1 .. Depth :
          LET m == frameInfoStack[k]
          IN  /\ callers[k].SP = IF k = 1 THEN MaxAddress
                                 ELSE FrameOf(k - 1)
                                      - frameInfoStack[k - 1].locals * Slot
              /\ FrameOf(k) = callers[k].SP - Slot - m.arguments * Slot
    /\ SP = IF Depth = 0 THEN MaxAddress ELSE FP - Current.locals * Slot

\* The call stack keeps the promises of module FrameStack, instruction by
\* instruction: in particular a slot holds the last value stored in it,
\* across calls and returns.
Frames_ ==
    [k \in 1 .. Depth |->
        [method |-> frameInfoStack[k],
         return |-> callers[k].PC,
         slots  |-> [o \in SlotsOf(frameInfoStack[k]) |->
                        Read64(FrameOf(k) + o * Slot)]]]

Promise == INSTANCE FrameStack WITH frames <- Frames_

SameInstruction ==
    /\ \A m \in Methods :
          /\ CallOverflow(m) => Promise!Overflow(m)
          /\ \A site \in Sites, args \in [1 .. m.arguments -> Values] :
                Call(m, args, site) => Promise!Call(m, args, site)
    /\ \A o \in Offsets : BadOffset(o) => Promise!BadOffset(o)
    /\ \A o \in Offsets, v \in Values :
          /\ StoreL(o, v) => Promise!StoreSlot(Depth, o, v)
          /\ \A k \in 1 .. Depth :
                /\ StorePointer(k, o, v) => Promise!StoreSlot(k, o, v)
                /\ StorePointer32(k, o, v) => Promise!StoreLowHalf(k, o, v)

ImplementsFrameStack == Promise!Spec /\ [][SameInstruction]_vars
=============================================================================
