----------------------------- MODULE FrameStack -----------------------------
(***************************************************************************)
(* What the call stack promises to a running SVM program (Execution-Model  *)
(* 5, Instruction-Semantics 3.4, 3.8, 4.2 and 4.3): a stack of frames, each *)
(* with its own slots and the place to return to, with no frame pointers   *)
(* and no memory.  Module CallStack implements it.                         *)
(***************************************************************************)
EXTENDS Sequences, Frames

CONSTANTS
    HB,         \* heap base, where the heap pointer starts
    MaxAddress, \* 2^32 - 1, where the stack starts
    Methods,    \* methods a program calls
    Sites,      \* addresses that follow a `call` instruction
    Values,     \* 64-bit values a program passes and stores
    Offsets,    \* slot offsets in `loadL` and `storeL` instructions
    HeapTops    \* how far the heap may come up

VARIABLES
    frames, \* the active calls, outermost first
    HP,     \* heap pointer: the end of the heap region
    SP,     \* stack pointer: the lowest address of the stack region
    PC,     \* program counter
    status  \* "running", or the error that ended the program

vars == <<frames, HP, SP, PC, status>>

Top == Len(frames)

Init ==
    /\ frames = <<>>
    /\ HP = HB
    /\ SP = MaxAddress
    /\ PC = 0
    /\ status = "running"

\* The new frame holds the arguments, the one popped first in the highest
\* slot, and zeroed locals.
NewSlots(m, args) ==
    [o \in SlotsOf(m) |-> IF o > 0 THEN args[m.arguments + 1 - o] ELSE Zero]

Call(m, args, site) ==
    /\ status = "running"
    /\ HP + FrameBytes(m) < SP
    /\ frames' = Append(frames, [method |-> m, return |-> site,
                                 slots  |-> NewSlots(m, args)])
    /\ SP' = SP - FrameBytes(m)
    /\ PC' = m.entry
    /\ UNCHANGED <<HP, status>>

\* A call fails only when its frame does not fit above the heap.
Overflow(m) ==
    /\ status = "running"
    /\ HP + FrameBytes(m) >= SP
    /\ status' = "STACK_OVERFLOW"
    /\ UNCHANGED <<frames, HP, SP, PC>>

\* The caller finds its frame as it left it and continues after the call.
Ret ==
    /\ status = "running"
    /\ frames # <<>>
    /\ PC' = frames[Top].return
    /\ SP' = SP + FrameBytes(frames[Top].method)
    /\ frames' = SubSeq(frames, 1, Top - 1)
    /\ UNCHANGED <<HP, status>>

RetEmpty ==
    /\ status = "running"
    /\ frames = <<>>
    /\ status' = "INTERNAL"
    /\ UNCHANGED <<frames, HP, SP, PC>>

\* Only the named slot of the named frame changes: all of it, or the low
\* half when a 32-bit value is stored through a pointer.
StoreSlot(k, o, v) ==
    /\ status = "running"
    /\ o \in SlotsOf(frames[k].method)
    /\ frames' = [frames EXCEPT ![k].slots[o] = v]
    /\ UNCHANGED <<HP, SP, PC, status>>

StoreLowHalf(k, o, v) ==
    /\ status = "running"
    /\ o \in SlotsOf(frames[k].method)
    /\ frames' = [frames EXCEPT ![k].slots[o].low = v.low]
    /\ UNCHANGED <<HP, SP, PC, status>>

\* No slot outside the current frame can be named.
BadOffset(o) ==
    /\ status = "running"
    /\ frames # <<>> => o \notin SlotsOf(frames[Top].method)
    /\ status' = "INTERNAL"
    /\ UNCHANGED <<frames, HP, SP, PC>>

GrowHeap(hp) ==
    /\ status = "running"
    /\ HP < hp /\ hp < SP
    /\ HP' = hp
    /\ UNCHANGED <<frames, SP, PC, status>>

Next ==
    \/ \E m \in Methods, site \in Sites :
          \E args \in [1 .. m.arguments -> Values] : Call(m, args, site)
    \/ \E m \in Methods : Overflow(m)
    \/ Ret \/ RetEmpty
    \/ \E k \in DOMAIN frames, o \in Offsets, v \in Values :
          StoreSlot(k, o, v) \/ StoreLowHalf(k, o, v)
    \/ \E o \in Offsets : BadOffset(o)
    \/ \E hp \in HeapTops : GrowHeap(hp)

Spec == Init /\ [][Next]_vars
=============================================================================
