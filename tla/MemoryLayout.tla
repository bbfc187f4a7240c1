---------------------------- MODULE MemoryLayout ----------------------------
(***************************************************************************)
(* Heap and call stack in the one memory of a VM (src/src/vm/VM.cpp): the  *)
(* heap grows up from HB, the stack down from MaxAddress.  They share the  *)
(* bytes between, HP, which only the heap moves, and SP, which only the    *)
(* stack moves; each reads the other's pointer before it grows and neither *)
(* is told when the other did.  What Heap and CallStack assume of their    *)
(* environment is here what the other one does.                            *)
(***************************************************************************)
EXTENDS Integers, Frames

CONSTANTS
    HB, MaxAddress,       \* first and last address after the static data
    HeaderSize,           \* bytes in front of a heap block
    Sizes, Bytes,         \* sizes passed to `alloc`, bytes stored by `storeB`
    Methods, Sites,       \* methods called, and addresses they return to
    Values, Offsets       \* values stored in slots, slot offsets used

\* What Heap and CallStack assume of their constants, with the heap and the
\* stack free to meet anywhere between HB and MaxAddress.
ASSUME LayoutAssumption ==
    /\ HB \in Nat /\ MaxAddress \in Nat /\ HB < MaxAddress
    /\ HeaderSize \in Nat \ {0} /\ HeaderSize < MaxAddress
    /\ Sizes \subseteq 0 .. MaxAddress /\ Bytes \subseteq Nat
    /\ Methods \subseteq Method /\ \A m \in Methods : FrameBytes(m) <= MaxAddress
    /\ Sites \subseteq Nat
    /\ Values \subseteq Value
    /\ Offsets \subseteq Int \ {0}

VARIABLES
    HP, SP, mem,                            \* shared
    freeList, live, heapStatus,             \* of the heap
    FP, PC, frameInfoStack, callers, stackStatus \* of the call stack

heapVars  == <<freeList, live, heapStatus>>
stackVars == <<FP, PC, frameInfoStack, callers, stackStatus>>
vars      == <<HP, SP, mem, heapVars, stackVars>>

H == INSTANCE Heap WITH Values <- Bytes, StackTops <- HB .. MaxAddress,
                        status <- heapStatus

S == INSTANCE CallStack WITH HeapTops <- HB .. MaxAddress, status <- stackStatus

Init == H!Init /\ S!Init

\* One error, wherever it is raised, ends the program.
Running == heapStatus = "running" /\ stackStatus = "running"

\* Instructions that only use the heap.
HeapStep ==
    /\ Running
    /\ \/ \E size \in Sizes : \/ H!Alloc(size)
                              \/ H!AllocOutOfMemory(size)
                              \/ H!AllocWrapped(size)
       \/ H!AllocZero
       \/ \E b \in live : H!Dealloc(b)
       \/ \E b \in live, v \in Bytes : \E a \in H!Payload(b) : H!Store(b, a, v)
    /\ UNCHANGED stackVars

\* Instructions that only use the call stack.
StackStep ==
    /\ Running
    /\ \/ \E m \in Methods, site \in Sites :
             \E args \in [1 .. m.arguments -> Values] : S!Call(m, args, site)
       \/ \E m \in Methods : S!CallOverflow(m)
       \/ S!Ret \/ S!RetEmpty
       \/ \E o \in Offsets, v \in Values : S!StoreL(o, v)
       \/ \E o \in Offsets : S!BadOffset(o)
       \/ \E k \in DOMAIN frameInfoStack, o \in Offsets, v \in Values :
             S!StorePointer(k, o, v) \/ S!StorePointer32(k, o, v)
    /\ UNCHANGED heapVars

Next == HeapStep \/ StackStep

Spec == Init /\ [][Next]_vars
-----------------------------------------------------------------------------

\* No block of the heap reaches into a frame of the stack.
RegionsApart ==
    /\ HP < SP
    /\ \A b \in live : H!EndOf(b) <= HP
    /\ \A k \in DOMAIN frameInfoStack :
          SP <= S!FrameOf(k) - frameInfoStack[k].locals * S!Slot

\* The blocks keep the promises of Allocator although calls and returns
\* write to the same memory.
BlocksUndisturbed == H!ImplementsAllocator

\* The frames keep the promises of FrameStack although blocks are handed
\* out, zeroed and written in the same memory.
FramesUndisturbed == S!ImplementsFrameStack
=============================================================================
