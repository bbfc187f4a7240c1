----------------------------- MODULE Allocator -----------------------------
(***************************************************************************)
(* What the heap promises to a running SVM program (Instruction-Semantics  *)
(* 3.10 and 3.11, Execution-Model 6.2 and 6.3), with no free list and no   *)
(* headers: the blocks the program holds, their contents, and when `alloc` *)
(* may refuse.  Module Heap implements it.                                 *)
(***************************************************************************)
EXTENDS HeapBlocks

CONSTANTS
    HB,         \* heap base: the first address after the static data
    MaxAddress, \* 2^32 - 1, the highest address
    Sizes,      \* sizes a program passes to `alloc`
    Values,     \* bytes a program stores
    StackTops   \* where the call stack may reach down to

VARIABLES
    live,   \* the blocks the program holds, headers included
    data,   \* contents of the payload addresses of those blocks
    SP,     \* lowest address of the call stack
    status  \* "running", or the error that ended the program

vars == <<live, data, SP, status>>

\* A block of n payload bytes could be placed at a.
Free(a, n) ==
    LET new == [address |-> a, size |-> n + HeaderSize]
    IN  /\ a >= HB
        /\ EndOf(new) < SP
        /\ \A b \in live : Disjoint(new, b)

Init ==
    /\ live = {}
    /\ data = [a \in {} |-> 0]
    /\ SP = MaxAddress
    /\ status = "running"

\* A new block is disjoint from every other one, below the call stack, and
\* reads as zero; no other block changes.
Alloc(n) ==
    /\ status = "running"
    /\ n # 0
    /\ \E a \in HB .. MaxAddress :
          /\ Free(a, n)
          /\ live' = live \cup {[address |-> a, size |-> n + HeaderSize]}
    /\ data' = [a \in PayloadAddresses(live') |->
                    IF a \in PayloadAddresses(live) THEN data[a] ELSE 0]
    /\ UNCHANGED <<SP, status>>

\* `alloc` fails only when no address at all could hold the block; a request
\* for nothing is an internal error.
Refuse(n) ==
    /\ status = "running"
    /\ IF n = 0
       THEN status' = "INTERNAL"
       ELSE /\ \A a \in HB .. MaxAddress : ~ Free(a, n)
            /\ status' = "OUT_OF_MEMORY"
    /\ UNCHANGED <<live, data, SP>>

\* A request whose header takes it past 2^32 bytes may also end the program
\* with an internal error, and contents of blocks may be gone by then.
Overrun(n) ==
    /\ status = "running"
    /\ n + HeaderSize > MaxAddress
    /\ status' = "INTERNAL"
    /\ data' \in [PayloadAddresses(live) -> Nat]
    /\ UNCHANGED <<live, SP>>

\* Only the freed block goes away.
Dealloc(b) ==
    /\ status = "running"
    /\ live' = live \ {b}
    /\ data' = [a \in PayloadAddresses(live') |-> data[a]]
    /\ UNCHANGED <<SP, status>>

Store(b, a, v) ==
    /\ status = "running"
    /\ a \in Payload(b)
    /\ data' = [data EXCEPT ![a] = v]
    /\ UNCHANGED <<live, SP, status>>

\* The call stack grows and shrinks, never into a block.
MoveSP(sp) ==
    /\ status = "running"
    /\ \A b \in live : EndOf(b) < sp
    /\ SP' = sp
    /\ UNCHANGED <<live, data, status>>

Next ==
    \/ \E n \in Sizes : Alloc(n)
    \/ \E n \in Sizes : Refuse(n) \/ Overrun(n)
    \/ \E b \in live : Dealloc(b)
    \/ \E b \in live, v \in Values : \E a \in Payload(b) : Store(b, a, v)
    \/ \E sp \in StackTops : MoveSP(sp)

Spec == Init /\ [][Next]_vars
=============================================================================
