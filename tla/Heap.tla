-------------------------------- MODULE Heap --------------------------------
(***************************************************************************)
(* The VM's heap (src/src/vm/memory/HeapManager.cpp): a first-fit free     *)
(* list kept sorted by address, one header word in front of every block,   *)
(* and the heap pointer HP, the end of the highest block handed out.       *)
(*                                                                         *)
(* Memory is a function from addresses to cells; a header word, four bytes *)
(* in the code, is kept whole in the first cell of its block.  (How words  *)
(* are spread over bytes and pages is the subject of PagedMemory.)         *)
(*                                                                         *)
(* The program is assumed to free only blocks it holds and to store only   *)
(* inside them: the code checks neither.  The call stack is an environment *)
(* that moves SP but keeps it above HP, which CallStack guarantees.        *)
(***************************************************************************)
EXTENDS Sequences, HeapBlocks

CONSTANTS
    HB,         \* heap base: the first address after the static data
    MaxAddress, \* 2^32 - 1, the highest address
    Sizes,      \* sizes a program passes to `alloc`
    Values,     \* bytes a program stores
    StackTops   \* where the call stack may reach down to

ASSUME HeapAssumption ==
    /\ HB \in Nat /\ MaxAddress \in Nat /\ HeaderSize \in Nat \ {0}
    /\ HB < MaxAddress /\ HeaderSize < MaxAddress
    /\ Sizes \subseteq 0 .. MaxAddress
    /\ Values \subseteq Nat
    /\ StackTops \subseteq HB .. MaxAddress

VARIABLES
    freeList, \* freeListHead and its successors
    HP,       \* heap pointer
    mem,      \* the bytes of the heap
    SP,       \* lowest address of the call stack
    live,     \* history: the blocks handed out and not yet freed
    status    \* "running", or the RuntimeErrorType that ended the program

vars == <<freeList, HP, mem, SP, live, status>>

Addresses == HB .. MaxAddress

(***************************************************************************)
(* initialiseHeap, called once HP = HB: everything is one free block.      *)
(***************************************************************************)
Init ==
    /\ HP = HB
    /\ freeList = << [address |-> HB, size |-> MaxAddress - HB] >>
    /\ mem = [a \in Addresses |-> 0]
    /\ SP = MaxAddress
    /\ live = {}
    /\ status = "running"

\* uint32_t arithmetic of `size + BLOCK_HEADER_SIZE`.
BytesToAllocate(size) ==
    LET bytes == size + HeaderSize
    IN  IF bytes > MaxAddress THEN bytes - (MaxAddress + 1) ELSE bytes

\* Fault: the search takes the first block without comparing sizes.
FirstFit_AnySize(bytes) == {i \in DOMAIN freeList : i = 1}

\* The list positions the first-fit search stops at: one, or none.
FirstFit(bytes) ==
    {i \in DOMAIN freeList :
        /\ bytes <= freeList[i].size
        /\ \A j \in 1 .. (i - 1) : bytes > freeList[j].size}

\* Fault: `>` for `>=` in the test against SP.
CanPlace_ReachesSP(i, bytes) == freeList[i].address + bytes <= SP

\* Fault: SP is not looked at.
CanPlace_IgnoresStack(i, bytes) == TRUE

\* Fault: the header is counted twice.
CanPlace_HeaderTwice(i, bytes) == freeList[i].address + bytes + HeaderSize < SP

\* The search finds a block, and the space taken from it stays below SP.
CanPlace(i, bytes) == freeList[i].address + bytes < SP

\* s with its i-th element unlinked.
Without(s, i) == SubSeq(s, 1, i - 1) \o SubSeq(s, i + 1, Len(s))

\* Fault: the remainder starts too early by the header's size.
TakeFrom_ForgetsHeader(i, bytes) ==
    IF freeList[i].size = bytes
    THEN Without(freeList, i)
    ELSE [freeList EXCEPT ![i] = [address |-> @.address + bytes - HeaderSize,
                                  size    |-> @.size - bytes]]

\* Fault: a remainder too small for any block is dropped from the list.
TakeFrom_DropsSliver(i, bytes) ==
    IF freeList[i].size - bytes <= HeaderSize
    THEN Without(freeList, i)
    ELSE [freeList EXCEPT ![i] = [address |-> @.address + bytes,
                                  size    |-> @.size - bytes]]

\* The free list once `bytes` are taken from the front of block i.
TakeFrom(i, bytes) ==
    IF freeList[i].size = bytes
    THEN Without(freeList, i)
    ELSE [freeList EXCEPT ![i] = [address |-> @.address + bytes,
                                  size    |-> @.size - bytes]]

RaisedHP(end) == IF end > HP THEN end ELSE HP

\* Fault: the loop ends one byte early.
Zeroed_AllButLast(block) == Payload(block) \ {EndOf(block) - 1}

Zeroed(block) == Payload(block)

\* A block is handed out: HP raised, header written, payload zeroed.
Alloc(size) ==
    /\ status = "running"
    /\ size # 0
    /\ size + HeaderSize <= MaxAddress
    /\ LET bytes == BytesToAllocate(size)
       IN  \E i \in FirstFit(bytes) :
             LET start == freeList[i].address
                 block == [address |-> start, size |-> bytes]
             IN  /\ CanPlace(i, bytes)
                 /\ HP' = RaisedHP(start + bytes)
                 /\ mem' = [a \in Addresses |->
                              CASE a = start          -> bytes
                                [] a \in Zeroed(block) -> 0
                                [] OTHER              -> mem[a]]
                 /\ freeList' = TakeFrom(i, bytes)
                 /\ live' = live \cup {block}
    /\ UNCHANGED <<SP, status>>

\* No block fits, or the one found would reach the call stack.
AllocOutOfMemory(size) ==
    /\ status = "running"
    /\ size # 0
    /\ LET bytes == BytesToAllocate(size)
       IN  \A i \in FirstFit(bytes) : ~ CanPlace(i, bytes)
    /\ status' = "OUT_OF_MEMORY"
    /\ UNCHANGED <<freeList, HP, mem, SP, live>>

AllocZero ==
    /\ status = "running"
    /\ 0 \in Sizes
    /\ status' = "INTERNAL"
    /\ UNCHANGED <<freeList, HP, mem, SP, live>>

\* size + BLOCK_HEADER_SIZE wraps: fewer bytes are reserved than a header
\* takes, and zeroing `size` bytes runs past HP, where write8 throws.
AllocWrapped(size) ==
    /\ status = "running"
    /\ size + HeaderSize > MaxAddress
    /\ LET bytes == BytesToAllocate(size)
       IN  \E i \in FirstFit(bytes) :
             LET start == freeList[i].address
             IN  /\ CanPlace(i, bytes)
                 /\ HP' = RaisedHP(start + bytes)
                 /\ mem' = [a \in Addresses |->
                              CASE a = start -> bytes
                                [] a \in (start + HeaderSize) .. HP' -> 0
                                [] OTHER -> mem[a]]
    /\ status' = "INTERNAL"
    /\ UNCHANGED <<freeList, SP, live>>

(***************************************************************************)
(* deallocateBlock: the block goes back at its place in the sorted list    *)
(* and is merged with the block before it, then with the block after it.   *)
(***************************************************************************)

\* The first l elements of s, then e, then the elements from position r on.
Splice(s, l, e, r) == SubSeq(s, 1, l) \o <<e>> \o SubSeq(s, r, Len(s))

\* How many list entries the search for `address` passes over: one answer.
EntriesBelow(address) ==
    {k \in 0 .. Len(freeList) :
        /\ \A j \in 1 .. k : freeList[j].address < address
        /\ k < Len(freeList) => freeList[k + 1].address >= address}

Adjacent(b, c) == EndOf(b) = c.address

\* Fault: the header of the second block is counted twice.
Merged_HeaderTwice(b, c) ==
    [address |-> b.address, size |-> b.size + c.size + HeaderSize]

Merged(b, c) == [address |-> b.address, size |-> b.size + c.size]

\* Fault: `else if` - a block merged with the one before it is not merged
\* with the one after it.
Inserted_MergesOnce(k, node) ==
    LET joinsPrevious == k > 0 /\ Adjacent(freeList[k], node)
        joinsNext == ~ joinsPrevious /\ k < Len(freeList)
                     /\ Adjacent(node, freeList[k + 1])
    IN  Splice(freeList,
               IF joinsPrevious THEN k - 1 ELSE k,
               IF joinsPrevious THEN Merged(freeList[k], node)
               ELSE IF joinsNext THEN Merged(node, freeList[k + 1])
               ELSE node,
               IF joinsNext THEN k + 2 ELSE k + 1)

\* The list with `node` inserted after its first k entries, merged with the
\* entry before it, and the result of that with the entry after it.
Inserted(k, node) ==
    LET joinsPrevious == k > 0 /\ Adjacent(freeList[k], node)
        grown     == IF joinsPrevious THEN Merged(freeList[k], node) ELSE node
        joinsNext == k < Len(freeList) /\ Adjacent(grown, freeList[k + 1])
    IN  Splice(freeList,
               IF joinsPrevious THEN k - 1 ELSE k,
               IF joinsNext THEN Merged(grown, freeList[k + 1]) ELSE grown,
               IF joinsNext THEN k + 2 ELSE k + 1)

Dealloc(b) ==
    /\ status = "running"
    /\ LET node == [address |-> b.address, size |-> mem[b.address]]
       IN  \E k \in EntriesBelow(b.address) : freeList' = Inserted(k, node)
    /\ live' = live \ {b}
    /\ UNCHANGED <<HP, mem, SP, status>>

\* `storeB` through a pointer into a block.
Store(b, a, v) ==
    /\ status = "running"
    /\ a \in Payload(b)
    /\ mem' = [mem EXCEPT ![a] = v]
    /\ UNCHANGED <<freeList, HP, SP, live, status>>

\* The environment: a call or a return moves SP.
MoveSP(sp) ==
    /\ status = "running"
    /\ HP < sp
    /\ SP' = sp
    /\ UNCHANGED <<freeList, HP, mem, live, status>>

Next ==
    \/ \E size \in Sizes : Alloc(size)
    \/ \E size \in Sizes : AllocOutOfMemory(size)
    \/ \E size \in Sizes : AllocWrapped(size)
    \/ AllocZero
    \/ \E b \in live : Dealloc(b)
    \/ \E b \in live, v \in Values : \E a \in Payload(b) : Store(b, a, v)
    \/ \E sp \in StackTops : MoveSP(sp)

Spec == Init /\ [][Next]_vars
-----------------------------------------------------------------------------

TypeOK ==
    /\ freeList \in Seq(Block)
    /\ HP \in Addresses
    /\ mem \in [Addresses -> Nat]
    /\ SP \in Addresses
    /\ live \subseteq Block
    /\ status \in {"running", "OUT_OF_MEMORY", "INTERNAL"}

\* The list is sorted by address and its blocks neither overlap nor touch:
\* first fit is then lowest fit, and a hole is never split in two entries.
FreeListSorted ==
    \A i, j \in DOMAIN freeList :
        i < j => EndOf(freeList[i]) < freeList[j].address

\* No address is both free and held, or held twice.
NothingShared ==
    /\ \A b \in live, i \in DOMAIN freeList : Disjoint(b, freeList[i])
    /\ \A b, c \in live : b = c \/ Disjoint(b, c)

\* Nothing leaks: every address of the heap's range is free or held.
NothingLost ==
    \A a \in HB .. (MaxAddress - 1) :
        \/ \E b \in live : b.address <= a /\ a < EndOf(b)
        \/ \E i \in DOMAIN freeList :
              freeList[i].address <= a /\ a < EndOf(freeList[i])

\* As long as the program runs, every block it holds still carries its size
\* where `free` will read it.
HeadersIntact ==
    status = "running" => \A b \in live : mem[b.address] = b.size

\* The program's blocks lie in the heap region and the heap region never
\* reaches the call stack.
HeapBelowStack ==
    /\ HP < SP
    /\ \A b \in live : HB <= b.address /\ EndOf(b) <= HP

\* The heap keeps the promises of module Allocator, for the size that was
\* asked for.
Promise == INSTANCE Allocator
    WITH data <- [a \in PayloadAddresses(live) |-> mem[a]]

SameRequest == \A size \in Sizes : Alloc(size) => Promise!Alloc(size)

ImplementsAllocator == Promise!Spec /\ [][SameRequest]_vars

\* First fit looks at one block and then at SP.  Because the list is sorted
\* and coalesced, it refuses a request only if no address at all could hold
\* it: the space below SP is never wasted on a fragment.
RefusedOnlyWhenFull ==
    [][\A size \in Sizes :
          AllocOutOfMemory(size) => \A a \in Addresses : ~ Promise!Free(a, size)]_vars
=============================================================================
