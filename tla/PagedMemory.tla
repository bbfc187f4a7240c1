---------------------------- MODULE PagedMemory -----------------------------
(***************************************************************************)
(* The memory manager (src/src/vm/memory/MemoryManager.cpp) under every    *)
(* sequence of accesses: the page table, the region each instruction may   *)
(* touch, and the registers that bound the regions.  A flat memory, which  *)
(* the documentation describes, is kept beside it for comparison.          *)
(***************************************************************************)
EXTENDS Pages

CONSTANTS
    MaxAddress,  \* 2^32 - 1
    StartOfData, \* startOfDataRegion, the first address after the code
    HB,          \* heap base: the first address after the static data
    HeapTops,    \* values that HP takes
    StackTops,   \* values that SP takes
    Byte,        \* contents of a byte
    Widths       \* bytes of a value: 1, 4 and 8 in the code

ASSUME PagedMemoryAssumption ==
    /\ PageSize \in Nat \ {0}
    /\ MaxAddress \in Nat /\ StartOfData \in 1 .. HB /\ HB \in 1 .. MaxAddress
    /\ HeapTops \subseteq HB .. MaxAddress
    /\ StackTops \subseteq HB .. MaxAddress
    /\ (MaxAddress + 1) % PageSize = 0
    /\ 0 \in Byte
    /\ Widths \subseteq Nat \ {0}

VARIABLES
    pageTable, \* the pages that exist
    HP,        \* heap pointer
    SP,        \* stack pointer
    flat,      \* history: what a flat memory would hold
    spoiled,   \* history: addresses last reached by a write that ran past
               \* the end of its page
    status     \* "running" or the RuntimeErrorType that ended the program

vars == <<pageTable, HP, SP, flat, spoiled, status>>

Addresses == 0 .. MaxAddress

Scopes == {"CODE", "DATA", "HEAP", "CALL_STACK", "PTR"}

\* loadBytecodeIntoMemory: a page table that holds the program's bytes.
Loaded(program) ==
    [p \in {PageNumber(a) : a \in DOMAIN program} |->
        [o \in 0 .. (PageSize - 1) |->
            IF p * PageSize + o \in DOMAIN program
            THEN program[p * PageSize + o] ELSE 0]]

Init ==
    \E program \in [0 .. (HB - 1) -> Byte] :
        /\ pageTable = Loaded(program)
        /\ flat = [a \in Addresses |-> IF a < HB THEN program[a] ELSE 0]
        /\ HP = HB
        /\ SP = MaxAddress
        /\ spoiled = {}
        /\ status = "running"

\* Fault: the lower bound of the region is not tested.
InData_FromZero(a) == a < HB

InCode(a)  == a < StartOfData
InData(a)  == StartOfData <= a /\ a < HB
InHeap(a)  == HB <= a /\ a <= HP
InStack(a) == SP <= a

\* checkAddressInRegion; ANY is used by the loader only.
InRegion(scope, a) ==
    CASE scope = "CODE"       -> InCode(a)
      [] scope = "DATA"       -> InData(a)
      [] scope = "HEAP"       -> InHeap(a)
      [] scope = "CALL_STACK" -> InStack(a)
      [] scope = "PTR"        -> InData(a) \/ InHeap(a) \/ InStack(a)

\* The addresses of a value in the page of its first byte, and beyond.
Inside(a, n) == a .. (a + n - 1 - Excess(a, n))
Beyond(a, n) == (a + n - Excess(a, n)) .. (a + n - 1)

\* A write by an instruction: none writes with scope CODE.
Write(scope, a, bytes) ==
    LET n == Cardinality(DOMAIN bytes)
    IN  /\ status = "running"
        /\ scope # "CODE"
        /\ InRegion(scope, a)
        /\ pageTable' \in Written(pageTable, a, bytes)
        /\ flat' = [b \in Addresses |-> IF b - a \in DOMAIN bytes
                                        THEN bytes[b - a] ELSE flat[b]]
        /\ spoiled' =
             (spoiled \ Inside(a, n)) \cup (Beyond(a, n) \cap Addresses)
             \cup {b \in Addresses : /\ PageOffset(b) < Excess(a, n)
                                     /\ PageNumber(b) # PageNumber(a)}
        /\ UNCHANGED <<HP, SP, status>>

\* A read or write whose first byte is outside the region.
Refused(scope, a) ==
    /\ status = "running"
    /\ ~ InRegion(scope, a)
    /\ status' = "INTERNAL"
    /\ UNCHANGED <<pageTable, HP, SP, flat, spoiled>>

\* The environment: the allocator raises HP, calls and returns move SP.
MoveHP(hp) ==
    /\ status = "running"
    /\ HP < hp /\ hp < SP
    /\ HP' = hp
    /\ UNCHANGED <<pageTable, SP, flat, spoiled, status>>

MoveSP(sp) ==
    /\ status = "running"
    /\ HP < sp
    /\ SP' = sp
    /\ UNCHANGED <<pageTable, HP, flat, spoiled, status>>

Next ==
    \/ \E scope \in Scopes, a \in Addresses :
          \/ \E n \in Widths : \E bytes \in [0 .. (n - 1) -> Byte] :
                Write(scope, a, bytes)
          \/ Refused(scope, a)
    \/ \E hp \in HeapTops : MoveHP(hp)
    \/ \E sp \in StackTops : MoveSP(sp)

Spec == Init /\ [][Next]_vars
-----------------------------------------------------------------------------

TypeOK ==
    /\ \A p \in DOMAIN pageTable :
          p \in Nat /\ pageTable[p] \in [0 .. (PageSize - 1) -> Byte]
    /\ HP \in Addresses /\ SP \in Addresses
    /\ flat \in [Addresses -> Byte]
    /\ spoiled \subseteq Addresses
    /\ status \in {"running", "INTERNAL"}

\* A value that lies in one page, none of whose bytes was last reached by a
\* write that straddled pages, reads as in a flat memory, whether or not its
\* page exists.
ReadsAgree ==
    \A a \in Addresses, n \in Widths :
        /\ Excess(a, n) = 0
        /\ (a .. (a + n - 1)) \cap spoiled = {}
        => ReadBytes(pageTable, a, n) = [i \in 0 .. (n - 1) |-> flat[a + i]]

\* Memory-Model.md 3.1: the code is read-only.  No instruction that is let
\* through changes a byte of it, save by running past the end of a page.
CodeReadOnly ==
    [][\A a \in Addresses \ spoiled' :
          InCode(a) => ReadBytes(pageTable', a, 1) = ReadBytes(pageTable, a, 1)]_vars
=============================================================================
