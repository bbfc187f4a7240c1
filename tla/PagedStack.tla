----------------------------- MODULE PagedStack -----------------------------
(***************************************************************************)
(* The call stack of src/src/vm/memory/CallStackManager.cpp on the page    *)
(* table of src/src/vm/memory/MemoryManager.cpp: links, arguments and      *)
(* locals are written to memory and read back byte by byte.  SP starts at  *)
(* 2^32 - 1, so every slot begins at an address congruent to 7 modulo 8    *)
(* and the slot that begins at the last byte of a page lies in two pages.  *)
(* Until such a slot is written, or a program stores over a link, which    *)
(* slot offset 0 lets it, PagedStack implements CallStack.                 *)
(***************************************************************************)
EXTENDS Pages, Sequences, Frames

CONSTANTS
    HB,         \* heap base; there is no heap in this module, HP = HB
    MaxAddress, \* 2^32 - 1, where the stack starts
    Base,       \* contents of a byte: 256 in the code
    Methods,    \* methods a program calls
    Sites,      \* addresses that follow a `call` instruction
    Values,     \* 64-bit values a program passes and stores
    Offsets     \* slot offsets in `loadL` and `storeL` instructions

Word32 == 0 .. (Base * Base * Base * Base - 1)

\* A page holds a number of slots and memory a number of pages; addresses,
\* and what a program stores, fit into words.
ASSUME PagedStackAssumption ==
    /\ PageSize \in Nat \ {0} /\ PageSize % Slot = 0
    /\ HB \in Nat /\ MaxAddress \in Nat /\ HB < MaxAddress
    /\ (MaxAddress + 1) % PageSize = 0
    /\ Base \in Nat \ {0} /\ MaxAddress \in Word32
    /\ Methods \subseteq Method /\ \A m \in Methods : FrameBytes(m) <= MaxAddress
    /\ Sites \subseteq Word32
    /\ Values \subseteq [low : Word32, high : Word32]
    /\ Offsets \subseteq Int

VARIABLES
    FP, SP, PC, pageTable, frameInfoStack, callers, status,
    spoilt \* history: whether a value was written that lies in two pages,
           \* or one over the link of a frame

vars == <<FP, SP, PC, pageTable, frameInfoStack, callers, status, spoilt>>

Depth == Len(frameInfoStack)

Current == frameInfoStack[Depth]

Init ==
    /\ FP = MaxAddress /\ SP = MaxAddress
    /\ PC = 0
    /\ pageTable = [p \in {} |-> NewPage]
    /\ frameInfoStack = <<>>
    /\ callers = <<>>
    /\ status = "running"
    /\ spoilt = FALSE

\* What the i-th byte of a word counts.
Weight(i) == CASE i = 0 -> 1
               [] i = 1 -> Base
               [] i = 2 -> Base * Base
               [] i = 3 -> Base * Base * Base

\* write32 and write64: the bytes of a word, and of a value's two words.
BytesOf32(w) == [i \in 0 .. 3 |-> (w \div Weight(i)) % Base]

BytesOf64(v) ==
    [i \in 0 .. 7 |-> IF i < 4 THEN BytesOf32(v.low)[i]
                      ELSE BytesOf32(v.high)[i - 4]]

\* Fault: the bytes are put together most significant first.
Read32_Reversed(a) ==
    LET b == ReadBytes(pageTable, a, 4)
    IN  b[3] + b[2] * Weight(1) + b[1] * Weight(2) + b[0] * Weight(3)

\* read32.
Read32(a) ==
    LET b == ReadBytes(pageTable, a, 4)
    IN  b[0] + b[1] * Weight(1) + b[2] * Weight(2) + b[3] * Weight(3)

\* uint32_t arithmetic on addresses.
Wrapped(n) == n % (MaxAddress + 1)

\* checkAddressInRegion looks at the first byte only.
InStack(a) == SP <= a

\* Fault: the second half of the test, against wrapping, is missing.
Overflows_Wraps(m) == Wrapped(SP - FrameBytes(m)) <= HB

Overflows(m) == Wrapped(SP - FrameBytes(m)) <= HB \/ FrameBytes(m) > SP

\* Fault: the locals are not zeroed.
FrameWrites_StaleLocals(m, args, site, fp, sp) ==
    [i \in 1 .. m.arguments |-> [at    |-> fp + (m.arguments + 1 - i) * Slot,
                                 bytes |-> BytesOf64(args[i])]]
    \o << [at |-> fp,        bytes |-> BytesOf32(FP)],
          [at |-> fp + Half, bytes |-> BytesOf32(site)] >>

\* The writes of CallStackManager::push, in their order.
FrameWrites(m, args, site, fp, sp) ==
    [i \in 1 .. m.arguments |-> [at    |-> fp + (m.arguments + 1 - i) * Slot,
                                 bytes |-> BytesOf64(args[i])]]
    \o [i \in 1 .. m.locals |-> [at    |-> sp + (i - 1) * Slot,
                                 bytes |-> BytesOf64(Zero)]]
    \o << [at |-> fp,        bytes |-> BytesOf32(FP)],
          [at |-> fp + Half, bytes |-> BytesOf32(site)] >>

\* The page tables that a sequence of writes may leave.
AfterWrites(writes) ==
    LET after[i \in 0 .. Len(writes)] ==
            IF i = 0 THEN {pageTable}
            ELSE UNION {Written(t, writes[i].at, writes[i].bytes) :
                           t \in after[i - 1]}
    IN  after[Len(writes)]

Straddles(writes) ==
    \E i \in DOMAIN writes :
        Excess(writes[i].at, Cardinality(DOMAIN writes[i].bytes)) > 0

Call(m, args, site) ==
    LET fp == SP - (m.arguments * Slot + Slot)
        sp == SP - FrameBytes(m)
    IN  /\ status = "running"
        /\ ~ Overflows(m)
        /\ FP' = fp
        /\ SP' = sp
        /\ pageTable' \in AfterWrites(FrameWrites(m, args, site, fp, sp))
        /\ frameInfoStack' = Append(frameInfoStack, m)
        /\ PC' = m.entry
        /\ callers' = Append(callers, [FP |-> FP, SP |-> SP, PC |-> site])
        /\ spoilt' = (spoilt \/ Straddles(FrameWrites(m, args, site, fp, sp)))
        /\ UNCHANGED status

CallOverflow(m) ==
    /\ status = "running"
    /\ Overflows(m)
    /\ status' = "STACK_OVERFLOW"
    /\ UNCHANGED <<FP, SP, PC, pageTable, frameInfoStack, callers, spoilt>>

Ret ==
    /\ status = "running"
    /\ frameInfoStack # <<>>
    /\ InStack(FP) /\ InStack(Wrapped(FP + Half))
    /\ PC' = Read32(FP + Half)
    /\ FP' = Wrapped(Read32(FP)) \* an address has two of four bytes here
    /\ SP' = SP + FrameBytes(Current)
    /\ frameInfoStack' = SubSeq(frameInfoStack, 1, Depth - 1)
    /\ callers' = SubSeq(callers, 1, Depth - 1)
    /\ UNCHANGED <<pageTable, status, spoilt>>

RetEmpty ==
    /\ status = "running"
    /\ frameInfoStack = <<>>
    /\ status' = "INTERNAL"
    /\ UNCHANGED <<FP, SP, PC, pageTable, frameInfoStack, callers, spoilt>>

\* A frame pointer from a link that was overwritten, or not read back as it
\* was written.
RetOutside ==
    /\ status = "running"
    /\ frameInfoStack # <<>>
    /\ ~ (InStack(FP) /\ InStack(Wrapped(FP + Half)))
    /\ PC' = IF InStack(Wrapped(FP + Half)) THEN Read32(Wrapped(FP + Half)) ELSE PC
    /\ status' = "INTERNAL"
    /\ UNCHANGED <<FP, SP, pageTable, frameInfoStack, callers, spoilt>>

ValidOffset(o) ==
    /\ frameInfoStack # <<>>
    /\ ~ (o > 0 /\ o > Current.arguments)
    /\ ~ (- o > Current.locals)

FrameAddress(o) == Wrapped(FP + o * Slot)

StoreL(o, v) ==
    /\ status = "running"
    /\ ValidOffset(o)
    /\ InStack(FrameAddress(o))
    /\ pageTable' \in Written(pageTable, FrameAddress(o), BytesOf64(v))
    /\ spoilt' = (spoilt \/ Excess(FrameAddress(o), Slot) > 0 \/ o = 0)
    /\ UNCHANGED <<FP, SP, PC, frameInfoStack, callers, status>>

BadOffset(o) ==
    /\ status = "running"
    /\ ValidOffset(o) => ~ InStack(FrameAddress(o))
    /\ status' = "INTERNAL"
    /\ UNCHANGED <<FP, SP, PC, pageTable, frameInfoStack, callers, spoilt>>

Next ==
    \/ \E m \in Methods, site \in Sites :
          \E args \in [1 .. m.arguments -> Values] : Call(m, args, site)
    \/ \E m \in Methods : CallOverflow(m)
    \/ Ret \/ RetEmpty \/ RetOutside
    \/ \E o \in Offsets, v \in Values : StoreL(o, v)
    \/ \E o \in Offsets : BadOffset(o)

Spec == Init /\ [][Next]_vars
-----------------------------------------------------------------------------

ToCaller == FP' = callers[Depth].FP /\ SP' = callers[Depth].SP /\ PC' = callers[Depth].PC

\* Instruction-Semantics.md 4.3: `ret` restores FP and SP and continues
\* after the call, however deep the calls are nested.
RetRestoresCaller == [][Depth' < Depth => ToCaller]_vars

\* It does so as long as no value lies in two pages and no link has been
\* overwritten.
RetRestoresInPage == [][Depth' < Depth /\ ~ spoilt => ToCaller]_vars

\* A frame never lies partly outside the stack region, pages or not, and
\* SP comes back although links are lost.
FramesCounted ==
    /\ HB < SP
    /\ SP = IF Depth = 0 THEN MaxAddress
            ELSE callers[Depth].SP - FrameBytes(Current)

\* The words that CallStack keeps: one at every fourth address.
Words ==
    [a \in HB .. MaxAddress |->
        IF a % 4 = MaxAddress % 4 /\ a # MaxAddress THEN Read32(a) ELSE 0]

Stack == INSTANCE CallStack WITH
    mem <- Words, HP <- HB, HeapTops <- {}, Offsets <- Offsets \ {0}

\* As long as no value lies in two pages and no link has been overwritten,
\* the bytes make up the words of CallStack, and every step is one that
\* CallStack takes.
StepsOfCallStack ==
    [][~ spoilt' =>
          /\ Stack!Next \/ UNCHANGED Stack!vars
          /\ \A o \in Offsets \ {0}, v \in Values : StoreL(o, v) => Stack!StoreL(o, v)]_vars
=============================================================================
