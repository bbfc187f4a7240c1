------------------------------- MODULE Pages --------------------------------
(***************************************************************************)
(* The page table of src/src/vm/memory/MemoryManager.cpp: how the bytes of *)
(* a value reach memory and come back.  A write takes the page of its      *)
(* first byte and runs on past that page's array; a read takes the page of *)
(* its first byte too, but wraps around inside it.  Both agree with a flat *)
(* memory exactly when the value lies in one page.                         *)
(***************************************************************************)
EXTENDS Integers, FiniteSets

CONSTANT PageSize

PageNumber(a) == a \div PageSize

PageOffset(a) == a % PageSize

\* What allocatePage enters in the table.
NewPage == [o \in 0 .. (PageSize - 1) |-> 0]

\* Fault: the page is allocated again although it exists.
WithPage_Anew(pages, p) ==
    [q \in DOMAIN pages \cup {p} |-> IF q = p THEN NewPage ELSE pages[q]]

\* getOrCreatePage.
WithPage(pages, p) ==
    IF p \in DOMAIN pages THEN pages
    ELSE [q \in DOMAIN pages \cup {p} |-> IF q = p THEN NewPage ELSE pages[q]]

\* Fault: the page's array grows with a value that does not fit.
Overlaid_Grows(page, first, bytes) ==
    [o \in DOMAIN page \cup {first + i : i \in DOMAIN bytes} |->
        IF o - first \in DOMAIN bytes THEN bytes[o - first] ELSE page[o]]

\* The bytes of a value, least significant first, at `first`, first + 1, ...
\* in page p, those that do not fit left out.
Overlaid(page, first, bytes) ==
    [o \in DOMAIN page |-> IF o - first \in DOMAIN bytes THEN bytes[o - first]
                           ELSE page[o]]

\* How many bytes of a value of n bytes at a run past the end of its page.
Excess(a, n) == IF PageOffset(a) + n > PageSize
                THEN PageOffset(a) + n - PageSize ELSE 0

(***************************************************************************)
(* write8, write32 and write64: the tables a write may leave.  The bytes   *)
(* past the page's array are undefined behaviour in C++; they end in the   *)
(* slack behind it or, where the allocator packs pages, at the start of    *)
(* some other page.                                                        *)
(***************************************************************************)
Written(pages, a, bytes) ==
    LET n    == Cardinality(DOMAIN bytes)
        p    == PageNumber(a)
        base == WithPage(pages, p)
        kept == [base EXCEPT ![p] = Overlaid(@, PageOffset(a), bytes)]
        lost == [i \in 0 .. (Excess(a, n) - 1) |-> bytes[n - Excess(a, n) + i]]
    IN  {kept} \cup
        {[kept EXCEPT ![q] = Overlaid(@, 0, lost)] : q \in DOMAIN kept \ {p}}

\* read8, read32 and read64 of n bytes.
ReadBytes(pages, a, n) ==
    [i \in 0 .. (n - 1) |->
        IF PageNumber(a) \in DOMAIN pages
        THEN pages[PageNumber(a)][PageOffset(a + i)]
        ELSE 0]
=============================================================================
