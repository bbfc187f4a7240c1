------------------------- MODULE PagedMemoryProofs -------------------------
(***************************************************************************)
(* Proofs about module PagedMemory, for every page size, memory size,      *)
(* width of values and placement of the regions.                           *)
(*                                                                         *)
(* The invariant speaks of single bytes: each byte of memory that no write *)
(* across a page's end has reached is what a flat memory would hold there  *)
(* (Agree).  A value of several bytes follows from that when it lies in    *)
(* one page, because the addresses of one page are divided alike.          *)
(***************************************************************************)
EXTENDS PagedMemory, PagesProofs, FiniteSetTheorems

LEMMA PageSizePositive == PageSize \in Nat \ {0}
  BY PagedMemoryAssumption

\* The byte at a.
ByteAt(pages, a) ==
    IF PageNumber(a) \in DOMAIN pages THEN pages[PageNumber(a)][PageOffset(a)] ELSE 0

PagesOK(pages) ==
    \A p \in DOMAIN pages : p \in Nat /\ pages[p] \in [0 .. (PageSize - 1) -> Byte]

Agree == \A a \in Addresses \ spoiled : ByteAt(pageTable, a) = flat[a]

IInv == TypeOK /\ HB <= SP /\ Agree

\* The last page ends at MaxAddress.
LEMMA PageInMemory ==
    ASSUME NEW a \in Addresses, NEW i \in Nat, PageOffset(a) + i < PageSize
    PROVE  a + i \in Addresses
  <1>1. a \in Nat /\ PageSize \in Nat \ {0} /\ MaxAddress \in Nat
    BY PagedMemoryAssumption DEF Addresses
  <1>2. PICK p \in Nat, o \in 0 .. (PageSize - 1) :
           p = PageNumber(a) /\ o = PageOffset(a) /\ a = PageSize * p + o
    BY <1>1, PageSizePositive, PageFacts
  <1>3. PICK k \in Nat : MaxAddress + 1 = PageSize * k
    <2>1. PICK m \in Nat : m = MaxAddress + 1
      BY <1>1
    <2>2. m % PageSize = 0
      BY <2>1, PagedMemoryAssumption
    <2>3. m \div PageSize \in Nat /\ m = PageSize * (m \div PageSize) + (m % PageSize)
      BY <1>1, Division
    <2>4. PICK k \in Nat : k = m \div PageSize
      BY <2>3
    <2>5. m = PageSize * k + 0
      BY <2>2, <2>3, <2>4
    <2>6. PageSize * k \in Nat
      BY <1>1
    <2> QED BY <2>1, <2>5, <2>6
  <1>4. PageSize * p \in Nat /\ PageSize * k \in Nat
    BY <1>1
  <1>5. p < k
    <2>1. k < p => PageSize * k + PageSize <= PageSize * p
      BY <1>1, Multiples
    <2>2. k = p => PageSize * k = PageSize * p
      OBVIOUS
    <2>3. PageSize * p < PageSize * k
      BY <1>1, <1>2, <1>3, <1>4 DEF Addresses
    <2> QED BY <1>1, <1>4, <2>1, <2>2, <2>3
  <1>6. PageSize * p + PageSize <= PageSize * k
    BY <1>1, <1>5, Multiples
  <1>7. a + i < PageSize * p + PageSize
    BY <1>1, <1>2, <1>4
  <1> QED BY <1>1, <1>3, <1>4, <1>6, <1>7 DEF Addresses

\* A page that is allocated reads as zero, as it did before.
LEMMA WithPageFacts ==
    ASSUME NEW pages, PagesOK(pages), NEW p \in Nat
    PROVE  /\ PagesOK(WithPage(pages, p))
           /\ DOMAIN WithPage(pages, p) = DOMAIN pages \cup {p}
           /\ \A a \in Nat : ByteAt(WithPage(pages, p), a) = ByteAt(pages, a)
  <1>1. NewPage \in [0 .. (PageSize - 1) -> Byte]
    BY PagedMemoryAssumption DEF NewPage
  <1>2. CASE p \in DOMAIN pages
    BY <1>2 DEF WithPage
  <1>3. CASE p \notin DOMAIN pages
    <2>1. WithPage(pages, p) =
             [q \in DOMAIN pages \cup {p} |-> IF q = p THEN NewPage ELSE pages[q]]
      BY <1>3 DEF WithPage
    <2>2. ASSUME NEW a \in Nat
          PROVE  ByteAt(WithPage(pages, p), a) = ByteAt(pages, a)
      <3>1. PICK o \in 0 .. (PageSize - 1) : o = PageOffset(a)
        BY PageSizePositive, PageFacts
      <3>2. NewPage[o] = 0
        BY DEF NewPage
      <3> QED BY <1>3, <2>1, <3>1, <3>2 DEF ByteAt
    <2> QED BY <1>1, <2>1, <2>2 DEF PagesOK
  <1> QED BY <1>2, <1>3

\* What a page holds after a write to it.
LEMMA OverlaidFacts ==
    ASSUME NEW page \in [0 .. (PageSize - 1) -> Byte], NEW first \in Nat,
           NEW n \in Nat, NEW bytes \in [0 .. (n - 1) -> Byte]
    PROVE  /\ Overlaid(page, first, bytes) \in [0 .. (PageSize - 1) -> Byte]
           /\ \A o \in 0 .. (PageSize - 1) :
                 Overlaid(page, first, bytes)[o] =
                    IF o - first \in 0 .. (n - 1) THEN bytes[o - first] ELSE page[o]
  BY DEF Overlaid

\* What a page holds after bytes of another page's value have hit it.
LEMMA OverlaidFromStart ==
    ASSUME NEW page \in [0 .. (PageSize - 1) -> Byte],
           NEW n \in Nat, NEW bytes \in [0 .. (n - 1) -> Byte]
    PROVE  /\ Overlaid(page, 0, bytes) \in [0 .. (PageSize - 1) -> Byte]
           /\ \A o \in 0 .. (PageSize - 1) :
                 o < n \/ Overlaid(page, 0, bytes)[o] = page[o]
  BY DEF Overlaid

\* Which bytes of a value run past the end of its page: the last ones.
LEMMA ExcessFacts ==
    ASSUME NEW a \in Nat, NEW n \in Nat \ {0}
    PROVE  /\ Excess(a, n) \in Nat
           /\ Excess(a, n) < n
           /\ \A i \in 0 .. (n - 1) :
                 i < n - Excess(a, n) <=> PageOffset(a) + i < PageSize
  <1>1. PICK o \in 0 .. (PageSize - 1) : o = PageOffset(a)
    BY PageSizePositive, PageFacts
  <1> QED BY <1>1, PagedMemoryAssumption DEF Excess

\* What a write does to each byte, save to those that it may spoil.
LEMMA WrittenByte ==
    ASSUME NEW pages, PagesOK(pages), NEW a \in Nat, NEW n \in Nat \ {0},
           NEW bytes \in [0 .. (n - 1) -> Byte],
           NEW pages2 \in Written(pages, a, bytes)
    PROVE  /\ PagesOK(pages2)
           /\ \A b \in Nat :
                 \/ b \in Beyond(a, n)
                 \/ PageOffset(b) < Excess(a, n) /\ PageNumber(b) # PageNumber(a)
                 \/ ByteAt(pages2, b) = IF b - a \in 0 .. (n - 1) THEN bytes[b - a]
                                        ELSE ByteAt(pages, b)
  <1> DEFINE p == PageNumber(a)
             base == WithPage(pages, p)
             over == Overlaid(base[p], PageOffset(a), bytes)
             kept == [base EXCEPT ![p] = over]
             lost == [i \in 0 .. (Excess(a, n) - 1) |-> bytes[n - Excess(a, n) + i]]
  <1>1. /\ PageSize \in Nat \ {0}
        /\ p \in Nat /\ PageOffset(a) \in 0 .. (PageSize - 1)
        /\ a = PageSize * p + PageOffset(a)
    BY PageSizePositive, PageFacts, PagedMemoryAssumption
  <1>2. /\ PagesOK(base) /\ DOMAIN base = DOMAIN pages \cup {p}
        /\ \A b \in Nat : ByteAt(base, b) = ByteAt(pages, b)
    BY <1>1, WithPageFacts
  <1>3. Cardinality(DOMAIN bytes) = n
    <2>1. DOMAIN bytes = 0 .. (n - 1)
      OBVIOUS
    <2> QED BY <2>1, FS_Interval
  <1>4. pages2 = kept \/ \E q \in DOMAIN kept \ {p} : pages2 = [kept EXCEPT ![q] = Overlaid(@, 0, lost)]
    BY <1>3 DEF Written
  <1>5. /\ Excess(a, n) \in Nat /\ Excess(a, n) < n
        /\ \A i \in 0 .. (n - 1) :
              i < n - Excess(a, n) <=> PageOffset(a) + i < PageSize
    BY ExcessFacts
  <1>6. lost \in [0 .. (Excess(a, n) - 1) -> Byte]
    <2>1. \A i \in 0 .. (Excess(a, n) - 1) : n - Excess(a, n) + i \in 0 .. (n - 1)
      BY <1>5
    <2> QED BY <2>1
  <1>7. /\ over \in [0 .. (PageSize - 1) -> Byte]
        /\ \A o \in 0 .. (PageSize - 1) :
              over[o] = IF o - PageOffset(a) \in 0 .. (n - 1)
                        THEN bytes[o - PageOffset(a)] ELSE base[p][o]
    <2>1. base[p] \in [0 .. (PageSize - 1) -> Byte]
      BY <1>2 DEF PagesOK
    <2>2. PageOffset(a) \in Nat
      BY <1>1
    <2> HIDE DEF base
    <2> QED BY <2>1, <2>2, OverlaidFacts DEF over
  <1> HIDE DEF base, over, lost
  <1>8. /\ DOMAIN kept = DOMAIN base /\ kept[p] = over
        /\ \A q \in DOMAIN base \ {p} : kept[q] = base[q]
    BY <1>2
  <1>9. PagesOK(kept)
    BY <1>2, <1>7, <1>8 DEF PagesOK
  <1> HIDE DEF kept
  <1>10. /\ DOMAIN pages2 = DOMAIN base /\ pages2[p] = over
         /\ PagesOK(pages2)
         /\ \A q \in DOMAIN base \ {p}, o \in 0 .. (PageSize - 1) :
               o < Excess(a, n) \/ pages2[q][o] = base[q][o]
    <2>1. CASE pages2 = kept
      BY <2>1, <1>2, <1>8, <1>9
    <2>2. ASSUME NEW q \in DOMAIN kept \ {p},
                 pages2 = [kept EXCEPT ![q] = Overlaid(@, 0, lost)]
          PROVE  <1>10!:
      <3>1. kept[q] \in [0 .. (PageSize - 1) -> Byte]
        BY <1>9 DEF PagesOK
      <3>2. /\ Overlaid(kept[q], 0, lost) \in [0 .. (PageSize - 1) -> Byte]
            /\ \A o \in 0 .. (PageSize - 1) :
                 o < Excess(a, n) \/ Overlaid(kept[q], 0, lost)[o] = kept[q][o]
        <4>1. PICK e, f : e = Excess(a, n) /\ f = lost
          OBVIOUS
        <4>2. e \in Nat /\ f \in [0 .. (e - 1) -> Byte]
          BY <4>1, <1>5, <1>6
        <4> QED BY <3>1, <4>1, <4>2, OverlaidFromStart
      <3>3. PICK w : w = Overlaid(kept[q], 0, lost)
        OBVIOUS
      <3>4. pages2 = [kept EXCEPT ![q] = w]
        BY <2>2, <3>3
      <3>5. \A o \in 0 .. (PageSize - 1) : o < Excess(a, n) \/ w[o] = kept[q][o]
        BY <3>2, <3>3
      <3>6. PagesOK(pages2)
        BY <3>2, <3>3, <3>4, <1>9 DEF PagesOK
      <3> QED BY <3>4, <3>5, <3>6, <1>8
    <2> QED BY <2>1, <2>2, <1>4
  <1>11. ASSUME NEW b \in Nat, b \notin Beyond(a, n),
                ~ (PageOffset(b) < Excess(a, n) /\ PageNumber(b) # p)
         PROVE  ByteAt(pages2, b) = IF b - a \in 0 .. (n - 1) THEN bytes[b - a]
                                    ELSE ByteAt(pages, b)
    <2>1. /\ PageNumber(b) \in Nat /\ PageOffset(b) \in 0 .. (PageSize - 1)
          /\ b = PageSize * PageNumber(b) + PageOffset(b)
      BY PageSizePositive, PageFacts
    <2>2. CASE PageNumber(b) = p
      <3>1. b - a = PageOffset(b) - PageOffset(a)
        <4>1. PICK x \in Nat : x = PageSize * p
          BY <1>1
        <4>2. b = x + PageOffset(b) /\ a = x + PageOffset(a)
          BY <4>1, <2>1, <2>2, <1>1, Zenon
        <4>3. PageOffset(b) \in Int /\ PageOffset(a) \in Int
          BY <2>1, <1>1
        <4> QED BY <4>2, <4>3
      <3>2. ByteAt(pages2, b) = over[PageOffset(b)]
        BY <2>2, <1>2, <1>10 DEF ByteAt
      <3>3. ByteAt(pages, b) = base[p][PageOffset(b)]
        BY <2>2, <1>2 DEF ByteAt
      <3> QED BY <3>1, <3>2, <3>3, <2>1, <1>7
    <2>3. CASE PageNumber(b) # p
      <3>1. ByteAt(pages2, b) = ByteAt(base, b)
        BY <2>1, <2>3, <1>10, <1>11 DEF ByteAt
      <3>2. ~ (b - a \in 0 .. (n - 1))
        <4>1. SUFFICES ASSUME b - a \in 0 .. (n - 1) PROVE FALSE
          OBVIOUS
        <4>2. PICK i \in 0 .. (n - 1) : i = b - a /\ b = a + i /\ i \in Nat
          BY <4>1
        <4>3. ~ (PageOffset(a) + i < PageSize)
          BY <4>2, <2>3, PageSizePositive, SamePage
        <4>4. ~ (i < n - Excess(a, n))
          BY <4>3, <1>5
        <4> QED BY <4>2, <4>4, <1>5, <1>11 DEF Beyond
      <3> QED BY <3>1, <3>2, <1>2
    <2> QED BY <2>2, <2>3
  <1> QED BY <1>10, <1>11

-----------------------------------------------------------------------------

\* The loader leaves the program's bytes where a flat memory has them.
LEMMA InitIInv == Init => IInv
  <1> SUFFICES ASSUME NEW program \in [0 .. (HB - 1) -> Byte],
                      pageTable = Loaded(program),
                      flat = [a \in Addresses |-> IF a < HB THEN program[a] ELSE 0],
                      HP = HB, SP = MaxAddress, spoiled = {}, status = "running"
               PROVE  IInv
    BY DEF Init
  <1>1. /\ PageSize \in Nat \ {0} /\ HB \in Nat /\ MaxAddress \in Nat /\ HB <= MaxAddress
        /\ 0 \in Byte
    BY PagedMemoryAssumption
  <1>2. DOMAIN pageTable = {PageNumber(a) : a \in 0 .. (HB - 1)}
    BY DEF Loaded
  <1>3. \A p \in DOMAIN pageTable :
           pageTable[p] = [o \in 0 .. (PageSize - 1) |->
                             IF p * PageSize + o \in 0 .. (HB - 1)
                             THEN program[p * PageSize + o] ELSE 0]
    BY DEF Loaded
  <1>4. PagesOK(pageTable)
    <2> SUFFICES ASSUME NEW p \in DOMAIN pageTable
                 PROVE  p \in Nat /\ pageTable[p] \in [0 .. (PageSize - 1) -> Byte]
      BY DEF PagesOK
    <2>1. p \in Nat
      <3>1. PICK a \in 0 .. (HB - 1) : p = PageNumber(a)
        BY <1>2
      <3>2. a \in Nat
        BY <1>1
      <3> QED BY <3>1, <3>2, PageSizePositive, PageFacts
    <2> QED BY <1>1, <1>3, <2>1
  <1>5. flat \in [Addresses -> Byte]
    BY <1>1 DEF Addresses
  <1>6. ASSUME NEW a \in Addresses PROVE ByteAt(pageTable, a) = flat[a]
    <2>1. a \in Nat
      BY <1>1 DEF Addresses
    <2>2. /\ PageNumber(a) \in Nat /\ PageOffset(a) \in 0 .. (PageSize - 1)
          /\ PageNumber(a) * PageSize + PageOffset(a) = a
      <3>1. PageSize * PageNumber(a) = PageNumber(a) * PageSize
        BY <2>1, <1>1, PageSizePositive, PageFacts
      <3> QED BY <2>1, <3>1, PageSizePositive, PageFacts
    <2>3. flat[a] = IF a \in 0 .. (HB - 1) THEN program[a] ELSE 0
      BY <1>1, <2>1
    <2>4. a \in 0 .. (HB - 1) => PageNumber(a) \in DOMAIN pageTable
      BY <1>2
    <2>5. PageNumber(a) \in DOMAIN pageTable =>
            pageTable[PageNumber(a)][PageOffset(a)] =
               IF a \in 0 .. (HB - 1) THEN program[a] ELSE 0
      <3>1. SUFFICES ASSUME PageNumber(a) \in DOMAIN pageTable
                     PROVE  pageTable[PageNumber(a)][PageOffset(a)] =
                              IF a \in 0 .. (HB - 1) THEN program[a] ELSE 0
        OBVIOUS
      <3>2. PICK p, o : p = PageNumber(a) /\ o = PageOffset(a)
        OBVIOUS
      <3>3. pageTable[p][o] = IF p * PageSize + o \in 0 .. (HB - 1)
                              THEN program[p * PageSize + o] ELSE 0
        <4>1. p \in DOMAIN pageTable /\ o \in 0 .. (PageSize - 1)
          BY <2>2, <3>1, <3>2
        <4>2. pageTable[p] = [x \in 0 .. (PageSize - 1) |->
                                IF p * PageSize + x \in 0 .. (HB - 1)
                                THEN program[p * PageSize + x] ELSE 0]
          BY <1>3, <4>1, Zenon
        <4> QED BY <4>1, <4>2, Zenon
      <3> QED BY <2>2, <3>2, <3>3, Zenon
    <2> QED BY <2>3, <2>4, <2>5 DEF ByteAt
  <1>7. TypeOK
    BY <1>1, <1>4, <1>5 DEF TypeOK, PagesOK, Addresses
  <1> QED BY <1>1, <1>6, <1>7 DEF IInv, Agree

\* What a write by an instruction does to the bytes that it does not spoil.
LEMMA WriteFacts ==
    ASSUME IInv, NEW scope \in Scopes, NEW a \in Addresses, NEW n \in Widths,
           NEW bytes \in [0 .. (n - 1) -> Byte], Write(scope, a, bytes)
    PROVE  /\ PagesOK(pageTable')
           /\ spoiled' \subseteq Addresses
           /\ \A b \in Addresses \ spoiled' :
                 /\ ByteAt(pageTable', b) = IF b - a \in 0 .. (n - 1) THEN bytes[b - a]
                                            ELSE ByteAt(pageTable, b)
                 /\ flat'[b] = IF b - a \in 0 .. (n - 1) THEN bytes[b - a] ELSE flat[b]
                 /\ b \in spoiled => b - a \in 0 .. (n - 1)
  <1>1. /\ n \in Nat \ {0} /\ a \in Nat /\ Addresses \subseteq Nat
    BY PagedMemoryAssumption DEF Addresses
  <1>2. Cardinality(DOMAIN bytes) = n /\ DOMAIN bytes = 0 .. (n - 1)
    <2>1. DOMAIN bytes = 0 .. (n - 1)
      OBVIOUS
    <2> QED BY <1>1, <2>1, FS_Interval
  <1>3. /\ pageTable' \in Written(pageTable, a, bytes)
        /\ flat' = [b \in Addresses |-> IF b - a \in 0 .. (n - 1)
                                        THEN bytes[b - a] ELSE flat[b]]
        /\ spoiled' =
             (spoiled \ Inside(a, n)) \cup (Beyond(a, n) \cap Addresses)
             \cup {b \in Addresses : /\ PageOffset(b) < Excess(a, n)
                                     /\ PageNumber(b) # PageNumber(a)}
    BY <1>2 DEF Write
  <1>4. PagesOK(pageTable) /\ spoiled \subseteq Addresses
    BY DEF IInv, TypeOK, PagesOK
  <1>5. /\ PagesOK(pageTable')
        /\ \A b \in Nat :
              \/ b \in Beyond(a, n)
              \/ PageOffset(b) < Excess(a, n) /\ PageNumber(b) # PageNumber(a)
              \/ ByteAt(pageTable', b) = IF b - a \in 0 .. (n - 1) THEN bytes[b - a]
                                         ELSE ByteAt(pageTable, b)
    BY <1>1, <1>3, <1>4, WrittenByte
  <1>6. spoiled' \subseteq Addresses
    BY <1>3, <1>4
  <1>7. ASSUME NEW b \in Addresses \ spoiled', b \in spoiled
        PROVE  b - a \in 0 .. (n - 1)
    <2>1. b \in Inside(a, n) /\ b \in Nat
      BY <1>1, <1>3, <1>7
    <2>2. Excess(a, n) \in Nat /\ Excess(a, n) < n
      BY <1>1, ExcessFacts
    <2> QED BY <1>1, <2>1, <2>2 DEF Inside
  <1>8. ASSUME NEW b \in Addresses \ spoiled'
        PROVE  /\ ByteAt(pageTable', b) = IF b - a \in 0 .. (n - 1) THEN bytes[b - a]
                                          ELSE ByteAt(pageTable, b)
               /\ flat'[b] = IF b - a \in 0 .. (n - 1) THEN bytes[b - a] ELSE flat[b]
    BY <1>1, <1>3, <1>5
  <1> QED BY <1>5, <1>6, <1>7, <1>8

\* A write changes the pages as it changes the flat memory.
LEMMA WriteIInv ==
    ASSUME IInv, NEW scope \in Scopes, NEW a \in Addresses, NEW n \in Widths,
           NEW bytes \in [0 .. (n - 1) -> Byte], Write(scope, a, bytes)
    PROVE  IInv'
  <1>1. UNCHANGED <<HP, SP, status>>
    BY DEF Write
  <1>2. flat' \in [Addresses -> Byte]
    BY DEF Write, IInv, TypeOK
  <1>3. TypeOK'
    BY <1>1, <1>2, WriteFacts DEF TypeOK, IInv, PagesOK
  <1>4. Agree'
    BY WriteFacts DEF IInv, Agree
  <1> QED BY <1>1, <1>3, <1>4 DEF IInv

\* The invariant is inductive.
LEMMA NextIInv == IInv /\ [Next]_vars => IInv'
  <1> SUFFICES ASSUME IInv, [Next]_vars PROVE IInv'
    OBVIOUS
  <1>1. ASSUME NEW scope \in Scopes, NEW a \in Addresses, NEW n \in Widths,
               NEW bytes \in [0 .. (n - 1) -> Byte], Write(scope, a, bytes)
        PROVE  IInv'
    BY <1>1, WriteIInv
  <1>2. ASSUME NEW scope \in Scopes, NEW a \in Addresses, Refused(scope, a)
        PROVE  IInv'
    BY <1>2 DEF Refused, IInv, TypeOK, Agree
  <1>3. ASSUME NEW hp \in HeapTops, MoveHP(hp) PROVE IInv'
    BY <1>3, PagedMemoryAssumption DEF MoveHP, IInv, TypeOK, Agree, Addresses
  <1>4. ASSUME NEW sp \in StackTops, MoveSP(sp) PROVE IInv'
    BY <1>4, PagedMemoryAssumption DEF MoveSP, IInv, TypeOK, Agree, Addresses
  <1>5. CASE UNCHANGED vars
    BY <1>5 DEF vars, IInv, TypeOK, Agree
  <1> QED BY <1>1, <1>2, <1>3, <1>4, <1>5 DEF Next

\* Every byte that no write past a page's end has reached is what a flat
\* memory would hold, in every state.
THEOREM Invariance == Spec => []IInv
  BY InitIInv, NextIInv, PTL DEF Spec

\* The page table holds whole pages, and the registers stay in memory,
\* whatever instructions write.
THEOREM TypeCorrect == Spec => []TypeOK
  <1>1. IInv => TypeOK
    BY DEF IInv
  <1> QED BY <1>1, Invariance, PTL

\* Values that lie in one page read as in the flat memory of the
\* documentation, however pages came into being, until a write that ran past
\* its page has reached them.
THEOREM PagesReadFlat == Spec => []ReadsAgree
  <1>1. ASSUME IInv, NEW a \in Addresses, NEW n \in Widths,
               Excess(a, n) = 0, (a .. (a + n - 1)) \cap spoiled = {}
        PROVE  ReadBytes(pageTable, a, n) = [i \in 0 .. (n - 1) |-> flat[a + i]]
    <2>1. n \in Nat \ {0} /\ a \in Nat
      BY PagedMemoryAssumption DEF Addresses
    <2>2. ASSUME NEW i \in 0 .. (n - 1)
          PROVE  (IF PageNumber(a) \in DOMAIN pageTable
                  THEN pageTable[PageNumber(a)][PageOffset(a + i)] ELSE 0) = flat[a + i]
      <3>1. i \in Nat /\ PageOffset(a) + i < PageSize
        BY <1>1, <2>1, ExcessFacts
      <3>2. PageNumber(a + i) = PageNumber(a) /\ a + i \in Addresses
        BY <2>1, <3>1, PageSizePositive, SamePage, PageInMemory
      <3>3. a + i \notin spoiled
        BY <1>1, <2>1, <3>1
      <3>4. ByteAt(pageTable, a + i) = flat[a + i]
        BY <1>1, <3>2, <3>3 DEF IInv, Agree
      <3> QED BY <3>2, <3>4 DEF ByteAt
    <2> QED BY <2>2 DEF ReadBytes
  <1>2. IInv => ReadsAgree
    BY <1>1 DEF ReadsAgree
  <1> QED BY <1>2, Invariance, PTL

\* checkAddressInRegion keeps instructions from changing the code.
THEOREM CodeStaysReadOnly == Spec => CodeReadOnly
  <1> DEFINE Kept == \A a \in Addresses \ spoiled' :
                        InCode(a) => ReadBytes(pageTable', a, 1) = ReadBytes(pageTable, a, 1)
  <1>1. ASSUME IInv, [Next]_vars PROVE [Kept]_vars
    <2>1. ASSUME NEW scope \in Scopes, NEW a \in Addresses, NEW n \in Widths,
                 NEW bytes \in [0 .. (n - 1) -> Byte], Write(scope, a, bytes)
          PROVE  Kept
      <3> SUFFICES ASSUME NEW b \in Addresses \ spoiled', InCode(b)
                   PROVE  ReadBytes(pageTable', b, 1) = ReadBytes(pageTable, b, 1)
        OBVIOUS
      <3>1. StartOfData <= a
        <4>1. a \in Nat /\ HB \in Nat /\ StartOfData \in Nat /\ StartOfData <= HB
              /\ SP \in Nat /\ HB <= SP
          BY <1>1, PagedMemoryAssumption DEF IInv, TypeOK, Addresses
        <4>2. scope # "CODE" /\ InRegion(scope, a)
          BY <2>1 DEF Write
        <4>3. InData(a) \/ InHeap(a) \/ InStack(a)
          BY <4>2 DEF InRegion, Scopes
        <4> QED BY <4>1, <4>3 DEF InData, InHeap, InStack
      <3>2. ~ (b - a \in 0 .. (n - 1))
        BY <3>1, PagedMemoryAssumption DEF InCode, Addresses
      <3>3. ByteAt(pageTable', b) = ByteAt(pageTable, b)
        BY <1>1, <2>1, <3>2, WriteFacts
      <3>4. \A i \in 0 .. 0 : b + i = b
        BY DEF Addresses
      <3> QED BY <3>3, <3>4 DEF ReadBytes, ByteAt
    <2>2. CASE UNCHANGED pageTable
      BY <2>2 DEF ReadBytes
    <2> QED BY <1>1, <2>1, <2>2 DEF Next, Refused, MoveHP, MoveSP
  <1>2. CodeReadOnly <=> [][Kept]_vars
    BY DEF CodeReadOnly
  <1> QED BY <1>1, <1>2, Invariance, PTL DEF Spec
=============================================================================
