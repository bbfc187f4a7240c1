----------------------------- MODULE PagesProofs -----------------------------
(***************************************************************************)
(* Facts about page numbers and offsets (module Pages) that the proofs     *)
(* about memory and about the call stack share, for every page size.       *)
(***************************************************************************)
EXTENDS Pages, TLAPS

\* Dividing by a number.
LEMMA Division ==
    ASSUME NEW P \in Nat \ {0}, NEW a \in Nat
    PROVE  /\ a \div P \in Nat
           /\ a % P \in 0 .. (P - 1)
           /\ a = P * (a \div P) + (a % P)
  OBVIOUS

\* Multiples of a number lie that number apart.
LEMMA Multiples ==
    ASSUME NEW P \in Nat \ {0}, NEW q \in Nat, NEW r \in Nat, q < r
    PROVE  P * q + P <= P * r
  <1>1. PICK d \in Nat : r = q + 1 + d
    <2>1. r - q - 1 \in Nat /\ r = q + 1 + (r - q - 1)
      OBVIOUS
    <2> QED BY <2>1
  <1>2. P * r = P * q + P + P * d
    BY <1>1
  <1>3. P * d \in Nat /\ P * q \in Nat
    BY <1>1
  <1> QED BY <1>2, <1>3

\* A page number and an offset determine the address and are found again.
LEMMA DivisionUnique ==
    ASSUME NEW P \in Nat \ {0}, NEW q \in Nat, NEW o \in 0 .. (P - 1)
    PROVE  (P * q + o) \div P = q /\ (P * q + o) % P = o
  <1>1. PICK a \in Nat : a = P * q + o
    <2>1. P * q + o \in Nat
      OBVIOUS
    <2> QED BY <2>1
  <1>2. PICK d, m : d = a \div P /\ m = a % P
    OBVIOUS
  <1>3. d \in Nat /\ m \in 0 .. (P - 1) /\ a = P * d + m
    BY <1>2, Division
  <1>4. /\ P * d \in Nat /\ P * q \in Nat
        /\ d < q => P * d + P <= P * q
        /\ q < d => P * q + P <= P * d
    BY <1>3, Multiples
  <1>5. d = q
    BY <1>1, <1>3, <1>4
  <1> QED BY <1>1, <1>2, <1>3, <1>5

\* Where an address lies in the page table.
LEMMA PageFacts ==
    ASSUME PageSize \in Nat \ {0}, NEW a \in Nat
    PROVE  /\ PageNumber(a) \in Nat
           /\ PageOffset(a) \in 0 .. (PageSize - 1)
           /\ a = PageSize * PageNumber(a) + PageOffset(a)
  BY Division DEF PageNumber, PageOffset

\* The address of an offset in a page.
LEMMA PageOf ==
    ASSUME PageSize \in Nat \ {0}, NEW p \in Nat, NEW o \in 0 .. (PageSize - 1)
    PROVE  /\ PageSize * p + o \in Nat
           /\ PageNumber(PageSize * p + o) = p
           /\ PageOffset(PageSize * p + o) = o
  BY DivisionUnique DEF PageNumber, PageOffset

\* Bytes that follow a in its page.
LEMMA SamePage ==
    ASSUME PageSize \in Nat \ {0}, NEW a \in Nat, NEW i \in Nat, PageOffset(a) + i < PageSize
    PROVE  /\ PageNumber(a + i) = PageNumber(a)
           /\ PageOffset(a + i) = PageOffset(a) + i
  <1>1. PICK p \in Nat, o \in 0 .. (PageSize - 1) :
           p = PageNumber(a) /\ o = PageOffset(a) /\ a = PageSize * p + o
    BY PageFacts
  <1>2. PICK x \in 0 .. (PageSize - 1) : x = o + i
    <2>1. o + i \in 0 .. (PageSize - 1)
      BY <1>1
    <2> QED BY <2>1
  <1>3. PageSize * p + x = a + i
    <2>1. PICK y \in Nat : y = PageSize * p
      OBVIOUS
    <2>2. a = y + o
      BY <1>1, <2>1, Zenon
    <2>3. y + x = a + i
      BY <1>2, <2>2
    <2> QED BY <2>1, <2>3, Zenon
  <1>4. PageNumber(PageSize * p + x) = p /\ PageOffset(PageSize * p + x) = x
    BY PageOf
  <1> QED BY <1>1, <1>2, <1>3, <1>4
==============================================================================
