-------------------------- MODULE PagedStackProofs --------------------------
(***************************************************************************)
(* Proofs about module PagedStack, for every page size, base, stack and    *)
(* set of methods and values.                                              *)
(***************************************************************************)
EXTENDS PagedStack, PagesProofs, SequenceTheorems, FiniteSetTheorems

CSP == INSTANCE CallStackProofs WITH
    mem <- Words, HP <- HB, HeapTops <- {}, Offsets <- Offsets \ {0}

LEMMA StackConstants == CSP!CallStackAssumption
  BY PagedStackAssumption DEF CSP!CallStackAssumption, Method, FrameBytes, Slot, Word32,
     CSP!Method, CSP!FrameBytes, CSP!Slot, CSP!Value

-----------------------------------------------------------------------------
(***************************************************************************)
(* Bytes and words.                                                        *)
(***************************************************************************)
Digit == 0 .. (Base - 1)

\* The word that four bytes from the i-th on make up.
WordOf(bytes, i) ==
    bytes[i] + bytes[i + 1] * Weight(1) + bytes[i + 2] * Weight(2) + bytes[i + 3] * Weight(3)

\* Dividing twice is dividing by the product.
LEMMA DivideTwice ==
    ASSUME NEW P \in Nat \ {0}, NEW Q \in Nat \ {0}, NEW w \in Nat
    PROVE  w \div (P * Q) = (w \div P) \div Q
  <1>1. PICK q \in Nat, r \in 0 .. (P - 1) : q = w \div P /\ w = P * q + r
    BY Division
  <1>2. PICK s \in Nat, t \in 0 .. (Q - 1) : s = q \div Q /\ q = Q * s + t
    BY Division
  <1>3. PICK M \in Nat \ {0} : M = P * Q
    <2>1. P * Q \in Nat \ {0}
      OBVIOUS
    <2> QED BY <2>1
  <1>4. PICK o \in Nat : o = P * t + r
    OBVIOUS
  <1>5. w = M * s + o
    <2>1. P * q = P * (Q * s) + P * t
      BY <1>2
    <2>2. P * (Q * s) = M * s
      BY <1>3
    <2> QED BY <1>1, <1>4, <2>1, <2>2
  <1>6. o < M
    <2>1. P * t + P <= P * Q
      BY Multiples
    <2>2. P * t \in Nat
      OBVIOUS
    <2>3. PICK x \in Nat : x = P * t
      BY <2>2
    <2> QED BY <2>1, <2>3, <1>3, <1>4
  <1>7. (M * s + o) \div M = s
    BY <1>6, DivisionUnique
  <1> QED BY <1>2, <1>1, <1>3, <1>5, <1>7

\* A word is made up of its bytes.
LEMMA DigitsOfWord ==
    ASSUME NEW w \in Word32
    PROVE  /\ BytesOf32(w) \in [0 .. 3 -> Digit]
           /\ WordOf(BytesOf32(w), 0) = w
  <1> DEFINE B == Base
  <1>1. B \in Nat \ {0} /\ w \in Nat /\ w < B * B * B * B
    BY PagedStackAssumption DEF Word32
  <1>2. PICK q1 \in Nat, r0 \in 0 .. (B - 1) : q1 = w \div B /\ r0 = w % B /\ w = B * q1 + r0
    BY <1>1, Division
  <1>3. PICK q2 \in Nat, r1 \in 0 .. (B - 1) : q2 = q1 \div B /\ r1 = q1 % B /\ q1 = B * q2 + r1
    BY <1>1, Division
  <1>4. PICK q3 \in Nat, r2 \in 0 .. (B - 1) : q3 = q2 \div B /\ r2 = q2 % B /\ q2 = B * q3 + r2
    BY <1>1, Division
  <1>5. PICK C \in Nat \ {0} : C = B * B
    <2>1. B * B \in Nat \ {0}
      BY <1>1
    <2> QED BY <2>1
  <1>6. PICK D \in Nat \ {0} : D = B * B * B
    <2>1. C * B \in Nat \ {0}
      BY <1>1
    <2> QED BY <2>1, <1>5
  <1>w. Weight(1) = B /\ Weight(2) = C /\ Weight(3) = D
    BY <1>5, <1>6 DEF Weight
  <1>7. w \div C = q2
    BY <1>1, <1>2, <1>3, <1>5, DivideTwice
  <1>8. w \div D = q3
    <2>1. w \div (C * B) = (w \div C) \div B
      BY <1>1, DivideTwice
    <2> QED BY <2>1, <1>4, <1>5, <1>6, <1>7
  <1>9. w = r0 + r1 * B + r2 * C + q3 * D
    <2>1. B * q1 = B * (B * q2) + B * r1
      BY <1>1, <1>3
    <2>2. B * (B * q2) = C * q2
      BY <1>1, <1>5
    <2>3. C * q2 = C * (B * q3) + C * r2
      BY <1>1, <1>4
    <2>4. C * (B * q3) = D * q3
      BY <1>1, <1>5, <1>6
    <2> QED BY <1>1, <1>2, <2>1, <2>2, <2>3, <2>4
  <1>10. q3 \in 0 .. (B - 1)
    <2>1. D * B = B * B * B * B
      BY <1>1, <1>6
    <2>2. D * q3 <= w
      <3>1. r0 \in Nat /\ r1 * B \in Nat /\ r2 * C \in Nat /\ q3 * D \in Nat /\ D * q3 = q3 * D
        BY <1>1
      <3> QED BY <3>1, <1>9
    <2>3. B <= q3 => D * B <= D * q3
      <3>1. B < q3 => D * B + D <= D * q3
        BY <1>1, Multiples
      <3>2. D * B \in Nat /\ D * q3 \in Nat
        BY <1>1
      <3> QED BY <3>1, <3>2, <1>1
    <2>4. PICK x \in Nat, y \in Nat : x = D * B /\ y = D * q3
      BY <1>1
    <2> QED BY <1>1, <2>1, <2>2, <2>3, <2>4
  <1>11. q3 % B = q3
    <2>1. (B * 0 + q3) % B = q3
      BY <1>1, <1>10, DivisionUnique
    <2>2. B * 0 + q3 = q3
      BY <1>1
    <2> QED BY <2>1, <2>2
  <1>12. BytesOf32(w) = [i \in 0 .. 3 |-> IF i = 0 THEN r0 ELSE IF i = 1 THEN r1
                                         ELSE IF i = 2 THEN r2 ELSE q3]
    <2>1. (w \div Weight(0)) % B = r0
      <3>1. w \div 1 = w
        BY <1>1
      <3> QED BY <3>1, <1>2 DEF Weight
    <2>2. (w \div Weight(1)) % B = r1
      BY <1>2, <1>3, <1>w, Zenon
    <2>3. (w \div Weight(2)) % B = r2
      BY <1>4, <1>7, <1>w, Zenon
    <2>4. (w \div Weight(3)) % B = q3
      BY <1>8, <1>11, <1>w, Zenon
    <2>5. \A i \in 0 .. 3 : i = 0 \/ i = 1 \/ i = 2 \/ i = 3
      OBVIOUS
    <2> HIDE DEF B
    <2>6. \A i \in 0 .. 3 : (w \div Weight(i)) % B = IF i = 0 THEN r0 ELSE IF i = 1 THEN r1
                                                     ELSE IF i = 2 THEN r2 ELSE q3
      BY <2>1, <2>2, <2>3, <2>4, <2>5
    <2> QED BY <2>6 DEF BytesOf32, B
  <1>13. WordOf(BytesOf32(w), 0) = r0 + r1 * B + r2 * C + q3 * D
    <2>1. /\ BytesOf32(w)[0] = r0 /\ BytesOf32(w)[0 + 1] = r1
          /\ BytesOf32(w)[0 + 2] = r2 /\ BytesOf32(w)[0 + 3] = q3
      BY <1>12
    <2> HIDE DEF B
    <2> QED BY <1>w, <2>1, Zenon DEF WordOf
  <1> QED BY <1>9, <1>10, <1>12, <1>13 DEF Digit

\* So is each half of a 64-bit value.
LEMMA DigitsOfValue ==
    ASSUME NEW v, v.low \in Word32, v.high \in Word32
    PROVE  /\ BytesOf64(v) \in [0 .. 7 -> Digit]
           /\ WordOf(BytesOf64(v), 0) = v.low
           /\ WordOf(BytesOf64(v), 4) = v.high
  <1>1. PICK b : b = BytesOf32(v.low) /\ b \in [0 .. 3 -> Digit] /\ WordOf(b, 0) = v.low
    BY DigitsOfWord
  <1>2. PICK c : c = BytesOf32(v.high) /\ c \in [0 .. 3 -> Digit] /\ WordOf(c, 0) = v.high
    BY DigitsOfWord
  <1>3. BytesOf64(v) = [i \in 0 .. 7 |-> IF i < 4 THEN b[i] ELSE c[i - 4]]
    BY <1>1, <1>2 DEF BytesOf64
  <1>4. /\ BytesOf64(v)[0] = b[0] /\ BytesOf64(v)[1] = b[1]
        /\ BytesOf64(v)[2] = b[2] /\ BytesOf64(v)[3] = b[3]
        /\ BytesOf64(v)[4] = c[0] /\ BytesOf64(v)[5] = c[1]
        /\ BytesOf64(v)[6] = c[2] /\ BytesOf64(v)[7] = c[3]
    BY <1>3
  <1>5. BytesOf64(v) \in [0 .. 7 -> Digit]
    BY <1>1, <1>2, <1>3
  <1>6. 0 + 1 = 1 /\ 0 + 2 = 2 /\ 0 + 3 = 3 /\ 4 + 1 = 5 /\ 4 + 2 = 6 /\ 4 + 3 = 7
    OBVIOUS
  <1>7. WordOf(BytesOf64(v), 0) = WordOf(b, 0) /\ WordOf(BytesOf64(v), 4) = WordOf(c, 0)
    BY <1>4, <1>6, Zenon DEF WordOf
  <1> QED BY <1>1, <1>2, <1>5, <1>7

-----------------------------------------------------------------------------
(***************************************************************************)
(* Pages.  Cell(t, p, o) is what a read finds at offset o of page p.       *)
(***************************************************************************)
TableOK(t) ==
    \A p \in DOMAIN t : p \in Nat /\ t[p] \in [0 .. (PageSize - 1) -> Digit]

Cell(t, p, o) == IF p \in DOMAIN t THEN t[p][o] ELSE 0

LEMMA Sizes ==
    /\ PageSize \in Nat \ {0} /\ PageSize % 8 = 0 /\ PageSize >= 8
    /\ MaxAddress \in Nat /\ MaxAddress % 8 = 7
  <1>1. PageSize \in Nat \ {0} /\ PageSize % 8 = 0 /\ MaxAddress \in Nat
    BY PagedStackAssumption DEF Slot
  <1>2. PageSize >= 8
    BY <1>1
  <1>3. PICK k \in Nat : PageSize = 8 * k
    <2>1. PageSize \div 8 \in Nat /\ PageSize = 8 * (PageSize \div 8)
      BY <1>1
    <2> QED BY <2>1
  <1>4. PICK j \in Nat : MaxAddress + 1 = PageSize * j
    <2>1. PICK n \in Nat : n = MaxAddress + 1
      BY <1>1
    <2>2. n % PageSize = 0
      BY <2>1, PagedStackAssumption
    <2>3. n \div PageSize \in Nat /\ n = PageSize * (n \div PageSize) + (n % PageSize)
      BY <1>1, Division
    <2>4. PICK j \in Nat : j = n \div PageSize
      BY <2>3
    <2>5. n = PageSize * j + 0 /\ PageSize * j \in Nat
      BY <1>1, <2>2, <2>3, <2>4
    <2> QED BY <2>1, <2>5
  <1>5. PICK i \in Nat : i = k * j
    OBVIOUS
  <1>6. MaxAddress + 1 = 8 * i
    BY <1>3, <1>4, <1>5
  <1>7. MaxAddress % 8 = 7
    BY <1>1, <1>6
  <1> QED BY <1>1, <1>2, <1>7

\* An offset is congruent to its address.
LEMMA AlignedOffset ==
    ASSUME NEW a \in Nat
    PROVE  /\ PageNumber(a) \in Nat
           /\ PageOffset(a) \in 0 .. (PageSize - 1)
           /\ a = PageSize * PageNumber(a) + PageOffset(a)
           /\ PageOffset(a) % 8 = a % 8
           /\ PageOffset(a) % 4 = a % 4
  <1>1. PICK p \in Nat, o \in 0 .. (PageSize - 1) :
           p = PageNumber(a) /\ o = PageOffset(a) /\ a = PageSize * p + o
    BY Sizes, PageFacts
  <1>2. PICK k \in Nat : PageSize = 8 * k
    <2>1. PageSize \div 8 \in Nat /\ PageSize = 8 * (PageSize \div 8)
      BY Sizes
    <2> QED BY <2>1
  <1>3. PICK i \in Nat : i = k * p
    OBVIOUS
  <1>4. a = 8 * i + o
    <2>1. PageSize * p = 8 * i
      BY <1>2, <1>3
    <2> QED BY <2>1, <1>1
  <1>5. o \in Nat
    BY Sizes
  <1>6. o % 8 = a % 8 /\ o % 4 = a % 4
    BY <1>4, <1>5
  <1> QED BY <1>1, <1>6

\* So the offset of a word is that of a word in its page.
LEMMA AlignedWord ==
    ASSUME NEW a \in Nat, a % 4 = 3
    PROVE  \E q \in Nat, x \in 0 .. (PageSize - 1), w \in Nat :
              /\ q = PageNumber(a) /\ x = PageOffset(a) /\ a = PageSize * q + x
              /\ x = 4 * w + 3
  <1>1. /\ PageNumber(a) \in Nat
        /\ PageOffset(a) \in 0 .. (PageSize - 1)
        /\ a = PageSize * PageNumber(a) + PageOffset(a)
        /\ PageOffset(a) % 4 = a % 4
    BY AlignedOffset
  <1>2. PICK x \in 0 .. (PageSize - 1) : x = PageOffset(a) /\ x % 4 = 3
    BY <1>1, Zenon
  <1>3. x \in Nat
    BY Sizes
  <1>4. PICK w \in Nat : x = 4 * w + 3
    <2>1. x \div 4 \in Nat /\ x = 4 * (x \div 4) + 3
      BY <1>2, <1>3
    <2> QED BY <2>1
  <1> QED BY <1>1, <1>2, <1>4, Zenon

\* A page table stays one, wherever the bytes end that do not fit.
LEMMA WrittenTyped ==
    ASSUME NEW t, TableOK(t), NEW a \in Nat, NEW n \in Nat \ {0},
           NEW bytes \in [0 .. (n - 1) -> Digit], NEW t2 \in Written(t, a, bytes)
    PROVE  TableOK(t2)
  <1> DEFINE p == PageNumber(a)
             o == PageOffset(a)
             e == Excess(a, n)
             base == WithPage(t, p)
             kept == [base EXCEPT ![p] = Overlaid(base[p], o, bytes)]
             lost == [i \in 0 .. (e - 1) |-> bytes[n - e + i]]
  <1>1. Cardinality(DOMAIN bytes) = n
    BY FS_Interval
  <1>2. p \in Nat /\ o \in 0 .. (PageSize - 1) /\ PageSize \in Nat \ {0}
    BY AlignedOffset, Sizes
  <1>3. e \in Nat /\ e < n
    BY <1>2 DEF Excess
  <1>4. lost \in [0 .. (e - 1) -> Digit]
    BY <1>3
  <1>5. NewPage \in [0 .. (PageSize - 1) -> Digit]
    BY PagedStackAssumption DEF NewPage, Digit
  <1>6. TableOK(base) /\ p \in DOMAIN base
    BY <1>2, <1>5 DEF TableOK, WithPage
  <1> HIDE DEF base, e, p, o
  <1>7. ASSUME NEW page \in [0 .. (PageSize - 1) -> Digit], NEW f, NEW m \in Nat,
               NEW b \in [0 .. (m - 1) -> Digit]
        PROVE  Overlaid(page, f, b) \in [0 .. (PageSize - 1) -> Digit]
    BY DEF Overlaid
  <1>8. base[p] \in [0 .. (PageSize - 1) -> Digit]
    BY <1>6 DEF TableOK
  <1>9. Overlaid(base[p], o, bytes) \in [0 .. (PageSize - 1) -> Digit]
    BY <1>7, <1>8
  <1>10. TableOK(kept)
    BY <1>6, <1>9 DEF TableOK
  <1>11. t2 = kept \/ \E q \in DOMAIN kept \ {p} : t2 = [kept EXCEPT ![q] = Overlaid(kept[q], 0, lost)]
    BY <1>1 DEF Written, base, e, p, o
  <1> HIDE DEF kept, lost
  <1>12. CASE t2 = kept
    BY <1>10, <1>12
  <1>13. ASSUME NEW q \in DOMAIN kept, t2 = [kept EXCEPT ![q] = Overlaid(kept[q], 0, lost)]
         PROVE  TableOK(t2)
    <2>1. Overlaid(kept[q], 0, lost) \in [0 .. (PageSize - 1) -> Digit]
      <3>1. kept[q] \in [0 .. (PageSize - 1) -> Digit]
        BY <1>10 DEF TableOK
      <3> QED BY <3>1, <1>3, <1>4, <1>7
    <2> QED BY <2>1, <1>10, <1>13 DEF TableOK
  <1> QED BY <1>11, <1>12, <1>13

\* A write that ends in its page changes the cells it names and no other.
CellsWritten(t, a, n, bytes, t2) ==
    \A q \in Nat, x \in 0 .. (PageSize - 1) :
       Cell(t2, q, x) =
          IF q = PageNumber(a) /\ x - PageOffset(a) \in 0 .. (n - 1)
          THEN bytes[x - PageOffset(a)] ELSE Cell(t, q, x)

LEMMA WrittenCells ==
    ASSUME NEW t, TableOK(t), NEW a \in Nat, NEW n \in Nat \ {0},
           NEW bytes \in [0 .. (n - 1) -> Digit], NEW t2 \in Written(t, a, bytes),
           Excess(a, n) = 0
    PROVE  CellsWritten(t, a, n, bytes, t2)
  <1> DEFINE p == PageNumber(a)
             o == PageOffset(a)
             base == WithPage(t, p)
             kept == [base EXCEPT ![p] = Overlaid(base[p], o, bytes)]
             lost == [i \in 0 .. (0 - 1) |-> bytes[n - 0 + i]]
  <1>1. Cardinality(DOMAIN bytes) = n
    BY FS_Interval
  <1>2. p \in Nat /\ o \in 0 .. (PageSize - 1) /\ PageSize \in Nat \ {0}
    BY AlignedOffset, Sizes
  <1>5. NewPage \in [0 .. (PageSize - 1) -> Digit] /\ \A x \in 0 .. (PageSize - 1) : NewPage[x] = 0
    BY PagedStackAssumption DEF NewPage, Digit
  <1>6. /\ TableOK(base) /\ p \in DOMAIN base
        /\ \A q \in Nat, x \in 0 .. (PageSize - 1) : Cell(base, q, x) = Cell(t, q, x)
    BY <1>2, <1>5 DEF TableOK, WithPage, Cell
  <1>11. t2 = kept \/ \E q \in DOMAIN kept \ {p} : t2 = [kept EXCEPT ![q] = Overlaid(kept[q], 0, lost)]
    BY <1>1, Zenon DEF Written
  <1> HIDE DEF base, p, o
  <1>8. base[p] \in [0 .. (PageSize - 1) -> Digit]
    BY <1>6 DEF TableOK
  <1>9. /\ Overlaid(base[p], o, bytes) \in [0 .. (PageSize - 1) -> Digit]
        /\ \A x \in 0 .. (PageSize - 1) :
              Overlaid(base[p], o, bytes)[x] =
                 IF x - o \in 0 .. (n - 1) THEN bytes[x - o] ELSE base[p][x]
    BY <1>8 DEF Overlaid
  <1>10. /\ DOMAIN kept = DOMAIN base
         /\ kept[p] = Overlaid(base[p], o, bytes)
         /\ \A q \in DOMAIN kept : q # p => kept[q] = base[q]
         /\ TableOK(kept)
    BY <1>6, <1>9 DEF TableOK
  <1> HIDE DEF kept
  <1>12. \A q \in DOMAIN kept : [kept EXCEPT ![q] = Overlaid(kept[q], 0, lost)] = kept
    <2>1. ASSUME NEW q \in DOMAIN kept PROVE Overlaid(kept[q], 0, lost) = kept[q]
      <3>1. kept[q] \in [0 .. (PageSize - 1) -> Digit]
        BY <1>10 DEF TableOK
      <3>2. \A x \in 0 .. (PageSize - 1) : ~ (x - 0 \in 0 .. (0 - 1))
        BY <1>2
      <3> QED BY <3>1, <3>2 DEF Overlaid
    <2>2. kept = [q \in DOMAIN kept |-> kept[q]]
      BY DEF kept
    <2> QED BY <2>1, <2>2
  <1>13. t2 = kept
    BY <1>11, <1>12
  <1>14. ASSUME NEW q \in Nat, NEW x \in 0 .. (PageSize - 1)
         PROVE  Cell(kept, q, x) = IF q = p /\ x - o \in 0 .. (n - 1) THEN bytes[x - o]
                                   ELSE Cell(base, q, x)
    <2>1. CASE q = p
      BY <2>1, <1>6, <1>9, <1>10 DEF Cell
    <2>2. CASE q # p
      BY <2>2, <1>10 DEF Cell
    <2> QED BY <2>1, <2>2
  <1> QED BY <1>6, <1>13, <1>14 DEF p, o, CellsWritten

-----------------------------------------------------------------------------
(***************************************************************************)
(* Words in pages.  WordIn(t, a) is what read32 finds at a.                *)
(***************************************************************************)
WordIn(t, a) == WordOf(ReadBytes(t, a, 4), 0)

LEMMA Read32IsWord == \A a : Read32(a) = WordIn(pageTable, a)
  <1>2. 0 + 1 = 1 /\ 0 + 2 = 2 /\ 0 + 3 = 3
    OBVIOUS
  <1> QED BY <1>2, Zenon DEF Read32, WordIn, WordOf

\* A read wraps around at the end of its page.
LEMMA ReadOffset ==
    ASSUME NEW a \in Nat, NEW i \in 0 .. 3
    PROVE  PageOffset(a + i) = IF PageOffset(a) + i < PageSize THEN PageOffset(a) + i
                               ELSE PageOffset(a) + i - PageSize
  <1>1. PICK p \in Nat, o \in 0 .. (PageSize - 1) :
           p = PageNumber(a) /\ o = PageOffset(a) /\ a = PageSize * p + o
    BY Sizes, PageFacts
  <1>2. CASE o + i < PageSize
    BY <1>1, <1>2, Sizes, SamePage
  <1>3. CASE ~ (o + i < PageSize)
    <2>1. PICK x \in 0 .. (PageSize - 1), q \in Nat : x = o + i - PageSize /\ q = p + 1
      <3>1. o + i - PageSize \in 0 .. (PageSize - 1) /\ p + 1 \in Nat
        BY <1>3, Sizes
      <3> QED BY <3>1
    <2>2. PageSize * q = PageSize * p + PageSize
      BY <2>1, Sizes
    <2>3. PICK y \in Nat : y = PageSize * p
      BY Sizes
    <2>4. PageSize * q + x = a + i
      <3>1. a = y + o
        BY <1>1, <2>3, Zenon
      <3>2. PageSize * q = y + PageSize
        BY <2>2, <2>3, Zenon
      <3>3. y + PageSize + x = a + i
        BY <3>1, <2>1, Sizes
      <3> QED BY <3>2, <3>3, Zenon
    <2>5. PageOffset(PageSize * q + x) = x
      BY Sizes, PageOf
    <2> QED BY <1>1, <1>3, <2>1, <2>4, <2>5
  <1> QED BY <1>2, <1>3

\* Where the bytes of a word come from.
LEMMA ReadCell ==
    ASSUME NEW t, NEW a, NEW i \in 0 .. 3
    PROVE  ReadBytes(t, a, 4)[i] = Cell(t, PageNumber(a), PageOffset(a + i))
  <1>1. i \in 0 .. (4 - 1)
    OBVIOUS
  <1> QED BY <1>1 DEF ReadBytes, Cell

LEMMA WordNatural ==
    ASSUME NEW t, TableOK(t), NEW a \in Nat
    PROVE  WordIn(t, a) \in Nat
  <1>1. ASSUME NEW i \in 0 .. 3
        PROVE  ReadBytes(t, a, 4)[i] \in Nat
    <2>1. ReadBytes(t, a, 4)[i] = Cell(t, PageNumber(a), PageOffset(a + i))
      BY ReadCell
    <2>2. PageOffset(a + i) \in 0 .. (PageSize - 1)
      BY AlignedOffset
    <2>3. Cell(t, PageNumber(a), PageOffset(a + i)) \in Nat
      BY <2>2, PagedStackAssumption DEF Cell, TableOK, Digit
    <2> QED BY <2>1, <2>3
  <1>2. PICK b0 \in Nat, b1 \in Nat, b2 \in Nat, b3 \in Nat :
           /\ b0 = ReadBytes(t, a, 4)[0] /\ b1 = ReadBytes(t, a, 4)[1]
           /\ b2 = ReadBytes(t, a, 4)[2] /\ b3 = ReadBytes(t, a, 4)[3]
    BY <1>1
  <1>3. PICK w1 \in Nat, w2 \in Nat, w3 \in Nat : w1 = Weight(1) /\ w2 = Weight(2) /\ w3 = Weight(3)
    <2>1. Weight(1) = Base /\ Weight(2) = Base * Base /\ Weight(3) = Base * Base * Base
      BY DEF Weight
    <2>2. Base \in Nat /\ Base * Base \in Nat /\ Base * Base * Base \in Nat
      BY PagedStackAssumption
    <2> QED BY <2>1, <2>2
  <1>4. WordIn(t, a) = b0 + b1 * w1 + b2 * w2 + b3 * w3
    <2>1. 0 + 1 = 1 /\ 0 + 2 = 2 /\ 0 + 3 = 3
      OBVIOUS
    <2> QED BY <2>1, <1>2, <1>3, Zenon DEF WordIn, WordOf
  <1>5. b0 + b1 * w1 + b2 * w2 + b3 * w3 \in Nat
    <2>1. b1 * w1 \in Nat /\ b2 * w2 \in Nat /\ b3 * w3 \in Nat
      OBVIOUS
    <2>2. PICK x \in Nat, y \in Nat, z \in Nat : x = b1 * w1 /\ y = b2 * w2 /\ z = b3 * w3
      BY <2>1
    <2> QED BY <2>2
  <1> QED BY <1>4, <1>5

\* Writing a word or a slot that lies in one page changes the words it names
\* and no other, not even those that a read would take from two pages.
InOnePage(t, b, n, bytes, t2) ==
    /\ TableOK(t) /\ b \in Nat /\ b % 4 = 3 /\ n \in {4, 8}
    /\ bytes \in [0 .. (n - 1) -> Digit] /\ t2 \in Written(t, b, bytes)
    /\ Excess(b, n) = 0

LEMMA WordsWritten ==
    ASSUME NEW t, NEW b, NEW n, NEW bytes, NEW t2, InOnePage(t, b, n, bytes, t2),
           NEW a \in Nat, a % 4 = 3
    PROVE  WordIn(t2, a) = IF a = b THEN WordOf(bytes, 0)
                           ELSE IF n = 8 /\ a = b + 4 THEN WordOf(bytes, 4)
                           ELSE WordIn(t, a)
  <1> USE DEF InOnePage
  <1>0. /\ TableOK(t) /\ b \in Nat /\ b % 4 = 3 /\ n \in {4, 8} /\ n \in Nat \ {0}
        /\ bytes \in [0 .. (n - 1) -> Digit] /\ t2 \in Written(t, b, bytes)
        /\ Excess(b, n) = 0
    OBVIOUS
  <1> HIDE DEF InOnePage
  <1>n. n \in {4, 8} /\ b \in Nat
    BY <1>0
  <1> USE <1>n
  <1>2. PICK p \in Nat, o \in 0 .. (PageSize - 1), u \in Nat :
           p = PageNumber(b) /\ o = PageOffset(b) /\ b = PageSize * p + o /\ o = 4 * u + 3
    BY <1>0, AlignedWord, Zenon
  <1>3. o + n <= PageSize /\ PageSize \in Nat \ {0} /\ o \in Nat
    <2>1. PageSize \in Nat \ {0}
      BY Sizes
    <2>2. o + n > PageSize => Excess(b, n) = o + n - PageSize
      BY <1>2 DEF Excess
    <2> QED BY <2>1, <2>2, <1>0
  <1>9. PICK K \in Nat : PageSize = 4 * K
    <2>2. PageSize % 8 = 0 /\ PageSize \in Nat
      BY Sizes
    <2>3. PageSize \div 4 \in Nat /\ PageSize = 4 * (PageSize \div 4)
      BY <2>2
    <2> QED BY <2>3
  <1>10. o \in Nat /\ o = 4 * u + 3 /\ PageSize = 4 * K /\ p = PageNumber(b) /\ o = PageOffset(b)
    BY <1>2, <1>3, <1>9, Zenon
  <1>4. \A q \in Nat, x \in 0 .. (PageSize - 1) :
           Cell(t2, q, x) = IF q = p /\ x - o \in 0 .. (n - 1) THEN bytes[x - o] ELSE Cell(t, q, x)
    <2>1. CellsWritten(t, b, n, bytes, t2)
      BY <1>0, WrittenCells
    <2> QED BY <2>1, <1>10, Zenon DEF CellsWritten
  <1>21. PICK q \in Nat, x \in 0 .. (PageSize - 1), w \in Nat :
           q = PageNumber(a) /\ x = PageOffset(a) /\ a = PageSize * q + x /\ x = 4 * w + 3
    BY AlignedWord, Zenon
  <1>27. x = 4 * w + 3 /\ q = PageNumber(a) /\ x = PageOffset(a)
    BY <1>21, Zenon
  <1>28. x \in Nat
    BY <1>27
  <1>22. ASSUME NEW i \in 0 .. 3
        PROVE  /\ PageOffset(a + i) \in 0 .. (PageSize - 1)
               /\ PageOffset(a + i) = IF x + i < PageSize THEN x + i ELSE x + i - PageSize
               /\ ReadBytes(t2, a, 4)[i] = Cell(t2, q, PageOffset(a + i))
               /\ ReadBytes(t, a, 4)[i] = Cell(t, q, PageOffset(a + i))
    <2>1. PageOffset(a + i) \in 0 .. (PageSize - 1)
      <3>1. a + i \in Nat
        OBVIOUS
      <3> QED BY <3>1, AlignedOffset, Zenon
    <2>2. PageOffset(a + i) = IF x + i < PageSize THEN x + i ELSE x + i - PageSize
      BY <1>27, ReadOffset, Zenon
    <2>3. /\ ReadBytes(t2, a, 4)[i] = Cell(t2, PageNumber(a), PageOffset(a + i))
          /\ ReadBytes(t, a, 4)[i] = Cell(t, PageNumber(a), PageOffset(a + i))
      BY ReadCell
    <2> QED BY <2>1, <2>2, <2>3, <1>27
  <1>23. ASSUME NEW k \in {0, 4}, k < n, a = b + k
        PROVE  WordIn(t2, a) = WordOf(bytes, k)
    <2>1. q = p /\ x = o + k
      <3>1. o + k < PageSize /\ k \in Nat
        BY <1>3, <1>23
      <3>2. PageNumber(b + k) = p /\ PageOffset(b + k) = o + k
        <4>1. PageOffset(b) + k < PageSize
          BY <3>1, <1>10, Zenon
        <4>2. PageNumber(b + k) = PageNumber(b) /\ PageOffset(b + k) = PageOffset(b) + k
          BY <4>1, <3>1, <1>3, SamePage
        <4> QED BY <4>2, <1>10, Zenon
      <3> QED BY <3>2, <1>27, <1>23, Zenon
    <2>2. ASSUME NEW i \in 0 .. 3 PROVE ReadBytes(t2, a, 4)[i] = bytes[k + i]
      <3>1. x + i < PageSize /\ PageOffset(a + i) = x + i
        <4>1. x + i < PageSize
          BY <1>3, <1>10, <1>23, <2>1
        <4> QED BY <4>1, <1>22
      <3>2. x + i - o = k + i /\ k + i \in 0 .. (n - 1)
        BY <1>3, <1>23, <2>1
      <3>3. x + i \in 0 .. (PageSize - 1)
        BY <3>1, <1>22
      <3>4. Cell(t2, q, x + i) = bytes[x + i - o]
        BY <1>4, <2>1, <3>2, <3>3
      <3> QED BY <3>1, <3>2, <3>4, <1>22
    <2>3. /\ ReadBytes(t2, a, 4)[0] = bytes[k] /\ ReadBytes(t2, a, 4)[1] = bytes[k + 1]
          /\ ReadBytes(t2, a, 4)[2] = bytes[k + 2] /\ ReadBytes(t2, a, 4)[3] = bytes[k + 3]
      <3>1. k + 0 = k
        OBVIOUS
      <3> QED BY <2>2, <3>1
    <2>4. 0 + 1 = 1 /\ 0 + 2 = 2 /\ 0 + 3 = 3
      OBVIOUS
    <2> QED BY <2>3, <2>4, Zenon DEF WordIn, WordOf
  <1>24. CASE a # b /\ ~ (n = 8 /\ a = b + 4)
    <2>1. ASSUME NEW i \in 0 .. 3 PROVE ReadBytes(t2, a, 4)[i] = ReadBytes(t, a, 4)[i]
      <3>1. PICK y \in 0 .. (PageSize - 1) :
               y = PageOffset(a + i) /\ y = IF x + i < PageSize THEN x + i ELSE x + i - PageSize
        BY <1>22
      <3>2. ~ (q = p /\ y - o \in 0 .. (n - 1))
        <4>1. SUFFICES ASSUME q = p, o <= y, y <= o + n - 1 PROVE FALSE
          BY <1>3, <3>1
        <4>2. w # u /\ (n = 8 => w # u + 1)
          <5>1. PICK z \in Nat : z = PageSize * p
            BY <1>3
          <5>2. a = z + x /\ b = z + o
            BY <5>1, <4>1, <1>2, <1>21, Zenon
          <5>3. x # o /\ (n = 8 => x # o + 4)
            BY <5>2, <1>24, <1>28, <1>3
          <5> QED BY <5>3, <1>27, <1>10
        <4>3. i = 0 \/ i = 1 \/ i = 2 \/ i = 3
          OBVIOUS
        <4>4. CASE x + i < PageSize
          <5>1. 4 * w + 3 + i >= 4 * u + 3 /\ 4 * w + 3 + i <= 4 * u + 2 + n
            BY <4>4, <3>1, <4>1, <1>27, <1>10, <1>3
          <5>2. w >= u
            BY <5>1, <4>3
          <5>3. 4 * w + 1 <= 4 * u + n
            BY <5>1, <4>3
          <5>4. n = 4 \/ n = 8
            OBVIOUS
          <5>5. n = 4 => w = u
            BY <5>2, <5>3
          <5>6. n = 8 => w = u \/ w = u + 1
            BY <5>2, <5>3
          <5> QED BY <4>2, <5>4, <5>5, <5>6, Zenon
        <4>5. CASE ~ (x + i < PageSize)
          <5>1. y = 4 * w + 3 + i - 4 * K /\ 4 * w + 3 < 4 * K
            BY <4>5, <3>1, <1>27, <1>10
          <5>2. y < 3
            BY <5>1, <4>3
          <5> QED BY <5>2, <4>1, <1>10
        <4> QED BY <4>4, <4>5
      <3>3. Cell(t2, q, y) = Cell(t, q, y)
        BY <1>4, <3>2
      <3> QED BY <3>1, <3>3, <1>22
    <2>2. /\ ReadBytes(t2, a, 4)[0] = ReadBytes(t, a, 4)[0]
          /\ ReadBytes(t2, a, 4)[0 + 1] = ReadBytes(t, a, 4)[0 + 1]
          /\ ReadBytes(t2, a, 4)[0 + 2] = ReadBytes(t, a, 4)[0 + 2]
          /\ ReadBytes(t2, a, 4)[0 + 3] = ReadBytes(t, a, 4)[0 + 3]
      BY <2>1
    <2>3. WordIn(t2, a) = WordIn(t, a)
      BY <2>2, Zenon DEF WordIn, WordOf
    <2> QED BY <1>24, <2>3
  <1>25. CASE a = b
    <2>1. 0 < n /\ a = b + 0
      BY <1>25
    <2> QED BY <2>1, <1>23, <1>25
  <1>26. CASE n = 8 /\ a = b + 4
    <2>1. a # b /\ 4 < n
      BY <1>26
    <2> QED BY <2>1, <1>23, <1>26
  <1> QED BY <1>24, <1>25, <1>26

-----------------------------------------------------------------------------
(***************************************************************************)
(* Sequences of writes.                                                    *)
(***************************************************************************)
\* A write of a word or of a slot where one may lie.
GoodWrite(w) ==
    /\ w.at \in Nat /\ w.at % 4 = 3
    /\ w.bytes \in [0 .. 3 -> Digit] \/ w.bytes \in [0 .. 7 -> Digit]

\* The addresses of the words it writes, and that they get what f says.
Covers(w, a) == a = w.at \/ (a = w.at + 4 /\ DOMAIN w.bytes = 0 .. 7)

Agrees(w, f) == /\ WordOf(w.bytes, 0) = f[w.at]
                /\ DOMAIN w.bytes = 0 .. 7 => WordOf(w.bytes, 4) = f[w.at + 4]

LEMMA OneWrite ==
    ASSUME NEW w, GoodWrite(w), NEW t, TableOK(t), NEW t2 \in Written(t, w.at, w.bytes)
    PROVE  /\ TableOK(t2)
           /\ ~ (Excess(w.at, Cardinality(DOMAIN w.bytes)) > 0) =>
                 \A f : Agrees(w, f) =>
                    \A a \in Nat : a % 4 = 3 =>
                       WordIn(t2, a) = IF Covers(w, a) THEN f[a] ELSE WordIn(t, a)
  <1>0. PICK bytes : bytes = w.bytes
    OBVIOUS
  <1>1. PICK b \in Nat : b = w.at /\ b % 4 = 3 /\ bytes = w.bytes
    BY <1>0 DEF GoodWrite
  <1>2. PICK n \in {4, 8} : bytes \in [0 .. (n - 1) -> Digit]
    <2>1. 4 - 1 = 3 /\ 8 - 1 = 7
      OBVIOUS
    <2> QED BY <2>1, <1>1 DEF GoodWrite
  <1>3. n \in Nat \ {0} /\ DOMAIN bytes = 0 .. (n - 1) /\ Cardinality(DOMAIN bytes) = n
    <2>1. n \in Nat \ {0} /\ DOMAIN bytes = 0 .. (n - 1)
      BY <1>2
    <2>2. Cardinality(0 .. (n - 1)) = n
      BY <2>1, FS_Interval
    <2> QED BY <2>1, <2>2
  <1>4. DOMAIN bytes = 0 .. 7 <=> n = 8
    <2>1. n = 4 => 7 \notin DOMAIN bytes
      BY <1>3
    <2>2. n = 8 => DOMAIN bytes = 0 .. 7
      BY <1>3
    <2> QED BY <2>1, <2>2
  <1>5. t2 \in Written(t, b, bytes)
    BY <1>1
  <1>6. TableOK(t2)
    BY <1>1, <1>2, <1>3, <1>5, WrittenTyped
  <1>7. ASSUME ~ (Excess(b, n) > 0), NEW f, Agrees(w, f), NEW a \in Nat, a % 4 = 3
        PROVE  WordIn(t2, a) = IF Covers(w, a) THEN f[a] ELSE WordIn(t, a)
    <2>1. Excess(b, n) = 0
      <3>1. PageOffset(b) \in Int /\ PageSize \in Int
        BY AlignedOffset, Sizes
      <3> QED BY <3>1, <1>3, <1>7 DEF Excess
    <2>2. WordIn(t2, a) = IF a = b THEN WordOf(bytes, 0)
                          ELSE IF n = 8 /\ a = b + 4 THEN WordOf(bytes, 4)
                          ELSE WordIn(t, a)
      <3>1. b \in Nat
        BY <1>1 DEF GoodWrite
      <3>2. b % 4 = 3 /\ TableOK(t) /\ a \in Nat /\ a % 4 = 3
        BY <1>1, <1>7
      <3>3. InOnePage(t, b, n, bytes, t2)
        BY <3>1, <3>2, <2>1, <1>2, <1>5, Zenon DEF InOnePage
      <3> QED BY <3>2, <3>3, WordsWritten, SMT
    <2>3. WordOf(bytes, 0) = f[b] /\ (n = 8 => WordOf(bytes, 4) = f[b + 4])
      BY <1>1, <1>4, <1>7 DEF Agrees
    <2>4. Covers(w, a) <=> (a = b \/ (a = b + 4 /\ n = 8))
      BY <1>1, <1>4 DEF Covers
    <2> QED BY <2>2, <2>3, <2>4, Zenon
  <1> QED BY <1>1, <1>3, <1>6, <1>7

\* The sets of tables that AfterWrites goes through.
TablesThrough(writes, N, after) ==
    /\ after[0] = {pageTable}
    /\ \A i \in 1 .. N :
          after[i] = UNION {Written(t, writes[i].at, writes[i].bytes) : t \in after[i - 1]}
    /\ AfterWrites(writes) = after[N]

LEMMA AfterFunction ==
    ASSUME NEW writes, NEW N \in Nat, Len(writes) = N
    PROVE  \E after : TablesThrough(writes, N, after)
  <1> DEFINE Then(S, i) == UNION {Written(t, writes[i].at, writes[i].bytes) : t \in S}
             Step(f, n) == [i \in 0 .. n |-> IF i = 0 THEN {pageTable} ELSE Then(f[i - 1], i)]
             T == {n \in 0 .. N : ~ \E f : f = Step(f, n)}
  <1>1. AfterWrites(writes) = (CHOOSE f : f = Step(f, N))[N]
    BY DEF AfterWrites
  <1> HIDE DEF Then
  <1>2. T = {}
    <2>1. SUFFICES ASSUME T # {} PROVE FALSE
      OBVIOUS
    <2>2. PICK n \in T : \A m \in T : n <= m
      <3>1. T \subseteq Nat
        OBVIOUS
      <3> QED BY <2>1, <3>1, StackConstants, CSP!LeastNatural
    <2>3. n \in 0 .. N /\ ~ \E f : f = Step(f, n)
      BY <2>2
    <2>4. CASE n = 0
      <3>1. [i \in 0 .. 0 |-> {pageTable}] = Step([i \in 0 .. 0 |-> {pageTable}], 0)
        OBVIOUS
      <3> QED BY <3>1, <2>3, <2>4
    <2>5. CASE n # 0
      <3>1. n - 1 \in 0 .. N /\ ~ (n <= n - 1)
        BY <2>3, <2>5
      <3>a. n - 1 \notin T
        BY <3>1, <2>2, Zenon
      <3>2. PICK g : g = Step(g, n - 1)
        BY <3>1, <3>a, Zenon
      <3> DEFINE f == [i \in 0 .. n |-> IF i = n THEN Then(g[n - 1], n) ELSE g[i]]
      <3>3. ASSUME NEW i \in 0 .. n
            PROVE  f[i] = IF i = 0 THEN {pageTable} ELSE Then(f[i - 1], i)
        <4>1. CASE i = n
          <5>1. n - 1 \in 0 .. n /\ n - 1 # n
            BY <2>3, <2>5
          <5> QED BY <5>1, <4>1, <2>5
        <4>2. CASE i # n
          <5>1. i \in 0 .. (n - 1) /\ f[i] = g[i]
            BY <4>2, <2>3
          <5>2. g[i] = IF i = 0 THEN {pageTable} ELSE Then(g[i - 1], i)
            BY <3>2, <5>1
          <5>3. i # 0 => i - 1 \in 0 .. n /\ i - 1 # n
            BY <5>1, <2>3
          <5>4. i # 0 => f[i - 1] = g[i - 1]
            BY <5>3
          <5> HIDE DEF f
          <5> QED BY <5>1, <5>2, <5>4
        <4> QED BY <4>1, <4>2
      <3>4. f = Step(f, n)
        <4>1. f = [i \in 0 .. n |-> f[i]]
          OBVIOUS
        <4> HIDE DEF f
        <4> QED BY <4>1, <3>3
      <3> QED BY <3>4, <2>3
    <2> QED BY <2>4, <2>5
  <1>3. \E f : f = Step(f, N)
    <2>a. N \in 0 .. N
      OBVIOUS
    <2>b. N \notin T
      <3> HIDE DEF T
      <3> QED BY <1>2
    <2>1. N \in 0 .. N /\ N \notin T
      BY <2>a, <2>b
    <2> QED BY <2>1, Zenon
  <1> DEFINE after == CHOOSE f : f = Step(f, N)
  <1> HIDE DEF T
  <1>4. after = Step(after, N)
    BY <1>3
  <1> HIDE DEF after
  <1>5. \A i \in 0 .. N : after[i] = IF i = 0 THEN {pageTable} ELSE Then(after[i - 1], i)
    BY <1>4
  <1>6. after[0] = {pageTable} /\ \A i \in 1 .. N : after[i] = Then(after[i - 1], i)
    BY <1>5
  <1> QED BY <1>1, <1>6, Zenon DEF after, Then, TablesThrough

\* After writes that each lie in one page, the words they name hold what was
\* written and the others what they held; a page table stays one in any case.
LEMMA AfterAllWrites ==
    ASSUME NEW writes, NEW N \in Nat, Len(writes) = N, DOMAIN writes = 1 .. N,
           \A i \in 1 .. N : GoodWrite(writes[i]), TableOK(pageTable),
           NEW t \in AfterWrites(writes)
    PROVE  /\ TableOK(t)
           /\ ~ Straddles(writes) =>
                 \A f : (\A i \in 1 .. N : Agrees(writes[i], f)) =>
                    \A a \in Nat : a % 4 = 3 =>
                       WordIn(t, a) = IF \E i \in 1 .. N : Covers(writes[i], a) THEN f[a]
                                      ELSE WordIn(pageTable, a)
  <1>0. \E after : TablesThrough(writes, N, after)
    BY AfterFunction, Zenon
  <1>1. PICK after : /\ after[0] = {pageTable}
                     /\ \A i \in 1 .. N :
                           after[i] = UNION {Written(u, writes[i].at, writes[i].bytes) :
                                                u \in after[i - 1]}
                     /\ AfterWrites(writes) = after[N]
    BY <1>0, Zenon DEF TablesThrough
  <1>2. ASSUME NEW i \in 1 .. N, NEW u \in after[i]
        PROVE  \E v \in after[i - 1] : u \in Written(v, writes[i].at, writes[i].bytes)
    BY <1>1
  <1> DEFINE T == {i \in 0 .. N : \E u \in after[i] : ~ TableOK(u)}
  <1>3. T = {}
    <2>1. SUFFICES ASSUME T # {} PROVE FALSE
      OBVIOUS
    <2>2. PICK i \in T : \A m \in T : i <= m
      <3>1. T \subseteq Nat
        OBVIOUS
      <3> QED BY <2>1, <3>1, StackConstants, CSP!LeastNatural
    <2>3. PICK u \in after[i] : ~ TableOK(u)
      BY <2>2
    <2>4. i \in 1 .. N
      BY <2>2, <2>3, <1>1
    <2>5. i - 1 \in 0 .. N /\ i - 1 \notin T
      BY <2>2, <2>4
    <2>6. PICK v \in after[i - 1] : u \in Written(v, writes[i].at, writes[i].bytes)
      BY <2>4, <1>2
    <2>7. TableOK(v)
      BY <2>5
    <2> QED BY <2>3, <2>4, <2>6, <2>7, OneWrite
  <1>4. \A i \in 0 .. N : \A u \in after[i] : TableOK(u)
    BY <1>3
  <1> HIDE DEF T
  <1>5. ASSUME ~ Straddles(writes), NEW f, \A i \in 1 .. N : Agrees(writes[i], f),
               NEW a \in Nat, a % 4 = 3
        PROVE  WordIn(t, a) = IF \E i \in 1 .. N : Covers(writes[i], a) THEN f[a]
                              ELSE WordIn(pageTable, a)
    <2> DEFINE P(n, u) == WordIn(u, a) = IF \E i \in 1 .. n : Covers(writes[i], a) THEN f[a]
                                         ELSE WordIn(pageTable, a)
               R == {n \in 0 .. N : \E u \in after[n] : ~ P(n, u)}
    <2>1. R = {}
      <3>1. SUFFICES ASSUME R # {} PROVE FALSE
        OBVIOUS
      <3>2. PICK n \in R : \A m \in R : n <= m
        <4>1. R \subseteq Nat
          OBVIOUS
        <4> QED BY <3>1, <4>1, StackConstants, CSP!LeastNatural
      <3>3. n \in 0 .. N
        BY <3>2
      <3>4. PICK u \in after[n] : ~ P(n, u)
        BY <3>2
      <3>5. CASE n = 0
        <4>1. u = pageTable
          BY <3>4, <3>5, <1>1
        <4>2. ~ \E i \in 1 .. n : Covers(writes[i], a)
          BY <3>5
        <4> QED BY <4>1, <4>2, <3>4
      <3>6. CASE n # 0
        <4>1. n \in 1 .. N /\ n - 1 \in 0 .. N /\ n - 1 \notin R
          BY <3>2, <3>3, <3>6
        <4>2. PICK v \in after[n - 1] : u \in Written(v, writes[n].at, writes[n].bytes)
          BY <4>1, <3>4, <1>2
        <4>3. TableOK(v) /\ P(n - 1, v)
          BY <4>1, <1>4
        <4>4. ~ (Excess(writes[n].at, Cardinality(DOMAIN writes[n].bytes)) > 0)
          BY <4>1, <1>5 DEF Straddles
        <4>5. WordIn(u, a) = IF Covers(writes[n], a) THEN f[a] ELSE WordIn(v, a)
          <5>1. GoodWrite(writes[n]) /\ Agrees(writes[n], f)
            BY <4>1, <1>5
          <5> HIDE DEF P
          <5> QED BY <5>1, <4>2, <4>3, <4>4, <1>5, OneWrite, Zenon
        <4>6. (\E i \in 1 .. n : Covers(writes[i], a))
                 <=> Covers(writes[n], a) \/ \E i \in 1 .. (n - 1) : Covers(writes[i], a)
          BY <4>1
        <4> QED BY <4>3, <4>5, <4>6, <3>4
      <3> QED BY <3>5, <3>6
    <2>2. N \in 0 .. N /\ N \notin R /\ t \in after[N]
      BY <2>1, <1>1
    <2>3. P(N, t)
      BY <2>2
    <2> QED BY <2>3
  <1>6. TableOK(t)
    BY <1>1, <1>4
  <1> QED BY <1>5, <1>6

-----------------------------------------------------------------------------
(***************************************************************************)
(* The writes of a call.                                                   *)
(***************************************************************************)
LEMMA MethodSizes ==
    ASSUME NEW m \in Methods
    PROVE  /\ m.arguments \in Nat /\ m.locals \in Nat /\ m.entry \in Nat
           /\ FrameBytes(m) = m.arguments * 8 + 8 + m.locals * 8
           /\ FrameBytes(m) \in Nat /\ FrameBytes(m) % 8 = 0
           /\ FrameBytes(m) <= MaxAddress
  <1>1. /\ m.arguments \in Nat /\ m.locals \in Nat /\ m.entry \in Nat
        /\ FrameBytes(m) = m.arguments * 8 + 8 + m.locals * 8
        /\ FrameBytes(m) <= MaxAddress
    BY PagedStackAssumption DEF Method, FrameBytes, Slot
  <1>2. PICK x \in Nat, y \in Nat : x = m.arguments /\ y = m.locals
    BY <1>1
  <1>3. PICK z \in Nat : z = x + 1 + y
    OBVIOUS
  <1>4. FrameBytes(m) = 8 * z
    BY <1>1, <1>2, <1>3
  <1> QED BY <1>1, <1>4

\* One sequence after the other.
IsJoined(S, s, u, x, y, r) ==
    /\ s \in Seq(S) /\ u \in Seq(S) /\ r = s \o u
    /\ x \in Nat /\ y \in Nat /\ Len(s) = x /\ Len(u) = y

JoinedElements(S, s, u, x, y, r) ==
    /\ r \in Seq(S) /\ Len(r) = x + y
    /\ \A i \in 1 .. x : r[i] = s[i]
    /\ \A i \in 1 .. y : r[x + i] = u[i]

LEMMA Joined ==
    ASSUME NEW S, NEW s, NEW u, NEW x, NEW y, NEW r, IsJoined(S, s, u, x, y, r)
    PROVE  JoinedElements(S, s, u, x, y, r)
  <1> USE DEF IsJoined
  <1>1. /\ s \in Seq(S) /\ u \in Seq(S) /\ r = s \o u
        /\ x \in Nat /\ y \in Nat /\ Len(s) = x /\ Len(u) = y
    OBVIOUS
  <1> USE <1>1
  <1> HIDE DEF IsJoined
  <1>2. /\ r \in Seq(S) /\ Len(r) = Len(s) + Len(u)
        /\ \A i \in 1 .. (Len(s) + Len(u)) :
              r[i] = IF i <= Len(s) THEN s[i] ELSE u[i - Len(s)]
    BY ConcatProperties, Zenon
  <1>z. PICK z \in Nat : z = x + y
    OBVIOUS
  <1>3. Len(r) = z /\ \A i \in 1 .. z : r[i] = IF i <= x THEN s[i] ELSE u[i - x]
    BY <1>2, <1>z, Zenon
  <1>4. ASSUME NEW i \in 1 .. x PROVE r[i] = s[i]
    <2>1. i \in 1 .. z /\ i <= x
      BY <1>z
    <2> QED BY <2>1, <1>3, Zenon
  <1>5. ASSUME NEW i \in 1 .. y PROVE r[x + i] = u[i]
    <2>1. PICK k \in 1 .. z : k = x + i
      BY <1>z
    <2>2. ~ (k <= x) /\ k - x = i
      BY <2>1
    <2>3. r[k] = u[k - x]
      BY <2>2, <1>3, Zenon
    <2> QED BY <2>1, <2>2, <2>3, Zenon
  <1> QED BY <1>2, <1>3, <1>4, <1>5, <1>z, Zenon DEF JoinedElements

LEMMA Pair ==
    ASSUME NEW S, NEW a \in S, NEW b \in S
    PROVE  <<a, b>> \in Seq(S) /\ Len(<<a, b>>) = 2 /\ <<a, b>>[1] = a /\ <<a, b>>[2] = b
  OBVIOUS

\* Arguments, locals, link, in this order.
IsFrame(m, args, site, fp, sp, x, y, W) ==
    /\ x \in Nat /\ y \in Nat /\ x = m.arguments /\ y = m.locals
    /\ W = FrameWrites(m, args, site, fp, sp)

FrameParts(m, args, site, fp, sp, x, y, W) ==
    /\ Len(W) = x + y + 2 /\ DOMAIN W = 1 .. (x + y + 2)
    /\ \A i \in 1 .. x : W[i] = [at    |-> fp + (x + 1 - i) * Slot,
                                 bytes |-> BytesOf64(args[i])]
    /\ \A i \in 1 .. y : W[x + i] = [at    |-> sp + (i - 1) * Slot,
                                     bytes |-> BytesOf64(Zero)]
    /\ W[x + y + 1] = [at |-> fp, bytes |-> BytesOf32(FP)]
    /\ W[x + y + 2] = [at |-> fp + Half, bytes |-> BytesOf32(site)]

LEMMA FrameWritesShape ==
    ASSUME NEW m, NEW args, NEW site, NEW fp, NEW sp, NEW x, NEW y, NEW W,
           IsFrame(m, args, site, fp, sp, x, y, W)
    PROVE  FrameParts(m, args, site, fp, sp, x, y, W)
  <1>0. /\ x \in Nat /\ y \in Nat /\ x = m.arguments /\ y = m.locals
        /\ W = FrameWrites(m, args, site, fp, sp)
    BY DEF IsFrame
  <1> USE <1>0
  <1> DEFINE A == [i \in 1 .. x |-> [at    |-> fp + (x + 1 - i) * Slot,
                                     bytes |-> BytesOf64(args[i])]]
             L == [i \in 1 .. y |-> [at    |-> sp + (i - 1) * Slot,
                                     bytes |-> BytesOf64(Zero)]]
             k1 == [at |-> fp, bytes |-> BytesOf32(FP)]
             k2 == [at |-> fp + Half, bytes |-> BytesOf32(site)]
             S == {A[i] : i \in 1 .. x} \cup {L[i] : i \in 1 .. y} \cup {k1, k2}
  <1>1. W = A \o L \o <<k1, k2>>
    BY DEF FrameWrites
  <1>2. A \in [1 .. x -> S] /\ L \in [1 .. y -> S] /\ k1 \in S /\ k2 \in S
    OBVIOUS
  <1>3. \A i \in 1 .. x : A[i] = [at |-> fp + (x + 1 - i) * Slot, bytes |-> BytesOf64(args[i])]
    OBVIOUS
  <1>4. \A i \in 1 .. y : L[i] = [at |-> sp + (i - 1) * Slot, bytes |-> BytesOf64(Zero)]
    OBVIOUS
  <1> HIDE DEF A, L, S, k1, k2
  <1>5. A \in Seq(S) /\ Len(A) = x /\ L \in Seq(S) /\ Len(L) = y
    BY <1>2, StackConstants, CSP!FunctionIsSequence
  <1>6. PICK kk \in Seq(S), two \in Nat :
           /\ kk = <<k1, k2>> /\ two = 2 /\ Len(kk) = two /\ kk[1] = k1 /\ kk[2] = k2
    <2>1. /\ <<k1, k2>> \in Seq(S) /\ Len(<<k1, k2>>) = 2
          /\ <<k1, k2>>[1] = k1 /\ <<k1, k2>>[2] = k2
      BY <1>2, Pair
    <2>2. 2 \in Nat
      OBVIOUS
    <2> QED BY <2>1, <2>2, Zenon
  <1>7. PICK z \in Nat, n \in Nat : z = x + y /\ n = z + two
    OBVIOUS
  <1>8. PICK AL : AL = A \o L
    OBVIOUS
  <1>a. /\ AL \in Seq(S) /\ Len(AL) = z
        /\ \A i \in 1 .. x : AL[i] = A[i]
        /\ \A i \in 1 .. y : AL[x + i] = L[i]
    <2>1. IsJoined(S, A, L, x, y, AL)
      BY <1>5, <1>8, Zenon DEF IsJoined
    <2>2. JoinedElements(S, A, L, x, y, AL)
      BY <2>1, Joined, Zenon
    <2> QED BY <2>2, <1>7, Zenon DEF JoinedElements
  <1>b. W = AL \o kk
    BY <1>1, <1>6, <1>8, Zenon
  <1>9. /\ W \in Seq(S) /\ Len(W) = n
        /\ \A i \in 1 .. z : W[i] = AL[i]
        /\ \A i \in 1 .. two : W[z + i] = kk[i]
    <2>1. IsJoined(S, AL, kk, z, two, W)
      BY <1>6, <1>7, <1>a, <1>b, Zenon DEF IsJoined
    <2>2. JoinedElements(S, AL, kk, z, two, W)
      BY <2>1, Joined, Zenon
    <2> QED BY <2>2, <1>7, Zenon DEF JoinedElements
  <1>10. DOMAIN W = 1 .. (x + y + 2) /\ Len(W) = x + y + 2
    BY <1>6, <1>7, <1>9, LenProperties
  <1>11. ASSUME NEW i \in 1 .. x PROVE W[i] = A[i]
    <2>1. i \in 1 .. z
      BY <1>7
    <2>2. W[i] = AL[i]
      BY <2>1, <1>9, Zenon
    <2>3. AL[i] = A[i]
      BY <1>a, Zenon
    <2> QED BY <2>2, <2>3, Zenon
  <1>12. ASSUME NEW i \in 1 .. y PROVE W[x + i] = L[i]
    <2>1. x + i \in 1 .. z
      <3>1. z = x + y /\ x \in Nat /\ y \in Nat
        BY <1>7
      <3> HIDE <1>0
      <3> QED BY <3>1
    <2> QED BY <2>1, <1>a, <1>9, Zenon
  <1>13. W[x + y + 1] = k1 /\ W[x + y + 2] = k2
    <2>1. 1 \in 1 .. two /\ 2 \in 1 .. two
      BY <1>6
    <2> QED BY <2>1, <1>6, <1>7, <1>9, Zenon
  <1> QED BY <1>3, <1>4, <1>10, <1>11, <1>12, <1>13 DEF k1, k2, FrameParts

\* The link and the slots of the frame that CallStack writes.
LEMMA LinkBytes ==
    ASSUME NEW m, NEW args, NEW link, NEW fp \in Nat
    PROVE  /\ CSP!FrameByte(m, args, link, fp, fp) = link.low
           /\ CSP!FrameByte(m, args, link, fp, fp + 4) = link.high
  <1>1. ASSUME NEW i \in {0, 4}
        PROVE  CSP!FrameByte(m, args, link, fp, fp + i) = CSP!Word(link, i)
    <2>1. PICK a : a = fp + i
      OBVIOUS
    <2>2. ~ (a < fp) /\ (a - fp) \div 8 = 0 /\ (a - fp) % 8 = i
      BY <2>1
    <2>3. CSP!FrameByte(m, args, link, fp, a) = CSP!Word(link, i)
      BY <2>2, Zenon DEF CSP!FrameByte, CSP!Slot
    <2> QED BY <2>1, <2>3, Zenon
  <1>2. CSP!Word(link, 0) = link.low /\ CSP!Word(link, 4) = link.high
    BY DEF CSP!Word, CSP!Half
  <1>3. fp + 0 = fp
    OBVIOUS
  <1>4. CSP!FrameByte(m, args, link, fp, fp + 0) = link.low
    BY <1>1, <1>2
  <1>5. CSP!FrameByte(m, args, link, fp, fp + 4) = link.high
    BY <1>1, <1>2
  <1> QED BY <1>3, <1>4, <1>5, Zenon

IsSlot(m, args, link, fp, o, v) ==
    /\ m \in Methods /\ args \in [1 .. m.arguments -> Values]
    /\ link \in CSP!Value /\ fp \in Nat /\ o \in CSP!SlotsOf(m)
    /\ v = IF o > 0 THEN args[m.arguments + 1 - o] ELSE CSP!Zero

LEMMA SlotBytes ==
    ASSUME NEW m, NEW args, NEW link, NEW fp, NEW o, NEW v,
           IsSlot(m, args, link, fp, o, v)
    PROVE  /\ CSP!FrameByte(m, args, link, fp, fp + o * 8) = v.low
           /\ CSP!FrameByte(m, args, link, fp, fp + o * 8 + 4) = v.high
  <1>1. LET x == fp + o * CSP!Slot
            w == IF o > 0 THEN args[m.arguments + 1 - o] ELSE CSP!Zero
        IN  /\ CSP!FrameByte(m, args, link, fp, x) = w.low
            /\ CSP!FrameByte(m, args, link, fp, x + CSP!Half) = w.high
            /\ w = [low |-> w.low, high |-> w.high]
    BY StackConstants, CSP!NewFrameSlots DEF IsSlot
  <1> QED BY <1>1, Zenon DEF CSP!Slot, CSP!Half, IsSlot

\* Each of these writes lies where a word may lie, and writes what CallStack
\* says its frame holds.
PushedFrame(m, args, site, fp, sp, F, G, W, f) ==
    /\ m \in Methods /\ args \in [1 .. m.arguments -> Values] /\ site \in Sites
    /\ FP \in 0 .. MaxAddress /\ F \in Nat /\ G \in Nat /\ F = G + m.locals
    /\ fp = 8 * F + 7 /\ sp = 8 * G + 7
    /\ W = FrameWrites(m, args, site, fp, sp)
    /\ f = [a \in Nat |-> CSP!FrameByte(m, args, [low |-> FP, high |-> site], fp, a)]

LEMMA FrameWritesGood ==
    ASSUME NEW m, NEW args, NEW site, NEW fp, NEW sp, NEW F, NEW G, NEW W, NEW f,
           PushedFrame(m, args, site, fp, sp, F, G, W, f)
    PROVE  \A i \in 1 .. (m.arguments + m.locals + 2) : GoodWrite(W[i]) /\ Agrees(W[i], f)
  <1>0. /\ m \in Methods /\ args \in [1 .. m.arguments -> Values] /\ site \in Sites
        /\ FP \in 0 .. MaxAddress /\ W = FrameWrites(m, args, site, fp, sp)
    BY DEF PushedFrame
  <1>1. PICK x \in Nat, y \in Nat : x = m.arguments /\ y = m.locals
    BY <1>0, MethodSizes
  <1>k. /\ F \in Nat /\ G \in Nat /\ F = G + y /\ fp = 8 * F + 7 /\ sp = 8 * G + 7
        /\ fp \in Nat /\ sp \in Nat
    <2>1. /\ F \in Nat /\ G \in Nat /\ F = G + m.locals /\ fp = 8 * F + 7 /\ sp = 8 * G + 7
      BY Zenon DEF PushedFrame
    <2>2. F = G + y
      BY <1>1, <2>1, Zenon
    <2>3. 8 * F + 7 \in Nat /\ 8 * G + 7 \in Nat
      BY <2>1
    <2> QED BY <2>1, <2>2, <2>3, Zenon
  <1>l. PICK link : link = [low |-> FP, high |-> site]
    OBVIOUS
  <1>f. \A a \in Nat : f[a] = CSP!FrameByte(m, args, link, fp, a)
    BY <1>l DEF PushedFrame
  <1>2. FP \in Word32 /\ site \in Word32
    BY <1>0, PagedStackAssumption DEF Word32
  <1>3. Word32 \subseteq Nat /\ 0 \in Word32
    <2>1. PICK n : n = Base * Base * Base * Base
      OBVIOUS
    <2>2. MaxAddress \in 0 .. (n - 1) /\ MaxAddress \in Nat
      BY <2>1, PagedStackAssumption DEF Word32
    <2>3. n - 1 \in Int => 0 .. (n - 1) \subseteq Nat /\ 0 \in 0 .. (n - 1)
      BY <2>2
    <2>4. n \in Nat
      BY <2>1, PagedStackAssumption
    <2> QED BY <2>1, <2>3, <2>4 DEF Word32
  <1>4. link \in CSP!Value /\ link.low = FP /\ link.high = site
    BY <1>2, <1>3, <1>l DEF CSP!Value
  <1>5. ASSUME NEW o \in Int, o # 0, o <= x, - y <= o, NEW at \in Nat, at = fp + o * 8
        PROVE  LET v == IF o > 0 THEN args[x + 1 - o] ELSE Zero
               IN  f[at] = v.low /\ f[at + 4] = v.high
    <2>1. o \in CSP!SlotsOf(m)
      BY <1>1, <1>5 DEF CSP!SlotsOf
    <2>2. PICK v : v = IF o > 0 THEN args[m.arguments + 1 - o] ELSE CSP!Zero
      OBVIOUS
    <2>3. /\ CSP!FrameByte(m, args, link, fp, fp + o * 8) = v.low
          /\ CSP!FrameByte(m, args, link, fp, fp + o * 8 + 4) = v.high
      <3>1. IsSlot(m, args, link, fp, o, v)
        BY <1>0, <1>k, <1>4, <2>1, <2>2, Zenon DEF IsSlot
      <3> QED BY <3>1, SlotBytes, Zenon
    <2>4. at = fp + o * 8 /\ at + 4 = fp + o * 8 + 4 /\ at + 4 \in Nat
      BY <1>5
    <2>5. f[at] = v.low /\ f[at + 4] = v.high
      BY <2>3, <2>4, <1>f, Zenon
    <2>6. v = IF o > 0 THEN args[x + 1 - o] ELSE Zero
      BY <2>2, <1>1 DEF Zero, CSP!Zero
    <2> QED BY <2>5, <2>6
  <1>6. ASSUME NEW at \in Nat, NEW A \in Nat, at = 8 * A + 7,
               NEW v, v.low \in Word32, v.high \in Word32, f[at] = v.low, f[at + 4] = v.high,
               NEW w, w = [at |-> at, bytes |-> BytesOf64(v)]
        PROVE  GoodWrite(w) /\ Agrees(w, f)
    <2>1. w.at = at /\ w.bytes = BytesOf64(v)
      BY <1>6
    <2>2. at % 4 = 3
      BY <1>6
    <2>3. /\ BytesOf64(v) \in [0 .. 7 -> Digit] /\ WordOf(BytesOf64(v), 0) = v.low
          /\ WordOf(BytesOf64(v), 4) = v.high
      BY <1>6, DigitsOfValue
    <2>4. GoodWrite(w)
      BY <2>1, <2>2, <2>3, Zenon DEF GoodWrite
    <2>5. Agrees(w, f)
      BY <2>1, <2>3, <1>6, Zenon DEF Agrees
    <2> QED BY <2>4, <2>5
  <1>7. ASSUME NEW at \in Nat, NEW A \in Nat, at = 4 * A + 3,
               NEW v \in Word32, f[at] = v, NEW w, w = [at |-> at, bytes |-> BytesOf32(v)]
        PROVE  GoodWrite(w) /\ Agrees(w, f)
    <2>1. w.at = at /\ w.bytes = BytesOf32(v)
      BY <1>7
    <2>2. at % 4 = 3
      BY <1>7
    <2>3. BytesOf32(v) \in [0 .. 3 -> Digit] /\ WordOf(BytesOf32(v), 0) = v
      BY <1>7, DigitsOfWord
    <2>4. GoodWrite(w)
      BY <2>1, <2>2, <2>3, Zenon DEF GoodWrite
    <2>5. ~ (DOMAIN w.bytes = 0 .. 7)
      <3>1. DOMAIN w.bytes = 0 .. 3
        BY <2>1, <2>3
      <3> QED BY <3>1
    <2>6. Agrees(w, f)
      BY <2>1, <2>3, <2>5, <1>7, Zenon DEF Agrees
    <2> QED BY <2>4, <2>6
  <1>8. /\ \A i \in 1 .. x : W[i] = [at |-> fp + (x + 1 - i) * Slot, bytes |-> BytesOf64(args[i])]
        /\ \A i \in 1 .. y : W[x + i] = [at |-> sp + (i - 1) * Slot, bytes |-> BytesOf64(Zero)]
        /\ W[x + y + 1] = [at |-> fp, bytes |-> BytesOf32(FP)]
        /\ W[x + y + 2] = [at |-> fp + Half, bytes |-> BytesOf32(site)]
    <2>1. IsFrame(m, args, site, fp, sp, x, y, W)
      BY <1>0, <1>1, Zenon DEF IsFrame
    <2>2. FrameParts(m, args, site, fp, sp, x, y, W)
      BY <2>1, FrameWritesShape, Zenon
    <2> QED BY <2>2, Zenon DEF FrameParts
  <1>9. ASSUME NEW i \in 1 .. x PROVE GoodWrite(W[i]) /\ Agrees(W[i], f)
    <2>1. PICK o \in Int, A \in Nat, at \in Nat :
             /\ o = x + 1 - i /\ A = F + o /\ at = fp + o * 8 /\ at = 8 * A + 7
             /\ o > 0 /\ o <= x /\ x + 1 - o = i
      <3>1. PICK o \in Int : o = x + 1 - i /\ o > 0 /\ o <= x /\ x + 1 - o = i
        OBVIOUS
      <3>2. PICK A \in Nat : A = F + o
        BY <3>1, <1>k
      <3>3. PICK at \in Nat : at = fp + o * 8 /\ at = 8 * A + 7
        BY <3>2, <1>k
      <3> QED BY <3>1, <3>2, <3>3
    <2>2. args[i] \in Values
      BY <1>0, <1>1
    <2>3. PICK v : v = args[i] /\ v.low \in Word32 /\ v.high \in Word32
      BY <2>2, PagedStackAssumption
    <2>4. f[at] = v.low /\ f[at + 4] = v.high
      <3>1. - y <= o /\ o # 0
        BY <2>1
      <3>2. LET u == IF o > 0 THEN args[x + 1 - o] ELSE Zero
            IN  f[at] = u.low /\ f[at + 4] = u.high
        BY <3>1, <2>1, <1>5
      <3>3. v = IF o > 0 THEN args[x + 1 - o] ELSE Zero
        BY <2>1, <2>3, Zenon
      <3> QED BY <3>2, <3>3, Zenon
    <2>5. W[i] = [at |-> at, bytes |-> BytesOf64(v)]
      <3>1. W[i] = [at |-> fp + (x + 1 - i) * Slot, bytes |-> BytesOf64(args[i])]
        BY <1>8
      <3>2. fp + (x + 1 - i) * Slot = at
        BY <2>1 DEF Slot
      <3> QED BY <3>1, <3>2, <2>3
    <2> QED BY <2>1, <2>3, <2>4, <2>5, <1>6
  <1>10. ASSUME NEW i \in 1 .. y PROVE GoodWrite(W[x + i]) /\ Agrees(W[x + i], f)
    <2>1. PICK o \in Int, A \in Nat, at \in Nat :
             /\ at = fp + o * 8 /\ at = sp + (i - 1) * 8 /\ at = 8 * A + 7
             /\ ~ (o > 0) /\ o # 0 /\ o <= x /\ - y <= o
      <3>1. PICK o \in Int : o = i - 1 - y /\ ~ (o > 0) /\ o # 0 /\ o <= x /\ - y <= o
        OBVIOUS
      <3>2. PICK A \in Nat : A = G + i - 1
        BY <1>k
      <3>3. PICK at \in Nat : at = sp + (i - 1) * 8 /\ at = 8 * A + 7
        BY <3>2, <1>k
      <3>4. at = fp + o * 8
        BY <3>1, <3>3, <1>k
      <3> QED BY <3>1, <3>3, <3>4
    <2>3. Zero.low = 0 /\ Zero.high = 0
      BY DEF Zero
    <2>4. f[at] = Zero.low /\ f[at + 4] = Zero.high
      BY <2>1, <1>5, Zenon
    <2>5. W[x + i] = [at |-> at, bytes |-> BytesOf64(Zero)]
      <3>1. W[x + i] = [at |-> sp + (i - 1) * Slot, bytes |-> BytesOf64(Zero)]
        BY <1>8
      <3> QED BY <3>1, <2>1 DEF Slot
    <2> QED BY <2>1, <2>3, <2>4, <2>5, <1>3, <1>6
  <1>11. /\ GoodWrite(W[x + y + 1]) /\ Agrees(W[x + y + 1], f)
         /\ GoodWrite(W[x + y + 2]) /\ Agrees(W[x + y + 2], f)
    <2>1. /\ CSP!FrameByte(m, args, link, fp, fp) = FP
          /\ CSP!FrameByte(m, args, link, fp, fp + 4) = site
      BY <1>k, <1>4, LinkBytes
    <2>2. f[fp] = FP /\ f[fp + 4] = site
      <3>1. fp + 4 \in Nat
        BY <1>k
      <3> QED BY <3>1, <2>1, <1>k, <1>f, Zenon
    <2>3. PICK A \in Nat : A = 2 * F + 1
      BY <1>k
    <2>4. PICK B \in Nat : B = 2 * F + 2
      BY <1>k
    <2>5. fp = 4 * A + 3 /\ fp + 4 = 4 * B + 3 /\ fp + 4 \in Nat
      BY <2>3, <2>4, <1>k
    <2>6. GoodWrite(W[x + y + 1]) /\ Agrees(W[x + y + 1], f)
      BY <2>2, <2>5, <1>2, <1>7, <1>8
    <2>7. GoodWrite(W[x + y + 2]) /\ Agrees(W[x + y + 2], f)
      <3>1. W[x + y + 2] = [at |-> fp + 4, bytes |-> BytesOf32(site)]
        BY <1>8 DEF Half
      <3> QED BY <3>1, <2>2, <2>5, <1>2, <1>7
    <2> QED BY <2>6, <2>7
  <1>12. ASSUME NEW i \in 1 .. (x + y + 2) PROVE GoodWrite(W[i]) /\ Agrees(W[i], f)
    <2>1. CASE i \in 1 .. x
      BY <2>1, <1>9
    <2>2. CASE i > x /\ i <= x + y
      <3>1. PICK j \in 1 .. y : x + j = i
        <4>1. i - x \in 1 .. y /\ x + (i - x) = i
          BY <2>2
        <4> QED BY <4>1
      <3> QED BY <3>1, <1>10
    <2>3. CASE i = x + y + 1 \/ i = x + y + 2
      BY <2>3, <1>11
    <2> QED BY <2>1, <2>2, <2>3
  <1> QED BY <1>1, <1>12

\* Together they write the whole frame and nothing else.
LEMMA FrameCovered ==
    ASSUME NEW m, NEW args, NEW site, NEW fp, NEW sp, NEW F, NEW G, NEW W, NEW f,
           PushedFrame(m, args, site, fp, sp, F, G, W, f),
           NEW a \in Nat, a % 4 = 3
    PROVE  (\E i \in 1 .. (m.arguments + m.locals + 2) : Covers(W[i], a))
              <=> sp <= a /\ a < 8 * (F + 1 + m.arguments) + 7
  <1>0. m \in Methods /\ W = FrameWrites(m, args, site, fp, sp)
    BY DEF PushedFrame
  <1>1. PICK x \in Nat, y \in Nat : x = m.arguments /\ y = m.locals
    BY <1>0, MethodSizes
  <1>2. F \in Nat /\ G \in Nat /\ F = G + y /\ fp = 8 * F + 7 /\ sp = 8 * G + 7
    BY <1>1, Zenon DEF PushedFrame
  <1>3. FrameParts(m, args, site, fp, sp, x, y, W)
    <2>1. IsFrame(m, args, site, fp, sp, x, y, W)
      BY <1>0, <1>1, Zenon DEF IsFrame
    <2> QED BY <2>1, FrameWritesShape, Zenon
  <1>4. \A at, v : Covers([at |-> at, bytes |-> BytesOf64(v)], a) <=> (a = at \/ a = at + 4)
    <2>1. \A v : DOMAIN BytesOf64(v) = 0 .. 7
      BY DEF BytesOf64
    <2> QED BY <2>1 DEF Covers
  <1>5. \A at, w : Covers([at |-> at, bytes |-> BytesOf32(w)], a) <=> a = at
    <2>1. \A w : DOMAIN BytesOf32(w) = 0 .. 3
      BY DEF BytesOf32
    <2>2. 0 .. 3 # 0 .. 7
      <3>1. 7 \in 0 .. 7 /\ 7 \notin 0 .. 3
        OBVIOUS
      <3> QED BY <3>1
    <2> QED BY <2>1, <2>2 DEF Covers
  <1>6. /\ \A i \in 1 .. x : Covers(W[i], a) <=> (a = fp + (x + 1 - i) * 8 \/ a = fp + (x + 1 - i) * 8 + 4)
        /\ \A i \in 1 .. y : Covers(W[x + i], a) <=> (a = sp + (i - 1) * 8 \/ a = sp + (i - 1) * 8 + 4)
        /\ Covers(W[x + y + 1], a) <=> a = fp
        /\ Covers(W[x + y + 2], a) <=> a = fp + 4
    <2>1. /\ \A i \in 1 .. x : W[i] = [at |-> fp + (x + 1 - i) * 8, bytes |-> BytesOf64(args[i])]
          /\ \A i \in 1 .. y : W[x + i] = [at |-> sp + (i - 1) * 8, bytes |-> BytesOf64(Zero)]
          /\ W[x + y + 1] = [at |-> fp, bytes |-> BytesOf32(FP)]
          /\ W[x + y + 2] = [at |-> fp + 4, bytes |-> BytesOf32(site)]
      BY <1>3, Zenon DEF FrameParts, Slot, Half
    <2>2. ASSUME NEW i \in 1 .. x
          PROVE  Covers(W[i], a) <=> (a = fp + (x + 1 - i) * 8 \/ a = fp + (x + 1 - i) * 8 + 4)
      <3>1. W[i] = [at |-> fp + (x + 1 - i) * 8, bytes |-> BytesOf64(args[i])]
        BY <2>1, Zenon
      <3>2. Covers([at |-> fp + (x + 1 - i) * 8, bytes |-> BytesOf64(args[i])], a)
               <=> (a = fp + (x + 1 - i) * 8 \/ a = fp + (x + 1 - i) * 8 + 4)
        BY <1>4, Zenon
      <3> QED BY <3>1, <3>2, Zenon
    <2>3. ASSUME NEW i \in 1 .. y
          PROVE  Covers(W[x + i], a) <=> (a = sp + (i - 1) * 8 \/ a = sp + (i - 1) * 8 + 4)
      <3>1. W[x + i] = [at |-> sp + (i - 1) * 8, bytes |-> BytesOf64(Zero)]
        BY <2>1, Zenon
      <3>2. Covers([at |-> sp + (i - 1) * 8, bytes |-> BytesOf64(Zero)], a)
               <=> (a = sp + (i - 1) * 8 \/ a = sp + (i - 1) * 8 + 4)
        BY <1>4, Zenon
      <3> QED BY <3>1, <3>2, Zenon
    <2>4. Covers(W[x + y + 1], a) <=> a = fp
      BY <2>1, <1>5, Zenon
    <2>5. Covers(W[x + y + 2], a) <=> a = fp + 4
      BY <2>1, <1>5, Zenon
    <2> QED BY <2>2, <2>3, <2>4, <2>5
  <1>7. ASSUME NEW i \in 1 .. (x + y + 2), Covers(W[i], a)
        PROVE  sp <= a /\ a < 8 * (F + 1 + x) + 7
    <2>1. CASE i \in 1 .. x
      <3>1. a = fp + (x + 1 - i) * 8 \/ a = fp + (x + 1 - i) * 8 + 4
        BY <2>1, <1>7, <1>6, Zenon
      <3> QED BY <3>1, <2>1, <1>2
    <2>2. CASE i > x /\ i <= x + y
      <3>1. PICK j \in 1 .. y : x + j = i
        <4>1. i - x \in 1 .. y /\ x + (i - x) = i
          BY <2>2
        <4> QED BY <4>1
      <3>2. a = sp + (j - 1) * 8 \/ a = sp + (j - 1) * 8 + 4
        BY <3>1, <1>7, <1>6, Zenon
      <3> QED BY <3>1, <3>2, <1>2
    <2>3. CASE i = x + y + 1
      <3>1. a = fp
        BY <2>3, <1>7, <1>6, Zenon
      <3> QED BY <3>1, <1>2
    <2>4. CASE i = x + y + 2
      <3>1. a = fp + 4
        BY <2>4, <1>7, <1>6, Zenon
      <3> QED BY <3>1, <1>2
    <2> QED BY <2>1, <2>2, <2>3, <2>4
  <1>8. ASSUME sp <= a, a < 8 * (F + 1 + x) + 7
        PROVE  \E i \in 1 .. (x + y + 2) : Covers(W[i], a)
    <2>1. PICK j \in Nat, r \in {0, 4} : a = 8 * j + 7 + r /\ G <= j /\ j <= F + x
      <3>1. PICK j \in Nat, r \in 0 .. 7 : a = 8 * j + r
        <4>1. a \div 8 \in Nat /\ a % 8 \in 0 .. 7 /\ a = 8 * (a \div 8) + (a % 8)
          OBVIOUS
        <4> QED BY <4>1
      <3>2. r = 3 \/ r = 7
        BY <3>1
      <3>3. CASE r = 7
        <4>1. a = 8 * j + 7 + 0 /\ G <= j /\ j <= F + x
          BY <3>1, <3>3, <1>2, <1>8
        <4> QED BY <4>1
      <3>4. CASE r = 3
        <4>1. PICK k \in Nat : j = k + 1
          <5>1. j # 0
            BY <3>1, <3>4, <1>2, <1>8
          <5>2. j - 1 \in Nat /\ j = (j - 1) + 1
            BY <5>1
          <5> QED BY <5>2
        <4>2. a = 8 * k + 7 + 4 /\ G <= k /\ k <= F + x
          BY <4>1, <3>1, <3>4, <1>2, <1>8
        <4> QED BY <4>2
      <3> QED BY <3>2, <3>3, <3>4
    <2>2. CASE j < F
      <3>1. PICK i \in 1 .. y : i = j - G + 1
        BY <2>1, <2>2, <1>2
      <3>2. a = sp + (i - 1) * 8 \/ a = sp + (i - 1) * 8 + 4
        BY <3>1, <2>1, <1>2
      <3>3. Covers(W[x + i], a) /\ x + i \in 1 .. (x + y + 2)
        BY <3>2, <1>6
      <3> QED BY <3>3
    <2>3. CASE j = F
      <3>1. a = fp \/ a = fp + 4
        BY <2>1, <2>3, <1>2
      <3>2. Covers(W[x + y + 1], a) \/ Covers(W[x + y + 2], a)
        BY <3>1, <1>6, Zenon
      <3>3. x + y + 1 \in 1 .. (x + y + 2) /\ x + y + 2 \in 1 .. (x + y + 2)
        OBVIOUS
      <3> QED BY <3>2, <3>3, Zenon
    <2>4. CASE j > F
      <3>1. PICK i \in 1 .. x : i = x + 1 - (j - F)
        BY <2>1, <2>4, <1>2
      <3>2. a = fp + (x + 1 - i) * 8 \/ a = fp + (x + 1 - i) * 8 + 4
        BY <3>1, <2>1, <1>2
      <3>3. Covers(W[i], a) /\ i \in 1 .. (x + y + 2)
        BY <3>2, <1>6
      <3> QED BY <3>3
    <2> QED BY <2>1, <2>2, <2>3, <2>4, <1>2
  <1> QED BY <1>1, <1>7, <1>8

\* What a call's writes leave in memory.
CalledFrame(m, args, site, fp, sp, F, G, W) ==
    /\ m \in Methods /\ args \in [1 .. m.arguments -> Values] /\ site \in Sites
    /\ FP \in 0 .. MaxAddress /\ F \in Nat /\ G \in Nat /\ F = G + m.locals
    /\ fp = 8 * F + 7 /\ sp = 8 * G + 7
    /\ W = FrameWrites(m, args, site, fp, sp)

WordsAfterCall(m, args, link, fp, sp, top, t) ==
    \A a \in Nat : a % 4 = 3 =>
       WordIn(t, a) = IF sp <= a /\ a < top
                      THEN CSP!FrameByte(m, args, link, fp, a)
                      ELSE WordIn(pageTable, a)

LEMMA FrameWords ==
    ASSUME NEW m, NEW args, NEW site, NEW fp, NEW sp, NEW F, NEW G, NEW W,
           CalledFrame(m, args, site, fp, sp, F, G, W),
           TableOK(pageTable), NEW t \in AfterWrites(W),
           NEW top, top = 8 * (F + 1 + m.arguments) + 7
    PROVE  /\ TableOK(t)
           /\ ~ Straddles(W) =>
                 WordsAfterCall(m, args, [low |-> FP, high |-> site], fp, sp, top, t)
  <1>1. PICK f : f = [a \in Nat |-> CSP!FrameByte(m, args, [low |-> FP, high |-> site], fp, a)]
    OBVIOUS
  <1>2. PushedFrame(m, args, site, fp, sp, F, G, W, f)
    BY <1>1, Zenon DEF CalledFrame, PushedFrame
  <1>3. m \in Methods /\ W = FrameWrites(m, args, site, fp, sp)
    BY Zenon DEF CalledFrame
  <1>4. PICK x \in Nat, y \in Nat : x = m.arguments /\ y = m.locals
    BY <1>3, MethodSizes
  <1>5. PICK N \in Nat : N = x + y + 2
    OBVIOUS
  <1>6. Len(W) = N /\ DOMAIN W = 1 .. N
    <2>1. IsFrame(m, args, site, fp, sp, x, y, W)
      BY <1>3, <1>4, Zenon DEF IsFrame
    <2>2. FrameParts(m, args, site, fp, sp, x, y, W)
      BY <2>1, FrameWritesShape, Zenon
    <2> QED BY <2>2, <1>5, Zenon DEF FrameParts
  <1>7. \A i \in 1 .. N : GoodWrite(W[i]) /\ Agrees(W[i], f)
    BY <1>2, <1>4, <1>5, FrameWritesGood, Zenon
  <1>8. /\ TableOK(t)
        /\ ~ Straddles(W) =>
              \A a \in Nat : a % 4 = 3 =>
                 WordIn(t, a) = IF \E i \in 1 .. N : Covers(W[i], a) THEN f[a]
                                ELSE WordIn(pageTable, a)
    <2>1. \A i \in 1 .. N : GoodWrite(W[i])
      BY <1>7, Zenon
    <2>2. /\ TableOK(t)
          /\ ~ Straddles(W) =>
                \A g : (\A i \in 1 .. N : Agrees(W[i], g)) =>
                   \A a \in Nat : a % 4 = 3 =>
                      WordIn(t, a) = IF \E i \in 1 .. N : Covers(W[i], a) THEN g[a]
                                     ELSE WordIn(pageTable, a)
      BY <1>6, <2>1, AfterAllWrites, Zenon
    <2> QED BY <2>2, <1>7, Zenon
  <1>9. ASSUME ~ Straddles(W), NEW a \in Nat, a % 4 = 3
        PROVE  WordIn(t, a) = IF sp <= a /\ a < top
                              THEN CSP!FrameByte(m, args, [low |-> FP, high |-> site], fp, a)
                              ELSE WordIn(pageTable, a)
    <2>1. (\E i \in 1 .. N : Covers(W[i], a)) <=> sp <= a /\ a < top
      BY <1>2, <1>4, <1>5, <1>9, FrameCovered, Zenon
    <2>2. f[a] = CSP!FrameByte(m, args, [low |-> FP, high |-> site], fp, a)
      BY <1>1
    <2>3. WordIn(t, a) = IF \E i \in 1 .. N : Covers(W[i], a) THEN f[a] ELSE WordIn(pageTable, a)
      BY <1>8, <1>9, Zenon
    <2> QED BY <2>1, <2>2, <2>3, Zenon
  <1> QED BY <1>8, <1>9, Zenon DEF WordsAfterCall

-----------------------------------------------------------------------------
(***************************************************************************)
(* The invariant.  Counted is what frameInfoStack alone vouches for: it    *)
(* holds whatever happens to the bytes.                                    *)
(***************************************************************************)
Typed ==
    /\ FP \in 0 .. MaxAddress /\ SP \in 0 .. MaxAddress /\ PC \in Nat
    /\ TableOK(pageTable)
    /\ frameInfoStack \in Seq(Methods)
    /\ callers \in Seq([FP : 0 .. MaxAddress, SP : 0 .. MaxAddress, PC : Nat])
    /\ Len(callers) = Depth
    /\ status \in {"running", "STACK_OVERFLOW", "INTERNAL"}
    /\ spoilt \in BOOLEAN

Counted ==
    /\ HB < SP /\ SP % 8 = 7
    /\ SP = IF Depth = 0 THEN MaxAddress ELSE callers[Depth].SP - FrameBytes(Current)
    /\ \A k \in 1 .. Depth :
          /\ HB < callers[k].SP /\ callers[k].SP % 8 = 7
          /\ callers[k].SP = IF k = 1 THEN MaxAddress
                             ELSE callers[k - 1].SP - FrameBytes(frameInfoStack[k - 1])

\* What the sequences hold.
LEMMA Elements ==
    ASSUME Typed
    PROVE  /\ Depth \in Nat /\ Len(frameInfoStack) = Depth /\ Len(callers) = Depth
           /\ \A k \in 1 .. Depth : /\ frameInfoStack[k] \in Methods
                                    /\ callers[k].FP \in 0 .. MaxAddress
                                    /\ callers[k].SP \in 0 .. MaxAddress
                                    /\ callers[k].PC \in Nat
           /\ frameInfoStack = <<>> <=> Depth = 0
           /\ Depth # 0 => Depth \in 1 .. Depth /\ Current \in Methods
  <1>0. /\ frameInfoStack \in Seq(Methods) /\ Len(callers) = Depth /\ Depth = Len(frameInfoStack)
        /\ callers \in Seq([FP : 0 .. MaxAddress, SP : 0 .. MaxAddress, PC : Nat])
    BY Zenon DEF Typed, Depth
  <1>1. Depth \in Nat /\ Len(frameInfoStack) = Depth /\ Len(callers) = Depth
    BY <1>0, LenProperties
  <1>2. \A k \in 1 .. Depth : frameInfoStack[k] \in Methods
    BY <1>0, ElementOfSeq
  <1>3. \A k \in 1 .. Depth : callers[k] \in [FP : 0 .. MaxAddress, SP : 0 .. MaxAddress, PC : Nat]
    BY <1>0, ElementOfSeq
  <1>4. \A k \in 1 .. Depth : /\ callers[k].FP \in 0 .. MaxAddress
                              /\ callers[k].SP \in 0 .. MaxAddress
                              /\ callers[k].PC \in Nat
    BY <1>3
  <1>5. frameInfoStack = <<>> <=> Depth = 0
    BY <1>0, EmptySeq
  <1>6. Depth # 0 => Depth \in 1 .. Depth
    BY <1>1
  <1> QED BY <1>1, <1>2, <1>4, <1>5, <1>6 DEF Current

\* Where the frame of a call comes to lie.
LEMMA CalledAt ==
    ASSUME Typed, Counted, NEW m \in Methods, NEW site \in Sites,
           NEW args \in [1 .. m.arguments -> Values], Call(m, args, site)
    PROVE  \E fp \in Nat, sp \in Nat, F \in Nat, G \in Nat :
              /\ CalledFrame(m, args, site, fp, sp, F, G, FrameWrites(m, args, site, fp, sp))
              /\ SP = 8 * (F + 1 + m.arguments) + 7
              /\ fp = SP - (m.arguments * 8 + 8) /\ sp = SP - FrameBytes(m)
              /\ FP' = fp /\ SP' = sp /\ HB < sp
              /\ pageTable' \in AfterWrites(FrameWrites(m, args, site, fp, sp))
              /\ spoilt' = (spoilt \/ Straddles(FrameWrites(m, args, site, fp, sp)))
  <1>1. PICK x \in Nat, y \in Nat, b \in Nat :
           x = m.arguments /\ y = m.locals /\ b = FrameBytes(m) /\ b = x * 8 + 8 + y * 8
    BY MethodSizes
  <1>2. /\ SP \in 0 .. MaxAddress /\ HB < SP /\ SP % 8 = 7 /\ MaxAddress \in Nat /\ HB \in Nat
        /\ FP \in 0 .. MaxAddress
    BY PagedStackAssumption DEF Typed, Counted
  <1>3. b <= SP /\ HB < SP - b
    <2>1. ~ (Wrapped(SP - b) <= HB) /\ ~ (b > SP)
      BY <1>1, Zenon DEF Call, Overflows
    <2>2. Wrapped(SP - b) = SP - b
      BY <2>1, <1>2 DEF Wrapped
    <2> QED BY <2>1, <2>2, <1>2
  <1>4. PICK n \in Nat : SP = 8 * n + 7
    <2>1. SP \div 8 \in Nat /\ SP = 8 * (SP \div 8) + 7
      BY <1>2
    <2> QED BY <2>1
  <1>g. n - 1 - x - y \in Nat /\ n - 1 - x \in Nat
    <2>1. HB \in Nat /\ HB < 8 * n + 7 - (8 * x + 8 + 8 * y)
      <3>1. b = 8 * x + 8 + 8 * y
        BY <1>1
      <3>2. SP - b = 8 * n + 7 - (8 * x + 8 + 8 * y)
        BY <1>4, <3>1
      <3> QED BY <1>2, <1>3, <3>2, Zenon
    <2>2. 0 < 8 * (n - 1 - x - y) + 7
      BY <2>1
    <2>3. n - 1 - x - y \in Int /\ n - 1 - x = n - 1 - x - y + y
      OBVIOUS
    <2>4. PICK G \in Int : G = n - 1 - x - y
      BY <2>3
    <2>5. G \in Nat
      BY <2>2, <2>4
    <2> QED BY <2>3, <2>4, <2>5
  <1>5. PICK F \in Nat : F = n - 1 - x
    BY <1>g
  <1>6. PICK G \in Nat : G = n - 1 - x - y
    BY <1>g
  <1>7. PICK fp \in Nat : fp = 8 * F + 7
    OBVIOUS
  <1>8. PICK sp \in Nat : sp = 8 * G + 7
    OBVIOUS
  <1>9. /\ F = G + y /\ SP = 8 * (F + 1 + x) + 7 /\ fp = SP - (x * 8 + 8)
        /\ sp = SP - b /\ HB < sp
    <2>1. b = x * 8 + 8 + y * 8
      BY <1>1
    <2>2. F = G + y /\ n = F + 1 + x
      BY <1>5, <1>6
    <2>3. SP = 8 * (F + 1 + x) + 7 /\ fp = SP - (x * 8 + 8)
      BY <2>2, <1>4, <1>7
    <2>4. sp = SP - b
      BY <2>1, <2>2, <2>3, <1>8
    <2> QED BY <2>2, <2>3, <2>4, <1>3, Zenon
  <1>10. fp = SP - (m.arguments * Slot + Slot)
    BY <1>1, <1>9 DEF Slot
  <1>11. /\ FP' = fp /\ SP' = sp
         /\ pageTable' \in AfterWrites(FrameWrites(m, args, site, fp, sp))
         /\ spoilt' = (spoilt \/ Straddles(FrameWrites(m, args, site, fp, sp)))
    <2>1. LET p == SP - (m.arguments * Slot + Slot)
              q == SP - FrameBytes(m)
          IN  /\ FP' = p /\ SP' = q
              /\ pageTable' \in AfterWrites(FrameWrites(m, args, site, p, q))
              /\ spoilt' = (spoilt \/ Straddles(FrameWrites(m, args, site, p, q)))
      BY Zenon DEF Call
    <2>2. sp = SP - FrameBytes(m)
      BY <1>1, <1>9, Zenon
    <2> QED BY <2>1, <2>2, <1>10, Zenon
  <1>12. CalledFrame(m, args, site, fp, sp, F, G, FrameWrites(m, args, site, fp, sp))
    BY <1>1, <1>2, <1>7, <1>8, <1>9, Zenon DEF CalledFrame
  <1> QED BY <1>1, <1>9, <1>11, <1>12, Zenon

\* A sequence with one more element, and without its last one.
LEMMA Pushed ==
    ASSUME NEW S, NEW s \in Seq(S), NEW e \in S, NEW d, d = Len(s), NEW r, r = Append(s, e)
    PROVE  /\ r \in Seq(S) /\ Len(r) = d + 1
           /\ \A k \in 1 .. d : r[k] = s[k]
           /\ r[d + 1] = e
  BY AppendProperties

LEMMA Popped ==
    ASSUME NEW S, NEW s \in Seq(S), NEW d \in Nat \ {0}, d = Len(s),
           NEW r, r = SubSeq(s, 1, d - 1)
    PROVE  /\ r \in Seq(S) /\ Len(r) = d - 1
           /\ \A k \in 1 .. (d - 1) : r[k] = s[k]
  <1>1. \A k \in 1 .. (d - 1) : s[k] \in S
    <2>1. \A k \in 1 .. d : s[k] \in S
      BY ElementOfSeq
    <2>2. \A k \in 1 .. (d - 1) : k \in 1 .. d
      OBVIOUS
    <2> QED BY <2>1, <2>2
  <1> QED BY <1>1, SubSeqProperties, SMTT(40)

\* A step that leaves the frames alone.
LEMMA FramesKept ==
    ASSUME Typed, Counted,
           UNCHANGED <<FP, SP, frameInfoStack, callers>>, PC' \in Nat, TableOK(pageTable'),
           status' \in {"running", "STACK_OVERFLOW", "INTERNAL"}, spoilt' \in BOOLEAN
    PROVE  Typed' /\ Counted'
  <1>1. Depth' = Depth /\ Current' = Current
    BY DEF Depth, Current
  <1>2. Typed'
    BY <1>1, Zenon DEF Typed, TableOK
  <1>3. Counted'
    BY <1>1, Zenon DEF Counted
  <1> QED BY <1>2, <1>3

LEMMA CallCounted ==
    ASSUME Typed, Counted, NEW m \in Methods, NEW site \in Sites,
           NEW args \in [1 .. m.arguments -> Values], Call(m, args, site)
    PROVE  Typed' /\ Counted'
  <1>1. PICK fp \in Nat, sp \in Nat, F \in Nat, G \in Nat :
           /\ CalledFrame(m, args, site, fp, sp, F, G, FrameWrites(m, args, site, fp, sp))
           /\ SP = 8 * (F + 1 + m.arguments) + 7
           /\ fp = SP - (m.arguments * 8 + 8) /\ sp = SP - FrameBytes(m)
           /\ FP' = fp /\ SP' = sp /\ HB < sp
           /\ pageTable' \in AfterWrites(FrameWrites(m, args, site, fp, sp))
           /\ spoilt' = (spoilt \/ Straddles(FrameWrites(m, args, site, fp, sp)))
    BY CalledAt
  <1>2. PICK d \in Nat : d = Depth
    BY Elements
  <1>3. PICK c : c = [FP |-> FP, SP |-> SP, PC |-> site]
    OBVIOUS
  <1>4. /\ frameInfoStack' = Append(frameInfoStack, m) /\ callers' = Append(callers, c)
        /\ PC' = m.entry /\ status' = status
    BY <1>3, Zenon DEF Call
  <1>5. /\ frameInfoStack \in Seq(Methods) /\ Len(frameInfoStack) = d
        /\ callers \in Seq([FP : 0 .. MaxAddress, SP : 0 .. MaxAddress, PC : Nat])
        /\ Len(callers) = d
        /\ FP \in 0 .. MaxAddress /\ SP \in 0 .. MaxAddress /\ HB < SP /\ SP % 8 = 7
        /\ TableOK(pageTable)
        /\ SP = IF d = 0 THEN MaxAddress ELSE callers[d].SP - FrameBytes(frameInfoStack[d])
    BY <1>2, Zenon DEF Typed, Counted, Depth, Current
  <1>6. PICK x \in Nat, y \in Nat, b \in Nat : /\ x = m.arguments /\ y = m.locals /\ b = FrameBytes(m)
                                               /\ b = x * 8 + 8 + y * 8 /\ m.entry \in Nat
    BY MethodSizes
  <1>7. fp \in 0 .. MaxAddress /\ sp \in 0 .. MaxAddress /\ sp % 8 = 7
    <2>1. fp = SP - (x * 8 + 8) /\ sp = SP - b
      BY <1>1, <1>6, Zenon
    <2>2. sp = 8 * G + 7
      BY <1>1, Zenon DEF CalledFrame
    <2>3. SP \in 0 .. MaxAddress /\ b = x * 8 + 8 + y * 8 /\ MaxAddress \in Nat
      BY <1>5, <1>6, Sizes
    <2> QED BY <2>1, <2>2, <2>3
  <1>8. site \in Nat
    BY StackConstants DEF CSP!CallStackAssumption
  <1>9. /\ c \in [FP : 0 .. MaxAddress, SP : 0 .. MaxAddress, PC : Nat] /\ c.SP = SP
    BY <1>3, <1>5, <1>8
  <1>10. /\ frameInfoStack' \in Seq(Methods) /\ Len(frameInfoStack') = d + 1
         /\ \A k \in 1 .. d : frameInfoStack'[k] = frameInfoStack[k]
         /\ frameInfoStack'[d + 1] = m
    <2>r1. PICK r : r = frameInfoStack'
      OBVIOUS
    <2>1. PICK s \in Seq(Methods) : s = frameInfoStack /\ r = frameInfoStack'
      BY <2>r1, <1>5
    <2>2. d = Len(s) /\ r = Append(s, m)
      BY <2>1, <1>4, <1>5, Zenon
    <2>3. r \in Seq(Methods) /\ Len(r) = d + 1 /\ (\A k \in 1 .. d : r[k] = s[k]) /\ r[d + 1] = m
      BY <2>2, Pushed
    <2> QED BY <2>1, <2>3, Zenon
  <1>11. /\ callers' \in Seq([FP : 0 .. MaxAddress, SP : 0 .. MaxAddress, PC : Nat])
         /\ Len(callers') = d + 1
         /\ \A k \in 1 .. d : callers'[k] = callers[k]
         /\ callers'[d + 1] = c
    <2>1. PICK S : S = [FP : 0 .. MaxAddress, SP : 0 .. MaxAddress, PC : Nat]
      OBVIOUS
    <2>r2. PICK r : r = callers'
      OBVIOUS
    <2>2. PICK s \in Seq(S) : s = callers /\ r = callers'
      BY <2>r2, <2>1, <1>5
    <2>3. c \in S /\ d = Len(s) /\ r = Append(s, c)
      BY <2>1, <2>2, <1>4, <1>5, <1>9, Zenon
    <2>4. r \in Seq(S) /\ Len(r) = d + 1 /\ (\A k \in 1 .. d : r[k] = s[k]) /\ r[d + 1] = c
      BY <2>3, Pushed
    <2> QED BY <2>1, <2>2, <2>4, Zenon
  <1>12. TableOK(pageTable')
    BY <1>1, <1>5, FrameWords
  <1>13. Depth' = d + 1 /\ Current' = m
    BY <1>10, Zenon DEF Depth, Current
  <1>14. spoilt' \in BOOLEAN /\ status' \in {"running", "STACK_OVERFLOW", "INTERNAL"}
    BY <1>1, <1>4, Zenon DEF Typed
  <1>15. Typed'
    BY <1>1, <1>4, <1>6, <1>7, <1>10, <1>11, <1>12, <1>13, <1>14, Zenon DEF Typed, TableOK
  <1>16. Counted'
    <2>1. HB < SP' /\ SP' % 8 = 7
      BY <1>1, <1>7
    <2>2. SP' = IF Depth' = 0 THEN MaxAddress ELSE callers'[Depth'].SP - FrameBytes(Current')
      <3>1. d + 1 # 0
        OBVIOUS
      <3> QED BY <3>1, <1>1, <1>9, <1>11, <1>13, Zenon
    <2>3. ASSUME NEW k \in 1 .. (d + 1)
          PROVE  /\ HB < callers'[k].SP /\ callers'[k].SP % 8 = 7
                 /\ callers'[k].SP = IF k = 1 THEN MaxAddress
                                     ELSE callers'[k - 1].SP - FrameBytes(frameInfoStack'[k - 1])
      <3>1. CASE k = d + 1
        <4>1. callers'[k].SP = SP
          BY <3>1, <1>9, <1>11, Zenon
        <4>2. k = 1 <=> d = 0
          BY <3>1
        <4>3. CASE d = 0
          BY <4>1, <4>2, <4>3, <1>5
        <4>4. CASE d # 0
          <5>1. k - 1 = d /\ d \in 1 .. d
            BY <3>1, <4>4
          <5>2. callers'[k - 1] = callers[d] /\ frameInfoStack'[k - 1] = frameInfoStack[d]
            BY <5>1, <1>10, <1>11, Zenon
          <5> QED BY <4>1, <4>2, <4>4, <5>2, <1>5, Zenon
        <4> QED BY <4>3, <4>4
      <3>2. CASE k # d + 1
        <4>1. k \in 1 .. d /\ (k # 1 => k - 1 \in 1 .. d)
          BY <3>2
        <4>2. /\ callers'[k] = callers[k]
              /\ k # 1 => callers'[k - 1] = callers[k - 1] /\ frameInfoStack'[k - 1] = frameInfoStack[k - 1]
          BY <4>1, <1>10, <1>11, Zenon
        <4>3. /\ HB < callers[k].SP /\ callers[k].SP % 8 = 7
              /\ callers[k].SP = IF k = 1 THEN MaxAddress
                                 ELSE callers[k - 1].SP - FrameBytes(frameInfoStack[k - 1])
          BY <4>1, <1>2, Zenon DEF Counted
        <4> QED BY <4>2, <4>3, Zenon
      <3> QED BY <3>1, <3>2
    <2> QED BY <2>1, <2>2, <2>3, <1>13, Zenon DEF Counted
  <1> QED BY <1>15, <1>16

LEMMA WrappedFits == \A n \in Int : Wrapped(n) \in 0 .. MaxAddress
  BY Sizes DEF Wrapped

LEMMA RetCounted ==
    ASSUME Typed, Counted, Ret
    PROVE  Typed' /\ Counted' /\ Depth # 0 /\ SP' = callers[Depth].SP
  <1>1. PICK d \in Nat : d = Depth
    BY Elements
  <1>2. /\ frameInfoStack # <<>>
        /\ PC' = Read32(FP + Half) /\ FP' = Wrapped(Read32(FP))
        /\ SP' = SP + FrameBytes(Current)
        /\ frameInfoStack' = SubSeq(frameInfoStack, 1, d - 1)
        /\ callers' = SubSeq(callers, 1, d - 1)
        /\ pageTable' = pageTable /\ status' = status /\ spoilt' = spoilt
    BY <1>1, Zenon DEF Ret
  <1>3. d # 0 /\ d \in 1 .. d /\ Current \in Methods
    BY <1>1, <1>2, Elements, Zenon
  <1>4. /\ frameInfoStack \in Seq(Methods) /\ Len(frameInfoStack) = d
        /\ callers \in Seq([FP : 0 .. MaxAddress, SP : 0 .. MaxAddress, PC : Nat])
        /\ Len(callers) = d
        /\ FP \in 0 .. MaxAddress /\ SP \in 0 .. MaxAddress
        /\ TableOK(pageTable)
    BY <1>1, Zenon DEF Typed, Depth
  <1>5. SP = callers[d].SP - FrameBytes(Current)
    BY <1>1, <1>3, Zenon DEF Counted
  <1>6. \A k \in 1 .. d :
           /\ HB < callers[k].SP /\ callers[k].SP % 8 = 7
           /\ callers[k].SP = IF k = 1 THEN MaxAddress
                              ELSE callers[k - 1].SP - FrameBytes(frameInfoStack[k - 1])
    BY <1>1, Zenon DEF Counted
  <1>7. callers[d].SP \in 0 .. MaxAddress
    BY <1>1, <1>3, Elements, Zenon
  <1>8. SP' = callers[d].SP
    <2>1. PICK b \in Nat, s \in 0 .. MaxAddress : b = FrameBytes(Current) /\ s = callers[d].SP
      BY <1>3, <1>7, MethodSizes
    <2>2. SP = s - b /\ SP' = SP + b
      BY <2>1, <1>2, <1>5, Zenon
    <2>3. SP' = s
      BY <2>2
    <2> QED BY <2>1, <2>3
  <1>9. PC' \in Nat /\ FP' \in 0 .. MaxAddress
    <2>1. FP + Half \in Nat /\ FP \in Nat
      BY <1>4, Sizes DEF Half
    <2>2. Read32(FP + Half) \in Nat /\ Read32(FP) \in Nat
      BY <2>1, <1>4, WordNatural, Read32IsWord
    <2>3. Wrapped(Read32(FP)) \in 0 .. MaxAddress
      <3>1. Read32(FP) \in Int
        BY <2>2
      <3> QED BY <3>1, WrappedFits, Zenon
    <2> QED BY <2>2, <2>3, <1>2, Zenon
  <1>10. /\ frameInfoStack' \in Seq(Methods) /\ Len(frameInfoStack') = d - 1
         /\ \A k \in 1 .. (d - 1) : frameInfoStack'[k] = frameInfoStack[k]
    <2>r1. PICK r : r = frameInfoStack'
      OBVIOUS
    <2>1. PICK s \in Seq(Methods) : s = frameInfoStack /\ r = frameInfoStack'
      BY <2>r1, <1>4
    <2>2. d \in Nat \ {0} /\ d = Len(s) /\ r = SubSeq(s, 1, d - 1)
      BY <2>1, <1>2, <1>3, <1>4
    <2>3. r \in Seq(Methods) /\ Len(r) = d - 1 /\ \A k \in 1 .. (d - 1) : r[k] = s[k]
      BY <2>2, Popped
    <2> QED BY <2>1, <2>3, Zenon
  <1>11. /\ callers' \in Seq([FP : 0 .. MaxAddress, SP : 0 .. MaxAddress, PC : Nat])
         /\ Len(callers') = d - 1
         /\ \A k \in 1 .. (d - 1) : callers'[k] = callers[k]
    <2>1. PICK S : S = [FP : 0 .. MaxAddress, SP : 0 .. MaxAddress, PC : Nat]
      OBVIOUS
    <2>r2. PICK r : r = callers'
      OBVIOUS
    <2>2. PICK s \in Seq(S) : s = callers /\ r = callers'
      BY <2>r2, <2>1, <1>4
    <2>3. d \in Nat \ {0} /\ d = Len(s) /\ r = SubSeq(s, 1, d - 1)
      BY <2>2, <1>2, <1>3, <1>4
    <2>4. r \in Seq(S) /\ Len(r) = d - 1 /\ \A k \in 1 .. (d - 1) : r[k] = s[k]
      BY <2>3, Popped
    <2> QED BY <2>1, <2>2, <2>4, Zenon
  <1>12. Depth' = d - 1 /\ Current' = frameInfoStack'[d - 1]
    BY <1>10, Zenon DEF Depth, Current
  <1>13. SP' \in 0 .. MaxAddress
    BY <1>7, <1>8
  <1>14. spoilt' \in BOOLEAN /\ status' \in {"running", "STACK_OVERFLOW", "INTERNAL"}
    BY <1>2, Zenon DEF Typed
  <1>15. TableOK(pageTable')
    BY <1>2, <1>4, Zenon
  <1>16. Typed'
    BY <1>9, <1>10, <1>11, <1>12, <1>13, <1>14, <1>15, Zenon DEF Typed, TableOK
  <1>17. \A k \in 1 .. (d - 1) : /\ k \in 1 .. d
                                 /\ k # 1 => k - 1 \in 1 .. (d - 1)
    OBVIOUS
  <1>18. Counted'
    <2>1. HB < SP' /\ SP' % 8 = 7
      BY <1>3, <1>6, <1>8, Zenon
    <2>2. SP' = IF Depth' = 0 THEN MaxAddress ELSE callers'[Depth'].SP - FrameBytes(Current')
      <3>1. d = 1 <=> d - 1 = 0
        OBVIOUS
      <3>2. d # 1 => d - 1 \in 1 .. (d - 1)
        BY <1>3
      <3>3. callers[d].SP = IF d = 1 THEN MaxAddress
                            ELSE callers[d - 1].SP - FrameBytes(frameInfoStack[d - 1])
        BY <1>3, <1>6, Zenon
      <3>4. d # 1 => callers'[d - 1] = callers[d - 1] /\ frameInfoStack'[d - 1] = frameInfoStack[d - 1]
        BY <3>2, <1>10, <1>11, Zenon
      <3> QED BY <3>1, <3>3, <3>4, <1>8, <1>12, Zenon
    <2>3. ASSUME NEW k \in 1 .. (d - 1)
          PROVE  /\ HB < callers'[k].SP /\ callers'[k].SP % 8 = 7
                 /\ callers'[k].SP = IF k = 1 THEN MaxAddress
                                     ELSE callers'[k - 1].SP - FrameBytes(frameInfoStack'[k - 1])
      <3>1. /\ callers'[k] = callers[k]
            /\ k # 1 => callers'[k - 1] = callers[k - 1] /\ frameInfoStack'[k - 1] = frameInfoStack[k - 1]
        BY <1>10, <1>11, <1>17, Zenon
      <3>2. /\ HB < callers[k].SP /\ callers[k].SP % 8 = 7
            /\ callers[k].SP = IF k = 1 THEN MaxAddress
                               ELSE callers[k - 1].SP - FrameBytes(frameInfoStack[k - 1])
        BY <1>6, <1>17, Zenon
      <3> QED BY <3>1, <3>2, Zenon
    <2> QED BY <2>1, <2>2, <2>3, <1>12, Zenon DEF Counted
  <1> QED BY <1>1, <1>3, <1>8, <1>16, <1>18, Zenon

LEMMA InitCounted == Init => Typed /\ Counted
  <1> SUFFICES ASSUME Init PROVE Typed /\ Counted
    OBVIOUS
  <1>1. Depth = 0 /\ Len(callers) = 0
    BY DEF Init, Depth
  <1>2. MaxAddress \in Nat /\ MaxAddress \in 0 .. MaxAddress /\ 1 .. 0 = {} /\ 0 \in Nat
    BY Sizes
  <1>3. TableOK(pageTable)
    BY DEF Init, TableOK
  <1>4. frameInfoStack \in Seq(Methods)
    BY DEF Init
  <1>5. callers \in Seq([FP : 0 .. MaxAddress, SP : 0 .. MaxAddress, PC : Nat])
    BY DEF Init
  <1>6. FP = MaxAddress /\ SP = MaxAddress /\ PC = 0 /\ status = "running" /\ spoilt = FALSE
    BY DEF Init
  <1>7. Typed
    BY <1>1, <1>2, <1>3, <1>4, <1>5, <1>6 DEF Typed
  <1>8. HB < MaxAddress /\ MaxAddress % 8 = 7
    BY Sizes, PagedStackAssumption
  <1>9. Counted
    <2>1. 1 .. Depth = {}
      BY <1>1, <1>2
    <2> QED BY <2>1, <1>1, <1>6, <1>8, Zenon DEF Counted
  <1> QED BY <1>7, <1>9

LEMMA NextCounted ==
    ASSUME Typed, Counted, [Next]_vars
    PROVE  Typed' /\ Counted'
  <1>1. /\ FP \in 0 .. MaxAddress /\ SP \in 0 .. MaxAddress /\ PC \in Nat /\ TableOK(pageTable)
        /\ status \in {"running", "STACK_OVERFLOW", "INTERNAL"} /\ spoilt \in BOOLEAN
    BY Zenon DEF Typed
  <1>2. ASSUME NEW m \in Methods, NEW site \in Sites,
               NEW args \in [1 .. m.arguments -> Values], Call(m, args, site)
        PROVE  Typed' /\ Counted'
    BY <1>2, CallCounted
  <1>3. ASSUME UNCHANGED <<FP, SP, frameInfoStack, callers, pageTable, spoilt>>, PC' \in Nat,
               status' \in {"running", "STACK_OVERFLOW", "INTERNAL"}
        PROVE  Typed' /\ Counted'
    <2>1. TableOK(pageTable') /\ spoilt' \in BOOLEAN
      BY <1>1, <1>3
    <2> QED BY <2>1, <1>3, FramesKept
  <1>4. ASSUME NEW m \in Methods, CallOverflow(m) PROVE Typed' /\ Counted'
    BY <1>1, <1>3, <1>4 DEF CallOverflow
  <1>5. CASE Ret
    BY <1>5, RetCounted
  <1>6. CASE RetEmpty
    BY <1>1, <1>3, <1>6 DEF RetEmpty
  <1>7. CASE RetOutside
    <2>1. PC' \in Nat
      <3>1. FP + Half \in Int
        BY <1>1, Sizes DEF Half
      <3>2. Wrapped(FP + Half) \in Nat
        BY <3>1, WrappedFits, Sizes
      <3>3. Read32(Wrapped(FP + Half)) \in Nat
        BY <3>2, <1>1, WordNatural, Read32IsWord
      <3> QED BY <3>3, <1>1, <1>7, Zenon DEF RetOutside
    <2> QED BY <2>1, <1>3, <1>7 DEF RetOutside
  <1>8. ASSUME NEW o \in Offsets, NEW v \in Values, StoreL(o, v) PROVE Typed' /\ Counted'
    <2>1. o \in Int /\ v.low \in Word32 /\ v.high \in Word32
      BY PagedStackAssumption
    <2>2. FrameAddress(o) \in Nat
      <3>1. FP + o * Slot \in Int
        BY <2>1, <1>1, Sizes DEF Slot
      <3> QED BY <3>1, WrappedFits, Sizes DEF FrameAddress
    <2>3. BytesOf64(v) \in [0 .. (8 - 1) -> Digit] /\ 8 \in Nat \ {0}
      <3>1. 8 - 1 = 7
        OBVIOUS
      <3> QED BY <3>1, <2>1, DigitsOfValue
    <2>4. pageTable' \in Written(pageTable, FrameAddress(o), BytesOf64(v))
      BY <1>8, Zenon DEF StoreL
    <2>5. TableOK(pageTable')
      BY <2>2, <2>3, <2>4, <1>1, WrittenTyped
    <2>6. UNCHANGED <<FP, SP, frameInfoStack, callers>> /\ PC' = PC /\ status' = status
          /\ spoilt' \in BOOLEAN
      BY <1>8 DEF StoreL
    <2> QED BY <2>5, <2>6, <1>1, FramesKept
  <1>9. ASSUME NEW o \in Offsets, BadOffset(o) PROVE Typed' /\ Counted'
    BY <1>1, <1>3, <1>9 DEF BadOffset
  <1>10. CASE UNCHANGED vars
    BY <1>1, <1>3, <1>10 DEF vars
  <1> QED BY <1>2, <1>4, <1>5, <1>6, <1>7, <1>8, <1>9, <1>10 DEF Next

\* Whatever becomes of the bytes, a frame lies inside the stack region and
\* SP comes back, because CallStackManager::pop counts it from frameInfoStack.
THEOREM FramesCountedAlways == Spec => []FramesCounted
  <1>1. Typed /\ Counted /\ [Next]_vars => Typed' /\ Counted'
    BY NextCounted
  <1>2. Counted => FramesCounted
    BY DEF Counted, FramesCounted
  <1> QED BY InitCounted, <1>1, <1>2, PTL DEF Spec

-----------------------------------------------------------------------------
(***************************************************************************)
(* The words of CallStack.                                                 *)
(***************************************************************************)
LEMMA WordsAt ==
    ASSUME NEW a \in HB .. MaxAddress
    PROVE  Words[a] = IF a % 4 = 3 /\ a # MaxAddress THEN WordIn(pageTable, a) ELSE 0
  <1>1. MaxAddress % 4 = 3
    BY Sizes
  <1>2. Words[a] = IF a % 4 = MaxAddress % 4 /\ a # MaxAddress THEN Read32(a) ELSE 0
    BY DEF Words
  <1>3. Read32(a) = WordIn(pageTable, a)
    BY Read32IsWord
  <1> QED BY <1>1, <1>2, <1>3, Zenon

LEMMA NewWordsAt ==
    ASSUME NEW a \in HB .. MaxAddress
    PROVE  Words'[a] = IF a % 4 = 3 /\ a # MaxAddress THEN WordIn(pageTable', a) ELSE 0
  <1>1. MaxAddress % 4 = 3
    BY Sizes
  <1>2. Words'[a] = IF a % 4 = MaxAddress % 4 /\ a # MaxAddress THEN Read32(a)' ELSE 0
    BY DEF Words
  <1>3. Read32(a)' = WordIn(pageTable', a)
    <2>1. 0 + 1 = 1 /\ 0 + 2 = 2 /\ 0 + 3 = 3
      OBVIOUS
    <2> QED BY <2>1, Zenon DEF Read32, WordIn, WordOf
  <1> QED BY <1>1, <1>2, <1>3, Zenon

LEMMA WordsAreFunctions ==
    /\ Words = [a \in HB .. MaxAddress |-> Words[a]]
    /\ Words' = [a \in HB .. MaxAddress |-> Words'[a]]
  BY DEF Words

\* The words stay when the pages do.
LEMMA WordsKept == pageTable' = pageTable => Words' = Words
  <1> SUFFICES ASSUME pageTable' = pageTable PROVE Words' = Words
    OBVIOUS
  <1>1. ASSUME NEW a \in HB .. MaxAddress PROVE Words'[a] = Words[a]
    <2>1. WordIn(pageTable', a) = WordIn(pageTable, a)
      OBVIOUS
    <2> QED BY <2>1, WordsAt, NewWordsAt, Zenon
  <1> QED BY <1>1, WordsAreFunctions, Zenon

\* The link of the current frame lies in the stack region, in one page.
LEMMA CurrentLink ==
    ASSUME Typed, Counted, CSP!IInv, Depth # 0
    PROVE  /\ FP \in Nat /\ SP <= FP /\ FP % 8 = 7 /\ FP + 8 <= MaxAddress
           /\ FP \in HB .. MaxAddress /\ FP + 4 \in HB .. MaxAddress
           /\ FP \in CSP!Addresses /\ FP + 4 \in CSP!Addresses
           /\ Words[FP] = Read32(FP) /\ Words[FP + 4] = Read32(FP + 4)
           /\ Read32(FP) = callers[Depth].FP /\ Read32(FP + 4) = callers[Depth].PC
           /\ callers[Depth].FP \in 0 .. MaxAddress
  <1>1. PICK d \in Nat : d = Depth /\ d # 0 /\ d \in 1 .. d
    BY Elements, Zenon
  <1>2. CSP!Depth = d /\ CSP!FrameOf(d) = FP
    BY <1>1, Zenon DEF CSP!FrameOf, CSP!Depth, Depth
  <1>3. PICK x \in Nat, y \in Nat : x = frameInfoStack[d].arguments /\ y = frameInfoStack[d].locals
    BY <1>1, Elements, MethodSizes
  <1>4. /\ FP \in Nat /\ callers[d].SP = FP + 8 + x * 8
        /\ callers[d].SP <= MaxAddress /\ SP = FP - y * 8
    <2>1. /\ CSP!FrameOf(d) \in Nat
          /\ callers[d].SP = CSP!FrameOf(d) + CSP!Slot + frameInfoStack[d].arguments * CSP!Slot
          /\ callers[d].SP <= MaxAddress
          /\ SP = CSP!Bottom(d)
      BY <1>1, <1>2, Zenon DEF CSP!IInv, CSP!Stacked
    <2>2. CSP!Bottom(d) = FP - y * 8
      BY <1>2, <1>3, Zenon DEF CSP!Bottom, CSP!Slot
    <2> QED BY <2>1, <2>2, <1>2, <1>3, Zenon DEF CSP!Slot
  <1>5. SP \in 0 .. MaxAddress /\ HB < SP /\ SP % 8 = 7 /\ HB \in Nat /\ MaxAddress \in Nat
    BY PagedStackAssumption DEF Typed, Counted
  <1>6. SP <= FP /\ FP % 8 = 7 /\ FP + 8 <= MaxAddress
    BY <1>4, <1>5
  <1>7. /\ FP \in HB .. MaxAddress /\ FP + 4 \in HB .. MaxAddress
        /\ FP % 4 = 3 /\ (FP + 4) % 4 = 3 /\ FP # MaxAddress /\ FP + 4 # MaxAddress
    BY <1>4, <1>5, <1>6
  <1>8. Words[FP] = WordIn(pageTable, FP) /\ Words[FP + 4] = WordIn(pageTable, FP + 4)
    <2>1. Words[FP] = WordIn(pageTable, FP)
      BY <1>7, WordsAt
    <2>2. PICK a \in HB .. MaxAddress : a = FP + 4 /\ a % 4 = 3 /\ a # MaxAddress
      BY <1>7
    <2>3. Words[a] = WordIn(pageTable, a)
      BY <2>2, WordsAt
    <2> QED BY <2>1, <2>2, <2>3, Zenon
  <1>9. Words[FP] = Read32(FP) /\ Words[FP + 4] = Read32(FP + 4)
    BY <1>8, Read32IsWord, Zenon
  <1>10. Words[FP] = callers[d].FP /\ Words[FP + 4] = callers[d].PC
    <2>1. Words[CSP!FrameOf(d)] = callers[d].FP /\ Words[CSP!FrameOf(d) + CSP!Half] = callers[d].PC
      BY <1>1, <1>2, Zenon DEF CSP!IInv, CSP!Linked
    <2> QED BY <2>1, <1>2, Zenon DEF CSP!Half
  <1>11. callers[d].FP \in 0 .. MaxAddress
    BY <1>1, Elements, Zenon
  <1> QED BY <1>1, <1>4, <1>6, <1>7, <1>9, <1>10, <1>11, Zenon DEF CSP!Addresses

\* A valid offset other than that of the link names a slot of the current
\* frame.
LEMMA CurrentSlot ==
    ASSUME Typed, Counted, CSP!IInv, NEW o \in Offsets \ {0}, ValidOffset(o)
    PROVE  /\ CSP!ValidOffset(o) /\ FrameAddress(o) = FP + o * 8
           /\ CSP!FrameAddress(o) = FP + o * 8
           /\ FP + o * 8 \in Nat /\ (FP + o * 8) % 8 = 7
           /\ SP <= FP + o * 8 /\ FP + o * 8 + 8 <= MaxAddress
           /\ FP + o * 8 \in CSP!Addresses /\ FP + o * 8 + 4 \in CSP!Addresses
  <1>1. /\ frameInfoStack # <<>> /\ ~ (o > 0 /\ o > Current.arguments)
        /\ ~ (- o > Current.locals)
    BY Zenon DEF ValidOffset
  <1>2. PICK d \in Nat : d = Depth /\ d # 0 /\ d \in 1 .. d /\ Current = frameInfoStack[d]
    BY <1>1, Elements, Zenon DEF Current
  <1>3. CSP!Depth = d /\ CSP!FrameOf(d) = FP /\ CSP!Current = Current
    BY <1>2, Zenon DEF CSP!FrameOf, CSP!Depth, CSP!Current, Depth, Current
  <1>4. PICK x \in Nat, y \in Nat : x = frameInfoStack[d].arguments /\ y = frameInfoStack[d].locals
    BY <1>2, Elements, MethodSizes
  <1>5. o \in Int /\ o # 0
    BY PagedStackAssumption
  <1>6. o \in CSP!SlotsOf(frameInfoStack[d])
    <2>1. ~ (o > 0 /\ o > x) /\ ~ (- o > y)
      BY <1>1, <1>2, <1>4, Zenon
    <2>2. o \in ((- y) .. x) \ {0}
      BY <2>1, <1>5
    <2> QED BY <2>2, <1>4, Zenon DEF CSP!SlotsOf
  <1>7. /\ FP + o * 8 \in CSP!Addresses /\ FP + o * 8 + 4 \in CSP!Addresses
        /\ SP <= FP + o * 8 /\ FP + o * 8 + 8 <= callers[d].SP
    <2>1. LET z == CSP!FrameOf(d) + o * CSP!Slot
          IN  /\ z \in CSP!Addresses /\ z + CSP!Half \in CSP!Addresses
              /\ SP <= z /\ z + CSP!Slot <= callers[d].SP
      BY <1>2, <1>3, <1>6, StackConstants, CSP!SlotInFrame, Zenon
    <2> QED BY <2>1, <1>3, Zenon DEF CSP!Slot, CSP!Half
  <1>8. callers[d].SP \in 0 .. MaxAddress
    BY <1>2, Elements, Zenon
  <1>9. FP \in Nat /\ FP % 8 = 7 /\ MaxAddress \in Nat /\ HB \in Nat
    BY <1>2, CurrentLink, PagedStackAssumption
  <1>10. PICK z \in Int : z = FP + o * 8
    BY <1>5, <1>9
  <1>11. z \in Nat /\ z % 8 = 7 /\ z + 8 <= MaxAddress
    <2>1. z \in HB .. MaxAddress /\ z + 8 <= callers[d].SP
      BY <1>7, <1>10, Zenon DEF CSP!Addresses
    <2>2. z \in Nat /\ z + 8 <= MaxAddress
      BY <2>1, <1>8, <1>9
    <2>3. z % 8 = 7
      BY <2>2, <1>5, <1>9, <1>10
    <2> QED BY <2>2, <2>3
  <1>12. Wrapped(z) = z
    BY <1>11, <1>9 DEF Wrapped
  <1>13. FrameAddress(o) = z /\ CSP!FrameAddress(o) = z
    BY <1>10, <1>12, Zenon DEF FrameAddress, CSP!FrameAddress, Slot, CSP!Slot
  <1>14. CSP!ValidOffset(o)
    BY <1>1, <1>3, Zenon DEF CSP!ValidOffset
  <1> QED BY <1>7, <1>10, <1>11, <1>13, <1>14, Zenon

-----------------------------------------------------------------------------
(***************************************************************************)
(* The refinement of module CallStack.                                     *)
(***************************************************************************)
Inv == Typed /\ Counted /\ (~ spoilt => CSP!IInv)

\* An empty page table reads as zero everywhere.
LEMMA InitMaps == Init => CSP!Init
  <1> SUFFICES ASSUME Init PROVE CSP!Init
    OBVIOUS
  <1>1. DOMAIN pageTable = {}
    BY DEF Init
  <1>2. \A a : WordIn(pageTable, a) = 0
    <2>1. ASSUME NEW a, NEW i \in 0 .. 3 PROVE ReadBytes(pageTable, a, 4)[i] = 0
      <3>1. ReadBytes(pageTable, a, 4)[i] = Cell(pageTable, PageNumber(a), PageOffset(a + i))
        BY ReadCell
      <3> QED BY <3>1, <1>1 DEF Cell
    <2>2. PICK w1 \in Nat, w2 \in Nat, w3 \in Nat : w1 = Weight(1) /\ w2 = Weight(2) /\ w3 = Weight(3)
      <3>1. Weight(1) = Base /\ Weight(2) = Base * Base /\ Weight(3) = Base * Base * Base
        BY DEF Weight
      <3>2. Base \in Nat /\ Base * Base \in Nat /\ Base * Base * Base \in Nat
        BY PagedStackAssumption
      <3> QED BY <3>1, <3>2
    <2>3. 0 + 0 * w1 + 0 * w2 + 0 * w3 = 0
      OBVIOUS
    <2>4. ASSUME NEW a PROVE WordIn(pageTable, a) = 0
      <3>1. /\ ReadBytes(pageTable, a, 4)[0] = 0 /\ ReadBytes(pageTable, a, 4)[0 + 1] = 0
            /\ ReadBytes(pageTable, a, 4)[0 + 2] = 0 /\ ReadBytes(pageTable, a, 4)[0 + 3] = 0
        BY <2>1
      <3> QED BY <3>1, <2>2, <2>3, Zenon DEF WordIn, WordOf
    <2> QED BY <2>4
  <1>3. Words = [a \in HB .. MaxAddress |-> 0]
    BY <1>2, WordsAt, WordsAreFunctions, Zenon
  <1> QED BY <1>3, Zenon DEF Init, CSP!Init, CSP!Addresses

\* The test for overflow does not depend on how a negative difference wraps.
LEMMA SameOverflows ==
    ASSUME Typed, NEW m \in Methods
    PROVE  /\ Overflows(m) <=> CSP!Overflows(m)
           /\ CSP!FrameBytes(m) = FrameBytes(m)
  <1>1. PICK b \in Nat : b = FrameBytes(m)
    BY MethodSizes
  <1>2. CSP!FrameBytes(m) = b
    BY <1>1, Zenon DEF FrameBytes, CSP!FrameBytes, Slot, CSP!Slot
  <1>3. SP \in 0 .. MaxAddress /\ MaxAddress \in Nat
    BY Sizes, Zenon DEF Typed
  <1>4. b <= SP => Wrapped(SP - b) = SP - b /\ CSP!Wrapped(SP - b) = SP - b
    BY <1>3 DEF Wrapped, CSP!Wrapped
  <1>5. b <= SP \/ b > SP
    BY <1>3
  <1> QED BY <1>1, <1>2, <1>4, <1>5, Zenon DEF Overflows, CSP!Overflows

\* CallStack keeps nothing between its words.
LEMMA BetweenWords ==
    ASSUME NEW m, NEW args, NEW link, NEW F \in Nat, NEW fp, fp = 8 * F + 7,
           NEW a \in Nat, a % 4 # 3
    PROVE  CSP!FrameByte(m, args, link, fp, a) = 0
  <1>1. CASE a < fp
    BY <1>1, Zenon DEF CSP!FrameByte
  <1>2. CASE ~ (a < fp)
    <2>1. PICK r \in Nat : r = (a - fp) % 8 /\ r # 0 /\ r # 4
      <3>1. PICK d \in Nat : d = a - fp
        BY <1>2
      <3>2. d % 8 \in Nat /\ d % 8 # 0 /\ d % 8 # 4
        BY <3>1
      <3> QED BY <3>1, <3>2
    <2>2. \A v : CSP!Word(v, r) = 0
      BY <2>1 DEF CSP!Word, CSP!Half
    <2> QED BY <1>2, <2>1, <2>2, Zenon DEF CSP!FrameByte, CSP!Slot
  <1> QED BY <1>1, <1>2

LEMMA CallMaps ==
    ASSUME Typed, Counted, ~ spoilt', NEW m \in Methods, NEW site \in Sites,
           NEW args \in [1 .. m.arguments -> Values], Call(m, args, site)
    PROVE  CSP!Call(m, args, site)
  <1>1. PICK fp \in Nat, sp \in Nat, F \in Nat, G \in Nat :
           /\ CalledFrame(m, args, site, fp, sp, F, G, FrameWrites(m, args, site, fp, sp))
           /\ SP = 8 * (F + 1 + m.arguments) + 7
           /\ fp = SP - (m.arguments * 8 + 8) /\ sp = SP - FrameBytes(m)
           /\ FP' = fp /\ SP' = sp /\ HB < sp
           /\ pageTable' \in AfterWrites(FrameWrites(m, args, site, fp, sp))
           /\ spoilt' = (spoilt \/ Straddles(FrameWrites(m, args, site, fp, sp)))
    BY CalledAt
  <1>2. PICK link, W, t : /\ link = [low |-> FP, high |-> site]
                          /\ W = FrameWrites(m, args, site, fp, sp) /\ t = pageTable'
    OBVIOUS
  <1>3. WordsAfterCall(m, args, link, fp, sp, SP, t)
    <2>1. CalledFrame(m, args, site, fp, sp, F, G, W) /\ t \in AfterWrites(W) /\ ~ Straddles(W)
      BY <1>1, <1>2, Zenon
    <2>2. TableOK(pageTable)
      BY Zenon DEF Typed
    <2> QED BY <2>1, <2>2, <1>1, <1>2, FrameWords, Zenon
  <1>4. HB \in Nat /\ MaxAddress \in Nat /\ SP \in 0 .. MaxAddress /\ HB < SP
    BY PagedStackAssumption, Zenon DEF Typed, Counted
  <1>5. fp = 8 * F + 7
    BY <1>1, Zenon DEF CalledFrame
  <1>6. ASSUME NEW a \in HB .. MaxAddress
        PROVE  Words'[a] = IF sp <= a /\ a < SP THEN CSP!FrameByte(m, args, link, fp, a) ELSE Words[a]
    <2>1. a \in Nat
      BY <1>4
    <2>2. CASE a = MaxAddress
      <3>1. Words'[a] = 0 /\ Words[a] = 0
        BY <2>2, WordsAt, NewWordsAt, Zenon
      <3>2. ~ (a < SP)
        BY <2>2, <1>4
      <3> QED BY <3>1, <3>2
    <2>3. CASE a # MaxAddress /\ a % 4 = 3
      <3>1. Words'[a] = WordIn(t, a) /\ Words[a] = WordIn(pageTable, a)
        BY <2>3, <1>2, WordsAt, NewWordsAt, Zenon
      <3>2. WordIn(t, a) = IF sp <= a /\ a < SP THEN CSP!FrameByte(m, args, link, fp, a)
                           ELSE WordIn(pageTable, a)
        BY <2>1, <2>3, <1>3, Zenon DEF WordsAfterCall
      <3> QED BY <3>1, <3>2, Zenon
    <2>4. CASE a % 4 # 3
      <3>1. Words'[a] = 0 /\ Words[a] = 0
        BY <2>4, WordsAt, NewWordsAt, Zenon
      <3>2. CSP!FrameByte(m, args, link, fp, a) = 0
        BY <2>1, <2>4, <1>5, BetweenWords
      <3> QED BY <3>1, <3>2, Zenon
    <2> QED BY <2>2, <2>3, <2>4
  <1>7. Words' = [a \in CSP!Addresses |->
                     IF sp <= a /\ a < SP THEN CSP!FrameByte(m, args, link, fp, a) ELSE Words[a]]
    BY <1>6, WordsAreFunctions, Zenon DEF CSP!Addresses
  <1>8. /\ status = "running" /\ ~ CSP!Overflows(m)
        /\ frameInfoStack' = Append(frameInfoStack, m) /\ PC' = m.entry
        /\ callers' = Append(callers, [FP |-> FP, SP |-> SP, PC |-> site])
        /\ status' = status
    BY SameOverflows, Zenon DEF Call
  <1>9. fp = SP - (m.arguments * CSP!Slot + CSP!Slot) /\ sp = SP - CSP!FrameBytes(m)
    <2>1. fp = SP - (m.arguments * CSP!Slot + CSP!Slot)
      BY <1>1, Zenon DEF CSP!Slot
    <2> QED BY <2>1, <1>1, SameOverflows, Zenon
  <1>10. FP' = fp /\ SP' = sp
    BY <1>1, Zenon
  <1> QED BY <1>2, <1>7, <1>8, <1>9, <1>10, Zenon DEF CSP!Call

LEMMA OverflowMaps ==
    ASSUME Typed, NEW m \in Methods, CallOverflow(m)
    PROVE  CSP!CallOverflow(m)
  <1>1. Words' = Words
    BY WordsKept, Zenon DEF CallOverflow
  <1>2. CSP!Overflows(m)
    BY SameOverflows, Zenon DEF CallOverflow
  <1> QED BY <1>1, <1>2 DEF CallOverflow, CSP!CallOverflow

\* `ret` finds the link in memory.
LEMMA RetMaps ==
    ASSUME Typed, Counted, CSP!IInv, Ret
    PROVE  CSP!Ret
  <1>1. Depth # 0 /\ frameInfoStack # <<>>
    BY Elements, Zenon DEF Ret
  <1>2. /\ FP \in Nat /\ SP <= FP /\ FP % 8 = 7 /\ FP + 8 <= MaxAddress
        /\ Words[FP] = Read32(FP) /\ Words[FP + 4] = Read32(FP + 4)
        /\ Read32(FP) = callers[Depth].FP /\ callers[Depth].FP \in 0 .. MaxAddress
    BY <1>1, CurrentLink, Zenon
  <1>3. CSP!InStack(FP) /\ CSP!InStack(FP + CSP!Half)
    <2>1. SP \in Nat /\ MaxAddress \in Nat
      BY Sizes DEF Typed
    <2>2. SP <= FP /\ FP <= MaxAddress /\ SP <= FP + 4 /\ FP + 4 <= MaxAddress
      BY <2>1, <1>2
    <2> QED BY <2>2, Zenon DEF CSP!InStack, CSP!Half
  <1>4. Wrapped(Read32(FP)) = Words[FP]
    <2>1. PICK n \in 0 .. MaxAddress : n = Read32(FP)
      BY <1>2, Zenon
    <2>2. Wrapped(n) = n
      BY Sizes DEF Wrapped
    <2> QED BY <2>1, <2>2, <1>2, Zenon
  <1>5. Words' = Words
    BY WordsKept, Zenon DEF Ret
  <1>6. /\ status = "running" /\ PC' = Read32(FP + 4) /\ FP' = Wrapped(Read32(FP))
        /\ SP' = SP + FrameBytes(Current)
        /\ frameInfoStack' = SubSeq(frameInfoStack, 1, Depth - 1)
        /\ callers' = SubSeq(callers, 1, Depth - 1)
        /\ status' = status
    BY Zenon DEF Ret, Half
  <1>7. CSP!Depth = Depth /\ CSP!Current = Current /\ CSP!FrameBytes(Current) = FrameBytes(Current)
    BY Zenon DEF CSP!Depth, CSP!Current, Depth, Current, CSP!FrameBytes, FrameBytes, CSP!Slot, Slot
  <1>8. PC' = Words[FP + CSP!Half]
    BY <1>2, <1>6, Zenon DEF CSP!Half
  <1> QED BY <1>1, <1>2, <1>3, <1>4, <1>5, <1>6, <1>7, <1>8, Zenon DEF CSP!Ret

LEMMA RetEmptyMaps == RetEmpty => CSP!RetEmpty
  BY WordsKept DEF RetEmpty, CSP!RetEmpty

\* While no link is lost, `ret` never looks outside the stack.
LEMMA NeverOutside ==
    ASSUME Typed, Counted, CSP!IInv
    PROVE  ~ RetOutside
  <1> SUFFICES ASSUME RetOutside PROVE FALSE
    OBVIOUS
  <1>1. Depth # 0
    BY Elements, Zenon DEF RetOutside
  <1>2. FP \in Nat /\ SP <= FP /\ FP + 8 <= MaxAddress
    BY <1>1, CurrentLink, Zenon
  <1>3. SP \in Nat /\ MaxAddress \in Nat
    BY Sizes DEF Typed
  <1>4. Wrapped(FP + 4) = FP + 4
    BY <1>2, <1>3 DEF Wrapped
  <1>5. SP <= FP + 4
    BY <1>2, <1>3
  <1> QED BY <1>2, <1>4, <1>5, Zenon DEF RetOutside, InStack, Half

\* A store that lies in one page changes the two words of its slot.
LEMMA StoreLMaps ==
    ASSUME Typed, Counted, CSP!IInv, ~ spoilt',
           NEW o \in Offsets, NEW v \in Values, StoreL(o, v)
    PROVE  o # 0 /\ CSP!StoreL(o, v)
  <1>1. /\ status = "running" /\ ValidOffset(o)
        /\ pageTable' \in Written(pageTable, FrameAddress(o), BytesOf64(v))
        /\ spoilt' = (spoilt \/ Excess(FrameAddress(o), Slot) > 0 \/ o = 0)
        /\ UNCHANGED <<FP, SP, PC, frameInfoStack, callers, status>>
    BY Zenon DEF StoreL
  <1>2. o # 0 /\ o \in Offsets \ {0} /\ ~ (Excess(FrameAddress(o), 8) > 0)
    BY <1>1, Zenon DEF Slot
  <1>3. /\ CSP!ValidOffset(o) /\ FrameAddress(o) = FP + o * 8
        /\ CSP!FrameAddress(o) = FP + o * 8
        /\ FP + o * 8 \in Nat /\ (FP + o * 8) % 8 = 7
        /\ SP <= FP + o * 8 /\ FP + o * 8 + 8 <= MaxAddress
        /\ FP + o * 8 \in CSP!Addresses /\ FP + o * 8 + 4 \in CSP!Addresses
    BY <1>1, <1>2, CurrentSlot, Zenon
  <1>4. PICK z \in Nat : z = FP + o * 8
    BY <1>3
  <1>5. /\ z % 8 = 7 /\ SP <= z /\ z + 8 <= MaxAddress
        /\ z \in HB .. MaxAddress /\ z + 4 \in HB .. MaxAddress
    BY <1>3, <1>4, Zenon DEF CSP!Addresses
  <1>6. PICK t : t = pageTable'
    OBVIOUS
  <1>7. /\ BytesOf64(v) \in [0 .. 7 -> Digit] /\ WordOf(BytesOf64(v), 0) = v.low
        /\ WordOf(BytesOf64(v), 4) = v.high
    <2>1. v.low \in Word32 /\ v.high \in Word32
      BY PagedStackAssumption
    <2> QED BY <2>1, DigitsOfValue
  <1>8. MaxAddress \in Nat /\ HB \in Nat /\ z % 4 = 3 /\ z # MaxAddress
        /\ (z + 4) % 4 = 3 /\ z + 4 # MaxAddress /\ z + 4 # z
    BY <1>5, PagedStackAssumption
  <1>9. InOnePage(pageTable, z, 8, BytesOf64(v), t)
    <2>1. TableOK(pageTable)
      BY Zenon DEF Typed
    <2>2. t \in Written(pageTable, z, BytesOf64(v)) /\ ~ (Excess(z, 8) > 0)
      BY <1>1, <1>2, <1>3, <1>4, <1>6, Zenon
    <2>3. Excess(z, 8) = 0
      <3>1. PageOffset(z) \in Int /\ PageSize \in Int
        BY AlignedOffset, Sizes
      <3> QED BY <3>1, <2>2 DEF Excess
    <2>4. 8 - 1 = 7 /\ 8 \in {4, 8}
      OBVIOUS
    <2> QED BY <2>1, <2>2, <2>3, <2>4, <1>7, <1>8, Zenon DEF InOnePage
  <1>10. \A a \in Nat : a % 4 = 3 =>
            WordIn(t, a) = IF a = z THEN v.low ELSE IF a = z + 4 THEN v.high
                           ELSE WordIn(pageTable, a)
    <2>1. ASSUME NEW a \in Nat, a % 4 = 3
          PROVE  WordIn(t, a) = IF a = z THEN WordOf(BytesOf64(v), 0)
                                ELSE IF 8 = 8 /\ a = z + 4 THEN WordOf(BytesOf64(v), 4)
                                ELSE WordIn(pageTable, a)
      BY <1>9, <2>1, WordsWritten
    <2> QED BY <2>1, <1>7, Zenon
  <1>11. ASSUME NEW a \in HB .. MaxAddress
         PROVE  Words'[a] = IF a = z + 4 THEN v.high ELSE IF a = z THEN v.low ELSE Words[a]
    <2>1. a \in Nat
      BY <1>8
    <2>2. CASE a % 4 = 3 /\ a # MaxAddress
      <3>1. Words'[a] = WordIn(t, a) /\ Words[a] = WordIn(pageTable, a)
        BY <2>2, <1>6, WordsAt, NewWordsAt, Zenon
      <3> QED BY <3>1, <2>1, <2>2, <1>8, <1>10, Zenon
    <2>3. CASE ~ (a % 4 = 3 /\ a # MaxAddress)
      <3>1. Words'[a] = 0 /\ Words[a] = 0
        BY <2>3, WordsAt, NewWordsAt, Zenon
      <3>2. a # z /\ a # z + 4
        BY <2>3, <1>8
      <3> QED BY <3>1, <3>2, Zenon
    <2> QED BY <2>2, <2>3
  <1>12. Words' = [Words EXCEPT ![z] = v.low, ![z + 4] = v.high]
    <2>1. PICK w, w2 : w = Words /\ w2 = Words'
      OBVIOUS
    <2>2. /\ w = [a \in HB .. MaxAddress |-> w[a]] /\ w2 = [a \in HB .. MaxAddress |-> w2[a]]
          /\ \A a \in HB .. MaxAddress :
                w2[a] = IF a = z + 4 THEN v.high ELSE IF a = z THEN v.low ELSE w[a]
      BY <2>1, <1>11, WordsAreFunctions, Zenon
    <2>3. w2 = [w EXCEPT ![z] = v.low, ![z + 4] = v.high]
      BY <2>2, <1>5, <1>8
    <2> QED BY <2>1, <2>3, Zenon
  <1>13. CSP!InStack(z)
    <2>1. z <= MaxAddress
      BY <1>5, <1>8
    <2> QED BY <2>1, <1>5, Zenon DEF CSP!InStack
  <1>14. CSP!FrameAddress(o) = z /\ Words' = CSP!Write64(z, v)
    BY <1>3, <1>4, <1>12, Zenon DEF CSP!Write64, CSP!Half
  <1> QED BY <1>1, <1>2, <1>3, <1>13, <1>14 DEF CSP!StoreL

\* An offset is refused when it names no slot; the link's offset is refused
\* only where there is no frame.
LEMMA BadOffsetMaps ==
    ASSUME Typed, Counted, CSP!IInv, NEW o \in Offsets, BadOffset(o)
    PROVE  IF o = 0 THEN CSP!RetEmpty ELSE CSP!BadOffset(o)
  <1>1. /\ status = "running" /\ status' = "INTERNAL"
        /\ ValidOffset(o) => ~ InStack(FrameAddress(o))
        /\ UNCHANGED <<FP, SP, PC, pageTable, frameInfoStack, callers>>
    BY DEF BadOffset
  <1>2. Words' = Words
    BY <1>1, WordsKept
  <1>3. CASE o = 0
    <2>1. frameInfoStack = <<>>
      <3>1. SUFFICES ASSUME frameInfoStack # <<>> PROVE FALSE
        OBVIOUS
      <3>2. Depth # 0 /\ Current \in Methods
        BY <3>1, Elements, Zenon
      <3>3. Current.arguments \in Nat /\ Current.locals \in Nat
        BY <3>2, MethodSizes
      <3>4. ~ (o > 0 /\ o > Current.arguments) /\ ~ (- o > Current.locals)
        BY <1>3, <3>3
      <3>5. ValidOffset(o)
        BY <3>1, <3>4, Zenon DEF ValidOffset
      <3>6. FP \in Nat /\ SP <= FP /\ FP + 8 <= MaxAddress /\ MaxAddress \in Nat
        BY <3>2, CurrentLink, Sizes, Zenon
      <3>7. FP + o * Slot = FP /\ Wrapped(FP) = FP
        BY <1>3, <3>6 DEF Wrapped, Slot
      <3> QED BY <1>1, <3>5, <3>6, <3>7, Zenon DEF FrameAddress, InStack
    <2> QED BY <1>1, <1>2, <1>3, <2>1 DEF CSP!RetEmpty
  <1>4. CASE o # 0
    <2>1. ~ CSP!ValidOffset(o)
      <3>1. SUFFICES ASSUME CSP!ValidOffset(o) PROVE FALSE
        OBVIOUS
      <3>2. ValidOffset(o)
        BY <3>1, Zenon DEF ValidOffset, CSP!ValidOffset, Current, CSP!Current, Depth, CSP!Depth
      <3>3. FrameAddress(o) = FP + o * 8 /\ SP <= FP + o * 8
        BY <3>2, <1>4, CurrentSlot, Zenon
      <3> QED BY <1>1, <3>2, <3>3, Zenon DEF InStack
    <2> QED BY <1>1, <1>2, <1>4, <2>1 DEF CSP!BadOffset
  <1> QED BY <1>3, <1>4

\* Every step that spoils nothing is one that CallStack takes.
LEMMA NextMaps ==
    ASSUME Inv, [Next]_vars, ~ spoilt'
    PROVE  [CSP!Next]_(CSP!vars)
  <1>1. ~ spoilt
    BY DEF Next, Call, CallOverflow, Ret, RetEmpty, RetOutside, StoreL, BadOffset, vars
  <1>2. Typed /\ Counted /\ CSP!IInv
    BY <1>1, Zenon DEF Inv
  <1>3. ASSUME NEW m \in Methods, NEW site \in Sites,
               NEW args \in [1 .. m.arguments -> Values], Call(m, args, site)
        PROVE  CSP!Next
    <2>1. CSP!Call(m, args, site)
      BY <1>2, <1>3, CallMaps
    <2> QED BY <2>1, Zenon DEF CSP!Next
  <1>4. ASSUME NEW m \in Methods, CallOverflow(m) PROVE CSP!Next
    <2>1. CSP!CallOverflow(m)
      BY <1>2, <1>4, OverflowMaps
    <2> QED BY <2>1, Zenon DEF CSP!Next
  <1>5. ASSUME Ret PROVE CSP!Next
    <2>1. CSP!Ret
      BY <1>2, <1>5, RetMaps
    <2> QED BY <2>1, Zenon DEF CSP!Next
  <1>6. ASSUME RetEmpty PROVE CSP!Next
    BY <1>6, RetEmptyMaps, Zenon DEF CSP!Next
  <1>7. ~ RetOutside
    BY <1>2, NeverOutside
  <1>8. ASSUME NEW o \in Offsets, NEW v \in Values, StoreL(o, v) PROVE CSP!Next
    <2>1. o \in Offsets \ {0} /\ CSP!StoreL(o, v)
      BY <1>2, <1>8, StoreLMaps, Zenon
    <2> QED BY <2>1, Zenon DEF CSP!Next
  <1>9. ASSUME NEW o \in Offsets, BadOffset(o) PROVE CSP!Next
    <2>1. IF o = 0 THEN CSP!RetEmpty ELSE CSP!BadOffset(o)
      BY <1>2, <1>9, BadOffsetMaps
    <2>2. o # 0 => o \in Offsets \ {0}
      OBVIOUS
    <2> QED BY <2>1, <2>2, Zenon DEF CSP!Next
  <1>10. ASSUME UNCHANGED vars PROVE UNCHANGED CSP!vars
    BY <1>10, WordsKept DEF vars, CSP!vars
  <1> QED BY <1>3, <1>4, <1>5, <1>6, <1>7, <1>8, <1>9, <1>10, Zenon DEF Next

LEMMA InitInv == Init => Inv
  <1>1. Init => CSP!IInv
    BY InitMaps, StackConstants, CSP!InitIInv
  <1> QED BY <1>1, InitCounted DEF Inv

LEMMA NextInv ==
    ASSUME Inv, [Next]_vars
    PROVE  Inv'
  <1>1. Typed' /\ Counted'
    BY NextCounted DEF Inv
  <1>2. ASSUME ~ spoilt' PROVE CSP!IInv'
    <2>1. ~ spoilt
      BY <1>2 DEF Next, Call, CallOverflow, Ret, RetEmpty, RetOutside, StoreL, BadOffset, vars
    <2>2. CSP!IInv
      BY <2>1, Zenon DEF Inv
    <2>3. [CSP!Next]_(CSP!vars)
      BY <1>2, NextMaps
    <2> QED BY <2>2, <2>3, StackConstants, CSP!NextIInv
  <1> QED BY <1>1, <1>2 DEF Inv

\* The actions of CallStack as module PagedStack and its proofs name them.
LEMMA SameActions ==
    /\ \A m, args, site : CSP!Call(m, args, site) => Stack!Call(m, args, site)
    /\ \A m : CSP!CallOverflow(m) => Stack!CallOverflow(m)
    /\ CSP!Ret => Stack!Ret
    /\ CSP!RetEmpty => Stack!RetEmpty
    /\ \A o : CSP!BadOffset(o) => Stack!BadOffset(o)
    /\ \A o, v : CSP!StoreL(o, v) => Stack!StoreL(o, v)
    /\ \A k, o, v : /\ CSP!StorePointer(k, o, v) => Stack!StorePointer(k, o, v)
                    /\ CSP!StorePointer32(k, o, v) => Stack!StorePointer32(k, o, v)
    /\ UNCHANGED CSP!vars => UNCHANGED Stack!vars
  <1>1. ASSUME NEW m PROVE Stack!Overflows(m) <=> CSP!Overflows(m)
    BY DEF Stack!Overflows, CSP!Overflows, Stack!Wrapped, CSP!Wrapped,
       Stack!FrameBytes, CSP!FrameBytes, Stack!Slot, CSP!Slot
  <1>2. ASSUME NEW m, NEW args, NEW site, CSP!Call(m, args, site)
        PROVE  Stack!Call(m, args, site)
    BY <1>1, <1>2 DEF Stack!Call, CSP!Call, Stack!FrameBytes, CSP!FrameBytes, Stack!Slot,
       CSP!Slot, Stack!Addresses, CSP!Addresses, Stack!FrameByte, CSP!FrameByte,
       Stack!Word, CSP!Word, Stack!Half, CSP!Half
  <1>3. ASSUME NEW m, CSP!CallOverflow(m) PROVE Stack!CallOverflow(m)
    BY <1>1, <1>3 DEF Stack!CallOverflow, CSP!CallOverflow
  <1>4. CSP!Ret => Stack!Ret
    BY DEF Stack!Ret, CSP!Ret, Stack!InStack, CSP!InStack, Stack!Half, CSP!Half,
       Stack!FrameBytes, CSP!FrameBytes, Stack!Slot, CSP!Slot, Stack!Depth, CSP!Depth,
       Stack!Current, CSP!Current
  <1>5. CSP!RetEmpty => Stack!RetEmpty
    BY DEF Stack!RetEmpty, CSP!RetEmpty
  <1>6. ASSUME NEW o, CSP!BadOffset(o) PROVE Stack!BadOffset(o)
    BY <1>6 DEF Stack!BadOffset, CSP!BadOffset, Stack!ValidOffset, CSP!ValidOffset,
       Stack!Current, CSP!Current, Stack!Depth, CSP!Depth, Stack!InStack, CSP!InStack,
       Stack!FrameAddress, CSP!FrameAddress, Stack!Slot, CSP!Slot
  <1>7. ASSUME NEW o, NEW v, CSP!StoreL(o, v) PROVE Stack!StoreL(o, v)
    BY <1>7 DEF Stack!StoreL, CSP!StoreL, Stack!ValidOffset, CSP!ValidOffset,
       Stack!Current, CSP!Current, Stack!Depth, CSP!Depth, Stack!InStack, CSP!InStack,
       Stack!FrameAddress, CSP!FrameAddress, Stack!Slot, CSP!Slot,
       Stack!Write64, CSP!Write64, Stack!Half, CSP!Half
  <1>8. UNCHANGED CSP!vars => UNCHANGED Stack!vars
    BY DEF Stack!vars, CSP!vars
  <1>9. ASSUME NEW k PROVE Stack!FrameOf(k) = CSP!FrameOf(k)
    BY DEF Stack!FrameOf, CSP!FrameOf, Stack!Depth, CSP!Depth
  <1>10. ASSUME NEW k, NEW o, NEW v
         PROVE  /\ CSP!StorePointer(k, o, v) => Stack!StorePointer(k, o, v)
                /\ CSP!StorePointer32(k, o, v) => Stack!StorePointer32(k, o, v)
    BY <1>9 DEF Stack!StorePointer, CSP!StorePointer, Stack!StorePointer32, CSP!StorePointer32,
       Stack!SlotsOf, CSP!SlotsOf, Stack!Write64, CSP!Write64, Stack!Half, CSP!Half,
       Stack!Slot, CSP!Slot
  <1> QED BY <1>2, <1>3, <1>4, <1>5, <1>6, <1>7, <1>8, <1>10

\* Every step that spoils nothing is one that CallStack takes: bytes, pages
\* and wrapping addresses make no difference to a program until it writes a
\* value that lies in two pages or stores over a link.
THEOREM ImplementsCallStack == Spec => StepsOfCallStack
  <1>1. Inv /\ [Next]_vars => Inv'
    BY NextInv
  <1>2. ASSUME Inv, [Next]_vars
        PROVE  [~ spoilt' =>
                   /\ Stack!Next \/ UNCHANGED Stack!vars
                   /\ \A o \in Offsets \ {0}, v \in Values : StoreL(o, v) => Stack!StoreL(o, v)]_vars
    <2>1. SUFFICES ASSUME ~ spoilt'
                   PROVE  /\ Stack!Next \/ UNCHANGED Stack!vars
                          /\ \A o \in Offsets \ {0}, v \in Values :
                                StoreL(o, v) => Stack!StoreL(o, v)
      OBVIOUS
    <2>2. CSP!Next \/ UNCHANGED CSP!vars
      BY <1>2, <2>1, NextMaps
    <2>3. ~ spoilt
      BY <1>2, <2>1
      DEF Next, Call, CallOverflow, Ret, RetEmpty, RetOutside, StoreL, BadOffset, vars
    <2>4. Typed /\ Counted /\ CSP!IInv
      BY <1>2, <2>3, Zenon DEF Inv
    <2>5. CSP!Next => Stack!Next
      <3>1. SUFFICES ASSUME CSP!Next PROVE Stack!Next
        OBVIOUS
      <3>2. ~ \E hp \in {} : CSP!GrowHeap(hp)
        OBVIOUS
      <3> QED BY <3>1, <3>2, SameActions, Zenon DEF CSP!Next, Stack!Next
    <2>6. ASSUME NEW o \in Offsets \ {0}, NEW v \in Values, StoreL(o, v)
          PROVE  Stack!StoreL(o, v)
      <3>1. CSP!StoreL(o, v)
        BY <2>1, <2>4, <2>6, StoreLMaps
      <3> QED BY <3>1, SameActions
    <2> QED BY <2>2, <2>5, <2>6, SameActions, Zenon
  <1> QED BY InitInv, <1>1, <1>2, PTL DEF Spec, StepsOfCallStack

\* `ret` gives back the registers of the caller, as long as no value lies in
\* two pages and no link has been overwritten.
THEOREM RetRestores == Spec => RetRestoresInPage
  <1>1. Inv /\ [Next]_vars => Inv'
    BY NextInv
  <1>2. ASSUME Inv, [Next]_vars
        PROVE  [Depth' < Depth /\ ~ spoilt => ToCaller]_vars
    <2>1. SUFFICES ASSUME Depth' < Depth, ~ spoilt PROVE ToCaller
      OBVIOUS
    <2>2. Typed /\ Counted /\ CSP!IInv
      BY <1>2, <2>1, Zenon DEF Inv
    <2>3. PICK d \in Nat : d = Depth /\ d = Len(frameInfoStack)
      BY <2>2, Elements, Zenon
    <2>4. ASSUME frameInfoStack' = frameInfoStack PROVE FALSE
      <3>1. Depth' = d
        BY <2>3, <2>4, Zenon DEF Depth
      <3> QED BY <3>1, <2>1, <2>3
    <2>5. ASSUME NEW m \in Methods, NEW site \in Sites,
                 NEW args \in [1 .. m.arguments -> Values], Call(m, args, site)
          PROVE  FALSE
      <3>r1. PICK r : r = frameInfoStack'
        OBVIOUS
      <3>1. PICK s \in Seq(Methods) : s = frameInfoStack /\ r = frameInfoStack'
        BY <3>r1, <2>2, Zenon DEF Typed
      <3>2. r = Append(s, m) /\ d = Len(s)
        BY <2>3, <2>5, <3>1, Zenon DEF Call
      <3>3. Len(r) = d + 1
        BY <3>2, Pushed
      <3>4. Depth' = d + 1
        BY <3>1, <3>3, Zenon DEF Depth
      <3> QED BY <3>4, <2>1, <2>3
    <2>6. Ret
      BY <1>2, <2>4, <2>5 DEF Next, CallOverflow, RetEmpty, RetOutside, StoreL, BadOffset, vars
    <2>7. CSP!Ret
      BY <2>2, <2>6, RetMaps
    <2>8. FP' = callers[CSP!Depth].FP /\ SP' = callers[CSP!Depth].SP /\ PC' = callers[CSP!Depth].PC
      BY <2>2, <2>7, StackConstants, CSP!RetFacts
    <2> QED BY <2>8, Zenon DEF ToCaller, CSP!Depth, Depth
  <1> QED BY InitInv, <1>1, <1>2, PTL DEF Spec, RetRestoresInPage
=============================================================================
