----------------------------- MODULE HeapProofs -----------------------------
(***************************************************************************)
(* Proofs about module Heap, for every header size, address range and      *)
(* sizes, values and stack tops a program may use.                         *)
(*                                                                         *)
(* The invariant accounts for every address: it is free or held, never     *)
(* both (LiveNotFree, LiveApart, Whole), and the list is sorted and        *)
(* coalesced (FreeOK).  `free` needs the headers intact to give back what  *)
(* was taken; headers stay intact because held blocks are apart.           *)
(***************************************************************************)
EXTENDS Heap, SequenceTheorems, WellFoundedInduction, TLAPS

\* What Inserted puts together: the elements of a splice.
LEMMA SpliceProperties ==
    ASSUME NEW s \in Seq(Block), NEW e \in Block,
           NEW l \in 0 .. Len(s), NEW r \in 1 .. (Len(s) + 1)
    PROVE  /\ Splice(s, l, e, r) \in Seq(Block)
           /\ Len(Splice(s, l, e, r)) = l + 1 + (Len(s) + 1 - r)
           /\ \A j \in 1 .. (l + 1 + (Len(s) + 1 - r)) :
                Splice(s, l, e, r)[j] =
                    IF j <= l THEN s[j]
                    ELSE IF j = l + 1 THEN e
                    ELSE s[r + j - l - 2]
  <1> DEFINE A == SubSeq(s, 1, l)
             B == <<e>>
             C == SubSeq(s, r, Len(s))
  <1>1. /\ Len(s) \in Nat
        /\ \A j \in 1 .. Len(s) : s[j] \in Block
    BY LenProperties, ElementOfSeq
  <1>2. /\ A \in Seq(Block)
        /\ Len(A) = l
        /\ \A j \in 1 .. l : A[j] = s[j]
    BY <1>1, SubSeqProperties
  <1>3. /\ C \in Seq(Block)
        /\ Len(C) = Len(s) + 1 - r
        /\ \A j \in 1 .. Len(s) + 1 - r : C[j] = s[r + j - 1]
    <2>1. \A j \in r .. Len(s) : s[j] \in Block
      BY <1>1
    <2>2. /\ C \in Seq(Block)
          /\ Len(C) = IF r <= Len(s) THEN Len(s) - r + 1 ELSE 0
          /\ \A j \in 1 .. Len(s) - r + 1 : C[j] = s[r + j - 1]
      BY <2>1, <1>1, SubSeqProperties
    <2> QED BY <2>2, <1>1
  <1>4. B \in Seq(Block) /\ Len(B) = 1 /\ B[1] = e
    OBVIOUS
  <1> HIDE DEF A, B, C
  <1> DEFINE AB == A \o B
  <1>a. A \in Seq(Block) /\ B \in Seq(Block) /\ C \in Seq(Block)
    BY <1>2, <1>3, <1>4
  <1>b. AB \in Seq(Block)
    BY <1>a, ConcatProperties, Zenon
  <1>5. /\ Len(AB) = Len(A) + Len(B)
        /\ \A j \in 1 .. Len(A) + Len(B) :
             AB[j] = IF j <= Len(A) THEN A[j] ELSE B[j - Len(A)]
    BY <1>a, ConcatProperties, Zenon
  <1> HIDE DEF AB
  <1>6. /\ AB \o C \in Seq(Block)
        /\ Len(AB \o C) = Len(AB) + Len(C)
        /\ \A j \in 1 .. Len(AB) + Len(C) :
             (AB \o C)[j] = IF j <= Len(AB) THEN AB[j] ELSE C[j - Len(AB)]
    BY <1>a, <1>b, ConcatProperties, Zenon
  <1>7. Splice(s, l, e, r) = AB \o C
    BY DEF Splice, AB, A, B, C
  <1>8. ASSUME NEW j \in 1 .. (l + 1 + (Len(s) + 1 - r))
        PROVE  (AB \o C)[j] = IF j <= l THEN s[j]
                                  ELSE IF j = l + 1 THEN e
                                  ELSE s[r + j - l - 2]
    <2>1. CASE j <= l
      BY <2>1, <1>1, <1>2, <1>3, <1>4, <1>5, <1>6
    <2>2. CASE j = l + 1
      BY <2>2, <1>1, <1>2, <1>3, <1>4, <1>5, <1>6
    <2>3. CASE j > l + 1
      <3>1. j - (l + 1) \in 1 .. Len(s) + 1 - r
        BY <2>3, <1>1
      <3>2. Len(AB) = l + 1 /\ Len(C) = Len(s) + 1 - r
        BY <1>1, <1>2, <1>3, <1>4, <1>5
      <3>3. (AB \o C)[j] = C[j - (l + 1)]
        BY <2>3, <3>2, <1>1, <1>6, SMTT(40)
      <3>4. C[j - (l + 1)] = s[r + (j - (l + 1)) - 1]
        BY <3>1, <1>3
      <3>5. r + (j - (l + 1)) - 1 = r + j - l - 2
        BY <1>1
      <3>6. ~ (j <= l) /\ j # l + 1
        <4>1. j \in Int /\ l \in Int
          OBVIOUS
        <4> QED BY <4>1, <2>3
      <3>7. (AB \o C)[j] = s[r + j - l - 2]
        BY <3>3, <3>4, <3>5
      <3> QED BY <3>6, <3>7
    <2>4. j <= l \/ j = l + 1 \/ j > l + 1
      BY <1>1
    <2> QED BY <2>1, <2>2, <2>3, <2>4, Zenon
  <1> QED BY <1>1, <1>2, <1>3, <1>4, <1>5, <1>6, <1>7, <1>8

\* The list that TakeFrom leaves when the whole block is used.
LEMMA RemovalProperties ==
    ASSUME NEW S, NEW s \in Seq(S), NEW i \in 1 .. Len(s)
    PROVE  /\ Without(s, i) \in Seq(S)
           /\ Len(Without(s, i)) = Len(s) - 1
           /\ \A j \in 1 .. Len(s) - 1 :
                Without(s, i)[j] = IF j < i THEN s[j] ELSE s[j + 1]
  <1> DEFINE A == SubSeq(s, 1, i - 1)
             C == SubSeq(s, i + 1, Len(s))
  <1>1. /\ Len(s) \in Nat
        /\ \A j \in 1 .. Len(s) : s[j] \in S
    BY LenProperties, ElementOfSeq
  <1>2. /\ A \in Seq(S)
        /\ Len(A) = i - 1
        /\ \A j \in 1 .. i - 1 : A[j] = s[j]
    BY <1>1, SubSeqProperties
  <1>3. /\ C \in Seq(S)
        /\ Len(C) = Len(s) - i
        /\ \A j \in 1 .. Len(s) - i : C[j] = s[j + i]
    <2>1. \A j \in i + 1 .. Len(s) : s[j] \in S
      BY <1>1
    <2>2. /\ C \in Seq(S)
          /\ Len(C) = IF i + 1 <= Len(s) THEN Len(s) - (i + 1) + 1 ELSE 0
          /\ \A j \in 1 .. Len(s) - (i + 1) + 1 : C[j] = s[i + 1 + j - 1]
      BY <2>1, <1>1, SubSeqProperties
    <2> QED BY <2>2, <1>1
  <1> HIDE DEF A, C
  <1>4. A \in Seq(S) /\ C \in Seq(S)
    BY <1>2, <1>3
  <1>5. /\ A \o C \in Seq(S)
        /\ Len(A \o C) = Len(A) + Len(C)
        /\ \A j \in 1 .. Len(A) + Len(C) :
             (A \o C)[j] = IF j <= Len(A) THEN A[j] ELSE C[j - Len(A)]
    BY <1>4, ConcatProperties, Zenon
  <1>6. Len(A) = i - 1 /\ Len(C) = Len(s) - i /\ Len(A) + Len(C) = Len(s) - 1
    BY <1>1, <1>2, <1>3
  <1>7. ASSUME NEW j \in 1 .. Len(s) - 1
        PROVE  (A \o C)[j] = IF j < i THEN s[j] ELSE s[j + 1]
    <2>1. CASE j < i
      <3>1. (A \o C)[j] = A[j]
        BY <2>1, <1>1, <1>5, <1>6
      <3>2. A[j] = s[j]
        BY <2>1, <1>1, <1>2
      <3> QED BY <2>1, <3>1, <3>2
    <2>2. CASE ~ (j < i)
      <3>1. (A \o C)[j] = C[j - (i - 1)]
        BY <2>2, <1>1, <1>5, <1>6
      <3>2. C[j - (i - 1)] = s[j - (i - 1) + i]
        BY <2>2, <1>1, <1>3
      <3>3. j - (i - 1) + i = j + 1
        OBVIOUS
      <3>4. (A \o C)[j] = s[j + 1]
        BY <3>1, <3>2, <3>3
      <3> QED BY <2>2, <3>4
    <2> QED BY <2>1, <2>2
  <1>8. /\ A \o C \in Seq(S)
        /\ Len(A \o C) = Len(s) - 1
        /\ \A j \in 1 .. Len(s) - 1 : (A \o C)[j] = IF j < i THEN s[j] ELSE s[j + 1]
    BY <1>5, <1>6, <1>7
  <1> QED BY <1>8 DEF Without, A, C
-----------------------------------------------------------------------------

\* a is one of the addresses of block b.
In(a, b) == b.address <= a /\ a < EndOf(b)

\* Every block of s is nonempty and inside the heap's range.
BlocksInRange(s) ==
    \A i \in 1 .. Len(s) :
        s[i].size > 0 /\ HB <= s[i].address /\ EndOf(s[i]) <= MaxAddress

Sorted(s) ==
    \A i, j \in 1 .. Len(s) : i < j => EndOf(s[i]) < s[j].address

FreeOK(s) == s \in Seq(Block) /\ BlocksInRange(s) /\ Sorted(s)

Covers(s, a) == \E i \in 1 .. Len(s) : In(a, s[i])

\* Replacing the entries between l and r by one block that spans them, and
\* that touches neither neighbour, keeps the list sorted and adds exactly
\* that block's addresses.
LEMMA SpliceKeepsList ==
    ASSUME NEW s, FreeOK(s),
           NEW e \in Block, e.size > 0, HB <= e.address, EndOf(e) <= MaxAddress,
           NEW l \in 0 .. Len(s), NEW r \in 1 .. (Len(s) + 1), l < r,
           l > 0 => EndOf(s[l]) < e.address,
           r <= Len(s) => EndOf(e) < s[r].address,
           \A j \in (l + 1) .. (r - 1) :
              e.address <= s[j].address /\ EndOf(s[j]) <= EndOf(e)
    PROVE  /\ FreeOK(Splice(s, l, e, r))
           /\ \A a \in Nat : Covers(Splice(s, l, e, r), a) <=> Covers(s, a) \/ In(a, e)
  <1> DEFINE t == Splice(s, l, e, r)
             n == l + 1 + (Len(s) + 1 - r)
  <1>1. /\ s \in Seq(Block)
        /\ Len(s) \in Nat
        /\ \A j \in 1 .. Len(s) : /\ s[j] \in Block
                                 /\ s[j].address \in Nat /\ s[j].size \in Nat
                                 /\ s[j].size > 0
    <2>1. s \in Seq(Block)
      BY DEF FreeOK
    <2>2. \A j \in 1 .. Len(s) : s[j] \in Block
      BY <2>1, ElementOfSeq
    <2> QED BY <2>1, <2>2, LenProperties DEF FreeOK, BlocksInRange, Block
  <1>2. /\ t \in Seq(Block) /\ Len(t) = n
        /\ \A j \in 1 .. n : t[j] = IF j <= l THEN s[j]
                                   ELSE IF j = l + 1 THEN e
                                   ELSE s[r + j - l - 2]
    <2> HIDE DEF t, n
    <2>1. /\ s \in Seq(Block) /\ e \in Block
          /\ l \in 0 .. Len(s) /\ r \in 1 .. (Len(s) + 1)
      BY <1>1
    <2>2. /\ Splice(s, l, e, r) \in Seq(Block)
          /\ Len(Splice(s, l, e, r)) = l + 1 + (Len(s) + 1 - r)
          /\ \A j \in 1 .. (l + 1 + (Len(s) + 1 - r)) :
               Splice(s, l, e, r)[j] = IF j <= l THEN s[j]
                                       ELSE IF j = l + 1 THEN e
                                       ELSE s[r + j - l - 2]
      BY <2>1, SpliceProperties
    <2> QED BY <2>2, Zenon DEF t, n
  <1>3. n \in Nat /\ l \in Nat /\ r \in Nat /\ e.address \in Nat /\ e.size \in Nat
    BY <1>1 DEF Block
  <1> HIDE DEF t, n
  <1>4. /\ \A j \in 1 .. l : t[j] = s[j]
        /\ t[l + 1] = e
        /\ l + 1 \in 1 .. n
    <2>1. l + 1 \in 1 .. n /\ ~ (l + 1 <= l)
      BY <1>1, <1>3 DEF n
    <2>2. t[l + 1] = e
      BY <2>1, <1>2, Zenon
    <2>3. ASSUME NEW j \in 1 .. l PROVE t[j] = s[j]
      <3>1. j \in 1 .. n /\ j <= l
        BY <2>1, <1>3
      <3> QED BY <3>1, <1>2, Zenon
    <2> QED BY <2>1, <2>2, <2>3
  <1>a. ASSUME NEW j \in (l + 2) .. n
        PROVE  \E q \in r .. Len(s) : q = r + j - l - 2 /\ t[j] = s[q]
    <2>1. r + j - l - 2 \in r .. Len(s)
      BY <1>1, <1>3, SMTT(40) DEF n
    <2>2. j \in 1 .. n /\ ~ (j <= l) /\ j # l + 1
      BY <1>3
    <2>3. t[j] = s[r + j - l - 2]
      BY <2>2, <1>2, Zenon
    <2> QED BY <2>1, <2>3, Zenon
  <1>5. ASSUME NEW j \in r .. Len(s)
        PROVE  \E p \in 1 .. n : t[p] = s[j]
    <2>1. j - r + l + 2 \in (l + 2) .. n /\ j - r + l + 2 \in 1 .. n
      BY <1>1, <1>3 DEF n
    <2>2. PICK q \in r .. Len(s) :
             q = r + (j - r + l + 2) - l - 2 /\ t[j - r + l + 2] = s[q]
      BY <2>1, <1>a, Zenon
    <2>3. q = j
      BY <2>2, <1>3
    <2> QED BY <2>1, <2>2, <2>3, Zenon
  <1>6. BlocksInRange(t)
    <2> SUFFICES ASSUME NEW j \in 1 .. n
                 PROVE  t[j].size > 0 /\ HB <= t[j].address /\ EndOf(t[j]) <= MaxAddress
      BY <1>2 DEF BlocksInRange
    <2>1. \A i \in 1 .. Len(s) :
             s[i].size > 0 /\ HB <= s[i].address /\ EndOf(s[i]) <= MaxAddress
      BY DEF FreeOK, BlocksInRange
    <2>2. CASE j \in 1 .. l
      <3>1. j \in 1 .. Len(s) /\ t[j] = s[j]
        BY <2>2, <1>1, <1>3, <1>4
      <3> QED BY <3>1, <2>1, Zenon
    <2>3. CASE j = l + 1
      BY <2>3, <1>4
    <2>4. CASE j \in (l + 2) .. n
      BY <2>1, <2>4, <1>1, <1>3, <1>a
    <2> QED BY <2>2, <2>3, <2>4, <1>3
  <1>7. Sorted(t)
    <2>1. \A i, j \in 1 .. Len(s) : i < j => EndOf(s[i]) < s[j].address
      BY DEF FreeOK, Sorted
    <2>2. \A j \in 1 .. l : EndOf(s[j]) < e.address
      <3> SUFFICES ASSUME NEW j \in 1 .. l PROVE EndOf(s[j]) < e.address
        OBVIOUS
      <3>1. CASE j = l
        BY <3>1, <1>3
      <3>2. CASE j < l
        <4>1. j \in 1 .. Len(s) /\ l \in 1 .. Len(s) /\ l > 0
          BY <3>2, <1>1, <1>3
        <4>2. EndOf(s[j]) < s[l].address
          BY <2>1, <3>2, <4>1
        <4>3. EndOf(s[l]) < e.address
          BY <4>1
        <4>4. s[l].address <= EndOf(s[l]) /\ EndOf(s[j]) \in Nat /\ EndOf(s[l]) \in Nat
          <5>1. /\ s[l].address \in Nat /\ s[l].size \in Nat
                /\ s[j].address \in Nat /\ s[j].size \in Nat
            BY <4>1, <1>1
          <5> QED BY <5>1, SMTT(40) DEF EndOf
        <4>5. s[l].address \in Nat
          BY <4>1, <1>1
        <4> QED BY <4>2, <4>3, <4>4, <4>5, <1>3
      <3>3. j \in Int /\ l \in Int /\ j <= l
        BY <1>3
      <3> QED BY <3>1, <3>2, <3>3
    <2>3. \A j \in r .. Len(s) : EndOf(e) < s[j].address
      <3> SUFFICES ASSUME NEW j \in r .. Len(s) PROVE EndOf(e) < s[j].address
        OBVIOUS
      <3>1. CASE j = r
        BY <3>1, <1>3, <1>1
      <3>2. CASE j > r
        <4>1. j \in 1 .. Len(s) /\ r \in 1 .. Len(s) /\ r <= Len(s)
          BY <3>2, <1>1, <1>3
        <4>2. EndOf(s[r]) < s[j].address
          BY <2>1, <3>2, <4>1
        <4>3. EndOf(e) < s[r].address
          BY <4>1
        <4>4. /\ s[r].address \in Nat /\ s[r].size \in Nat
              /\ s[j].address \in Nat /\ s[j].size \in Nat
          BY <4>1, <1>1
        <4> QED BY <4>2, <4>3, <4>4, <1>3, SMTT(40) DEF EndOf
      <3> QED BY <3>1, <3>2, <1>3, <1>1
    <2> SUFFICES ASSUME NEW i \in 1 .. n, NEW j \in 1 .. n, i < j
                 PROVE  EndOf(t[i]) < t[j].address
      BY <1>2 DEF Sorted
    <2>4. CASE i \in 1 .. l /\ j \in 1 .. l
      BY <2>1, <2>4, <1>4, <1>1, <1>3
    <2>5. CASE i \in 1 .. l /\ j = l + 1
      BY <2>2, <2>5, <1>4
    <2>6. CASE i \in 1 .. l /\ j \in (l + 2) .. n
      <3>1. PICK q \in r .. Len(s) : t[j] = s[q]
        BY <2>6, <1>a
      <3>2. i \in 1 .. Len(s) /\ q \in 1 .. Len(s) /\ i < q
        BY <2>6, <1>1, <1>3
      <3>3. EndOf(s[i]) < s[q].address
        BY <3>2, <2>1
      <3> QED BY <3>1, <3>3, <2>6, <1>4
    <2>7. CASE i = l + 1 /\ j \in (l + 2) .. n
      BY <2>3, <2>7, <1>4, <1>a
    <2>8. CASE i \in (l + 2) .. n /\ j \in (l + 2) .. n
      <3>1. PICK p \in r .. Len(s) : p = r + i - l - 2 /\ t[i] = s[p]
        BY <2>8, <1>a
      <3>2. PICK q \in r .. Len(s) : q = r + j - l - 2 /\ t[j] = s[q]
        BY <2>8, <1>a
      <3>3. p \in 1 .. Len(s) /\ q \in 1 .. Len(s) /\ p < q
        BY <3>1, <3>2, <1>1, <1>3
      <3>4. EndOf(s[p]) < s[q].address
        BY <3>3, <2>1
      <3> QED BY <3>1, <3>2, <3>4
    <2> QED BY <2>4, <2>5, <2>6, <2>7, <2>8, <1>3
  <1>8. ASSUME NEW a \in Nat
        PROVE  Covers(t, a) <=> Covers(s, a) \/ In(a, e)
    <2>1. ASSUME Covers(t, a) PROVE Covers(s, a) \/ In(a, e)
      <3> PICK j \in 1 .. n : In(a, t[j])
        BY <2>1, <1>2 DEF Covers
      <3>1. CASE j \in 1 .. l
        BY <3>1, <1>4, <1>1, <1>3 DEF Covers
      <3>2. CASE j = l + 1
        BY <3>2, <1>4
      <3>3. CASE j \in (l + 2) .. n
        <4>1. PICK q \in r .. Len(s) : t[j] = s[q]
          BY <3>3, <1>a
        <4> QED BY <4>1, <1>3 DEF Covers
      <3> QED BY <3>1, <3>2, <3>3, <1>3
    <2>2. ASSUME In(a, e) PROVE Covers(t, a)
      BY <2>2, <1>4, <1>2, <1>3 DEF Covers
    <2>3. ASSUME Covers(s, a) PROVE Covers(t, a)
      <3> PICK j \in 1 .. Len(s) : In(a, s[j])
        BY <2>3 DEF Covers
      <3>1. CASE j \in 1 .. l
        <4>1. j \in 1 .. n /\ t[j] = s[j]
          BY <3>1, <1>4, <1>3, SMTT(40)
        <4> QED BY <4>1, <1>2 DEF Covers
      <3>2. CASE j \in (l + 1) .. (r - 1)
        <4>1. e.address <= s[j].address /\ EndOf(s[j]) <= EndOf(e)
          BY <3>2
        <4>a. /\ s[j].address \in Nat /\ s[j].size \in Nat
              /\ e.address \in Nat /\ e.size \in Nat
          BY <1>1, <1>3
        <4>2. In(a, e)
          BY <4>1, <4>a, SMTT(40) DEF In, EndOf
        <4> QED BY <4>2, <2>2
      <3>3. CASE j \in r .. Len(s)
        <4>1. PICK p \in 1 .. n : t[p] = s[j]
          BY <3>3, <1>5, Zenon
        <4>2. In(a, t[p]) /\ p \in 1 .. Len(t)
          BY <4>1, <1>2, Zenon
        <4> QED BY <4>2, Zenon DEF Covers
      <3> QED BY <3>1, <3>2, <3>3, <1>3, <1>1
    <2> QED BY <2>1, <2>2, <2>3
  <1> QED BY <1>2, <1>6, <1>7, <1>8 DEF FreeOK, t

\* The facts about a well-formed list that every argument below starts from.
LEMMA ListFacts ==
    ASSUME NEW s, FreeOK(s)
    PROVE  /\ Len(s) \in Nat
           /\ DOMAIN s = 1 .. Len(s)
           /\ \A j \in 1 .. Len(s) :
                /\ s[j] \in Block
                /\ s[j] = [address |-> s[j].address, size |-> s[j].size]
                /\ s[j].address \in Nat /\ s[j].size \in Nat
                /\ s[j].size > 0 /\ HB <= s[j].address /\ EndOf(s[j]) <= MaxAddress
           /\ \A i, j \in 1 .. Len(s) : i < j => EndOf(s[i]) < s[j].address
  <1>1. s \in Seq(Block)
    BY DEF FreeOK
  <1>2. \A j \in 1 .. Len(s) : s[j] \in Block
    BY <1>1, ElementOfSeq
  <1> QED BY <1>1, <1>2, LenProperties DEF FreeOK, BlocksInRange, Sorted, Block

\* Taking bytes from the front of a free block keeps the list sorted and
\* removes exactly those addresses.
LEMMA TakeKeepsList ==
    ASSUME FreeOK(freeList), NEW i \in 1 .. Len(freeList),
           NEW bytes \in Nat, 0 < bytes, bytes <= freeList[i].size
    PROVE  /\ FreeOK(TakeFrom(i, bytes))
           /\ \A a \in Nat :
                Covers(TakeFrom(i, bytes), a) <=>
                    /\ Covers(freeList, a)
                    /\ ~ In(a, [address |-> freeList[i].address, size |-> bytes])
  <1> DEFINE s == freeList
             t == TakeFrom(i, bytes)
             taken == [address |-> s[i].address, size |-> bytes]
  <1>1. /\ Len(s) \in Nat
        /\ DOMAIN s = 1 .. Len(s)
        /\ \A j \in 1 .. Len(s) :
             /\ s[j] \in Block
             /\ s[j].address \in Nat /\ s[j].size \in Nat
             /\ s[j].size > 0 /\ HB <= s[j].address /\ EndOf(s[j]) <= MaxAddress
        /\ \A k, j \in 1 .. Len(s) : k < j => EndOf(s[k]) < s[j].address
    BY ListFacts
  <1>2. s \in Seq(Block)
    BY DEF FreeOK
  <1>3. CASE s[i].size = bytes
    <2>1. t = Without(s, i)
      BY <1>3 DEF TakeFrom
    <2>2. /\ t \in Seq(Block) /\ Len(t) = Len(s) - 1
          /\ \A j \in 1 .. Len(s) - 1 : t[j] = IF j < i THEN s[j] ELSE s[j + 1]
      <3> HIDE DEF s, t
      <3>1. i \in 1 .. Len(s)
        BY DEF s
      <3> QED BY <2>1, <3>1, <1>2, RemovalProperties, Zenon
    <2> HIDE DEF t
    <2>3. ASSUME NEW j \in 1 .. Len(t)
          PROVE  \E q \in 1 .. Len(s) : /\ q # i /\ t[j] = s[q]
                                         /\ q = IF j < i THEN j ELSE j + 1
      BY <2>2, <1>1
    <2>4. ASSUME NEW q \in 1 .. Len(s), q # i
          PROVE  \E j \in 1 .. Len(t) : t[j] = s[q]
      <3>1. CASE q < i
        <4>1. q \in 1 .. Len(s) - 1
          BY <3>1, <1>1
        <4> QED BY <3>1, <4>1, <2>2, Zenon
      <3>2. CASE q > i
        <4>1. q - 1 \in 1 .. Len(s) - 1 /\ ~ (q - 1 < i) /\ (q - 1) + 1 = q
          BY <3>2, <1>1
        <4>2. t[q - 1] = s[(q - 1) + 1]
          BY <4>1, <2>2, Zenon
        <4> QED BY <4>1, <4>2, <2>2, Zenon
      <3> QED BY <3>1, <3>2, <2>4
    <2>5. BlocksInRange(t)
      BY <2>3, <1>1 DEF BlocksInRange
    <2>6. Sorted(t)
      <3> SUFFICES ASSUME NEW k \in 1 .. Len(t), NEW j \in 1 .. Len(t), k < j
                   PROVE  EndOf(t[k]) < t[j].address
        BY DEF Sorted
      <3>1. PICK p \in 1 .. Len(s) : t[k] = s[p] /\ p = IF k < i THEN k ELSE k + 1
        BY <2>3
      <3>2. PICK q \in 1 .. Len(s) : t[j] = s[q] /\ q = IF j < i THEN j ELSE j + 1
        BY <2>3
      <3>3. p < q
        BY <3>1, <3>2, <1>1
      <3> QED BY <3>1, <3>2, <3>3, <1>1
    <2>7. ASSUME NEW a \in Nat
          PROVE  Covers(t, a) <=> Covers(s, a) /\ ~ In(a, taken)
      <3>1. In(a, taken) <=> In(a, s[i])
        BY <1>3, <1>1 DEF In, EndOf
      <3>2. ASSUME NEW q \in 1 .. Len(s), q # i, In(a, s[q])
            PROVE  ~ In(a, s[i])
        <4>1. EndOf(s[q]) < s[i].address \/ EndOf(s[i]) < s[q].address
          BY <3>2, <1>1
        <4>2. /\ s[q].address \in Nat /\ s[i].address \in Nat
              /\ EndOf(s[q]) \in Nat /\ EndOf(s[i]) \in Nat
          BY <1>1, SMTT(40) DEF EndOf
        <4> QED BY <3>2, <4>1, <4>2 DEF In
      <3>3. Covers(t, a) => \E q \in 1 .. Len(s) : q # i /\ In(a, s[q])
        BY <2>3 DEF Covers
      <3>4. (\E q \in 1 .. Len(s) : q # i /\ In(a, s[q])) => Covers(t, a)
        BY <2>4 DEF Covers
      <3> QED BY <3>1, <3>2, <3>3, <3>4 DEF Covers
    <2> QED BY <2>2, <2>5, <2>6, <2>7 DEF FreeOK, t
  <1>4. CASE s[i].size # bytes
    <2> DEFINE rest == [address |-> s[i].address + bytes, size |-> s[i].size - bytes]
    <2>1. t = [s EXCEPT ![i] = rest]
      BY <1>4, <1>1 DEF TakeFrom
    <2>2. /\ rest \in Block /\ rest.size > 0 /\ rest.address = s[i].address + bytes
          /\ EndOf(rest) = EndOf(s[i])
      BY <1>4, <1>1 DEF Block, EndOf
    <2> HIDE DEF t, rest
    <2>3. /\ t \in Seq(Block) /\ Len(t) = Len(s)
          /\ \A j \in 1 .. Len(s) : t[j] = IF j = i THEN rest ELSE s[j]
      BY <2>1, <2>2, <1>2, ExceptSeq
    <2>4. BlocksInRange(t)
      <3> SUFFICES ASSUME NEW j \in 1 .. Len(s)
                   PROVE  t[j].size > 0 /\ HB <= t[j].address /\ EndOf(t[j]) <= MaxAddress
        BY <2>3 DEF BlocksInRange
      <3>1. CASE j = i
        <4>1. t[j] = rest /\ HB <= s[i].address /\ EndOf(s[i]) <= MaxAddress
          BY <3>1, <2>3, <1>1
        <4>2. HB <= rest.address
          BY <4>1, <2>2, <1>1, HeapAssumption
        <4> QED BY <4>1, <4>2, <2>2
      <3>2. CASE j # i
        BY <3>2, <2>3, <1>1
      <3> QED BY <3>1, <3>2
    <2>5. Sorted(t)
      <3> SUFFICES ASSUME NEW k \in 1 .. Len(s), NEW j \in 1 .. Len(s), k < j
                   PROVE  EndOf(t[k]) < t[j].address
        BY <2>3 DEF Sorted
      <3>1. EndOf(s[k]) < s[j].address
        BY <1>1
      <3>2. EndOf(t[k]) = EndOf(s[k])
        BY <2>2, <2>3
      <3>3. t[j].address = s[j].address \/ t[j].address = s[j].address + bytes
        BY <2>2, <2>3, <1>1
      <3>4. EndOf(s[k]) \in Nat /\ s[j].address \in Nat
        BY <1>1 DEF EndOf
      <3> QED BY <3>1, <3>2, <3>3, <3>4
    <2>6. ASSUME NEW a \in Nat
          PROVE  Covers(t, a) <=> Covers(s, a) /\ ~ In(a, taken)
      <3>1. In(a, rest) <=> In(a, s[i]) /\ ~ In(a, taken)
        BY <2>2, <1>1 DEF In, EndOf
      <3>2. ASSUME NEW q \in 1 .. Len(s), q # i, In(a, s[q])
            PROVE  ~ In(a, taken)
        <4>1. EndOf(s[q]) < s[i].address \/ EndOf(s[i]) < s[q].address
          BY <3>2, <1>1
        <4>2. /\ s[q].address \in Nat /\ s[i].address \in Nat
              /\ EndOf(s[q]) \in Nat /\ EndOf(s[i]) \in Nat
          BY <1>1, SMTT(40) DEF EndOf
        <4>a. s[i].address + bytes <= EndOf(s[i])
          <5>1. s[i].address \in Nat /\ s[i].size \in Nat /\ bytes <= s[i].size
            BY <1>1
          <5> QED BY <5>1 DEF EndOf
        <4>3. In(a, taken) => s[i].address <= a /\ a < s[i].address + bytes
          BY DEF In, EndOf
        <4> QED BY <3>2, <4>1, <4>2, <4>a, <4>3 DEF In
      <3>3. Covers(t, a) <=> In(a, rest) \/ \E q \in 1 .. Len(s) : q # i /\ In(a, s[q])
        BY <2>3 DEF Covers
      <3> QED BY <3>1, <3>2, <3>3 DEF Covers
    <2> QED BY <2>3, <2>4, <2>5, <2>6 DEF FreeOK, t
  <1> QED BY <1>3, <1>4

\* Putting a block back where the search stopped, merged with the entries it
\* touches, keeps the list sorted and adds exactly the block's addresses.
LEMMA InsertKeepsList ==
    ASSUME FreeOK(freeList), NEW node \in Block,
           node.size > 0, HB <= node.address, EndOf(node) <= MaxAddress,
           \A j \in 1 .. Len(freeList) : Disjoint(node, freeList[j]),
           NEW k \in EntriesBelow(node.address)
    PROVE  /\ FreeOK(Inserted(k, node))
           /\ \A a \in Nat : Covers(Inserted(k, node), a) <=>
                                Covers(freeList, a) \/ In(a, node)
  <1> DEFINE s == freeList
             joinsPrevious == k > 0 /\ Adjacent(s[k], node)
             grown == IF joinsPrevious THEN Merged(s[k], node) ELSE node
             joinsNext == k < Len(s) /\ Adjacent(grown, s[k + 1])
             e == IF joinsNext THEN Merged(grown, s[k + 1]) ELSE grown
             l == IF joinsPrevious THEN k - 1 ELSE k
             r == IF joinsNext THEN k + 2 ELSE k + 1
  <1>1. /\ Len(s) \in Nat
        /\ \A j \in 1 .. Len(s) :
             /\ s[j] \in Block
             /\ s[j].address \in Nat /\ s[j].size \in Nat
             /\ s[j].size > 0 /\ HB <= s[j].address /\ EndOf(s[j]) <= MaxAddress
        /\ \A i, j \in 1 .. Len(s) : i < j => EndOf(s[i]) < s[j].address
    BY ListFacts
  <1>2. /\ k \in 0 .. Len(s)
        /\ \A j \in 1 .. k : s[j].address < node.address
        /\ k < Len(s) => s[k + 1].address >= node.address
    BY DEF EntriesBelow
  <1>3. node.address \in Nat /\ node.size \in Nat
    BY DEF Block
  <1>4. Inserted(k, node) = Splice(s, l, e, r)
    BY DEF Inserted
  \* The neighbours end before, or begin after, the returned block.
  <1>5. k > 0 => /\ k \in 1 .. Len(s)
                 /\ EndOf(s[k]) <= node.address
    <2> SUFFICES ASSUME k > 0 PROVE k \in 1 .. Len(s) /\ EndOf(s[k]) <= node.address
      OBVIOUS
    <2>1. k \in 1 .. Len(s) /\ s[k].address < node.address
      BY <1>1, <1>2
    <2>2. Disjoint(node, s[k])
      BY <2>1
    <2> QED BY <2>1, <2>2, <1>1, <1>3 DEF Disjoint, EndOf
  <1>6. k < Len(s) => /\ k + 1 \in 1 .. Len(s)
                      /\ EndOf(node) <= s[k + 1].address
    <2> SUFFICES ASSUME k < Len(s)
                 PROVE  k + 1 \in 1 .. Len(s) /\ EndOf(node) <= s[k + 1].address
      OBVIOUS
    <2>1. k + 1 \in 1 .. Len(s)
      BY <1>1, <1>2
    <2>2. Disjoint(node, s[k + 1]) /\ s[k + 1].address >= node.address
      BY <2>1, <1>2
    <2>3. s[k + 1].address \in Nat /\ s[k + 1].size \in Nat /\ s[k + 1].size > 0
      BY <2>1, <1>1
    <2> QED BY <2>1, <2>2, <2>3, <1>3 DEF Disjoint, EndOf
  <1>7. /\ grown \in Block /\ grown.size > 0 /\ HB <= grown.address
        /\ EndOf(grown) = EndOf(node)
        /\ joinsPrevious => grown.address = s[k].address
        /\ ~ joinsPrevious => grown = node
    <2>1. CASE joinsPrevious
      <3>1. /\ k \in 1 .. Len(s) /\ EndOf(s[k]) = node.address
            /\ s[k].address \in Nat /\ s[k].size \in Nat /\ s[k].size > 0
            /\ HB <= s[k].address
        BY <2>1, <1>1, <1>5 DEF Adjacent
      <3>2. grown = [address |-> s[k].address, size |-> s[k].size + node.size]
        BY <2>1 DEF Merged
      <3>3. /\ grown.address = s[k].address /\ grown.size = s[k].size + node.size
            /\ node.address \in Nat /\ node.size \in Nat
            /\ node.address = s[k].address + s[k].size
        BY <3>1, <3>2, <1>3 DEF Block, EndOf
      <3>4. grown \in Block
        BY <3>1, <3>2, <3>3 DEF Block
      <3> HIDE DEF grown
      <3> QED BY <2>1, <3>1, <3>3, <3>4 DEF EndOf
    <2>2. CASE ~ joinsPrevious
      BY <2>2
    <2> QED BY <2>1, <2>2
  <1>8. /\ e \in Block /\ e.size > 0 /\ e.address = grown.address
        /\ joinsNext => EndOf(e) = EndOf(s[k + 1])
        /\ ~ joinsNext => EndOf(e) = EndOf(node)
        /\ EndOf(node) <= EndOf(e) /\ EndOf(e) <= MaxAddress
    <2> HIDE DEF grown
    <2>1. grown.address \in Nat /\ grown.size \in Nat /\ EndOf(node) \in Nat
      BY <1>3, <1>7 DEF Block, EndOf
    <2>2. CASE joinsNext
      <3>1. /\ k + 1 \in 1 .. Len(s) /\ EndOf(grown) = s[k + 1].address
        BY <2>2, <1>6 DEF Adjacent
      <3>2. /\ s[k + 1].address \in Nat /\ s[k + 1].size \in Nat
            /\ s[k + 1].size > 0 /\ EndOf(s[k + 1]) <= MaxAddress
        BY <3>1, <1>1
      <3>3. e = [address |-> grown.address, size |-> grown.size + s[k + 1].size]
        BY <2>2 DEF Merged
      <3>4. EndOf(e) = EndOf(s[k + 1])
        BY <3>1, <3>2, <3>3, <2>1 DEF EndOf
      <3>5. EndOf(node) <= EndOf(s[k + 1])
        BY <3>1, <3>2, <1>7, <2>1 DEF EndOf
      <3> HIDE DEF e
      <3>6. e \in Block /\ e.size > 0 /\ e.address = grown.address
        BY <3>2, <3>3, <2>1 DEF Block
      <3> QED BY <2>2, <3>2, <3>4, <3>5, <3>6
    <2>3. CASE ~ joinsNext
      BY <2>3, <2>1, <1>7
    <2> QED BY <2>2, <2>3
  <1>9. /\ l \in 0 .. Len(s) /\ r \in 1 .. (Len(s) + 1) /\ l < r
        /\ l = k \/ (joinsPrevious /\ l = k - 1)
        /\ r = k + 1 \/ (joinsNext /\ r = k + 2)
    BY <1>1, <1>2
  <1>a. /\ joinsPrevious <=> k > 0 /\ EndOf(s[k]) = node.address
        /\ joinsNext <=> k < Len(s) /\ EndOf(node) = s[k + 1].address
        /\ l = IF joinsPrevious THEN k - 1 ELSE k
        /\ r = IF joinsNext THEN k + 2 ELSE k + 1
        /\ e.address = IF joinsPrevious THEN s[k].address ELSE node.address
        /\ EndOf(e) = IF joinsNext THEN EndOf(s[k + 1]) ELSE EndOf(node)
    <2>1. EndOf(grown) = EndOf(node)
      BY <1>7
    <2>2. joinsPrevious <=> k > 0 /\ EndOf(s[k]) = node.address
      BY DEF Adjacent
    <2>3. joinsNext <=> k < Len(s) /\ EndOf(node) = s[k + 1].address
      <3> HIDE DEF grown
      <3> QED BY <2>1 DEF Adjacent
    <2>4. e.address = IF joinsPrevious THEN s[k].address ELSE node.address
      <3> HIDE DEF e, grown, joinsPrevious
      <3> QED BY <1>7, <1>8
    <2>5. EndOf(e) = IF joinsNext THEN EndOf(s[k + 1]) ELSE EndOf(node)
      <3> HIDE DEF e, grown, joinsNext
      <3> QED BY <1>8
    <2>6. l = (IF joinsPrevious THEN k - 1 ELSE k) /\ r = IF joinsNext THEN k + 2 ELSE k + 1
      <3> HIDE DEF joinsPrevious, joinsNext
      <3> QED OBVIOUS
    <2> HIDE DEF e, grown, joinsPrevious, joinsNext, l, r
    <2> QED BY <2>2, <2>3, <2>4, <2>5, <2>6
  <1>b. \A j \in (l + 1) .. (r - 1) :
          /\ j \in 1 .. Len(s)
          /\ (joinsPrevious /\ j = k) \/ (joinsNext /\ j = k + 1)
    BY <1>1, <1>2, <1>9
  <1> HIDE DEF e, grown, joinsPrevious, joinsNext, l, r
  <1>10. l > 0 => EndOf(s[l]) < e.address
    <2> SUFFICES ASSUME l > 0 PROVE EndOf(s[l]) < e.address
      OBVIOUS
    <2>1. CASE joinsPrevious
      <3>1. l = k - 1 /\ l \in 1 .. Len(s) /\ k \in 1 .. Len(s) /\ l < k
        BY <2>1, <1>1, <1>2, <1>a
      <3>2. EndOf(s[l]) < s[k].address
        BY <3>1, <1>1
      <3> QED BY <3>2, <2>1, <1>a
    <2>2. CASE ~ joinsPrevious
      <3>1. l = k /\ k > 0 /\ k \in 1 .. Len(s)
        BY <2>2, <1>5, <1>a
      <3>2. EndOf(s[k]) # node.address /\ EndOf(s[k]) <= node.address
        BY <2>2, <3>1, <1>5, <1>a
      <3>3. EndOf(s[k]) < node.address
        <4>1. EndOf(s[k]) \in Nat
          BY <3>1, <1>1 DEF EndOf
        <4> QED BY <4>1, <3>2, <1>3
      <3> QED BY <3>1, <3>3, <2>2, <1>a
    <2> QED BY <2>1, <2>2
  <1>11. r <= Len(s) => EndOf(e) < s[r].address
    <2> SUFFICES ASSUME r <= Len(s) PROVE EndOf(e) < s[r].address
      OBVIOUS
    <2>1. CASE joinsNext
      <3>1. r = k + 2 /\ k + 1 \in 1 .. Len(s) /\ r \in 1 .. Len(s) /\ k + 1 < r
        BY <2>1, <1>1, <1>2, <1>a
      <3>2. EndOf(s[k + 1]) < s[r].address
        BY <3>1, <1>1
      <3> QED BY <3>2, <2>1, <1>a
    <2>2. CASE ~ joinsNext
      <3>1. r = k + 1 /\ k < Len(s) /\ k + 1 \in 1 .. Len(s)
        BY <2>2, <1>1, <1>2, <1>a
      <3>2. EndOf(node) # s[k + 1].address /\ EndOf(node) <= s[k + 1].address
        BY <2>2, <3>1, <1>6, <1>a
      <3>3. EndOf(node) < s[k + 1].address
        <4>1. EndOf(node) \in Nat /\ s[k + 1].address \in Nat
          BY <3>1, <1>1, <1>3 DEF EndOf
        <4> QED BY <4>1, <3>2
      <3>4. EndOf(e) = EndOf(node)
        BY <2>2, <1>a
      <3> QED BY <3>1, <3>3, <3>4
    <2> QED BY <2>1, <2>2
  <1>12. ASSUME NEW a \in Nat
         PROVE  In(a, e) <=> (\/ In(a, node)
                              \/ joinsPrevious /\ In(a, s[k])
                              \/ joinsNext /\ In(a, s[k + 1]))
    <2>1. joinsPrevious => /\ EndOf(s[k]) = node.address /\ e.address = s[k].address
                           /\ s[k].address \in Nat /\ s[k].address <= EndOf(s[k])
      <3> SUFFICES ASSUME joinsPrevious
                   PROVE  /\ EndOf(s[k]) = node.address /\ e.address = s[k].address
                          /\ s[k].address \in Nat /\ s[k].address <= EndOf(s[k])
        OBVIOUS
      <3>1. s[k].address \in Nat /\ s[k].size \in Nat
        BY <1>1, <1>5, <1>a
      <3> QED BY <3>1, <1>a DEF EndOf
    <2>2. joinsNext => /\ EndOf(node) = s[k + 1].address /\ EndOf(e) = EndOf(s[k + 1])
                       /\ s[k + 1].address \in Nat /\ EndOf(s[k + 1]) \in Nat
                       /\ s[k + 1].address <= EndOf(s[k + 1])
      <3> SUFFICES ASSUME joinsNext
                   PROVE  /\ EndOf(node) = s[k + 1].address /\ EndOf(e) = EndOf(s[k + 1])
                          /\ s[k + 1].address \in Nat /\ EndOf(s[k + 1]) \in Nat
                          /\ s[k + 1].address <= EndOf(s[k + 1])
        OBVIOUS
      <3>1. s[k + 1].address \in Nat /\ s[k + 1].size \in Nat
        BY <1>1, <1>6, <1>a
      <3>2. s[k + 1].address <= EndOf(s[k + 1]) /\ EndOf(s[k + 1]) \in Nat
        BY <3>1 DEF EndOf
      <3> QED BY <3>1, <3>2, <1>a
    <2>3. /\ ~ joinsPrevious => e.address = node.address
          /\ ~ joinsNext => EndOf(e) = EndOf(node)
      BY <1>a
    <2>4. EndOf(node) \in Nat /\ node.address <= EndOf(node)
      BY <1>3 DEF EndOf
    <2> QED BY <2>1, <2>2, <2>3, <2>4, <1>3 DEF In
  <1>14. \A j \in (l + 1) .. (r - 1) :
           e.address <= s[j].address /\ EndOf(s[j]) <= EndOf(e)
    <2> SUFFICES ASSUME NEW j \in (l + 1) .. (r - 1)
                 PROVE  e.address <= s[j].address /\ EndOf(s[j]) <= EndOf(e)
      OBVIOUS
    <2>1. j \in 1 .. Len(s)
      BY <1>b
    <2>2. s[j].address \in Nat /\ s[j].size \in Nat /\ s[j].size > 0
      BY <2>1, <1>1
    <2>3. In(s[j].address, e) /\ In(EndOf(s[j]) - 1, e)
      <3>1. /\ s[j].address \in Nat /\ EndOf(s[j]) - 1 \in Nat
            /\ In(s[j].address, s[j]) /\ In(EndOf(s[j]) - 1, s[j])
        BY <2>2 DEF In, EndOf
      <3>2. \A a \in Nat : In(a, s[j]) => In(a, e)
        BY <1>12, <1>b
      <3> QED BY <3>1, <3>2, Zenon
    <2>4. EndOf(e) \in Nat
      BY <1>8 DEF EndOf, Block
    <2> QED BY <2>2, <2>3, <2>4 DEF In, EndOf
  <1>15. /\ FreeOK(Splice(s, l, e, r))
         /\ \A a \in Nat : Covers(Splice(s, l, e, r), a) <=> Covers(s, a) \/ In(a, e)
    <2>1. HB <= e.address
      BY <1>7, <1>8
    <2> QED BY <2>1, <1>8, <1>9, <1>10, <1>11, <1>14, SpliceKeepsList
  <1>16. ASSUME NEW a \in Nat
         PROVE  Covers(s, a) \/ In(a, e) <=> Covers(s, a) \/ In(a, node)
    <2>1. joinsPrevious /\ In(a, s[k]) => Covers(s, a)
      BY <1>5, <1>a DEF Covers
    <2>2. joinsNext /\ In(a, s[k + 1]) => Covers(s, a)
      BY <1>6, <1>a DEF Covers
    <2>3. In(a, e) <=> (\/ In(a, node)
                        \/ joinsPrevious /\ In(a, s[k])
                        \/ joinsNext /\ In(a, s[k + 1]))
      BY <1>12
    <2> QED BY <2>1, <2>2, <2>3, Zenon
  <1> QED BY <1>4, <1>15, <1>16
-----------------------------------------------------------------------------
(***************************************************************************)
(* The inductive invariant.  The list-structure invariants are not         *)
(* inductive alone: that a freed block fits between its neighbours needs   *)
(* NothingShared, that its size is right needs HeadersIntact, and that     *)
(* needs every block to be longer than its header.                         *)
(***************************************************************************)

LiveInHeap ==
    \A b \in live : b.size > HeaderSize /\ HB <= b.address /\ EndOf(b) <= HP

LiveNotFree == \A b \in live : \A a \in Nat : In(a, b) => ~ Covers(freeList, a)

LiveApart == \A b, c \in live : b = c \/ Disjoint(b, c)

Whole ==
    \A a \in HB .. (MaxAddress - 1) :
        (\E b \in live : In(a, b)) \/ Covers(freeList, a)

IInv ==
    /\ TypeOK
    /\ FreeOK(freeList)
    /\ LiveInHeap
    /\ LiveNotFree
    /\ LiveApart
    /\ Whole
    /\ HeadersIntact
    /\ HP < SP

\* Two blocks with no address in common are disjoint as intervals.
LEMMA DisjointBlocks ==
    ASSUME NEW b \in Block, NEW c \in Block, b.size > 0, c.size > 0,
           \A a \in Nat : In(a, b) => ~ In(a, c)
    PROVE  Disjoint(b, c)
  <1>1. /\ b.address \in Nat /\ b.size \in Nat /\ c.address \in Nat /\ c.size \in Nat
    BY DEF Block
  <1>2. SUFFICES ASSUME EndOf(b) > c.address, EndOf(c) > b.address
                 PROVE  FALSE
    BY <1>1 DEF Disjoint, EndOf
  <1>3. CASE b.address <= c.address
    <2>1. In(c.address, b) /\ In(c.address, c)
      BY <1>1, <1>2, <1>3 DEF In, EndOf
    <2> QED BY <2>1, <1>1
  <1>4. CASE c.address <= b.address
    <2>1. In(b.address, b) /\ In(b.address, c)
      BY <1>1, <1>2, <1>4 DEF In, EndOf
    <2> QED BY <2>1, <1>1
  <1> QED BY <1>1, <1>3, <1>4

LEMMA LiveFacts ==
    ASSUME IInv, NEW b \in live
    PROVE  /\ b \in Block
           /\ b.address \in Nat /\ b.size \in Nat
           /\ b = [address |-> b.address, size |-> b.size]
           /\ b.size > HeaderSize /\ b.size > 0
           /\ HB <= b.address /\ EndOf(b) <= HP /\ EndOf(b) \in Nat
           /\ b.address < EndOf(b) /\ EndOf(b) <= MaxAddress
           /\ In(b.address, b) /\ b.address \in Addresses
  <1>1. b \in Block
    BY DEF IInv, TypeOK
  <1>2. b.address \in Nat /\ b.size \in Nat /\ b = [address |-> b.address, size |-> b.size]
    BY <1>1 DEF Block
  <1>3. /\ b.size > HeaderSize /\ HB <= b.address /\ EndOf(b) <= HP
        /\ HP \in HB .. MaxAddress
    BY DEF IInv, LiveInHeap, TypeOK, Addresses
  <1> QED BY <1>1, <1>2, <1>3, HeapAssumption DEF EndOf, In, Addresses

LEMMA InitIInv == Init => IInv
  <1> SUFFICES ASSUME Init PROVE IInv
    OBVIOUS
  <1> DEFINE whole == [address |-> HB, size |-> MaxAddress - HB]
  <1>1. /\ whole \in Block /\ whole.size > 0 /\ whole.address = HB
        /\ EndOf(whole) = MaxAddress
    BY HeapAssumption DEF Block, EndOf
  <1>2. freeList = <<whole>>
    BY DEF Init
  <1> HIDE DEF whole
  <1>3. freeList \in Seq(Block) /\ Len(freeList) = 1 /\ freeList[1] = whole
    BY <1>1, <1>2
  <1>4. FreeOK(freeList)
    BY <1>1, <1>3, HeapAssumption DEF FreeOK, BlocksInRange, Sorted
  <1>5. Whole
    BY <1>1, <1>3, HeapAssumption DEF Whole, Covers, In
  <1>6. TypeOK
    BY <1>3, HeapAssumption DEF Init, TypeOK, Addresses
  <1> QED BY <1>4, <1>5, <1>6, HeapAssumption
          DEF Init, IInv, LiveInHeap, LiveNotFree, LiveApart, HeadersIntact

\* What a successful search gives: a piece of a free block, below the stack.
LEMMA PlacementFacts ==
    ASSUME IInv, NEW bytes \in Nat, NEW i \in FirstFit(bytes), CanPlace(i, bytes)
    PROVE  /\ i \in 1 .. Len(freeList)
           /\ bytes <= freeList[i].size
           /\ freeList[i].address \in Nat
           /\ HB <= freeList[i].address
           /\ freeList[i].address + bytes < SP
           /\ freeList[i].address \in Addresses
           /\ freeList[i].address + bytes \in Addresses
           /\ \A a \in Nat : In(a, [address |-> freeList[i].address, size |-> bytes])
                            => Covers(freeList, a)
           /\ RaisedHP(freeList[i].address + bytes) \in Addresses
           /\ RaisedHP(freeList[i].address + bytes) < SP
           /\ HP <= RaisedHP(freeList[i].address + bytes)
           /\ freeList[i].address + bytes <= RaisedHP(freeList[i].address + bytes)
  <1> DEFINE f == freeList[i]
  <1>1. FreeOK(freeList) /\ HP < SP /\ HP \in HB .. MaxAddress /\ SP \in HB .. MaxAddress
    BY DEF IInv, TypeOK, Addresses
  <1>2. i \in 1 .. Len(freeList) /\ bytes <= f.size
    BY <1>1, ListFacts DEF FirstFit
  <1>3. /\ f.address \in Nat /\ f.size \in Nat /\ HB <= f.address
        /\ f.address + f.size <= MaxAddress
    BY <1>1, <1>2, ListFacts DEF EndOf
  <1>4. f.address + bytes < SP
    BY DEF CanPlace
  <1>5. ASSUME NEW a \in Nat, In(a, [address |-> f.address, size |-> bytes])
        PROVE  Covers(freeList, a)
    <2>1. In(a, f)
      BY <1>5, <1>2, <1>3 DEF In, EndOf
    <2> QED BY <2>1, <1>2 DEF Covers
  <1> HIDE DEF f
  <1>6. /\ f.address \in Addresses /\ f.address + bytes \in Addresses
    BY <1>2, <1>3, HeapAssumption DEF Addresses
  <1>7. /\ RaisedHP(f.address + bytes) \in Addresses
        /\ RaisedHP(f.address + bytes) < SP
        /\ HP <= RaisedHP(f.address + bytes)
        /\ f.address + bytes <= RaisedHP(f.address + bytes)
    BY <1>1, <1>4, <1>6, HeapAssumption DEF RaisedHP, Addresses
  <1> QED BY <1>2, <1>3, <1>4, <1>5, <1>6, <1>7 DEF f

LEMMA AllocIInv ==
    ASSUME IInv, NEW size \in Sizes, Alloc(size)
    PROVE  IInv'
  <1> DEFINE bytes == BytesToAllocate(size)
  <1>1. /\ bytes \in Nat /\ bytes > HeaderSize /\ 0 < bytes /\ HeaderSize > 0
    BY HeapAssumption DEF BytesToAllocate, Alloc
  <1> HIDE DEF bytes
  <1>2. PICK i \in FirstFit(bytes) :
          LET block == [address |-> freeList[i].address, size |-> bytes]
          IN  /\ CanPlace(i, bytes)
              /\ HP' = RaisedHP(freeList[i].address + bytes)
              /\ mem' = [a \in Addresses |->
                           CASE a = freeList[i].address -> bytes
                             [] a \in Zeroed(block) -> 0
                             [] OTHER -> mem[a]]
              /\ freeList' = TakeFrom(i, bytes)
              /\ live' = live \cup {block}
    BY DEF Alloc, bytes
  <1> DEFINE start == freeList[i].address
             block == [address |-> start, size |-> bytes]
  <1>3. /\ i \in 1 .. Len(freeList) /\ bytes <= freeList[i].size
        /\ start \in Nat /\ HB <= start /\ start \in Addresses
        /\ \A a \in Nat : In(a, block) => Covers(freeList, a)
        /\ HP' \in Addresses /\ HP' < SP /\ HP <= HP' /\ start + bytes <= HP'
    BY <1>1, <1>2, PlacementFacts
  <1>4. UNCHANGED <<SP, status>>
    BY DEF Alloc
  <1>5. /\ FreeOK(freeList')
        /\ \A a \in Nat : Covers(freeList', a) <=> Covers(freeList, a) /\ ~ In(a, block)
    BY <1>1, <1>2, <1>3, TakeKeepsList DEF IInv
  <1>6. /\ live' = live \cup {block}
        /\ mem' = [a \in Addresses |-> CASE a = start -> bytes
                                         [] a \in Zeroed(block) -> 0
                                         [] OTHER -> mem[a]]
    BY <1>2
  <1>7. /\ block \in Block /\ block.address = start /\ block.size = bytes
        /\ EndOf(block) = start + bytes
    BY <1>1, <1>3 DEF Block, EndOf
  <1> HIDE DEF block, start
  <1>8. \A b \in live : Disjoint(b, block) /\ Disjoint(block, b)
    <2> SUFFICES ASSUME NEW b \in live PROVE Disjoint(b, block) /\ Disjoint(block, b)
      OBVIOUS
    <2>1. \A a \in Nat : In(a, b) => ~ In(a, block)
      BY <1>3 DEF IInv, LiveNotFree
    <2>2. b \in Block /\ b.size > 0
      BY LiveFacts
    <2>3. Disjoint(b, block)
      BY <2>1, <2>2, <1>1, <1>7, DisjointBlocks
    <2> QED BY <2>3 DEF Disjoint
  <1>9. TypeOK'
    <2>1. freeList' \in Seq(Block)
      BY <1>5 DEF FreeOK
    <2>2. mem' \in [Addresses -> Nat]
      BY <1>1, <1>6 DEF IInv, TypeOK
    <2> QED BY <2>1, <2>2, <1>3, <1>4, <1>6, <1>7 DEF IInv, TypeOK
  <1>10. LiveInHeap'
    <2> SUFFICES ASSUME NEW b \in live'
                 PROVE  b.size > HeaderSize /\ HB <= b.address /\ EndOf(b) <= HP'
      BY DEF LiveInHeap
    <2>1. CASE b \in live
      <3>1. b.size > HeaderSize /\ HB <= b.address /\ EndOf(b) <= HP /\ EndOf(b) \in Nat
        BY <2>1, LiveFacts
      <3>2. HP \in Nat /\ HP' \in Nat
        BY <1>3, HeapAssumption DEF IInv, TypeOK, Addresses
      <3> QED BY <3>1, <3>2, <1>3
    <2>2. CASE b = block
      BY <2>2, <1>1, <1>3, <1>7
    <2> QED BY <2>1, <2>2, <1>6
  <1>11. LiveNotFree'
    BY <1>5, <1>6 DEF IInv, LiveNotFree
  <1>12. LiveApart'
    BY <1>6, <1>8 DEF IInv, LiveApart
  <1>13. Whole'
    <2> SUFFICES ASSUME NEW a \in HB .. (MaxAddress - 1)
                 PROVE  (\E b \in live' : In(a, b)) \/ Covers(freeList', a)
      BY DEF Whole
    <2>1. a \in Nat
      BY HeapAssumption
    <2>2. (\E b \in live : In(a, b)) \/ Covers(freeList, a)
      BY DEF IInv, Whole
    <2> QED BY <2>1, <2>2, <1>5, <1>6
  <1>14. HeadersIntact'
    <2> SUFFICES ASSUME status = "running", NEW b \in live'
                 PROVE  mem'[b.address] = b.size
      BY <1>4 DEF HeadersIntact
    <2>1. CASE b \in live
      <3>1. /\ b.address \in Addresses /\ b.address \in Nat /\ In(b.address, b)
            /\ mem[b.address] = b.size
        BY <2>1, LiveFacts DEF IInv, HeadersIntact
      <3>2. ~ In(b.address, block)
        BY <2>1, <3>1, <1>3 DEF IInv, LiveNotFree
      <3>3. b.address # start /\ b.address \notin Payload(block)
        BY <3>1, <3>2, <1>1, <1>3, <1>7, HeapAssumption DEF In, Payload
      <3> QED BY <3>1, <3>3, <1>6 DEF Zeroed
    <2>2. CASE b = block
      <3>1. b.address = start /\ b.size = bytes
        BY <2>2, <1>7
      <3>2. start \notin Payload(block)
        BY <1>1, <1>3, <1>7, HeapAssumption DEF Payload
      <3>3. mem'[start] = bytes
        BY <3>2, <1>3, <1>6 DEF Zeroed
      <3> QED BY <3>1, <3>3
    <2> QED BY <2>1, <2>2, <1>6
  <1>15. (HP < SP)'
    BY <1>3, <1>4
  <1> QED BY <1>5, <1>9, <1>10, <1>11, <1>12, <1>13, <1>14, <1>15 DEF IInv

LEMMA AllocWrappedIInv ==
    ASSUME IInv, NEW size \in Sizes, AllocWrapped(size)
    PROVE  IInv'
  <1> DEFINE bytes == BytesToAllocate(size)
  <1>1. bytes \in Nat
    BY HeapAssumption DEF BytesToAllocate
  <1> HIDE DEF bytes
  <1>2. PICK i \in FirstFit(bytes) :
          /\ CanPlace(i, bytes)
          /\ HP' = RaisedHP(freeList[i].address + bytes)
          /\ mem' = [a \in Addresses |->
                       CASE a = freeList[i].address -> bytes
                         [] a \in (freeList[i].address + HeaderSize) .. HP' -> 0
                         [] OTHER -> mem[a]]
    BY DEF AllocWrapped, bytes
  <1>3. /\ HP' \in Addresses /\ HP' < SP /\ HP <= HP'
    BY <1>1, <1>2, PlacementFacts
  <1>4. UNCHANGED <<freeList, SP, live>> /\ status' = "INTERNAL"
    BY DEF AllocWrapped
  <1>5. mem' \in [Addresses -> Nat]
    BY <1>1, <1>2 DEF IInv, TypeOK
  <1>6. TypeOK'
    BY <1>3, <1>4, <1>5 DEF IInv, TypeOK
  <1>7. LiveInHeap'
    <2> SUFFICES ASSUME NEW b \in live
                 PROVE  b.size > HeaderSize /\ HB <= b.address /\ EndOf(b) <= HP'
      BY <1>4 DEF LiveInHeap
    <2>1. b.size > HeaderSize /\ HB <= b.address /\ EndOf(b) <= HP /\ EndOf(b) \in Nat
      BY LiveFacts
    <2>2. HP \in Nat /\ HP' \in Nat
      BY <1>3, HeapAssumption DEF IInv, TypeOK, Addresses
    <2> QED BY <2>1, <2>2, <1>3
  <1>8. HeadersIntact'
    BY <1>4 DEF HeadersIntact
  <1> QED BY <1>3, <1>4, <1>6, <1>7, <1>8 DEF IInv, LiveNotFree, LiveApart, Whole

LEMMA DeallocIInv ==
    ASSUME IInv, NEW b \in live, Dealloc(b)
    PROVE  IInv'
  <1>1. /\ b \in Block /\ b.size > 0 /\ HB <= b.address /\ EndOf(b) <= MaxAddress
        /\ b = [address |-> b.address, size |-> b.size]
    BY LiveFacts
  <1>2. /\ status = "running" /\ live' = live \ {b}
        /\ UNCHANGED <<HP, mem, SP, status>>
    BY DEF Dealloc
  \* The header read back from memory describes exactly the freed block.
  <1>3. [address |-> b.address, size |-> mem[b.address]] = b
    BY <1>1, <1>2 DEF IInv, HeadersIntact
  <1>4. PICK k \in EntriesBelow(b.address) : freeList' = Inserted(k, b)
    BY <1>3 DEF Dealloc
  <1>5. \A j \in 1 .. Len(freeList) : Disjoint(b, freeList[j])
    <2> SUFFICES ASSUME NEW j \in 1 .. Len(freeList) PROVE Disjoint(b, freeList[j])
      OBVIOUS
    <2>1. freeList[j] \in Block /\ freeList[j].size > 0
      BY ListFacts DEF IInv
    <2>2. \A a \in Nat : In(a, b) => ~ In(a, freeList[j])
      BY DEF IInv, LiveNotFree, Covers
    <2> QED BY <2>1, <2>2, <1>1, DisjointBlocks
  <1>6. /\ FreeOK(freeList')
        /\ \A a \in Nat : Covers(freeList', a) <=> Covers(freeList, a) \/ In(a, b)
    BY <1>1, <1>4, <1>5, InsertKeepsList DEF IInv
  <1>7. TypeOK'
    BY <1>2, <1>6 DEF IInv, TypeOK, FreeOK
  <1>8. LiveInHeap' /\ LiveApart'
    BY <1>2 DEF IInv, LiveInHeap, LiveApart
  <1>9. LiveNotFree'
    <2> SUFFICES ASSUME NEW c \in live, c # b, NEW a \in Nat, In(a, c)
                 PROVE  ~ Covers(freeList', a)
      BY <1>2 DEF LiveNotFree
    <2>1. ~ Covers(freeList, a)
      BY DEF IInv, LiveNotFree
    <2>2. Disjoint(b, c)
      BY DEF IInv, LiveApart
    <2>3. EndOf(b) \in Nat /\ EndOf(c) \in Nat /\ b.address \in Nat /\ c.address \in Nat
      BY LiveFacts
    <2>4. ~ In(a, b)
      BY <2>2, <2>3 DEF Disjoint, In
    <2> QED BY <2>1, <2>4, <1>6
  <1>10. Whole'
    <2> SUFFICES ASSUME NEW a \in HB .. (MaxAddress - 1)
                 PROVE  (\E c \in live' : In(a, c)) \/ Covers(freeList', a)
      BY DEF Whole
    <2>1. a \in Nat
      BY HeapAssumption
    <2>2. (\E c \in live : In(a, c)) \/ Covers(freeList, a)
      BY DEF IInv, Whole
    <2> QED BY <2>1, <2>2, <1>2, <1>6
  <1>11. HeadersIntact'
    BY <1>2 DEF IInv, HeadersIntact
  <1> QED BY <1>2, <1>6, <1>7, <1>8, <1>9, <1>10, <1>11 DEF IInv

LEMMA StoreIInv ==
    ASSUME IInv, NEW b \in live, NEW v \in Values, NEW a \in Payload(b), Store(b, a, v)
    PROVE  IInv'
  <1>1. /\ mem' = [mem EXCEPT ![a] = v]
        /\ UNCHANGED <<freeList, HP, SP, live, status>>
    BY DEF Store
  <1>2. TypeOK'
    BY <1>1, HeapAssumption DEF IInv, TypeOK
  <1>3. HeadersIntact'
    <2> SUFFICES ASSUME status = "running", NEW c \in live
                 PROVE  mem'[c.address] = c.size
      BY <1>1 DEF HeadersIntact
    <2>1. mem[c.address] = c.size /\ c.address \in Addresses
      BY LiveFacts DEF IInv, HeadersIntact
    <2>2. c.address # a
      <3>1. /\ b.address \in Nat /\ EndOf(b) \in Nat /\ c.address \in Nat
            /\ EndOf(c) \in Nat /\ c.address < EndOf(c)
        BY LiveFacts
      <3>2. b.address < a /\ a < EndOf(b) /\ a \in Int
        BY <3>1, HeapAssumption DEF Payload
      <3>3. b = c \/ Disjoint(b, c)
        BY DEF IInv, LiveApart
      <3> QED BY <3>1, <3>2, <3>3 DEF Disjoint
    <2> QED BY <2>1, <2>2, <1>1 DEF IInv, TypeOK
  <1> QED BY <1>1, <1>2, <1>3 DEF IInv, LiveInHeap, LiveNotFree, LiveApart, Whole

LEMMA NextIInv == IInv /\ [Next]_vars => IInv'
  <1> SUFFICES ASSUME IInv, [Next]_vars PROVE IInv'
    OBVIOUS
  <1>1. ASSUME NEW size \in Sizes, Alloc(size) PROVE IInv'
    BY <1>1, AllocIInv
  <1>2. ASSUME NEW size \in Sizes, AllocOutOfMemory(size) PROVE IInv'
    BY <1>2 DEF AllocOutOfMemory, IInv, TypeOK, LiveInHeap,
                LiveNotFree, LiveApart, Whole, HeadersIntact
  <1>3. ASSUME NEW size \in Sizes, AllocWrapped(size) PROVE IInv'
    BY <1>3, AllocWrappedIInv
  <1>4. ASSUME AllocZero PROVE IInv'
    BY <1>4 DEF AllocZero, IInv, TypeOK, LiveInHeap,
                LiveNotFree, LiveApart, Whole, HeadersIntact
  <1>5. ASSUME NEW b \in live, Dealloc(b) PROVE IInv'
    BY <1>5, DeallocIInv
  <1>6. ASSUME NEW b \in live, NEW v \in Values, NEW a \in Payload(b), Store(b, a, v)
        PROVE  IInv'
    BY <1>6, StoreIInv
  <1>7. ASSUME NEW sp \in StackTops, MoveSP(sp) PROVE IInv'
    BY <1>7, HeapAssumption DEF MoveSP, IInv, TypeOK, LiveInHeap, Addresses,
                LiveNotFree, LiveApart, Whole, HeadersIntact
  <1>8. ASSUME UNCHANGED vars PROVE IInv'
    BY <1>8 DEF vars, IInv, TypeOK, LiveInHeap,
                LiveNotFree, LiveApart, Whole, HeadersIntact
  <1> QED BY <1>1, <1>2, <1>3, <1>4, <1>5, <1>6, <1>7, <1>8 DEF Next

\* The inductive invariant holds throughout every run of the heap.
THEOREM Invariance == Spec => []IInv
  BY InitIInv, NextIInv, PTL DEF Spec

\* Every variable keeps its type; in particular the free list's blocks and
\* HP never leave the address range.
THEOREM TypeCorrect == Spec => []TypeOK
  <1>1. IInv => TypeOK
    BY DEF IInv
  <1> QED BY <1>1, Invariance, PTL

\* HeapManager keeps its free list sorted by address and fully coalesced.
THEOREM ListStaysSorted == Spec => []FreeListSorted
  <1>1. ASSUME IInv PROVE FreeListSorted
    BY <1>1, ListFacts DEF IInv, FreeListSorted
  <1> QED BY <1>1, Invariance, PTL

\* allocateBlock and deallocateBlock never hand out an address twice, nor
\* list as free one that is held.
THEOREM BlocksStayApart == Spec => []NothingShared
  <1>1. ASSUME IInv PROVE NothingShared
    <2>1. ASSUME NEW b \in live, NEW i \in DOMAIN freeList
          PROVE  Disjoint(b, freeList[i])
      <3>1. /\ FreeOK(freeList) /\ i \in 1 .. Len(freeList)
            /\ freeList[i] \in Block /\ freeList[i].size > 0
        BY <1>1, ListFacts DEF IInv
      <3>2. b \in Block /\ b.size > 0
        BY <1>1, LiveFacts
      <3>3. \A a \in Nat : In(a, b) => ~ In(a, freeList[i])
        BY <1>1, <3>1 DEF IInv, LiveNotFree, Covers
      <3> QED BY <3>1, <3>2, <3>3, DisjointBlocks
    <2> QED BY <2>1, <1>1 DEF IInv, LiveApart, NothingShared
  <1> QED BY <1>1, Invariance, PTL

\* No address of the heap's range ever drops out of both the free list and
\* the program's blocks.
THEOREM NothingLeaks == Spec => []NothingLost
  <1>1. ASSUME IInv PROVE NothingLost
    BY <1>1, ListFacts DEF IInv, Whole, NothingLost, Covers, In
  <1> QED BY <1>1, Invariance, PTL

\* The size word `free` reads is the size `alloc` wrote, whatever the
\* program stored in its blocks meanwhile.
THEOREM HeadersSurvive == Spec => []HeadersIntact
  <1>1. IInv => HeadersIntact
    BY DEF IInv
  <1> QED BY <1>1, Invariance, PTL

\* The heap region stays below the call stack and contains every block.
THEOREM HeapStaysBelowStack == Spec => []HeapBelowStack
  <1>1. IInv => HeapBelowStack
    BY DEF IInv, LiveInHeap, HeapBelowStack
  <1> QED BY <1>1, Invariance, PTL

\* A set of natural numbers has a least element.
LEMMA LeastNatural ==
    ASSUME NEW T, T \subseteq Nat, T # {}
    PROVE  \E x \in T : \A y \in T : x <= y
  <1> DEFINE R == OpToRel(<, Nat)
  <1>1. IsWellFoundedOn(R, Nat)
    BY NatLessThanWellFounded
  <1>2. \A x, y \in Nat : y < x => <<y, x>> \in R
    BY DEF OpToRel
  <1> HIDE DEF R
  <1>3. PICK x \in T : \A y \in T : ~ (<<y, x>> \in R)
    BY <1>1, WFMin
  <1>4. \A y \in T : ~ (y < x)
    BY <1>2, <1>3
  <1> QED BY <1>3, <1>4

\* What the entries of the list are.
LEMMA EntryFacts ==
    ASSUME IInv
    PROVE  /\ \A j \in 1 .. Len(freeList) :
                /\ freeList[j].address \in Nat /\ freeList[j].size \in Nat
                /\ freeList[j].address <= EndOf(freeList[j])
                /\ EndOf(freeList[j]) \in Nat
           /\ \A i, j \in 1 .. Len(freeList) :
                i < j => EndOf(freeList[i]) < freeList[j].address
  <1>1. FreeOK(freeList)
    BY DEF IInv
  <1>2. /\ \A j \in 1 .. Len(freeList) :
             freeList[j].address \in Nat /\ freeList[j].size \in Nat
        /\ \A i, j \in 1 .. Len(freeList) :
             i < j => EndOf(freeList[i]) < freeList[j].address
    BY <1>1, ListFacts
  <1>3. ASSUME NEW j \in 1 .. Len(freeList)
        PROVE  /\ freeList[j].address <= EndOf(freeList[j])
               /\ EndOf(freeList[j]) \in Nat
    <2>1. freeList[j].address \in Nat /\ freeList[j].size \in Nat
      BY <1>2
    <2> QED BY <2>1 DEF EndOf
  <1> QED BY <1>2, <1>3

\* If some entry is large enough, first fit finds one, no later in the list.
LEMMA FirstFitExists ==
    ASSUME IInv, NEW bytes \in Nat,
           NEW k \in 1 .. Len(freeList), bytes <= freeList[k].size
    PROVE  \E i \in FirstFit(bytes) : i \in 1 .. Len(freeList) /\ i <= k
  <1> DEFINE T == {j \in 1 .. Len(freeList) : bytes <= freeList[j].size}
  <1>1. /\ Len(freeList) \in Nat /\ DOMAIN freeList = 1 .. Len(freeList)
        /\ \A j \in 1 .. Len(freeList) : freeList[j].size \in Nat
    BY ListFacts DEF IInv
  <1>2. PICK i \in T : \A j \in T : i <= j
    <2>1. T \subseteq Nat /\ T # {}
      BY <1>1
    <2> QED BY <2>1, LeastNatural
  <1>3. i \in 1 .. Len(freeList) /\ bytes <= freeList[i].size /\ i <= k
    BY <1>2
  <1>4. ASSUME NEW j \in 1 .. (i - 1)
        PROVE  bytes > freeList[j].size
    <2>1. j \in 1 .. Len(freeList) /\ ~ (i <= j)
      BY <1>1, <1>3
    <2>2. ~ (bytes <= freeList[j].size)
      BY <2>1, <1>2
    <2> QED BY <2>1, <2>2, <1>1
  <1>5. i \in FirstFit(bytes)
    BY <1>1, <1>3, <1>4 DEF FirstFit
  <1> QED BY <1>3, <1>5

\* Consecutive addresses that no block holds lie in one entry of the list:
\* they are all free, and no two entries touch.
LEMMA HoleInOneEntry ==
    ASSUME IInv, NEW a \in Nat, NEW n \in Nat, n > 0,
           HB <= a, a + n <= MaxAddress,
           \A x \in a .. (a + n - 1) : \A b \in live : ~ In(x, b)
    PROVE  \E k \in 1 .. Len(freeList) :
              freeList[k].address <= a /\ a + n <= EndOf(freeList[k])
  <1>1. ASSUME NEW x \in a .. (a + n - 1)
        PROVE  \E k \in 1 .. Len(freeList) : In(x, freeList[k])
    <2>1. x \in HB .. (MaxAddress - 1)
      BY HeapAssumption
    <2> QED BY <2>1 DEF IInv, Whole, Covers
  <1>2. a \in a .. (a + n - 1)
    OBVIOUS
  <1>3. PICK k \in 1 .. Len(freeList) : In(a, freeList[k])
    BY <1>1, <1>2
  <1>4. SUFFICES ASSUME EndOf(freeList[k]) < a + n PROVE FALSE
    <2>1. EndOf(freeList[k]) \in Nat
      BY EntryFacts
    <2>2. freeList[k].address <= a
      BY <1>3 DEF In
    <2>3. a + n <= EndOf(freeList[k])
      BY <2>1, <1>4
    <2> QED BY <2>2, <2>3
  <1> DEFINE x == EndOf(freeList[k])
  <1>5. x \in Nat /\ a < x /\ freeList[k].address <= a /\ freeList[k].address \in Nat
    BY <1>3, EntryFacts DEF In
  <1>6. x \in a .. (a + n - 1)
    BY <1>4, <1>5
  <1>7. PICK j \in 1 .. Len(freeList) : In(x, freeList[j])
    BY <1>1, <1>6
  <1>8. /\ freeList[j].address <= x /\ x < EndOf(freeList[j])
        /\ freeList[j].address \in Nat /\ EndOf(freeList[j]) \in Nat
    BY <1>7, EntryFacts DEF In
  <1>9. /\ j < k => EndOf(freeList[j]) < freeList[k].address
        /\ k < j => EndOf(freeList[k]) < freeList[j].address
    BY EntryFacts
  <1>10. CASE j < k
    BY <1>5, <1>8, <1>9, <1>10
  <1>11. CASE k < j
    BY <1>5, <1>8, <1>9, <1>11
  <1>12. CASE k = j
    BY <1>5, <1>8, <1>12
  <1> QED BY <1>10, <1>11, <1>12

\* A request that was refused fits at no address: the hole it needs would
\* lie in one entry of the list, and first fit takes one no higher.
LEMMA NoRoom ==
    ASSUME IInv, NEW size \in Sizes, AllocOutOfMemory(size),
           NEW a \in Addresses, Promise!Free(a, size)
    PROVE  FALSE
  <1> DEFINE bytes == size + HeaderSize
             new   == [address |-> a, size |-> bytes]
  <1>1. /\ a \in Nat /\ HB <= a /\ bytes \in Nat /\ bytes > 0
        /\ SP \in Nat /\ SP <= MaxAddress /\ MaxAddress \in Nat
    BY HeapAssumption DEF IInv, TypeOK, Addresses
  <1>2. a + bytes < SP /\ \A b \in live : Disjoint(new, b)
    BY DEF Promise!Free, Promise!EndOf, Promise!Disjoint, Disjoint, EndOf
  <1>3. BytesToAllocate(size) = bytes
    <2>1. ~ (bytes > MaxAddress)
      BY <1>1, <1>2
    <2> QED BY <2>1 DEF BytesToAllocate
  <1> HIDE DEF bytes
  <1>4. ASSUME NEW x \in a .. (a + bytes - 1), NEW b \in live PROVE ~ In(x, b)
    <2>1. b.address \in Nat /\ b.size \in Nat
      BY LiveFacts
    <2>2. Disjoint(new, b)
      BY <1>2
    <2> QED BY <2>1, <2>2, <1>1 DEF Disjoint, EndOf, In
  <1>5. PICK k \in 1 .. Len(freeList) :
          freeList[k].address <= a /\ a + bytes <= EndOf(freeList[k])
    <2>1. a + bytes <= MaxAddress
      BY <1>1, <1>2
    <2> QED BY <2>1, <1>1, <1>4, HoleInOneEntry
  <1>6. /\ \A j \in 1 .. Len(freeList) :
             /\ freeList[j].address \in Nat /\ freeList[j].size \in Nat
             /\ freeList[j].address <= EndOf(freeList[j])
             /\ EndOf(freeList[j]) \in Nat
        /\ \A i, j \in 1 .. Len(freeList) :
             i < j => EndOf(freeList[i]) < freeList[j].address
    BY EntryFacts
  <1>7. bytes <= freeList[k].size
    <2>1. freeList[k].address \in Nat /\ freeList[k].size \in Nat
      BY <1>6
    <2> QED BY <2>1, <1>1, <1>5 DEF EndOf
  <1>8. PICK i \in FirstFit(bytes) : i \in 1 .. Len(freeList) /\ i <= k
    BY <1>1, <1>7, FirstFitExists
  <1>9. freeList[i].address <= a
    <2>1. CASE i = k
      BY <2>1, <1>5
    <2>2. CASE i < k
      <3>1. /\ EndOf(freeList[i]) < freeList[k].address
            /\ freeList[i].address <= EndOf(freeList[i])
            /\ freeList[i].address \in Nat /\ EndOf(freeList[i]) \in Nat
            /\ freeList[k].address \in Nat
        BY <2>2, <1>6, <1>8
      <3> QED BY <3>1, <1>1, <1>5
    <2> QED BY <2>1, <2>2, <1>8
  <1>10. CanPlace(i, bytes)
    <2>1. freeList[i].address \in Nat
      BY <1>6, <1>8
    <2> QED BY <2>1, <1>1, <1>2, <1>9 DEF CanPlace, bytes
  <1> QED BY <1>3, <1>8, <1>10 DEF AllocOutOfMemory

\* allocateBlock reports OutOfMemory only when no address at all could hold
\* the block: looking at the first fit alone loses nothing.
THEOREM NoNeedlessRefusal == Spec => RefusedOnlyWhenFull
  <1>1. IInv => [\A size \in Sizes : AllocOutOfMemory(size) =>
                   \A a \in Addresses : ~ Promise!Free(a, size)]_vars
    BY NoRoom
  <1> QED BY <1>1, Invariance, PTL DEF RefusedOnlyWhenFull
-----------------------------------------------------------------------------
\* The refinement of module Allocator.

\* The contents of the program's blocks, as Allocator sees them.
Data == [a \in PayloadAddresses(live) |-> mem[a]]

\* Allocator measures blocks as Heap does.
LEMMA PromiseTerms ==
    /\ \A b : Promise!EndOf(b) = EndOf(b)
    /\ \A b, c : Promise!Disjoint(b, c) <=> Disjoint(b, c)
    /\ \A b : Promise!Payload(b) = Payload(b)
    /\ \A B : Promise!PayloadAddresses(B) = PayloadAddresses(B)
  <1>1. /\ \A b : Promise!EndOf(b) = EndOf(b)
        /\ \A b : Promise!Payload(b) = Payload(b)
    BY DEF Promise!EndOf, EndOf, Promise!Payload, Payload
  <1>2. \A b, c : Promise!Disjoint(b, c) <=> Disjoint(b, c)
    BY <1>1 DEF Promise!Disjoint, Disjoint
  <1>3. \A B : Promise!PayloadAddresses(B) = PayloadAddresses(B)
    BY <1>1 DEF Promise!PayloadAddresses, PayloadAddresses
  <1> QED BY <1>1, <1>2, <1>3

\* The payloads of blocks lie in memory and each address in one block.
LEMMA PayloadFacts ==
    ASSUME IInv, NEW b \in live, NEW a \in Payload(b)
    PROVE  /\ a \in Addresses /\ a \in Nat
           /\ b.address < a /\ In(a, b)
           /\ a \in PayloadAddresses(live)
  <1>1. /\ b.address \in Nat /\ EndOf(b) \in Nat
        /\ HB <= b.address /\ EndOf(b) <= MaxAddress
    BY LiveFacts
  <1>2. a \in Int /\ b.address + HeaderSize <= a /\ a <= EndOf(b) - 1
    BY <1>1, HeapAssumption DEF Payload
  <1>3. a \in Addresses /\ a \in Nat /\ b.address < a /\ In(a, b)
    BY <1>1, <1>2, HeapAssumption DEF In, Addresses
  <1> QED BY <1>3 DEF PayloadAddresses

\* All payloads lie in memory.
LEMMA PayloadsInMemory ==
    ASSUME IInv
    PROVE  PayloadAddresses(live) \subseteq Addresses
  BY PayloadFacts DEF PayloadAddresses

\* A new block is placed where Allocator allows it, reads as zero, and
\* leaves the contents of the others alone.
LEMMA AllocMaps ==
    ASSUME IInv, NEW size \in Sizes, Alloc(size)
    PROVE  Promise!Alloc(size)
  <1> DEFINE bytes == BytesToAllocate(size)
  <1>1. /\ bytes = size + HeaderSize
        /\ bytes \in Nat /\ bytes > HeaderSize /\ 0 < bytes
        /\ HeaderSize \in Nat /\ HeaderSize > 0
    BY HeapAssumption DEF BytesToAllocate, Alloc
  <1> HIDE DEF bytes
  <1>2. PICK i \in FirstFit(bytes) :
          LET block == [address |-> freeList[i].address, size |-> bytes]
          IN  /\ CanPlace(i, bytes)
              /\ mem' = [a \in Addresses |->
                           CASE a = freeList[i].address -> bytes
                             [] a \in Zeroed(block) -> 0
                             [] OTHER -> mem[a]]
              /\ live' = live \cup {block}
    BY DEF Alloc, bytes
  <1> DEFINE start == freeList[i].address
             block == [address |-> start, size |-> bytes]
  <1>3. /\ start \in Nat /\ HB <= start /\ start \in Addresses
        /\ start + bytes < SP
        /\ \A a \in Nat : In(a, block) => Covers(freeList, a)
    BY <1>1, <1>2, PlacementFacts
  <1>4. /\ live' = live \cup {block}
        /\ mem' = [a \in Addresses |-> CASE a = start -> bytes
                                         [] a \in Zeroed(block) -> 0
                                         [] OTHER -> mem[a]]
    BY <1>2
  <1>5. /\ block \in Block /\ block.address = start /\ block.size = bytes
        /\ EndOf(block) = start + bytes
    BY <1>1, <1>3 DEF Block, EndOf
  <1>6. block = [address |-> start, size |-> size + HeaderSize]
    BY <1>1
  <1> HIDE DEF block, start
  <1>7. \A b \in live : Disjoint(block, b)
    <2> SUFFICES ASSUME NEW b \in live PROVE Disjoint(block, b)
      OBVIOUS
    <2>1. \A a \in Nat : In(a, block) => ~ In(a, b)
      BY <1>3 DEF IInv, LiveNotFree
    <2>2. b \in Block /\ b.size > 0
      BY LiveFacts
    <2> QED BY <2>1, <2>2, <1>1, <1>5, DisjointBlocks
  <1>8. Promise!Free(start, size)
    <2>1. start >= HB /\ Promise!EndOf(block) < SP
      BY <1>3, <1>5, PromiseTerms, HeapAssumption
    <2>2. \A b \in live : Promise!Disjoint(block, b)
      BY <1>7, PromiseTerms
    <2> QED BY <2>1, <2>2, <1>6, Zenon DEF Promise!Free
  <1>9. ASSUME NEW a \in PayloadAddresses(live')
        PROVE  mem'[a] = IF a \in PayloadAddresses(live) THEN Data[a] ELSE 0
    <2>1. CASE a \in PayloadAddresses(live)
      <3>1. PICK b \in live : a \in Payload(b)
        BY <2>1 DEF PayloadAddresses
      <3>2. a \in Addresses /\ a \in Nat /\ In(a, b)
        BY <3>1, PayloadFacts
      <3>3. ~ In(a, block)
        BY <3>1, <3>2, <1>3 DEF IInv, LiveNotFree
      <3>4. a # start /\ a \notin Zeroed(block)
        BY <3>2, <3>3, <1>1, <1>3, <1>5 DEF In, Zeroed, Payload
      <3>5. mem'[a] = mem[a]
        BY <3>2, <3>4, <1>4
      <3>6. Data[a] = mem[a]
        BY <2>1 DEF Data
      <3> QED BY <2>1, <3>5, <3>6
    <2>2. CASE a \notin PayloadAddresses(live)
      <3>1. a \in Payload(block)
        BY <2>2, <1>4 DEF PayloadAddresses
      <3>2. start + HeaderSize <= a /\ a <= start + bytes - 1 /\ a \in Int
        BY <3>1, <1>1, <1>3, <1>5 DEF Payload
      <3>3. a # start /\ a \in Addresses
        BY <3>2, <1>1, <1>3, HeapAssumption DEF Addresses, IInv, TypeOK
      <3> QED BY <2>2, <3>1, <3>3, <1>4 DEF Zeroed
    <2> QED BY <2>1, <2>2
  <1>10. Data' = [a \in PayloadAddresses(live') |->
                     IF a \in PayloadAddresses(live) THEN Data[a] ELSE 0]
    BY <1>9 DEF Data
  <1>11. Data' = [a \in Promise!PayloadAddresses(live') |->
                     IF a \in Promise!PayloadAddresses(live) THEN Data[a] ELSE 0]
    BY <1>10, PromiseTerms
  <1>12. start \in HB .. MaxAddress
    BY <1>3 DEF Addresses
  <1>13. \E a \in HB .. MaxAddress :
            /\ Promise!Free(a, size)
            /\ live' = live \cup {[address |-> a, size |-> size + HeaderSize]}
    BY <1>4, <1>6, <1>8, <1>12
  <1> QED BY <1>11, <1>13 DEF Alloc, Promise!Alloc, Data

\* A request whose header takes it past 2^32 ends the program.
LEMMA AllocWrappedMaps ==
    ASSUME IInv, NEW size \in Sizes, AllocWrapped(size)
    PROVE  Promise!Overrun(size)
  <1>1. IInv' /\ live' = live
    BY AllocWrappedIInv DEF AllocWrapped
  <1>2. mem' \in [Addresses -> Nat]
    BY <1>1 DEF IInv, TypeOK
  <1>3. Data' = [a \in PayloadAddresses(live) |-> mem'[a]]
    BY <1>1 DEF Data
  <1>4. Data' \in [PayloadAddresses(live) -> Nat]
    BY <1>2, <1>3, PayloadsInMemory
  <1>5. Data' \in [Promise!PayloadAddresses(live) -> Nat]
    BY <1>4, PromiseTerms
  <1> QED BY <1>5 DEF AllocWrapped, Promise!Overrun, Data

\* A block that is freed leaves the contents of the others alone.
LEMMA DeallocMaps ==
    ASSUME IInv, NEW b \in live, Dealloc(b)
    PROVE  Promise!Dealloc(b)
  <1>1. /\ live' = live \ {b} /\ mem' = mem /\ status = "running"
        /\ UNCHANGED <<SP, status>>
    BY DEF Dealloc
  <1>2. PayloadAddresses(live') \subseteq PayloadAddresses(live)
    BY <1>1 DEF PayloadAddresses
  <1>3. Data' = [a \in PayloadAddresses(live') |-> Data[a]]
    BY <1>1, <1>2 DEF Data
  <1>4. Data' = [a \in Promise!PayloadAddresses(live') |-> Data[a]]
    BY <1>3, PromiseTerms
  <1> QED BY <1>1, <1>4 DEF Promise!Dealloc, Data

\* A store changes one byte of one block's contents.
LEMMA StoreMaps ==
    ASSUME IInv, NEW b \in live, NEW v \in Values, NEW a \in Payload(b), Store(b, a, v)
    PROVE  Promise!Store(b, a, v)
  <1>1. /\ mem' = [mem EXCEPT ![a] = v] /\ live' = live /\ status = "running"
        /\ UNCHANGED <<SP, status>> /\ mem \in [Addresses -> Nat]
    BY DEF Store, IInv, TypeOK
  <1>2. a \in Promise!Payload(b)
    BY PromiseTerms
  <1>3. Data' = [x \in PayloadAddresses(live) |-> mem'[x]]
    BY <1>1 DEF Data
  <1>4. Data' = [Data EXCEPT ![a] = v]
    <2>1. a \in PayloadAddresses(live)
      BY PayloadFacts
    <2>2. \A x \in PayloadAddresses(live) : mem'[x] = IF x = a THEN v ELSE mem[x]
      BY <1>1, PayloadsInMemory
    <2> QED BY <2>1, <2>2, <1>3 DEF Data
  <1> QED BY <1>1, <1>2, <1>4 DEF Promise!Store, Data

\* It begins as Allocator begins.
LEMMA InitMaps == Init => Promise!Init
  <1> SUFFICES ASSUME Init PROVE Promise!Init
    OBVIOUS
  <1>1. PayloadAddresses(live) = {}
    BY DEF Init, PayloadAddresses
  <1> QED BY <1>1 DEF Init, Promise!Init

\* Every step is one of Allocator, or none.
LEMMA NextMaps ==
    ASSUME IInv, [Next]_vars
    PROVE  [Promise!Next]_(Promise!vars)
  <1>1. ASSUME NEW size \in Sizes, Alloc(size) PROVE Promise!Next
    BY <1>1, AllocMaps DEF Promise!Next
  <1>2. ASSUME NEW size \in Sizes, AllocOutOfMemory(size) PROVE Promise!Next
    <2>1. \A a \in HB .. MaxAddress : ~ Promise!Free(a, size)
      BY <1>2, NoRoom DEF Addresses
    <2>2. Promise!Refuse(size)
      BY <1>2, <2>1 DEF AllocOutOfMemory, Promise!Refuse
    <2> QED BY <2>2 DEF Promise!Next
  <1>3. ASSUME NEW size \in Sizes, AllocWrapped(size) PROVE Promise!Next
    BY <1>3, AllocWrappedMaps DEF Promise!Next
  <1>4. CASE AllocZero
    <2>1. 0 \in Sizes /\ Promise!Refuse(0)
      BY <1>4 DEF AllocZero, Promise!Refuse
    <2> QED BY <2>1 DEF Promise!Next
  <1>5. ASSUME NEW b \in live, Dealloc(b) PROVE Promise!Next
    BY <1>5, DeallocMaps DEF Promise!Next
  <1>6. ASSUME NEW b \in live, NEW v \in Values, NEW a \in Payload(b), Store(b, a, v)
        PROVE  Promise!Next
    BY <1>6, StoreMaps, PromiseTerms DEF Promise!Next
  <1>7. ASSUME NEW sp \in StackTops, MoveSP(sp) PROVE Promise!Next
    <2>1. ASSUME NEW b \in live PROVE EndOf(b) < sp
      <3>1. EndOf(b) \in Nat /\ EndOf(b) <= HP
        BY LiveFacts
      <3>2. HP \in Nat /\ sp \in Nat /\ HP < sp
        BY <1>7, HeapAssumption DEF IInv, TypeOK, Addresses, MoveSP
      <3> QED BY <3>1, <3>2
    <2>2. Promise!MoveSP(sp)
      BY <1>7, <2>1, PromiseTerms DEF MoveSP, Promise!MoveSP
    <2> QED BY <2>2 DEF Promise!Next
  <1>8. CASE UNCHANGED vars
    BY <1>8 DEF vars, Promise!vars
  <1> QED BY <1>1, <1>2, <1>3, <1>4, <1>5, <1>6, <1>7, <1>8 DEF Next

\* An alloc is one of Allocator's for the same size.
LEMMA RequestMaps == ASSUME IInv PROVE SameRequest
  BY AllocMaps DEF SameRequest

\* The heap keeps the promises of Allocator, for the size asked for, although
\* it works on a free list and on headers that lie in the memory of blocks.
THEOREM HeapImplements == Spec => ImplementsAllocator
  <1>1. IInv /\ [Next]_vars => [Promise!Next]_(Promise!vars) /\ [SameRequest]_vars
    BY NextMaps, RequestMaps
  <1> QED BY Invariance, InitMaps, <1>1, PTL DEF Spec, Promise!Spec, ImplementsAllocator
-----------------------------------------------------------------------------
\* What the heap and its surroundings may do to each other's memory.

\* The heap raises HP, never to the stack, and writes below the stack only.
LEMMA WritesBelowStack ==
    ASSUME IInv, [Next]_vars
    PROVE  /\ HP <= HP' /\ HP' < SP'
           /\ \A a \in Addresses : SP <= a => mem'[a] = mem[a]
  <1>1. /\ HP \in Nat /\ SP \in Nat /\ HP < SP /\ mem \in [Addresses -> Nat]
        /\ Addresses \subseteq Nat
    BY HeapAssumption DEF IInv, TypeOK, Addresses
  <1>2. HP' < SP'
    BY NextIInv DEF IInv
  <1>3. ASSUME NEW size \in Sizes, Alloc(size)
        PROVE  /\ HP <= HP'
               /\ \A a \in Addresses : SP <= a => mem'[a] = mem[a]
    <2> DEFINE bytes == BytesToAllocate(size)
    <2>1. bytes \in Nat /\ bytes > 0
      BY <1>3, HeapAssumption DEF BytesToAllocate, Alloc
    <2> HIDE DEF bytes
    <2>2. PICK i \in FirstFit(bytes) :
            LET block == [address |-> freeList[i].address, size |-> bytes]
            IN  /\ CanPlace(i, bytes)
                /\ HP' = RaisedHP(freeList[i].address + bytes)
                /\ mem' = [a \in Addresses |->
                             CASE a = freeList[i].address -> bytes
                               [] a \in Zeroed(block) -> 0
                               [] OTHER -> mem[a]]
      BY <1>3 DEF Alloc, bytes
    <2>3. PICK start \in Nat : start = freeList[i].address /\ start + bytes < SP
      BY <2>1, <2>2, PlacementFacts
    <2> DEFINE block == [address |-> start, size |-> bytes]
    <2>4. HP <= HP'
      BY <1>1, <2>1, <2>2, <2>3 DEF RaisedHP
    <2>5. ASSUME NEW a \in Addresses, SP <= a PROVE a # start /\ a \notin Zeroed(block)
      BY <1>1, <2>1, <2>3, <2>5, HeapAssumption DEF Zeroed, Payload, EndOf
    <2>6. mem' = [a \in Addresses |-> CASE a = start -> bytes
                                        [] a \in Zeroed(block) -> 0
                                        [] OTHER -> mem[a]]
      BY <2>2, <2>3
    <2> HIDE DEF block
    <2> QED BY <2>4, <2>5, <2>6
  <1>4. ASSUME NEW size \in Sizes, AllocWrapped(size)
        PROVE  /\ HP <= HP'
               /\ \A a \in Addresses : SP <= a => mem'[a] = mem[a]
    <2> DEFINE bytes == BytesToAllocate(size)
    <2>1. bytes \in Nat
      BY HeapAssumption DEF BytesToAllocate
    <2> HIDE DEF bytes
    <2>2. PICK i \in FirstFit(bytes) :
             /\ CanPlace(i, bytes)
             /\ HP' = RaisedHP(freeList[i].address + bytes)
             /\ mem' = [a \in Addresses |->
                          CASE a = freeList[i].address -> bytes
                            [] a \in (freeList[i].address + HeaderSize) .. HP' -> 0
                            [] OTHER -> mem[a]]
      BY <1>4 DEF AllocWrapped, bytes
    <2>3. PICK start \in Nat : start = freeList[i].address /\ start + bytes < SP
      BY <2>1, <2>2, PlacementFacts
    <2>4. HP <= HP' /\ HP' < SP /\ HP' \in Nat
      BY <1>1, <2>1, <2>2, <2>3 DEF RaisedHP
    <2>5. mem' = [a \in Addresses |-> CASE a = start -> bytes
                                        [] a \in (start + HeaderSize) .. HP' -> 0
                                        [] OTHER -> mem[a]]
      BY <2>2, <2>3
    <2>6. ASSUME NEW a \in Addresses, SP <= a
          PROVE  a # start /\ a \notin (start + HeaderSize) .. HP'
      BY <1>1, <2>1, <2>3, <2>4, <2>6
    <2> QED BY <2>4, <2>5, <2>6
  <1>5. ASSUME NEW b \in live, NEW v \in Values, NEW a \in Payload(b), Store(b, a, v)
        PROVE  /\ HP <= HP'
               /\ \A x \in Addresses : SP <= x => mem'[x] = mem[x]
    <2>1. mem' = [mem EXCEPT ![a] = v] /\ HP' = HP
      BY <1>5 DEF Store
    <2>2. a \in Nat /\ In(a, b)
      BY PayloadFacts
    <2>3. a < EndOf(b) /\ EndOf(b) <= HP /\ EndOf(b) \in Nat
      BY <2>2, LiveFacts DEF In
    <2>4. a < SP
      BY <1>1, <2>2, <2>3
    <2> QED BY <1>1, <2>1, <2>2, <2>4
  <1>6. CASE UNCHANGED <<HP, mem>>
    BY <1>1, <1>2, <1>6
  <1>7. \/ UNCHANGED <<HP, mem>>
        \/ \E size \in Sizes : Alloc(size) \/ AllocWrapped(size)
        \/ \E b \in live, v \in Values : \E a \in Payload(b) : Store(b, a, v)
    BY DEF Next, vars, AllocOutOfMemory, AllocZero, Dealloc, MoveSP
  <1> QED BY <1>2, <1>3, <1>4, <1>5, <1>6, <1>7

\* Whatever else uses the memory above HP leaves the heap and the contents of
\* its blocks alone.
LEMMA Undisturbed ==
    ASSUME IInv, UNCHANGED <<freeList, HP, live, status>>,
           SP' \in Addresses, HP < SP', mem' \in [Addresses -> Nat],
           \A a \in Addresses : a <= HP => mem'[a] = mem[a]
    PROVE  /\ IInv' /\ Data' = Data
           /\ status = "running" /\ SP' \in StackTops => Promise!MoveSP(SP')
  <1>1. ASSUME NEW b \in live
        PROVE  b.address \in Addresses /\ b.address <= HP /\ EndOf(b) < SP'
    <2>1. /\ b.address \in Nat /\ EndOf(b) \in Nat /\ b.address < EndOf(b)
          /\ EndOf(b) <= HP /\ b.address \in Addresses
      BY LiveFacts
    <2>2. HP \in Nat /\ SP' \in Nat
      BY HeapAssumption DEF IInv, TypeOK, Addresses
    <2> QED BY <2>1, <2>2
  <1>2. HeadersIntact'
    BY <1>1 DEF IInv, HeadersIntact
  <1>3. TypeOK' /\ FreeOK(freeList)' /\ LiveInHeap' /\ LiveNotFree' /\ LiveApart' /\ Whole'
    BY DEF IInv, TypeOK, FreeOK, LiveInHeap, LiveNotFree, LiveApart, Whole, Covers
  <1>4. IInv'
    BY <1>2, <1>3 DEF IInv
  <1>5. Data' = Data
    <2>1. ASSUME NEW a \in PayloadAddresses(live) PROVE mem'[a] = mem[a]
      <3>1. PICK b \in live : a \in Payload(b)
        BY DEF PayloadAddresses
      <3>2. a \in Addresses /\ a \in Nat /\ In(a, b)
        BY <3>1, PayloadFacts
      <3>3. EndOf(b) <= HP /\ EndOf(b) \in Nat /\ HP \in Nat
        BY LiveFacts, HeapAssumption DEF IInv, TypeOK, Addresses
      <3>4. a <= HP
        BY <3>2, <3>3 DEF In
      <3> QED BY <3>2, <3>4
    <2> QED BY <2>1 DEF Data
  <1>6. ASSUME status = "running" PROVE Promise!MoveSP(SP')
    BY <1>1, <1>5, <1>6, PromiseTerms DEF Promise!MoveSP, Data
  <1> QED BY <1>4, <1>5, <1>6
=============================================================================
