--------------------------- MODULE CallStackProofs --------------------------
(***************************************************************************)
(* Proofs about module CallStack, for every set of methods, call sites,    *)
(* values and slot offsets that a program may use.                         *)
(*                                                                         *)
(* The invariant says where every active frame lies (Stacked) and what its *)
(* link holds (Linked).  Neither is inductive without the other: a call    *)
(* keeps the older links because its frame lies below them, and a return   *)
(* finds the caller's frame because the link still names it.               *)
(***************************************************************************)
EXTENDS CallStack, SequenceTheorems, WellFoundedInduction, TLAPS

\* The lowest address of the k-th frame.
Bottom(k) == FrameOf(k) - frameInfoStack[k].locals * Slot

\* Frames lie one below the other, from MaxAddress down to SP.
Stacked ==
    /\ Len(callers) = Depth
    /\ HP < SP
    /\ SP = IF Depth = 0 THEN MaxAddress ELSE Bottom(Depth)
    /\ \A k \in 1 .. Depth :
          /\ FrameOf(k) \in Nat
          /\ callers[k].SP = FrameOf(k) + Slot + frameInfoStack[k].arguments * Slot
          /\ callers[k].SP = IF k = 1 THEN MaxAddress ELSE Bottom(k - 1)
          /\ callers[k].SP <= MaxAddress
          /\ SP <= Bottom(k)
    /\ \A j, k \in 1 .. Depth : j < k => callers[k].SP <= Bottom(j)

\* Each link holds what `call` put there.
Linked ==
    \A k \in 1 .. Depth : /\ mem[FrameOf(k)] = callers[k].FP
                          /\ mem[FrameOf(k) + Half] = callers[k].PC

IInv == TypeOK /\ Stacked /\ Linked

\* What a method's frame measures.
LEMMA MethodFacts ==
    ASSUME NEW m \in Methods
    PROVE  /\ m.arguments \in Nat /\ m.locals \in Nat /\ m.entry \in Nat
           /\ FrameBytes(m) \in Nat
           /\ FrameBytes(m) = m.arguments * 8 + 8 + m.locals * 8
           /\ FrameBytes(m) <= MaxAddress
  BY CallStackAssumption DEF Method, FrameBytes, Slot

\* Arithmetic of a frame's upper end.
LEMMA AboveFrame ==
    ASSUME NEW x \in Nat, NEW y \in Nat, NEW z \in Nat, NEW w,
           x <= y, w = y + 8 + z
    PROVE  w \in Nat /\ x <= w
  OBVIOUS

\* What the sequences hold.
LEMMA SequenceFacts ==
    ASSUME TypeOK, Len(callers) = Depth
    PROVE  /\ Depth \in Nat
           /\ \A k \in 1 .. Depth :
                 /\ frameInfoStack[k] \in Methods
                 /\ frameInfoStack[k].arguments \in Nat
                 /\ frameInfoStack[k].locals \in Nat
                 /\ callers[k].FP \in Nat /\ callers[k].SP \in Nat
                 /\ callers[k].PC \in Nat
  <1>1. /\ frameInfoStack \in Seq(Methods)
        /\ callers \in Seq([FP : Nat, SP : Nat, PC : Nat])
    BY DEF TypeOK
  <1>2. Depth \in Nat
    BY <1>1, LenProperties DEF Depth
  <1>3. \A k \in 1 .. Depth : frameInfoStack[k] \in Methods
    BY <1>1, ElementOfSeq DEF Depth
  <1>4. \A k \in 1 .. Depth : callers[k] \in [FP : Nat, SP : Nat, PC : Nat]
    BY <1>1, ElementOfSeq
  <1> QED BY <1>2, <1>3, <1>4, MethodFacts

\* A store to a slot of an active frame leaves every link alone.
LEMMA SlotMissesLinks ==
    ASSUME IInv, NEW k \in 1 .. Depth, NEW o \in SlotsOf(frameInfoStack[k]),
           NEW j \in 1 .. Depth
    PROVE  LET x == FrameOf(k) + o * Slot
           IN  /\ FrameOf(j) # x /\ FrameOf(j) # x + Half
               /\ FrameOf(j) + Half # x /\ FrameOf(j) + Half # x + Half
  <1> DEFINE f == frameInfoStack
  <1>1. /\ f[k].arguments \in Nat /\ f[k].locals \in Nat
        /\ f[j].arguments \in Nat /\ f[j].locals \in Nat
        /\ Depth \in Nat
    BY SequenceFacts DEF IInv, Stacked
  <1>2. /\ FrameOf(k) \in Nat /\ FrameOf(j) \in Nat
        /\ callers[k].SP = FrameOf(k) + 8 + f[k].arguments * 8
        /\ callers[j].SP = FrameOf(j) + 8 + f[j].arguments * 8
    BY DEF IInv, Stacked, Slot
  <1>3. /\ j < k => callers[k].SP <= FrameOf(j) - f[j].locals * 8
        /\ k < j => callers[j].SP <= FrameOf(k) - f[k].locals * 8
    BY DEF IInv, Stacked, Bottom, Slot
  <1>4. /\ o \in Int /\ o # 0
        /\ o <= f[k].arguments /\ - f[k].locals <= o
    BY <1>1 DEF SlotsOf
  <1> HIDE DEF f
  <1> QED BY <1>1, <1>2, <1>3, <1>4 DEF Slot, Half

\* The link of an active frame lies in the stack region.
LEMMA LinkInStack ==
    ASSUME IInv, NEW k \in 1 .. Depth
    PROVE  /\ FrameOf(k) \in Nat /\ SP <= FrameOf(k)
           /\ FrameOf(k) \in Addresses /\ FrameOf(k) + 4 \in Addresses
  <1>1. /\ frameInfoStack[k].arguments \in Nat /\ frameInfoStack[k].locals \in Nat
        /\ SP \in HB .. MaxAddress /\ HB \in Nat /\ MaxAddress \in Nat
    BY SequenceFacts, CallStackAssumption DEF IInv, Stacked, TypeOK, Addresses
  <1>2. /\ SP <= FrameOf(k) - frameInfoStack[k].locals * 8
        /\ FrameOf(k) \in Nat
        /\ FrameOf(k) + 8 + frameInfoStack[k].arguments * 8 <= MaxAddress
    BY DEF IInv, Stacked, Bottom, Slot
  <1>3. PICK x \in Nat, y \in Nat : /\ x = frameInfoStack[k].arguments * 8
                                    /\ y = frameInfoStack[k].locals * 8
    <2>1. frameInfoStack[k].arguments * 8 \in Nat /\ frameInfoStack[k].locals * 8 \in Nat
      BY <1>1
    <2> QED BY <2>1
  <1>4. /\ SP <= FrameOf(k) - y /\ FrameOf(k) \in Nat
        /\ FrameOf(k) + 8 + x <= MaxAddress
    BY <1>2, <1>3
  <1> QED BY <1>1, <1>4 DEF Addresses

LEMMA InitIInv == Init => IInv
  <1> SUFFICES ASSUME Init PROVE IInv
    OBVIOUS
  <1>1. Depth = 0 /\ Len(callers) = 0
    BY DEF Init, Depth
  <1>2. TypeOK
    BY CallStackAssumption DEF Init, TypeOK, Addresses
  <1> QED BY <1>1, <1>2, CallStackAssumption DEF Init, IInv, Stacked, Linked

\* The frame a call writes.
LEMMA FrameByteFacts ==
    ASSUME NEW m \in Methods, NEW args \in [1 .. m.arguments -> Values],
           NEW link \in Value, NEW fp \in Nat, NEW a \in Nat,
           a < fp + 8 + m.arguments * 8
    PROVE  /\ FrameByte(m, args, link, fp, a) \in Nat
           /\ a = fp => FrameByte(m, args, link, fp, a) = link.low
           /\ a = fp + 4 => FrameByte(m, args, link, fp, a) = link.high
  <1>1. m.arguments \in Nat
    BY MethodFacts
  <1>2. ASSUME NEW v \in Value, NEW i \in Int
        PROVE  Word(v, i) \in Nat /\ Word(v, 0) = v.low /\ Word(v, 4) = v.high
    BY <1>2 DEF Word, Half, Value
  <1>3. CASE a < fp
    BY <1>3 DEF FrameByte
  <1>4. CASE ~ (a < fp)
    <2> DEFINE k == (a - fp) \div 8
               i == (a - fp) % 8
               v == IF k = 0 THEN link ELSE args[m.arguments + 1 - k]
    <2>1. k \in 0 .. m.arguments /\ i \in Int
      BY <1>1, <1>4
    <2>2. v \in Value
      <3>1. CASE k = 0
        BY <3>1
      <3>2. CASE k # 0
        <4>1. m.arguments + 1 - k \in 1 .. m.arguments
          BY <3>2, <2>1, <1>1
        <4>2. args[m.arguments + 1 - k] \in Values
          BY <4>1
        <4> QED BY <3>2, <4>2, CallStackAssumption
      <3> QED BY <3>1, <3>2
    <2>3. FrameByte(m, args, link, fp, a) = Word(v, i)
      BY <1>4 DEF FrameByte, Slot
    <2>4. a = fp => k = 0 /\ i = 0
      OBVIOUS
    <2>5. a = fp + 4 => k = 0 /\ i = 4
      OBVIOUS
    <2>6. k = 0 => v = link
      OBVIOUS
    <2> HIDE DEF k, i, v
    <2>w. Word(v, i) \in Nat /\ Word(v, 0) = v.low /\ Word(v, 4) = v.high
      BY <2>1, <2>2, <1>2, Zenon
    <2>7. FrameByte(m, args, link, fp, a) \in Nat
      BY <2>w, <2>3, Zenon
    <2>8. a = fp => FrameByte(m, args, link, fp, a) = link.low
      BY <2>w, <2>3, <2>4, <2>6, Zenon
    <2>9. a = fp + 4 => FrameByte(m, args, link, fp, a) = link.high
      BY <2>w, <2>3, <2>5, <2>6, Zenon
    <2> QED BY <2>7, <2>8, <2>9, Zenon
  <1> QED BY <1>3, <1>4

\* A call adds a frame below the others and writes nothing above SP.
LEMMA CallIInv ==
    ASSUME IInv, NEW m \in Methods, NEW site \in Sites,
           NEW args \in [1 .. m.arguments -> Values], Call(m, args, site)
    PROVE  IInv'
  <1>d. PICK d : d = Depth
    OBVIOUS
  <1>f. PICK fp : fp = SP - (m.arguments * 8 + 8)
    OBVIOUS
  <1>s. PICK sp : sp = SP - FrameBytes(m)
    OBVIOUS
  <1>l. PICK link : link = [low |-> FP, high |-> site]
    OBVIOUS
  <1>c. PICK call : call = [FP |-> FP, SP |-> SP, PC |-> site]
    OBVIOUS
  <1>1. /\ m.arguments \in Nat /\ m.locals \in Nat /\ m.entry \in Nat
        /\ FrameBytes(m) = m.arguments * 8 + 8 + m.locals * 8
        /\ FrameBytes(m) \in Nat
    BY MethodFacts
  <1>2. /\ TypeOK /\ Len(callers) = d /\ HP < SP /\ d \in Nat
        /\ HB \in Nat /\ MaxAddress \in Nat
        /\ SP \in HB .. MaxAddress /\ HP \in HB .. MaxAddress /\ FP \in Nat
        /\ site \in Nat
    BY <1>d, SequenceFacts, CallStackAssumption DEF IInv, Stacked, TypeOK, Addresses
  <1>3. /\ FP' = fp /\ SP' = sp /\ HP' = HP /\ PC' = m.entry /\ status' = status
        /\ frameInfoStack' = Append(frameInfoStack, m)
        /\ callers' = Append(callers, call)
        /\ mem' = [a \in Addresses |-> IF sp <= a /\ a < SP
                                       THEN FrameByte(m, args, link, fp, a)
                                       ELSE mem[a]]
    BY <1>f, <1>s, <1>l, <1>c DEF Call, Slot
  <1>4. HP < sp /\ sp \in Nat /\ sp < SP /\ sp \in Addresses
    <2>1. ~ Overflows(m)
      BY DEF Call
    <2>2. FrameBytes(m) \in Nat \ {0}
      BY <1>1
    <2> QED BY <2>1, <2>2, <1>2, <1>s DEF Overflows, Wrapped, Addresses
  <1>5. /\ fp \in Nat /\ sp = fp - m.locals * 8 /\ SP = fp + 8 + m.arguments * 8
        /\ fp \in Addresses /\ fp + 4 \in Addresses
        /\ sp <= fp /\ fp + 4 < SP
    <2>1. sp = SP - (m.arguments * 8 + 8 + m.locals * 8)
      BY <1>1, <1>s
    <2>2. PICK x \in Nat, y \in Nat : x = m.arguments * 8 /\ y = m.locals * 8
      BY <1>1
    <2>4. sp = SP - (x + 8 + y) /\ fp = SP - (x + 8)
      BY <2>1, <2>2, <1>f
    <2>5. SP \in Int /\ sp \in Nat
      BY <1>2, <1>4
    <2>6. fp \in Nat /\ sp = fp - y /\ SP = fp + 8 + x /\ sp <= fp /\ fp + 4 < SP
      BY <2>4, <2>5
    <2>3. /\ fp \in Nat /\ sp = fp - m.locals * 8 /\ SP = fp + 8 + m.arguments * 8
          /\ sp <= fp /\ fp + 4 < SP
      BY <2>2, <2>6
    <2> QED BY <2>3, <1>2, <1>4 DEF Addresses
  <1>6. link \in Value /\ link.low = FP /\ link.high = site
    BY <1>2, <1>l DEF Value
  <1>7. /\ frameInfoStack \in Seq(Methods)
        /\ callers \in Seq([FP : Nat, SP : Nat, PC : Nat])
        /\ call \in [FP : Nat, SP : Nat, PC : Nat]
        /\ Len(frameInfoStack) = d
        /\ call.SP = SP /\ call.FP = FP /\ call.PC = site
    BY <1>2, <1>c, <1>d DEF TypeOK, Depth
  <1>8. /\ frameInfoStack' \in Seq(Methods)
        /\ Depth' = d + 1
        /\ \A k \in 1 .. d : frameInfoStack'[k] = frameInfoStack[k]
        /\ frameInfoStack'[d + 1] = m
    BY <1>3, <1>7, AppendProperties DEF Depth
  <1>9. /\ callers' \in Seq([FP : Nat, SP : Nat, PC : Nat])
        /\ Len(callers') = d + 1
        /\ \A k \in 1 .. d : callers'[k] = callers[k]
        /\ callers'[d + 1] = call
    BY <1>2, <1>3, <1>7, AppendProperties
  \* The older frames stay where they are.
  <1>10. /\ \A k \in 1 .. d : FrameOf(k)' = FrameOf(k)
         /\ FrameOf(d + 1)' = fp
    <2>1. FrameOf(d + 1)' = fp
      BY <1>3, <1>8 DEF FrameOf
    <2>2. ASSUME NEW k \in 1 .. d PROVE FrameOf(k)' = FrameOf(k)
      <3>1. FrameOf(k)' = callers'[k + 1].FP
        BY <1>2, <1>8 DEF FrameOf
      <3>2. CASE k = d
        BY <3>1, <3>2, <1>7, <1>9, <1>d DEF FrameOf
      <3>3. CASE k # d
        <4>1. k + 1 \in 1 .. d
          BY <3>3, <1>2
        <4>2. callers'[k + 1].FP = callers[k + 1].FP
          BY <4>1, <1>9
        <4> QED BY <3>1, <3>3, <4>2, <1>d DEF FrameOf
      <3> QED BY <3>2, <3>3
    <2> QED BY <2>1, <2>2
  <1>11. /\ \A k \in 1 .. d : Bottom(k)' = Bottom(k)
         /\ Bottom(d + 1)' = sp
    BY <1>5, <1>8, <1>10 DEF Bottom, Slot
  \* Where the older frames are.
  <1>12. /\ d # 0 => SP = Bottom(d)
         /\ d = 0 => SP = MaxAddress
         /\ \A k \in 1 .. d :
               /\ FrameOf(k) \in Nat
               /\ callers[k].SP = FrameOf(k) + 8 + frameInfoStack[k].arguments * 8
               /\ callers[k].SP = IF k = 1 THEN MaxAddress ELSE Bottom(k - 1)
               /\ callers[k].SP <= MaxAddress
               /\ SP <= Bottom(k)
         /\ \A j, k \in 1 .. d : j < k => callers[k].SP <= Bottom(j)
    BY <1>d DEF IInv, Stacked, Slot
  <1>13. Stacked'
    <2>1. Len(callers') = Depth' /\ (HP < SP)'
      BY <1>3, <1>4, <1>8, <1>9
    <2>2. (SP = IF Depth = 0 THEN MaxAddress ELSE Bottom(Depth))'
      BY <1>2, <1>3, <1>8, <1>11
    <2>3. ASSUME NEW k \in 1 .. (d + 1)
          PROVE  /\ FrameOf(k)' \in Nat
                 /\ callers'[k].SP = FrameOf(k)' + Slot
                                     + frameInfoStack'[k].arguments * Slot
                 /\ callers'[k].SP = IF k = 1 THEN MaxAddress ELSE Bottom(k - 1)'
                 /\ callers'[k].SP <= MaxAddress
                 /\ SP' <= Bottom(k)'
      <3>1. CASE k \in 1 .. d
        <4>1. /\ FrameOf(k)' = FrameOf(k) /\ Bottom(k)' = Bottom(k)
              /\ callers'[k] = callers[k] /\ frameInfoStack'[k] = frameInfoStack[k]
          BY <3>1, <1>8, <1>9, <1>10, <1>11
        <4>2. k # 1 => Bottom(k - 1)' = Bottom(k - 1)
          BY <3>1, <1>2, <1>11
        <4>3. Bottom(k) \in Int
          <5>1. frameInfoStack[k].locals \in Nat /\ FrameOf(k) \in Nat
            BY <3>1, <1>12, <1>2, <1>d, SequenceFacts
          <5> QED BY <5>1 DEF Bottom, Slot
        <4>4. SP' <= Bottom(k)
          BY <4>3, <3>1, <1>3, <1>4, <1>12, <1>2
        <4> QED BY <3>1, <4>1, <4>2, <4>4, <1>12 DEF Slot
      <3>2. CASE k = d + 1
        <4>1. /\ FrameOf(k)' = fp /\ Bottom(k)' = sp
              /\ callers'[k].SP = SP /\ frameInfoStack'[k] = m
          BY <3>2, <1>7, <1>8, <1>9, <1>10, <1>11
        <4>2. SP = IF k = 1 THEN MaxAddress ELSE Bottom(k - 1)'
          <5>1. CASE d = 0
            BY <5>1, <3>2, <1>12
          <5>2. CASE d # 0
            <6>1. k - 1 = d /\ k # 1 /\ d \in 1 .. d
              BY <5>2, <3>2, <1>2
            <6>2. Bottom(d)' = Bottom(d)
              BY <6>1, <1>11
            <6> QED BY <6>1, <6>2, <5>2, <1>12
          <5> QED BY <5>1, <5>2
        <4> QED BY <4>1, <4>2, <1>2, <1>3, <1>5 DEF Slot
      <3> QED BY <3>1, <3>2, <1>2
    <2>4. ASSUME NEW j \in 1 .. (d + 1), NEW k \in 1 .. (d + 1), j < k
          PROVE  callers'[k].SP <= Bottom(j)'
      <3>1. j \in 1 .. d /\ Bottom(j)' = Bottom(j)
        BY <2>4, <1>2, <1>11
      <3>2. CASE k \in 1 .. d
        BY <2>4, <3>1, <3>2, <1>9, <1>12
      <3>3. CASE k = d + 1
        <4>1. callers'[k].SP = SP
          BY <3>3, <1>7, <1>9
        <4> QED BY <4>1, <3>1, <1>12
      <3> QED BY <3>2, <3>3, <1>2
    <2> QED BY <2>1, <2>2, <2>3, <2>4, <1>8 DEF Stacked
  <1>14. mem' \in [Addresses -> Nat]
    <2>1. ASSUME NEW a \in Addresses, a < SP
          PROVE  FrameByte(m, args, link, fp, a) \in Nat
      <3>1. a \in Nat /\ a < fp + 8 + m.arguments * 8
        BY <2>1, <1>2, <1>5 DEF Addresses
      <3> QED BY <3>1, <1>5, <1>6, FrameByteFacts
    <2> QED BY <2>1, <1>2, <1>3 DEF TypeOK
  <1>15. Linked'
    <2>1. ASSUME NEW k \in 1 .. d
          PROVE  /\ mem'[FrameOf(k)'] = callers'[k].FP
                 /\ mem'[FrameOf(k)' + Half] = callers'[k].PC
      <3>1. /\ mem[FrameOf(k)] = callers[k].FP
            /\ mem[FrameOf(k) + Half] = callers[k].PC
        BY <1>d DEF IInv, Linked
      <3>4. /\ FrameOf(k) \in Addresses /\ FrameOf(k) + 4 \in Addresses
            /\ ~ (FrameOf(k) < SP) /\ ~ (FrameOf(k) + 4 < SP)
        <4>1. SP <= FrameOf(k) /\ FrameOf(k) \in Nat
          BY <1>d, LinkInStack
        <4> QED BY <4>1, <1>d, <1>2, LinkInStack
      <3>5. mem'[FrameOf(k)] = mem[FrameOf(k)] /\ mem'[FrameOf(k) + 4] = mem[FrameOf(k) + 4]
        BY <3>4, <1>3
      <3>6. FrameOf(k)' = FrameOf(k) /\ callers'[k] = callers[k]
        BY <1>9, <1>10
      <3> QED BY <3>1, <3>5, <3>6 DEF Half
    <2>2. /\ mem'[fp] = FP /\ mem'[fp + 4] = site
      <3>1. mem'[fp] = FrameByte(m, args, link, fp, fp)
        BY <1>3, <1>4, <1>5
      <3>2. mem'[fp + 4] = FrameByte(m, args, link, fp, fp + 4)
        <4>1. sp <= fp + 4
          BY <1>4, <1>5
        <4> QED BY <4>1, <1>3, <1>5
      <3>3. fp < fp + 8 + m.arguments * 8 /\ fp + 4 < fp + 8 + m.arguments * 8
            /\ fp + 4 \in Nat
        BY <1>1, <1>5
      <3>4. FrameByte(m, args, link, fp, fp) = link.low
        BY <3>3, <1>5, <1>6, FrameByteFacts
      <3>5. FrameByte(m, args, link, fp, fp + 4) = link.high
        BY <3>3, <1>5, <1>6, FrameByteFacts
      <3> QED BY <3>1, <3>2, <3>4, <3>5, <1>6
    <2>3. /\ mem'[FrameOf(d + 1)'] = callers'[d + 1].FP
          /\ mem'[FrameOf(d + 1)' + Half] = callers'[d + 1].PC
      BY <2>2, <1>7, <1>9, <1>10 DEF Half
    <2> QED BY <2>1, <2>3, <1>2, <1>8 DEF Linked
  <1>16. TypeOK'
    BY <1>1, <1>2, <1>3, <1>4, <1>5, <1>8, <1>9, <1>14 DEF TypeOK
  <1> QED BY <1>13, <1>15, <1>16 DEF IInv

\* A return takes the last frame off, and finds its caller in the link.
LEMMA RetFacts ==
    ASSUME IInv, Ret
    PROVE  /\ Depth \in Nat \ {0}
           /\ FP' = callers[Depth].FP
           /\ SP' = callers[Depth].SP
           /\ PC' = callers[Depth].PC
           /\ frameInfoStack' = SubSeq(frameInfoStack, 1, Depth - 1)
           /\ callers' = SubSeq(callers, 1, Depth - 1)
  <1>1. /\ Depth \in Nat /\ frameInfoStack \in Seq(Methods)
        /\ frameInfoStack # <<>>
    BY SequenceFacts DEF IInv, Stacked, TypeOK, Ret
  <1>2. Depth \in Nat \ {0} /\ Depth \in 1 .. Depth
    <2>1. Depth # 0
      BY <1>1, EmptySeq DEF Depth
    <2> QED BY <1>1, <2>1
  <1>3. FrameOf(Depth) = FP
    BY DEF FrameOf
  <1>4. mem[FP] = callers[Depth].FP /\ mem[FP + Half] = callers[Depth].PC
    BY <1>2, <1>3 DEF IInv, Linked
  <1>5. SP' = callers[Depth].SP
    <2>1. SP = FP - Current.locals * 8
      BY <1>2, <1>3 DEF IInv, Stacked, Bottom, Current, Slot
    <2>2. callers[Depth].SP = FP + 8 + Current.arguments * 8
      BY <1>2, <1>3 DEF IInv, Stacked, Current, Slot
    <2>3. Current \in Methods
      BY <1>2, SequenceFacts DEF IInv, Stacked, Current
    <2>4. PICK x \in Nat, y \in Nat : x = Current.arguments * 8 /\ y = Current.locals * 8
      BY <2>3, MethodFacts
    <2>5. FrameBytes(Current) = x + 8 + y
      BY <2>3, <2>4, MethodFacts
    <2>6. SP' = SP + FrameBytes(Current) /\ FP \in Nat
      BY DEF Ret, IInv, TypeOK
    <2>7. SP = FP - y /\ callers[Depth].SP = FP + 8 + x
      BY <2>1, <2>2, <2>4
    <2> QED BY <2>5, <2>6, <2>7
  <1> QED BY <1>2, <1>4, <1>5 DEF Ret

LEMMA RetIInv ==
    ASSUME IInv, Ret
    PROVE  IInv'
  <1>d. PICK d : d = Depth
    OBVIOUS
  <1>1. /\ d \in Nat \ {0} /\ d \in 1 .. d /\ d - 1 \in Nat
        /\ frameInfoStack \in Seq(Methods)
        /\ callers \in Seq([FP : Nat, SP : Nat, PC : Nat])
        /\ Len(frameInfoStack) = d /\ Len(callers) = d
        /\ HP < SP /\ HB \in Nat /\ MaxAddress \in Nat
        /\ SP \in HB .. MaxAddress /\ HP \in HB .. MaxAddress
    BY <1>d, RetFacts, CallStackAssumption
    DEF IInv, Stacked, TypeOK, Depth, Addresses
  <1>2. /\ FP' = callers[d].FP /\ SP' = callers[d].SP /\ PC' = callers[d].PC
        /\ frameInfoStack' = SubSeq(frameInfoStack, 1, d - 1)
        /\ callers' = SubSeq(callers, 1, d - 1)
        /\ HP' = HP /\ mem' = mem /\ status' = status
    BY <1>d, RetFacts DEF Ret
  <1>3. /\ frameInfoStack' \in Seq(Methods)
        /\ Depth' = d - 1
        /\ \A k \in 1 .. (d - 1) : frameInfoStack'[k] = frameInfoStack[k]
    <2>1. \A k \in 1 .. (d - 1) : frameInfoStack[k] \in Methods
      BY <1>1, ElementOfSeq
    <2>2. /\ SubSeq(frameInfoStack, 1, d - 1) \in Seq(Methods)
          /\ Len(SubSeq(frameInfoStack, 1, d - 1)) = d - 1
          /\ \A k \in 1 .. (d - 1) :
                SubSeq(frameInfoStack, 1, d - 1)[k] = frameInfoStack[k]
      BY <1>1, <2>1, SubSeqProperties, SMTT(40)
    <2>3. Depth' = d - 1
      BY <1>2, <2>2, Zenon DEF Depth
    <2> QED BY <1>2, <2>2, <2>3, Zenon
  <1>4. /\ callers' \in Seq([FP : Nat, SP : Nat, PC : Nat])
        /\ Len(callers') = d - 1
        /\ \A k \in 1 .. (d - 1) : callers'[k] = callers[k]
    <2>1. \A k \in 1 .. (d - 1) : callers[k] \in [FP : Nat, SP : Nat, PC : Nat]
      <3>1. \A k \in 1 .. d : callers[k] \in [FP : Nat, SP : Nat, PC : Nat]
        BY <1>1, ElementOfSeq
      <3>2. \A k \in 1 .. (d - 1) : k \in 1 .. d
        BY <1>1
      <3> QED BY <3>1, <3>2
    <2>2. /\ SubSeq(callers, 1, d - 1) \in Seq([FP : Nat, SP : Nat, PC : Nat])
          /\ Len(SubSeq(callers, 1, d - 1)) = d - 1
          /\ \A k \in 1 .. (d - 1) : SubSeq(callers, 1, d - 1)[k] = callers[k]
      BY <1>1, <2>1, SubSeqProperties
    <2> QED BY <1>2, <2>2
  \* The frames that remain stay where they are.
  <1>5. ASSUME NEW k \in 1 .. (d - 1) PROVE FrameOf(k)' = FrameOf(k)
    <2>1. FrameOf(k) = callers[k + 1].FP
      BY <1>1, <1>d DEF FrameOf
    <2>2. FrameOf(k)' = IF k = d - 1 THEN FP' ELSE callers'[k + 1].FP
      BY <1>3 DEF FrameOf
    <2>3. CASE k = d - 1
      BY <2>1, <2>2, <2>3, <1>1, <1>2
    <2>4. CASE k # d - 1
      <3>1. k + 1 \in 1 .. (d - 1)
        BY <2>4, <1>1
      <3> QED BY <2>1, <2>2, <2>4, <3>1, <1>4
    <2> QED BY <2>3, <2>4
  <1>6. \A k \in 1 .. (d - 1) : Bottom(k)' = Bottom(k)
    BY <1>3, <1>5 DEF Bottom
  <1>7. \A k \in 1 .. d :
           /\ FrameOf(k) \in Nat
           /\ callers[k].SP = FrameOf(k) + Slot + frameInfoStack[k].arguments * Slot
           /\ callers[k].SP = IF k = 1 THEN MaxAddress ELSE Bottom(k - 1)
           /\ callers[k].SP <= MaxAddress
           /\ SP <= Bottom(k)
    BY <1>d DEF IInv, Stacked
  <1>8. \A j, k \in 1 .. d : j < k => callers[k].SP <= Bottom(j)
    BY <1>d DEF IInv, Stacked
  <1>9. callers[d].SP \in Nat /\ SP <= callers[d].SP
    <2>1. /\ SP <= FrameOf(d) /\ FrameOf(d) \in Nat
          /\ frameInfoStack[d].arguments \in Nat
      BY <1>1, <1>d, LinkInStack, SequenceFacts DEF IInv, Stacked
    <2>2. callers[d].SP = FrameOf(d) + 8 + frameInfoStack[d].arguments * 8
      BY <1>1, <1>7 DEF Slot
    <2>3. frameInfoStack[d].arguments * 8 \in Nat
      BY <2>1
    <2>4. SP \in Nat
      BY <1>1
    <2> QED BY <2>1, <2>2, <2>3, <2>4, AboveFrame
  <1>10. Stacked'
    <2>1. Len(callers') = Depth' /\ (HP < SP)'
      BY <1>1, <1>2, <1>3, <1>4, <1>9
    <2>2. (SP = IF Depth = 0 THEN MaxAddress ELSE Bottom(Depth))'
      <3>1. CASE d = 1
        BY <3>1, <1>1, <1>2, <1>3, <1>7
      <3>2. CASE d # 1
        <4>1. d - 1 \in 1 .. (d - 1) /\ d - 1 # 0
          BY <3>2, <1>1
        <4>2. Bottom(d - 1)' = Bottom(d - 1)
          BY <4>1, <1>6
        <4>3. callers[d].SP = Bottom(d - 1)
          BY <3>2, <1>1, <1>7
        <4> QED BY <4>1, <4>2, <4>3, <1>2, <1>3
      <3> QED BY <3>1, <3>2
    <2>3. ASSUME NEW k \in 1 .. (d - 1)
          PROVE  /\ FrameOf(k)' \in Nat
                 /\ callers'[k].SP = FrameOf(k)' + Slot
                                     + frameInfoStack'[k].arguments * Slot
                 /\ callers'[k].SP = IF k = 1 THEN MaxAddress ELSE Bottom(k - 1)'
                 /\ callers'[k].SP <= MaxAddress
                 /\ SP' <= Bottom(k)'
      <3>1. /\ FrameOf(k)' = FrameOf(k) /\ Bottom(k)' = Bottom(k)
            /\ callers'[k] = callers[k] /\ frameInfoStack'[k] = frameInfoStack[k]
        BY <1>3, <1>4, <1>5, <1>6
      <3>2. k \in 1 .. d /\ k < d
        BY <1>1
      <3>3. k # 1 => Bottom(k - 1)' = Bottom(k - 1)
        BY <3>2, <1>1, <1>6
      <3>4. SP' <= Bottom(k)
        BY <3>2, <1>1, <1>2, <1>8
      <3> QED BY <3>1, <3>2, <3>3, <3>4, <1>7
    <2>4. ASSUME NEW j \in 1 .. (d - 1), NEW k \in 1 .. (d - 1), j < k
          PROVE  callers'[k].SP <= Bottom(j)'
      <3>1. j \in 1 .. d /\ k \in 1 .. d
        BY <1>1
      <3> QED BY <3>1, <2>4, <1>4, <1>6, <1>8
    <2> QED BY <2>1, <2>2, <2>3, <2>4, <1>3 DEF Stacked
  <1>11. Linked'
    <2>1. ASSUME NEW k \in 1 .. (d - 1)
          PROVE  /\ mem'[FrameOf(k)'] = callers'[k].FP
                 /\ mem'[FrameOf(k)' + Half] = callers'[k].PC
      <3>1. k \in 1 .. Depth
        BY <1>1, <1>d
      <3>2. /\ mem[FrameOf(k)] = callers[k].FP
            /\ mem[FrameOf(k) + Half] = callers[k].PC
        BY <3>1 DEF IInv, Linked
      <3> QED BY <3>2, <1>2, <1>4, <1>5
    <2> QED BY <2>1, <1>3 DEF Linked
  <1>12. TypeOK'
    <2>1. callers[d] \in [FP : Nat, SP : Nat, PC : Nat]
      BY <1>1, ElementOfSeq
    <2>2. callers[d].SP <= MaxAddress
      BY <1>1, <1>7
    <2>3. SP' \in Addresses
      BY <2>2, <1>1, <1>2, <1>9 DEF Addresses
    <2> QED BY <2>1, <2>3, <1>2, <1>3, <1>4 DEF IInv, TypeOK
  <1> QED BY <1>10, <1>11, <1>12 DEF IInv

\* A step that moves no frame and overwrites no link.
LEMMA StoreIInv ==
    ASSUME IInv,
           UNCHANGED <<FP, SP, frameInfoStack, callers>>,
           HP' \in Addresses, HP' < SP,
           PC' \in Nat, status' \in {"running", "STACK_OVERFLOW", "INTERNAL"},
           mem' \in [Addresses -> Nat],
           \A k \in 1 .. Depth : /\ mem'[FrameOf(k)] = mem[FrameOf(k)]
                                 /\ mem'[FrameOf(k) + Half] = mem[FrameOf(k) + Half]
    PROVE  IInv'
  <1>1. /\ Depth' = Depth
        /\ \A k : FrameOf(k)' = FrameOf(k)
        /\ \A k : Bottom(k)' = Bottom(k)
    BY DEF Depth, FrameOf, Bottom
  <1>2. TypeOK'
    BY DEF IInv, TypeOK
  <1>3. Stacked'
    BY <1>1 DEF IInv, Stacked
  <1>4. Linked'
    BY <1>1 DEF IInv, Linked
  <1> QED BY <1>2, <1>3, <1>4 DEF IInv

\* A store to a slot of an active frame, of 64 or of 32 bits.
LEMMA SlotStoreIInv ==
    ASSUME IInv, status = "running",
           NEW k \in 1 .. Depth, NEW o \in SlotsOf(frameInfoStack[k]),
           NEW v \in Values,
           \/ mem' = Write64(FrameOf(k) + o * Slot, v)
           \/ mem' = [mem EXCEPT ![FrameOf(k) + o * Slot] = v.low],
           UNCHANGED <<FP, SP, HP, PC, frameInfoStack, callers, status>>
    PROVE  IInv'
  <1>x. PICK x : x = FrameOf(k) + o * Slot
    OBVIOUS
  <1>1. v.low \in Nat /\ v.high \in Nat
    BY CallStackAssumption DEF Value
  <1>2. mem \in [Addresses -> Nat]
    BY DEF IInv, TypeOK
  <1>3. \/ mem' = [mem EXCEPT ![x] = v.low, ![x + Half] = v.high]
        \/ mem' = [mem EXCEPT ![x] = v.low]
    BY <1>x DEF Write64
  <1>4. mem' \in [Addresses -> Nat]
    BY <1>1, <1>2, <1>3
  <1>5. ASSUME NEW j \in 1 .. Depth
        PROVE  /\ mem'[FrameOf(j)] = mem[FrameOf(j)]
               /\ mem'[FrameOf(j) + Half] = mem[FrameOf(j) + Half]
    <2>1. /\ FrameOf(j) # x /\ FrameOf(j) # x + Half
          /\ FrameOf(j) + Half # x /\ FrameOf(j) + Half # x + Half
      BY <1>x, SlotMissesLinks
    <2>2. FrameOf(j) \in Addresses /\ FrameOf(j) + Half \in Addresses
      BY LinkInStack DEF Half
    <2> QED BY <1>2, <1>3, <2>1, <2>2
  <1>6. /\ HP \in Addresses /\ HP < SP /\ PC \in Nat
        /\ status \in {"running", "STACK_OVERFLOW", "INTERNAL"}
    BY DEF IInv, TypeOK, Stacked
  <1> QED BY <1>4, <1>5, <1>6, StoreIInv

\* The invariant is inductive.
LEMMA NextIInv ==
    ASSUME IInv, [Next]_vars
    PROVE  IInv'
  <1>0. /\ TypeOK /\ HP < SP
        /\ FP \in Nat /\ SP \in Addresses /\ HP \in Addresses /\ PC \in Nat
        /\ mem \in [Addresses -> Nat] /\ Depth \in Nat
        /\ status \in {"running", "STACK_OVERFLOW", "INTERNAL"}
        /\ Addresses = HB .. MaxAddress /\ HB \in Nat /\ MaxAddress \in Nat
    BY SequenceFacts, CallStackAssumption DEF IInv, TypeOK, Stacked, Addresses
  <1>1. ASSUME NEW m \in Methods, NEW site \in Sites,
               NEW args \in [1 .. m.arguments -> Values], Call(m, args, site)
        PROVE  IInv'
    BY <1>1, CallIInv
  <1>2. ASSUME NEW m \in Methods, CallOverflow(m)
        PROVE  IInv'
    BY <1>0, <1>2, StoreIInv DEF CallOverflow
  <1>3. CASE Ret
    BY <1>3, RetIInv
  <1>4. CASE RetEmpty
    BY <1>0, <1>4, StoreIInv DEF RetEmpty
  <1>5. ASSUME NEW o \in Offsets, NEW v \in Values, StoreL(o, v)
        PROVE  IInv'
    <2>1. Depth # 0
      BY <1>5, <1>0, EmptySeq DEF StoreL, ValidOffset, Depth, TypeOK
    <2>2. Depth \in 1 .. Depth
      BY <2>1, <1>0
    <2>3. /\ Current = frameInfoStack[Depth]
          /\ frameInfoStack[Depth].arguments \in Nat
          /\ frameInfoStack[Depth].locals \in Nat
      BY <2>2, SequenceFacts DEF IInv, Stacked, Current
    <2>4. o \in SlotsOf(frameInfoStack[Depth])
      <3>1. o \in Int /\ o # 0
        BY CallStackAssumption
      <3>2. ~ (o > 0 /\ o > Current.arguments) /\ ~ (- o > Current.locals)
        BY <1>5 DEF StoreL, ValidOffset
      <3> QED BY <2>3, <3>1, <3>2 DEF SlotsOf
    <2>5. mem' = Write64(FrameOf(Depth) + o * Slot, v)
      BY <1>5 DEF StoreL, FrameOf, FrameAddress
    <2> QED BY <1>5, <2>2, <2>4, <2>5, SlotStoreIInv DEF StoreL
  <1>6. ASSUME NEW o \in Offsets, BadOffset(o)
        PROVE  IInv'
    BY <1>0, <1>6, StoreIInv DEF BadOffset
  <1>7. ASSUME NEW k \in DOMAIN frameInfoStack, NEW o \in Offsets, NEW v \in Values,
               StorePointer(k, o, v) \/ StorePointer32(k, o, v)
        PROVE  IInv'
    <2>1. k \in 1 .. Depth
      BY <1>0, LenProperties DEF TypeOK, Depth
    <2> QED BY <1>7, <2>1, SlotStoreIInv DEF StorePointer, StorePointer32
  <1>8. ASSUME NEW hp \in HeapTops, GrowHeap(hp)
        PROVE  IInv'
    <2>1. HP' \in Addresses /\ HP' < SP
      BY <1>8, <1>0, CallStackAssumption DEF GrowHeap
    <2> QED BY <1>0, <1>8, <2>1, StoreIInv DEF GrowHeap
  <1>9. CASE UNCHANGED vars
    BY <1>0, <1>9, StoreIInv DEF vars
  <1> QED BY <1>1, <1>2, <1>3, <1>4, <1>5, <1>6, <1>7, <1>8, <1>9 DEF Next
-----------------------------------------------------------------------------
\* The frames are where the code expects them, and their links intact, in
\* every state, for every set of methods, sites, values and heap tops.
THEOREM Invariance == Spec => []IInv
  <1>1. IInv /\ [Next]_vars => IInv'
    BY NextIInv
  <1> QED BY InitIInv, <1>1, PTL DEF Spec

\* Every variable of the call stack keeps its type: FP, SP and PC, which
\* `ret` takes from memory, included.
THEOREM TypeCorrect == Spec => []TypeOK
  <1>1. IInv => TypeOK
    BY DEF IInv
  <1> QED BY Invariance, <1>1, PTL

\* The frames of the active calls fill the stack region, which never
\* reaches down to the heap.
THEOREM FramesTile == Spec => []FramesFillStack
  <1>1. ASSUME IInv PROVE FramesFillStack
    <2>1. HP < SP /\ (SP = IF Depth = 0 THEN MaxAddress ELSE Bottom(Depth))
      BY <1>1 DEF IInv, Stacked
    <2>2. SP = IF Depth = 0 THEN MaxAddress ELSE FP - Current.locals * Slot
      BY <2>1 DEF Bottom, FrameOf, Current
    <2>3. ASSUME NEW k \in 1 .. Depth
          PROVE  /\ callers[k].SP = IF k = 1 THEN MaxAddress
                                     ELSE FrameOf(k - 1)
                                          - frameInfoStack[k - 1].locals * Slot
                 /\ FrameOf(k) = callers[k].SP - Slot
                                 - frameInfoStack[k].arguments * Slot
      <3>1. frameInfoStack[k].arguments \in Nat
        BY <1>1, SequenceFacts DEF IInv, Stacked
      <3>2. /\ FrameOf(k) \in Nat
            /\ callers[k].SP = FrameOf(k) + Slot + frameInfoStack[k].arguments * Slot
            /\ callers[k].SP = IF k = 1 THEN MaxAddress ELSE Bottom(k - 1)
        BY <1>1 DEF IInv, Stacked
      <3> QED BY <3>1, <3>2 DEF Bottom, Slot
    <2> QED BY <2>1, <2>2, <2>3 DEF FramesFillStack
  <1> QED BY Invariance, <1>1, PTL

\* `ret` gives back the caller's FP, SP and PC although it reads two of them
\* from memory that programs write to.
THEOREM RetRestores == Spec => RetRestoresCaller
  <1> DEFINE Restores == /\ FP' = callers[Depth].FP
                         /\ SP' = callers[Depth].SP
                         /\ PC' = callers[Depth].PC
  <1>1. ASSUME IInv, [Next]_vars PROVE [Depth' < Depth => Restores]_vars
    <2>1. CASE Ret
      BY <1>1, <2>1, RetFacts
    <2>2. ASSUME NEW m \in Methods, NEW site \in Sites,
                 NEW args \in [1 .. m.arguments -> Values], Call(m, args, site)
          PROVE  ~ (Depth' < Depth)
      <3>1. /\ frameInfoStack \in Seq(Methods) /\ Depth \in Nat
            /\ frameInfoStack' = Append(frameInfoStack, m)
        BY <1>1, <2>2, SequenceFacts DEF IInv, Stacked, TypeOK, Call
      <3>2. Depth' = Depth + 1
        BY <3>1, AppendProperties DEF Depth
      <3> QED BY <3>1, <3>2
    <2>3. CASE UNCHANGED frameInfoStack
      <3>1. Depth' = Depth /\ Depth \in Nat
        BY <1>1, <2>3, SequenceFacts DEF IInv, Stacked, Depth
      <3> QED BY <3>1
    <2>4. \/ UNCHANGED frameInfoStack \/ Ret
          \/ \E m \in Methods, site \in Sites :
                \E args \in [1 .. m.arguments -> Values] : Call(m, args, site)
      BY <1>1 DEF Next, vars, CallOverflow, RetEmpty, StoreL,
                  BadOffset, StorePointer, StorePointer32, GrowHeap
    <2> QED BY <2>1, <2>2, <2>3, <2>4
  <1>2. RetRestoresCaller <=> [][Depth' < Depth => Restores]_vars
    BY DEF RetRestoresCaller
  <1> QED BY Invariance, <1>1, <1>2, PTL DEF Spec
-----------------------------------------------------------------------------
\* The links in memory, followed as getStackTrace follows them.

\* A set of naturals that is not empty has a least element.
LEMMA LeastNatural ==
    ASSUME NEW T, T \subseteq Nat, T # {}
    PROVE  \E x \in T : \A y \in T : x <= y
  <1> DEFINE R == OpToRel(<, Nat)
  <1>1. IsWellFoundedOn(R, Nat)
    BY NatLessThanWellFounded
  <1>2. \A x, y \in Nat : y < x => <<y, x>> \in R
    BY DEF OpToRel
  <1> HIDE DEF R
  <1>3. PICK x \in T : \A y \in T : ~ (<<y, x>> \in R)
    BY <1>1, WFMin
  <1>4. \A y \in T : ~ (y < x)
    BY <1>2, <1>3
  <1> QED BY <1>3, <1>4

\* Following the links leads from the innermost frame to the outermost one.
LEMMA LinksLeadOutwards ==
    ASSUME IInv, NEW i \in 1 .. Depth
    PROVE  FramePointers[i] = FrameOf(Depth + 1 - i)
  <1> DEFINE d == Depth
             Next1(f) == [j \in 1 .. d |-> IF j = 1 THEN FP ELSE mem[f[j - 1]]]
             G == [j \in 1 .. d |-> FrameOf(d + 1 - j)]
  <1>1. d \in Nat
    BY SequenceFacts DEF IInv, Stacked
  <1>2. ASSUME NEW j \in 1 .. d
        PROVE  FrameOf(d + 1 - j) = IF j = 1 THEN FP ELSE mem[FrameOf(d + 2 - j)]
    <2>1. CASE j = 1
      BY <2>1, <1>1 DEF FrameOf
    <2>2. CASE j # 1
      <3>1. d + 2 - j \in 1 .. d /\ d + 1 - j # d /\ d + 1 - j + 1 = d + 2 - j
        BY <2>2, <1>1
      <3>2. FrameOf(d + 1 - j) = callers[d + 2 - j].FP
        BY <3>1 DEF FrameOf
      <3>3. mem[FrameOf(d + 2 - j)] = callers[d + 2 - j].FP
        BY <3>1 DEF IInv, Linked
      <3> QED BY <2>2, <3>2, <3>3
    <2> QED BY <2>1, <2>2
  <1>3. G = Next1(G)
    <2>1. ASSUME NEW j \in 1 .. d
          PROVE  G[j] = IF j = 1 THEN FP ELSE mem[G[j - 1]]
      <3>1. CASE j = 1
        BY <3>1, <1>2
      <3>2. CASE j # 1
        <4>1. j - 1 \in 1 .. d /\ d + 1 - (j - 1) = d + 2 - j
          BY <3>2, <1>1
        <4> QED BY <4>1, <3>2, <1>2
      <3> QED BY <3>1, <3>2
    <2> QED BY <2>1
  <1>4. FramePointers = CHOOSE f : f = Next1(f)
    BY DEF FramePointers
  <1> HIDE DEF G, Next1
  <1>5. FramePointers = Next1(FramePointers)
    BY <1>3, <1>4, Zenon
  <1>6. \A j \in 1 .. d : FramePointers[j] = IF j = 1 THEN FP ELSE mem[FramePointers[j - 1]]
    BY <1>5 DEF Next1
  <1> DEFINE T == {j \in 1 .. d : FramePointers[j] # FrameOf(d + 1 - j)}
  <1>7. T = {}
    <2>1. SUFFICES ASSUME T # {} PROVE FALSE
      OBVIOUS
    <2>2. PICK j \in T : \A k \in T : j <= k
      <3>1. T \subseteq Nat
        BY <1>1
      <3> QED BY <2>1, <3>1, LeastNatural
    <2>3. j \in 1 .. d /\ FramePointers[j] # FrameOf(d + 1 - j)
      BY <2>2
    <2>4. CASE j = 1
      BY <2>3, <2>4, <1>2, <1>6
    <2>5. CASE j # 1
      <3>1. j - 1 \in 1 .. d /\ j - 1 \notin T /\ d + 1 - (j - 1) = d + 2 - j
        BY <2>2, <2>3, <2>5, <1>1
      <3>2. FramePointers[j - 1] = FrameOf(d + 2 - j)
        BY <3>1
      <3> QED BY <2>3, <2>5, <3>2, <1>2, <1>6
    <2> QED BY <2>4, <2>5
  <1> QED BY <1>7

\* The stack trace of an error report names the calls that are active,
\* innermost first, although getStackTrace follows links through memory.
THEOREM TraceIsRight == Spec => []TraceNamesCallers
  <1>1. ASSUME IInv PROVE TraceNamesCallers
    <2>1. ASSUME NEW i \in 1 .. Depth
          PROVE  mem[FramePointers[i] + Half] = callers[Depth + 1 - i].PC
      <3>1. Depth + 1 - i \in 1 .. Depth
        BY <1>1, SequenceFacts DEF IInv, Stacked
      <3>2. FramePointers[i] = FrameOf(Depth + 1 - i)
        BY <1>1, LinksLeadOutwards
      <3> QED BY <1>1, <3>1, <3>2 DEF IInv, Linked
    <2> QED BY <2>1 DEF TraceNamesCallers, StackTrace
  <1> QED BY Invariance, <1>1, PTL

-----------------------------------------------------------------------------
\* The refinement of module FrameStack.

\* A slot of an active frame lies in the stack region, in its frame.
LEMMA SlotInFrame ==
    ASSUME IInv, NEW k \in 1 .. Depth, NEW o \in SlotsOf(frameInfoStack[k])
    PROVE  LET x == FrameOf(k) + o * Slot
           IN  /\ x \in Addresses /\ x + Half \in Addresses
               /\ SP <= x /\ x + Slot <= callers[k].SP
  <1> DEFINE f == frameInfoStack[k]
  <1>1. /\ f.arguments \in Nat /\ f.locals \in Nat
        /\ SP \in HB .. MaxAddress /\ HB \in Nat /\ MaxAddress \in Nat
    BY SequenceFacts, CallStackAssumption DEF IInv, Stacked, TypeOK, Addresses
  <1>2. /\ FrameOf(k) \in Nat
        /\ callers[k].SP = FrameOf(k) + 8 + f.arguments * 8
        /\ callers[k].SP <= MaxAddress
        /\ SP <= FrameOf(k) - f.locals * 8
    BY DEF IInv, Stacked, Bottom, Slot
  <1>3. o \in Int /\ o <= f.arguments /\ - f.locals <= o
    BY <1>1 DEF SlotsOf
  <1> HIDE DEF f
  <1> QED BY <1>1, <1>2, <1>3 DEF Slot, Half, Addresses

\* No two slots of active frames share a word.
LEMMA SlotsApart ==
    ASSUME IInv,
           NEW k \in 1 .. Depth, NEW o \in SlotsOf(frameInfoStack[k]),
           NEW j \in 1 .. Depth, NEW p \in SlotsOf(frameInfoStack[j]),
           k # j \/ o # p
    PROVE  LET x == FrameOf(k) + o * Slot
               y == FrameOf(j) + p * Slot
           IN  x + Slot <= y \/ y + Slot <= x
  <1> DEFINE f == frameInfoStack
  <1>1. /\ f[k].arguments \in Nat /\ f[k].locals \in Nat
        /\ f[j].arguments \in Nat /\ f[j].locals \in Nat
        /\ Depth \in Nat
    BY SequenceFacts DEF IInv, Stacked
  <1>2. /\ FrameOf(k) \in Nat /\ FrameOf(j) \in Nat
        /\ callers[k].SP = FrameOf(k) + 8 + f[k].arguments * 8
        /\ callers[j].SP = FrameOf(j) + 8 + f[j].arguments * 8
    BY DEF IInv, Stacked, Slot
  <1>3. /\ j < k => callers[k].SP <= FrameOf(j) - f[j].locals * 8
        /\ k < j => callers[j].SP <= FrameOf(k) - f[k].locals * 8
    BY DEF IInv, Stacked, Bottom, Slot
  <1>4. /\ o \in Int /\ o <= f[k].arguments /\ - f[k].locals <= o
        /\ p \in Int /\ p <= f[j].arguments /\ - f[j].locals <= p
    BY <1>1 DEF SlotsOf
  <1> HIDE DEF f
  <1>5. CASE k = j
    BY <1>5, <1>2, <1>4 DEF Slot
  <1>6. CASE k # j
    BY <1>6, <1>1, <1>2, <1>3, <1>4 DEF Slot
  <1> QED BY <1>5, <1>6

\* The slots of a frame that was just pushed.
LEMMA NewFrameSlots ==
    ASSUME NEW m \in Methods, NEW args \in [1 .. m.arguments -> Values],
           NEW link \in Value, NEW fp \in Nat, NEW o \in SlotsOf(m)
    PROVE  LET x == fp + o * Slot
               v == IF o > 0 THEN args[m.arguments + 1 - o] ELSE Zero
           IN  /\ FrameByte(m, args, link, fp, x) = v.low
               /\ FrameByte(m, args, link, fp, x + Half) = v.high
               /\ v = [low |-> v.low, high |-> v.high]
  <1>1. m.arguments \in Nat /\ m.locals \in Nat
    BY MethodFacts
  <1>2. o \in Int /\ o # 0 /\ o <= m.arguments
    BY <1>1 DEF SlotsOf
  <1>3. CASE o > 0
    <2>x. PICK x \in Int : x = fp + o * 8
      BY <1>2
    <2>v. PICK v : v = args[m.arguments + 1 - o]
      OBVIOUS
    <2>1. /\ (x - fp) \div 8 = o /\ (x - fp) % 8 = 0
          /\ (x + 4 - fp) \div 8 = o /\ (x + 4 - fp) % 8 = 4
          /\ ~ (x < fp) /\ ~ (x + 4 < fp)
      <3>1. x - fp = o * 8 /\ x + 4 - fp = o * 8 + 4
        BY <2>x, <1>2
      <3> QED BY <2>x, <1>2, <1>3, <3>1
    <2>2. v \in Value
      <3>1. m.arguments + 1 - o \in 1 .. m.arguments
        BY <1>1, <1>2, <1>3
      <3> QED BY <2>v, <3>1, CallStackAssumption
    <2>3. ASSUME NEW a, ~ (a < fp), (a - fp) \div 8 = o
          PROVE  FrameByte(m, args, link, fp, a) = Word(v, (a - fp) % 8)
      <3>1. FrameByte(m, args, link, fp, a) =
               Word(IF (a - fp) \div 8 = 0 THEN link
                    ELSE args[m.arguments + 1 - ((a - fp) \div 8)], (a - fp) % 8)
        BY <2>3 DEF FrameByte, Slot
      <3>2. FrameByte(m, args, link, fp, a) =
               Word(IF o = 0 THEN link ELSE args[m.arguments + 1 - o], (a - fp) % 8)
        BY <3>1, <2>3, Zenon
      <3> QED BY <3>2, <1>2, <2>v, Zenon
    <2>4. FrameByte(m, args, link, fp, x) = Word(v, (x - fp) % 8)
      BY <2>1, <2>3, Zenon
    <2>5. FrameByte(m, args, link, fp, x + 4) = Word(v, (x + 4 - fp) % 8)
      <3>1. PICK y \in Int : y = x + 4
        OBVIOUS
      <3>2. ~ (y < fp) /\ (y - fp) \div 8 = o
        BY <2>1, <3>1
      <3>3. FrameByte(m, args, link, fp, y) = Word(v, (y - fp) % 8)
        BY <3>2, <2>3, Zenon
      <3> QED BY <3>1, <3>3
    <2>6. Word(v, 0) = v.low /\ Word(v, 4) = v.high
      BY DEF Word, Half
    <2>7. v = [low |-> v.low, high |-> v.high]
      BY <2>2 DEF Value
    <2>8. /\ FrameByte(m, args, link, fp, x) = v.low
          /\ FrameByte(m, args, link, fp, x + 4) = v.high
      BY <2>1, <2>4, <2>5, <2>6, Zenon
    <2> QED BY <1>3, <2>x, <2>v, <2>7, <2>8, Zenon DEF Slot, Half
  <1>4. CASE ~ (o > 0)
    <2>1. fp + o * 8 < fp /\ fp + o * 8 + 4 < fp
      BY <1>2, <1>4
    <2> QED BY <1>4, <2>1 DEF FrameByte, Slot, Half, Zero
  <1> QED BY <1>3, <1>4

\* A function with domain 1 .. n is a sequence of length n.
LEMMA FunctionIsSequence ==
    ASSUME NEW S, NEW n \in Nat, NEW f \in [1 .. n -> S]
    PROVE  f \in Seq(S) /\ Len(f) = n
  <1>1. f \in Seq(S)
    BY SeqDef
  <1>2. Len(f) \in Nat /\ DOMAIN f = 1 .. Len(f)
    BY <1>1, LenProperties
  <1>3. 1 .. Len(f) = 1 .. n
    BY <1>2
  <1>4. Len(f) = n
    <2>1. Len(f) \in 1 .. n \/ Len(f) = 0
      BY <1>2, <1>3
    <2>2. n \in 1 .. Len(f) \/ n = 0
      BY <1>3
    <2> QED BY <1>2, <2>1, <2>2
  <1> QED BY <1>1, <1>4

\* A function that is f with one more element at its end.
LEMMA IsAppend ==
    ASSUME NEW n \in Nat, NEW e,
           NEW f, f = [i \in 1 .. n |-> f[i]],
           NEW g, g = [i \in 1 .. (n + 1) |-> g[i]],
           \A i \in 1 .. n : g[i] = f[i], g[n + 1] = e
    PROVE  g = Append(f, e)
  <1> DEFINE S == {f[i] : i \in 1 .. n} \cup {e}
  <1>1. f \in [1 .. n -> S] /\ e \in S
    OBVIOUS
  <1>2. g \in [1 .. (n + 1) -> S]
    <2>1. ASSUME NEW i \in 1 .. (n + 1) PROVE g[i] \in S
      BY i \in 1 .. n \/ i = n + 1
    <2> QED BY <2>1
  <1> HIDE DEF S
  <1>3. f \in Seq(S) /\ Len(f) = n
    BY <1>1, FunctionIsSequence
  <1>4. g \in Seq(S) /\ Len(g) = n + 1
    BY <1>2, FunctionIsSequence
  <1>5. /\ Append(f, e) \in Seq(S) /\ Len(Append(f, e)) = n + 1
        /\ \A i \in 1 .. n : Append(f, e)[i] = f[i]
        /\ Append(f, e)[n + 1] = e
    BY <1>1, <1>3, AppendProperties
  <1>6. \A i \in 1 .. (n + 1) : g[i] = Append(f, e)[i]
    <2>1. \A i \in 1 .. (n + 1) : i \in 1 .. n \/ i = n + 1
      OBVIOUS
    <2> QED BY <1>5, <2>1
  <1> QED BY <1>4, <1>5, <1>6, SeqEqual

\* A function that is f without its last element.
LEMMA IsFront ==
    ASSUME NEW n \in Nat \ {0},
           NEW f, f = [i \in 1 .. n |-> f[i]],
           NEW g, g = [i \in 1 .. (n - 1) |-> g[i]],
           \A i \in 1 .. (n - 1) : g[i] = f[i]
    PROVE  g = SubSeq(f, 1, n - 1)
  <1> DEFINE S == {f[i] : i \in 1 .. n}
  <1>1. g \in [1 .. (n - 1) -> S] /\ \A i \in 1 .. (n - 1) : f[i] \in S
    <2>1. \A i \in 1 .. (n - 1) : i \in 1 .. n
      OBVIOUS
    <2> QED BY <2>1
  <1> HIDE DEF S
  <1>2. g \in Seq(S) /\ Len(g) = n - 1
    BY <1>1, FunctionIsSequence
  <1>3. /\ SubSeq(f, 1, n - 1) \in Seq(S)
        /\ Len(SubSeq(f, 1, n - 1)) = IF 1 <= n - 1 THEN n - 1 - 1 + 1 ELSE 0
        /\ \A i \in 1 .. (n - 1 - 1 + 1) : SubSeq(f, 1, n - 1)[i] = f[1 + i - 1]
    BY <1>1, SubSeqProperties
  <1>4. /\ Len(SubSeq(f, 1, n - 1)) = n - 1
        /\ \A i \in 1 .. (n - 1) : SubSeq(f, 1, n - 1)[i] = f[i]
    BY <1>3
  <1> QED BY <1>2, <1>3, <1>4, SeqEqual

\* FrameStack measures frames as CallStack does.
LEMMA PromiseTerms ==
    /\ \A m : Promise!SlotsOf(m) = SlotsOf(m)
    /\ \A m : Promise!FrameBytes(m) = FrameBytes(m)
    /\ Promise!Zero = Zero
  BY DEF Promise!SlotsOf, SlotsOf, Promise!FrameBytes, FrameBytes,
         Promise!Slot, Slot, Promise!Zero, Zero

\* The frame of one active call, as FrameStack sees it.
Frame(k) ==
    [method |-> frameInfoStack[k],
     return |-> callers[k].PC,
     slots  |-> [o \in SlotsOf(frameInfoStack[k]) |-> Read64(FrameOf(k) + o * Slot)]]

\* The refinement mapping yields a sequence with one frame per active call.
LEMMA FramesShape ==
    ASSUME IInv
    PROVE  /\ Frames_ = [k \in 1 .. Depth |-> Frames_[k]]
           /\ Len(Frames_) = Depth /\ Depth \in Nat
           /\ DOMAIN Frames_ = 1 .. Depth
           /\ \A k \in 1 .. Depth : Frames_[k] = Frame(k)
           /\ Depth # 0 => Frames_ # <<>>
           /\ (frameInfoStack = <<>>) <=> (Depth = 0)
           /\ Depth = 0 => Frames_ = <<>>
  <1>1. Depth \in Nat /\ frameInfoStack \in Seq(Methods)
    BY SequenceFacts DEF IInv, Stacked, TypeOK
  <1>2. Frames_ = [k \in 1 .. Depth |-> Frame(k)]
    BY DEF Frames_, Frame
  <1>3. Frames_ \in [1 .. Depth -> {Frame(k) : k \in 1 .. Depth}]
    BY <1>2
  <1>4. Frames_ \in Seq({Frame(k) : k \in 1 .. Depth}) /\ Len(Frames_) = Depth
    BY <1>1, <1>3, FunctionIsSequence
  <1>5. Depth # 0 => Frames_ # <<>>
    BY <1>4, EmptySeq
  <1>6. (frameInfoStack = <<>>) <=> (Depth = 0)
    BY <1>1, EmptySeq DEF Depth
  <1>7. Depth = 0 => Frames_ = <<>>
    BY <1>4, EmptySeq
  <1> QED BY <1>1, <1>2, <1>4, <1>5, <1>6, <1>7

\* A call adds a frame with the arguments and zeroed locals and leaves the
\* older ones alone.
LEMMA CallMaps ==
    ASSUME IInv, NEW m \in Methods, NEW site \in Sites,
           NEW args \in [1 .. m.arguments -> Values], Call(m, args, site)
    PROVE  Promise!Call(m, args, site)
  <1>d. PICK d : d = Depth
    OBVIOUS
  <1>f. PICK fp : fp = SP - (m.arguments * 8 + 8)
    OBVIOUS
  <1>l. PICK link : link = [low |-> FP, high |-> site]
    OBVIOUS
  <1>c. PICK call : call = [FP |-> FP, SP |-> SP, PC |-> site]
    OBVIOUS
  <1>1. /\ m.arguments \in Nat /\ m.locals \in Nat
        /\ FrameBytes(m) = m.arguments * 8 + 8 + m.locals * 8
        /\ FrameBytes(m) \in Nat
    BY MethodFacts
  <1>2. /\ IInv' /\ d \in Nat /\ Len(callers) = d /\ Len(frameInfoStack) = d
        /\ frameInfoStack \in Seq(Methods)
        /\ callers \in Seq([FP : Nat, SP : Nat, PC : Nat])
        /\ HB \in Nat /\ MaxAddress \in Nat /\ mem \in [Addresses -> Nat]
        /\ SP \in HB .. MaxAddress /\ HP \in HB .. MaxAddress /\ FP \in Nat
        /\ site \in Nat
    BY <1>d, CallIInv, SequenceFacts, CallStackAssumption
    DEF IInv, Stacked, TypeOK, Addresses, Depth
  <1>3. /\ FP' = fp /\ SP' = SP - FrameBytes(m) /\ HP' = HP
        /\ PC' = m.entry /\ status' = status /\ status = "running"
        /\ frameInfoStack' = Append(frameInfoStack, m)
        /\ callers' = Append(callers, call)
        /\ mem' = [a \in Addresses |-> IF SP' <= a /\ a < SP
                                       THEN FrameByte(m, args, link, fp, a)
                                       ELSE mem[a]]
    BY <1>f, <1>l, <1>c DEF Call, Slot
  <1>4. HP + FrameBytes(m) < SP
    <2>1. ~ Overflows(m)
      BY DEF Call
    <2> QED BY <2>1, <1>1, <1>2 DEF Overflows, Wrapped
  <1>5. /\ Depth' = d + 1
        /\ \A k \in 1 .. d : frameInfoStack'[k] = frameInfoStack[k]
        /\ frameInfoStack'[d + 1] = m
    BY <1>2, <1>3, AppendProperties DEF Depth
  <1>6. /\ \A k \in 1 .. d : callers'[k] = callers[k]
        /\ callers'[d + 1] = call
    <2>1. call \in [FP : Nat, SP : Nat, PC : Nat]
      BY <1>c, <1>2
    <2> QED BY <2>1, <1>2, <1>3, AppendProperties
  <1>7. FrameOf(d + 1)' = fp
    BY <1>3, <1>5 DEF FrameOf
  <1>8. ASSUME NEW k \in 1 .. d PROVE FrameOf(k)' = FrameOf(k)
    <2>1. FrameOf(k)' = callers'[k + 1].FP
      BY <1>2, <1>5 DEF FrameOf
    <2>2. CASE k = d
      BY <2>1, <2>2, <1>c, <1>d, <1>6 DEF FrameOf
    <2>3. CASE k # d
      <3>1. k + 1 \in 1 .. d
        BY <2>3, <1>2
      <3> QED BY <2>1, <2>3, <3>1, <1>6, <1>d DEF FrameOf
    <2> QED BY <2>2, <2>3
  \* The older frames lie above the old stack pointer.
  <1>9. ASSUME NEW k \in 1 .. d PROVE Frame(k)' = Frame(k)
    <2>1. ASSUME NEW o \in SlotsOf(frameInfoStack[k])
          PROVE  Read64(FrameOf(k) + o * Slot)' = Read64(FrameOf(k) + o * Slot)
      <3>x. PICK x : x = FrameOf(k) + o * Slot
        OBVIOUS
      <3>1. x \in Addresses /\ x + Half \in Addresses /\ SP <= x
        BY <3>x, <1>d, SlotInFrame
      <3>2. mem'[x] = mem[x] /\ mem'[x + Half] = mem[x + Half]
        BY <3>1, <1>2, <1>3 DEF Addresses, Half
      <3> QED BY <3>x, <3>2, <1>8 DEF Read64
    <2>2. frameInfoStack'[k] = frameInfoStack[k] /\ callers'[k] = callers[k]
      BY <1>5, <1>6
    <2> QED BY <2>1, <2>2 DEF Frame
  <1>10. Frame(d + 1)' = [method |-> m, return |-> site,
                          slots  |-> Promise!NewSlots(m, args)]
    <2>1. ASSUME NEW o \in SlotsOf(m)
          PROVE  Read64(FrameOf(d + 1) + o * Slot)' =
                    IF o > 0 THEN args[m.arguments + 1 - o] ELSE Zero
      <3>x. PICK x : x = fp + o * Slot
        OBVIOUS
      <3>v. PICK v : v = IF o > 0 THEN args[m.arguments + 1 - o] ELSE Zero
        OBVIOUS
      <3>1. d + 1 \in 1 .. Depth'
        BY <1>2, <1>5
      <3>2. /\ x \in Addresses /\ x + Half \in Addresses
            /\ SP' <= x /\ x + Slot <= SP
        <4>1. PICK n \in Nat, l \in Nat : n = m.arguments /\ l = m.locals
          BY <1>1
        <4>2. o \in Int /\ o <= n /\ - l <= o
          BY <4>1 DEF SlotsOf
        <4>3. HB <= SP' /\ SP' \in Int
          <5>1. /\ HB \in Nat /\ HP \in Nat /\ SP \in Nat /\ FrameBytes(m) \in Nat
                /\ HB <= HP
            BY <1>1, <1>2
          <5> QED BY <5>1, <1>3, <1>4
        <4>4. FrameBytes(m) = n * 8 + 8 + l * 8 /\ fp = SP - (n * 8 + 8)
          BY <4>1, <1>1, <1>f
        <4>5. SP = fp + 8 + n * 8 /\ SP' = fp - l * 8 /\ fp \in Int
          BY <4>4, <1>2, <1>3
        <4> QED BY <3>x, <4>2, <4>3, <4>5, <1>2 DEF Addresses, Slot, Half
      <3>3. /\ mem'[x] = FrameByte(m, args, link, fp, x)
            /\ mem'[x + Half] = FrameByte(m, args, link, fp, x + Half)
        <4>1. SP' \in Int
          BY <1>1, <1>2, <1>3
        <4> QED BY <3>2, <4>1, <1>2, <1>3 DEF Addresses, Slot, Half
      <3>4. fp \in Nat /\ link \in Value
        <4>1. FrameOf(d + 1)' \in Nat
          BY <1>2, <3>1 DEF IInv, Stacked
        <4> QED BY <4>1, <1>2, <1>7, <1>l DEF Value
      <3>5. mem'[x] = v.low /\ mem'[x + Half] = v.high
            /\ v = [low |-> v.low, high |-> v.high]
        BY <3>x, <3>v, <3>3, <3>4, NewFrameSlots
      <3>6. Read64(FrameOf(d + 1) + o * Slot)' = [low |-> mem'[x], high |-> mem'[x + Half]]
        BY <3>x, <1>7 DEF Read64
      <3> QED BY <3>v, <3>5, <3>6
    <2>2. frameInfoStack'[d + 1] = m /\ callers'[d + 1].PC = site
      BY <1>c, <1>5, <1>6
    <2>3. Promise!NewSlots(m, args) =
             [o \in SlotsOf(m) |-> IF o > 0 THEN args[m.arguments + 1 - o] ELSE Zero]
      BY PromiseTerms DEF Promise!NewSlots
    <2> QED BY <2>1, <2>2, <2>3 DEF Frame
  <1>11. Frames_' = Append(Frames_, [method |-> m, return |-> site,
                                     slots  |-> Promise!NewSlots(m, args)])
    <2>1. /\ Frames_ = [k \in 1 .. d |-> Frames_[k]]
          /\ \A k \in 1 .. d : Frames_[k] = Frame(k)
      BY <1>d, FramesShape
    <2>2. /\ Frames_' = [k \in 1 .. (d + 1) |-> Frames_'[k]]
          /\ \A k \in 1 .. (d + 1) : Frames_'[k] = Frame(k)'
      BY <1>5 DEF Frames_, Frame
    <2>3. \A k \in 1 .. d : k \in 1 .. (d + 1) /\ d + 1 \in 1 .. (d + 1)
      BY <1>2
    <2>4. /\ \A k \in 1 .. d : Frames_'[k] = Frames_[k]
          /\ Frames_'[d + 1] = Frame(d + 1)'
      BY <2>1, <2>2, <2>3, <1>2, <1>9
    <2> QED BY <2>1, <2>2, <2>4, <1>2, <1>10, IsAppend
  <1> QED BY <1>3, <1>4, <1>11, PromiseTerms DEF Promise!Call

\* A return takes the last frame off and leaves the others alone.
LEMMA RetMaps ==
    ASSUME IInv, Ret
    PROVE  Promise!Ret
  <1>d. PICK d : d = Depth
    OBVIOUS
  <1>1. /\ d \in Nat \ {0} /\ d \in 1 .. d /\ d - 1 \in Nat
        /\ frameInfoStack \in Seq(Methods) /\ Len(frameInfoStack) = d
        /\ callers \in Seq([FP : Nat, SP : Nat, PC : Nat]) /\ Len(callers) = d
    BY <1>d, RetFacts DEF IInv, Stacked, TypeOK, Depth
  <1>2. /\ FP' = callers[d].FP /\ PC' = callers[d].PC
        /\ SP' = SP + FrameBytes(frameInfoStack[d])
        /\ frameInfoStack' = SubSeq(frameInfoStack, 1, d - 1)
        /\ callers' = SubSeq(callers, 1, d - 1)
        /\ HP' = HP /\ mem' = mem /\ status' = status /\ status = "running"
    BY <1>d, RetFacts DEF Ret, Current
  <1>3. /\ Depth' = d - 1
        /\ \A k \in 1 .. (d - 1) : /\ frameInfoStack'[k] = frameInfoStack[k]
                                   /\ callers'[k] = callers[k]
    <2>1. \A k \in 1 .. (d - 1) : /\ frameInfoStack[k] \in Methods
                                  /\ callers[k] \in [FP : Nat, SP : Nat, PC : Nat]
      <3>1. \A k \in 1 .. (d - 1) : k \in 1 .. d
        BY <1>1
      <3> QED BY <3>1, <1>1, ElementOfSeq
    <2>a. PICK e \in Nat : e = d - 1 /\ e \in 0 .. d
      BY <1>1
    <2>2. /\ Len(SubSeq(frameInfoStack, 1, e)) = e
          /\ \A k \in 1 .. e : SubSeq(frameInfoStack, 1, e)[k] = frameInfoStack[k]
      <3>1. PICK f \in Seq(Methods) : f = frameInfoStack
        BY <1>1
      <3>2. Len(f) = d /\ \A k \in 1 .. e : f[k] \in Methods
        BY <3>1, <1>1, <2>1, <2>a
      <3>3. Len(SubSeq(f, 1, e)) = e /\ \A k \in 1 .. e : SubSeq(f, 1, e)[k] = f[k]
        BY <3>2, <2>a, SubSeqProperties
      <3> QED BY <3>1, <3>3, Zenon
    <2>3. \A k \in 1 .. e : SubSeq(callers, 1, e)[k] = callers[k]
      <3>1. PICK f \in Seq([FP : Nat, SP : Nat, PC : Nat]) : f = callers
        BY <1>1
      <3>2. Len(f) = d /\ \A k \in 1 .. e : f[k] \in [FP : Nat, SP : Nat, PC : Nat]
        BY <3>1, <1>1, <2>1, <2>a
      <3>3. \A k \in 1 .. e : SubSeq(f, 1, e)[k] = f[k]
        BY <3>2, <2>a, SubSeqProperties
      <3> QED BY <3>1, <3>3, Zenon
    <2> QED BY <1>2, <2>a, <2>2, <2>3 DEF Depth
  <1>4. ASSUME NEW k \in 1 .. (d - 1) PROVE FrameOf(k)' = FrameOf(k)
    <2>1. FrameOf(k) = callers[k + 1].FP
      BY <1>1, <1>d DEF FrameOf
    <2>2. FrameOf(k)' = IF k = d - 1 THEN FP' ELSE callers'[k + 1].FP
      BY <1>3 DEF FrameOf
    <2>3. CASE k = d - 1
      BY <2>1, <2>2, <2>3, <1>1, <1>2
    <2>4. CASE k # d - 1
      <3>1. k + 1 \in 1 .. (d - 1)
        BY <2>4, <1>1
      <3> QED BY <2>1, <2>2, <2>4, <3>1, <1>3
    <2> QED BY <2>3, <2>4
  <1>5. \A k \in 1 .. (d - 1) : Frame(k)' = Frame(k)
    BY <1>2, <1>3, <1>4 DEF Frame, Read64
  <1>6. /\ Frames_ = [k \in 1 .. d |-> Frames_[k]]
        /\ \A k \in 1 .. d : Frames_[k] = Frame(k)
        /\ Len(Frames_) = d /\ Frames_ # <<>>
    BY <1>d, <1>1, FramesShape
  <1>7. /\ Frames_' = [k \in 1 .. (d - 1) |-> Frames_'[k]]
        /\ \A k \in 1 .. (d - 1) : Frames_'[k] = Frame(k)'
    BY <1>3 DEF Frames_, Frame
  <1>8. Frames_' = SubSeq(Frames_, 1, d - 1)
    <2>1. \A k \in 1 .. (d - 1) : k \in 1 .. d
      BY <1>1
    <2>2. \A k \in 1 .. (d - 1) : Frames_'[k] = Frames_[k]
      BY <2>1, <1>5, <1>6, <1>7
    <2>3. PICK f, g : f = Frames_ /\ g = Frames_'
      OBVIOUS
    <2>4. /\ f = [k \in 1 .. d |-> f[k]]
          /\ g = [k \in 1 .. (d - 1) |-> g[k]]
          /\ \A k \in 1 .. (d - 1) : g[k] = f[k]
      BY <2>2, <2>3, <1>6, <1>7, Zenon
    <2>5. g = SubSeq(f, 1, d - 1)
      BY <2>4, <1>1, IsFront
    <2> QED BY <2>3, <2>5, Zenon
  <1>9. Frames_[d].return = callers[d].PC /\ Frames_[d].method = frameInfoStack[d]
    <2>1. Frame(d).return = callers[d].PC /\ Frame(d).method = frameInfoStack[d]
      BY DEF Frame
    <2> QED BY <2>1, <1>1, <1>6
  <1> QED BY <1>2, <1>6, <1>8, <1>9, PromiseTerms DEF Promise!Ret, Promise!Top

\* A step that moves no frame: each frame keeps its method and its place.
LEMMA FramesStay ==
    ASSUME IInv, UNCHANGED <<FP, frameInfoStack, callers>>
    PROVE  /\ Depth' = Depth
           /\ \A k : FrameOf(k)' = FrameOf(k)
           /\ Frames_' = [k \in 1 .. Depth |-> Frame(k)']
           /\ \A k : Frame(k)' =
                [method |-> frameInfoStack[k],
                 return |-> callers[k].PC,
                 slots  |-> [o \in SlotsOf(frameInfoStack[k]) |->
                                [low  |-> mem'[FrameOf(k) + o * Slot],
                                 high |-> mem'[FrameOf(k) + o * Slot + Half]]]]
  <1>1. Depth' = Depth /\ \A k : FrameOf(k)' = FrameOf(k)
    BY DEF Depth, FrameOf
  <1> QED BY <1>1 DEF Frames_, Frame, Read64

\* A step that stores nothing and moves no frame is no step of the frames.
LEMMA NothingStoredMaps ==
    ASSUME IInv, UNCHANGED <<FP, frameInfoStack, callers, mem>>
    PROVE  Frames_' = Frames_
  BY DEF Frames_, Depth, FrameOf, Read64

\* A store changes the named slot of the named frame and nothing else.
LEMMA SlotStoreMaps ==
    ASSUME IInv, status = "running",
           NEW k \in 1 .. Depth, NEW o \in SlotsOf(frameInfoStack[k]),
           NEW v \in Values,
           UNCHANGED <<FP, SP, HP, PC, frameInfoStack, callers, status>>
    PROVE  /\ mem' = Write64(FrameOf(k) + o * Slot, v) => Promise!StoreSlot(k, o, v)
           /\ mem' = [mem EXCEPT ![FrameOf(k) + o * Slot] = v.low]
                => Promise!StoreLowHalf(k, o, v)
  <1>x. PICK x : x = FrameOf(k) + o * Slot
    OBVIOUS
  <1>1. /\ v = [low |-> v.low, high |-> v.high]
        /\ mem \in [Addresses -> Nat] /\ Addresses \subseteq Int
        /\ x \in Addresses /\ x + Half \in Addresses
    <2>1. v = [low |-> v.low, high |-> v.high]
      BY CallStackAssumption DEF Value
    <2>2. mem \in [Addresses -> Nat] /\ Addresses \subseteq Int
      BY CallStackAssumption DEF IInv, TypeOK, Addresses
    <2>3. x \in Addresses /\ x + Half \in Addresses
      BY <1>x, SlotInFrame
    <2> QED BY <2>1, <2>2, <2>3
  <1>2. ASSUME NEW j \in 1 .. Depth, NEW p \in SlotsOf(frameInfoStack[j]),
               j # k \/ p # o
        PROVE  LET y == FrameOf(j) + p * Slot
               IN  y # x /\ y # x + Half /\ y + Half # x /\ y + Half # x + Half
    <2>y. PICK y : y = FrameOf(j) + p * Slot
      OBVIOUS
    <2>1. y \in Addresses /\ (x + Slot <= y \/ y + Slot <= x)
      BY <1>x, <2>y, <1>2, SlotInFrame, SlotsApart
    <2> QED BY <2>y, <2>1, <1>1 DEF Slot, Half
  <1>3. /\ Frames_ = [j \in 1 .. Depth |-> Frames_[j]]
        /\ \A j \in 1 .. Depth : Frames_[j] = Frame(j)
    BY FramesShape
  <1>4. /\ Frames_' = [j \in 1 .. Depth |-> Frame(j)']
        /\ \A j : Frame(j)' =
             [method |-> frameInfoStack[j],
              return |-> callers[j].PC,
              slots  |-> [p \in SlotsOf(frameInfoStack[j]) |->
                             [low  |-> mem'[FrameOf(j) + p * Slot],
                              high |-> mem'[FrameOf(j) + p * Slot + Half]]]]
    BY FramesStay
  <1>5. \A j : Frame(j) =
             [method |-> frameInfoStack[j],
              return |-> callers[j].PC,
              slots  |-> [p \in SlotsOf(frameInfoStack[j]) |->
                             [low  |-> mem[FrameOf(j) + p * Slot],
                              high |-> mem[FrameOf(j) + p * Slot + Half]]]]
    BY DEF Frame, Read64
  <1>6. o \in Promise!SlotsOf(Frames_[k].method)
    BY <1>3, <1>5, PromiseTerms
  <1>7. ASSUME NEW w, NEW high, mem' = [mem EXCEPT ![x] = w, ![x + Half] = high]
        PROVE  Frames_' = [Frames_ EXCEPT ![k].slots[o] = [low |-> w, high |-> high]]
    <2>1. /\ mem'[x] = w /\ mem'[x + Half] = high
          /\ \A y \in Addresses : y # x /\ y # x + Half => mem'[y] = mem[y]
      BY <1>1, <1>7 DEF Half
    <2>2. ASSUME NEW j \in 1 .. Depth, j # k
          PROVE  Frame(j)' = Frame(j)
      <3>1. ASSUME NEW p \in SlotsOf(frameInfoStack[j])
            PROVE  /\ mem'[FrameOf(j) + p * Slot] = mem[FrameOf(j) + p * Slot]
                   /\ mem'[FrameOf(j) + p * Slot + Half] = mem[FrameOf(j) + p * Slot + Half]
        BY <2>1, <2>2, <1>2, SlotInFrame
      <3> QED BY <3>1, <1>4, <1>5
    <2>3. /\ Frame(k)'.method = Frame(k).method
          /\ Frame(k)'.return = Frame(k).return
          /\ Frame(k)'.slots = [Frame(k).slots EXCEPT ![o] = [low |-> w, high |-> high]]
      <3>1. ASSUME NEW p \in SlotsOf(frameInfoStack[k]), p # o
            PROVE  /\ mem'[FrameOf(k) + p * Slot] = mem[FrameOf(k) + p * Slot]
                   /\ mem'[FrameOf(k) + p * Slot + Half] = mem[FrameOf(k) + p * Slot + Half]
        BY <2>1, <3>1, <1>2, SlotInFrame
      <3>2. /\ Frame(k)'.method = Frame(k).method
            /\ Frame(k)'.return = Frame(k).return
        BY <1>4, <1>5
      <3>3. Frame(k)'.slots = [p \in SlotsOf(frameInfoStack[k]) |->
                                 [low  |-> mem'[FrameOf(k) + p * Slot],
                                  high |-> mem'[FrameOf(k) + p * Slot + Half]]]
        BY <1>4
      <3>4. Frame(k).slots = [p \in SlotsOf(frameInfoStack[k]) |->
                                 [low  |-> mem[FrameOf(k) + p * Slot],
                                  high |-> mem[FrameOf(k) + p * Slot + Half]]]
        BY <1>5
      <3> QED BY <3>1, <3>2, <3>3, <3>4, <2>1, <1>x
    <2>4. Frame(k)' = [Frame(k) EXCEPT !.slots =
                          [Frame(k).slots EXCEPT ![o] = [low |-> w, high |-> high]]]
      BY <2>3, <1>4, <1>5
    <2>5. Frames_ = [j \in 1 .. Depth |-> Frame(j)]
      BY <1>3
    <2>6. Frames_' = [Frames_ EXCEPT ![k] = Frame(k)']
      BY <2>2, <2>5, <1>4
    <2> QED BY <2>4, <2>5, <2>6
  <1>8. ASSUME mem' = Write64(x, v)
        PROVE  Promise!StoreSlot(k, o, v)
    <2>1. Frames_' = [Frames_ EXCEPT ![k].slots[o] = v]
      BY <1>1, <1>7, <1>8 DEF Write64
    <2> QED BY <2>1, <1>6 DEF Promise!StoreSlot
  <1>9. ASSUME mem' = [mem EXCEPT ![x] = v.low]
        PROVE  Promise!StoreLowHalf(k, o, v)
    <2>1. mem' = [mem EXCEPT ![x] = v.low, ![x + Half] = mem[x + Half]]
      <3>1. mem = [mem EXCEPT ![x + Half] = mem[x + Half]]
        BY <1>1
      <3>2. x # x + Half
        BY <1>1 DEF Half
      <3> QED BY <3>1, <3>2, <1>1, <1>9
    <2>2. Frames_' = [Frames_ EXCEPT ![k].slots[o] = [low |-> v.low, high |-> mem[x + Half]]]
      BY <2>1, <1>7
    <2>3. Frames_[k].slots[o] = [low |-> mem[x], high |-> mem[x + Half]]
      BY <1>x, <1>3, <1>5
    <2>4. Frames_' = [Frames_ EXCEPT ![k].slots[o].low = v.low]
      <3>1. [Frames_[k].slots[o] EXCEPT !.low = v.low] = [low |-> v.low, high |-> mem[x + Half]]
        BY <2>3
      <3> QED BY <2>2, <3>1, Zenon
    <2> QED BY <2>4, <1>6 DEF Promise!StoreLowHalf
  <1> QED BY <1>x, <1>8, <1>9

\* A call is refused exactly when its frame does not fit above the heap.
LEMMA OverflowMaps ==
    ASSUME IInv, NEW m \in Methods, CallOverflow(m)
    PROVE  Promise!Overflow(m)
  <1>1. /\ FrameBytes(m) \in Nat
        /\ HB \in Nat /\ MaxAddress \in Nat
        /\ SP \in HB .. MaxAddress /\ HP \in HB .. MaxAddress
    BY MethodFacts, CallStackAssumption DEF IInv, TypeOK, Addresses
  <1>2. Overflows(m) /\ status = "running" /\ status' = "STACK_OVERFLOW"
        /\ UNCHANGED <<FP, SP, HP, PC, mem, frameInfoStack, callers>>
    BY DEF CallOverflow
  <1>3. HP + FrameBytes(m) >= SP
    BY <1>1, <1>2 DEF Overflows, Wrapped
  <1>4. Frames_' = Frames_
    BY <1>2, NothingStoredMaps
  <1> QED BY <1>2, <1>3, <1>4, PromiseTerms DEF Promise!Overflow

\* A return without an active call fails in both.
LEMMA RetEmptyMaps ==
    ASSUME IInv, RetEmpty
    PROVE  Promise!RetEmpty
  <1>1. Frames_' = Frames_ /\ Frames_ = <<>>
    BY NothingStoredMaps, FramesShape DEF RetEmpty
  <1> QED BY <1>1 DEF RetEmpty, Promise!RetEmpty

\* `loadL` and `storeL` reach the slots of the current frame and no others.
LEMMA OffsetsOfCurrentFrame ==
    ASSUME IInv, NEW o \in Offsets
    PROVE  ValidOffset(o) <=> /\ Depth \in 1 .. Depth
                              /\ o \in SlotsOf(frameInfoStack[Depth])
  <1>1. (frameInfoStack = <<>>) <=> (Depth = 0)
    BY FramesShape
  <1>2. Depth \in Nat /\ (Depth # 0 => Depth \in 1 .. Depth)
    BY FramesShape
  <1>3. CASE Depth = 0
    BY <1>1, <1>3 DEF ValidOffset
  <1>4. CASE Depth # 0
    <2>1. /\ Current = frameInfoStack[Depth]
          /\ frameInfoStack[Depth].arguments \in Nat
          /\ frameInfoStack[Depth].locals \in Nat
      BY <1>2, <1>4, SequenceFacts DEF IInv, Stacked, Current
    <2>2. o \in Int /\ o # 0
      BY CallStackAssumption
    <2>3. PICK a \in Nat, l \in Nat : /\ a = frameInfoStack[Depth].arguments
                                      /\ l = frameInfoStack[Depth].locals
      BY <2>1
    <2>4. ValidOffset(o) <=> ~ (o > 0 /\ o > a) /\ ~ (- o > l)
      BY <1>1, <1>4, <2>1, <2>3 DEF ValidOffset
    <2>5. o \in SlotsOf(frameInfoStack[Depth]) <=> o <= a /\ - l <= o
      BY <2>2, <2>3 DEF SlotsOf
    <2> QED BY <1>2, <1>4, <2>2, <2>3, <2>4, <2>5
  <1> QED BY <1>3, <1>4

\* `storeL` changes one slot of the current frame.
LEMMA StoreLMaps ==
    ASSUME IInv, NEW o \in Offsets, NEW v \in Values, StoreL(o, v)
    PROVE  /\ Depth \in 1 .. Depth
           /\ Promise!StoreSlot(Depth, o, v)
  <1>1. Depth \in 1 .. Depth /\ o \in SlotsOf(frameInfoStack[Depth])
    BY OffsetsOfCurrentFrame DEF StoreL
  <1>2. mem' = Write64(FrameOf(Depth) + o * Slot, v)
    BY DEF StoreL, FrameOf, FrameAddress
  <1> QED BY <1>1, <1>2, SlotStoreMaps DEF StoreL

\* An offset is refused only when the current frame has no such slot.
LEMMA BadOffsetMaps ==
    ASSUME IInv, NEW o \in Offsets, BadOffset(o)
    PROVE  Promise!BadOffset(o)
  <1>1. Frames_' = Frames_
    BY NothingStoredMaps DEF BadOffset
  <1>2. ASSUME Frames_ # <<>>
        PROVE  o \notin Promise!SlotsOf(Frames_[Promise!Top].method)
    <2>1. Depth \in 1 .. Depth /\ Promise!Top = Depth
      BY <1>2, FramesShape DEF Promise!Top
    <2>2. Frames_[Depth].method = frameInfoStack[Depth]
      BY <2>1, FramesShape DEF Frame
    <2>3. ASSUME o \in SlotsOf(frameInfoStack[Depth]) PROVE FALSE
      <3>1. ValidOffset(o)
        BY <2>1, <2>3, OffsetsOfCurrentFrame
      <3>2. FrameAddress(o) \in Addresses /\ SP <= FrameAddress(o)
        BY <2>1, <2>3, SlotInFrame DEF FrameAddress, FrameOf
      <3> QED BY <3>1, <3>2, CallStackAssumption DEF BadOffset, InStack, Addresses
    <2> QED BY <2>1, <2>2, <2>3, PromiseTerms
  <1> QED BY <1>1, <1>2 DEF BadOffset, Promise!BadOffset

\* A store through a pointer changes one slot, or the low half of it.
LEMMA StorePointerMaps ==
    ASSUME IInv, NEW k \in 1 .. Depth, NEW o \in Offsets, NEW v \in Values
    PROVE  /\ StorePointer(k, o, v) => Promise!StoreSlot(k, o, v)
           /\ StorePointer32(k, o, v) => Promise!StoreLowHalf(k, o, v)
  BY SlotStoreMaps DEF StorePointer, StorePointer32

\* It begins as FrameStack begins.
LEMMA InitMaps == Init => Promise!Init
  <1> SUFFICES ASSUME Init PROVE Promise!Init
    OBVIOUS
  <1>1. Frames_ = <<>>
    BY InitIInv, FramesShape DEF Init
  <1> QED BY <1>1 DEF Init, Promise!Init

\* Every step is one of FrameStack, or none.
LEMMA NextMaps ==
    ASSUME IInv, [Next]_vars
    PROVE  [Promise!Next]_(Promise!vars)
  <1>1. ASSUME NEW m \in Methods, NEW site \in Sites,
               NEW args \in [1 .. m.arguments -> Values], Call(m, args, site)
        PROVE  Promise!Next
    BY <1>1, CallMaps DEF Promise!Next
  <1>2. ASSUME NEW m \in Methods, CallOverflow(m) PROVE Promise!Next
    BY <1>2, OverflowMaps DEF Promise!Next
  <1>3. CASE Ret
    BY <1>3, RetMaps DEF Promise!Next
  <1>4. CASE RetEmpty
    BY <1>4, RetEmptyMaps DEF Promise!Next
  <1>5. ASSUME NEW o \in Offsets, NEW v \in Values, StoreL(o, v)
        PROVE  Promise!Next
    BY <1>5, StoreLMaps, FramesShape DEF Promise!Next
  <1>6. ASSUME NEW o \in Offsets, BadOffset(o) PROVE Promise!Next
    BY <1>6, BadOffsetMaps DEF Promise!Next
  <1>7. ASSUME NEW k \in DOMAIN frameInfoStack, NEW o \in Offsets, NEW v \in Values,
               StorePointer(k, o, v) \/ StorePointer32(k, o, v)
        PROVE  Promise!Next
    <2>1. k \in 1 .. Depth
      BY LenProperties DEF IInv, TypeOK, Depth
    <2>2. k \in DOMAIN Frames_
      BY <2>1, FramesShape
    <2> QED BY <1>7, <2>1, <2>2, StorePointerMaps DEF Promise!Next
  <1>8. ASSUME NEW hp \in HeapTops, GrowHeap(hp) PROVE Promise!Next
    <2>1. Frames_' = Frames_
      BY <1>8, NothingStoredMaps DEF GrowHeap
    <2> QED BY <1>8, <2>1 DEF GrowHeap, Promise!GrowHeap, Promise!Next
  <1>9. CASE UNCHANGED vars
    <2>1. Frames_' = Frames_
      BY <1>9, NothingStoredMaps DEF vars
    <2> QED BY <1>9, <2>1 DEF vars, Promise!vars
  <1> QED BY <1>1, <1>2, <1>3, <1>4, <1>5, <1>6, <1>7, <1>8, <1>9 DEF Next

\* Each instruction is the instruction of that name.
LEMMA InstructionMaps ==
    ASSUME IInv
    PROVE  SameInstruction
  <1>1. ASSUME NEW m \in Methods
        PROVE  /\ CallOverflow(m) => Promise!Overflow(m)
               /\ \A site \in Sites, args \in [1 .. m.arguments -> Values] :
                     Call(m, args, site) => Promise!Call(m, args, site)
    BY CallMaps, OverflowMaps
  <1>2. ASSUME NEW o \in Offsets PROVE BadOffset(o) => Promise!BadOffset(o)
    BY BadOffsetMaps
  <1>3. ASSUME NEW o \in Offsets, NEW v \in Values
        PROVE  /\ StoreL(o, v) => Promise!StoreSlot(Depth, o, v)
               /\ \A k \in 1 .. Depth :
                     /\ StorePointer(k, o, v) => Promise!StoreSlot(k, o, v)
                     /\ StorePointer32(k, o, v) => Promise!StoreLowHalf(k, o, v)
    BY StoreLMaps, StorePointerMaps
  <1> QED BY <1>1, <1>2, <1>3 DEF SameInstruction

\* Each instruction does to the frames what FrameStack says of it, although
\* it works on words of memory through frame pointers that lie there too.
THEOREM FramesImplement == Spec => ImplementsFrameStack
  <1>1. IInv /\ [Next]_vars => [Promise!Next]_(Promise!vars) /\ [SameInstruction]_vars
    BY NextMaps, InstructionMaps
  <1> QED BY Invariance, InitMaps, <1>1, PTL DEF Spec, Promise!Spec, ImplementsFrameStack
-----------------------------------------------------------------------------
\* What the stack and its surroundings may do to each other's memory.

\* The stack writes above the heap only.
LEMMA WritesAboveHeap ==
    ASSUME IInv, [Next]_vars
    PROVE  \A a \in Addresses : a <= HP => mem'[a] = mem[a]
  <1>1. /\ HP \in Nat /\ SP \in Nat /\ HP < SP /\ mem \in [Addresses -> Nat]
        /\ Addresses \subseteq Nat /\ Depth \in Nat /\ frameInfoStack \in Seq(Methods)
    BY SequenceFacts, CallStackAssumption DEF IInv, TypeOK, Stacked, Addresses
  <1>2. ASSUME NEW m \in Methods, NEW site \in Sites,
               NEW args \in [1 .. m.arguments -> Values], Call(m, args, site)
        PROVE  \A a \in Addresses : a <= HP => mem'[a] = mem[a]
    <2>1. PICK sp \in Int : sp = SP - FrameBytes(m) /\ sp > HP
      <3>1. FrameBytes(m) \in Nat /\ FrameBytes(m) <= SP
            /\ ~ (Wrapped(SP - FrameBytes(m)) <= HP)
        BY <1>1, <1>2, MethodFacts DEF Call, Overflows
      <3>2. Wrapped(SP - FrameBytes(m)) = SP - FrameBytes(m)
        BY <1>1, <3>1 DEF Wrapped
      <3> QED BY <1>1, <3>1, <3>2
    <2>2. PICK fp, link :
             mem' = [a \in Addresses |-> IF sp <= a /\ a < SP
                                         THEN FrameByte(m, args, link, fp, a)
                                         ELSE mem[a]]
      BY <1>2, <2>1 DEF Call
    <2> QED BY <1>1, <2>1, <2>2
  <1>3. ASSUME NEW k \in 1 .. Depth, NEW o \in SlotsOf(frameInfoStack[k]), NEW v,
               \/ mem' = Write64(FrameOf(k) + o * Slot, v)
               \/ mem' = [mem EXCEPT ![FrameOf(k) + o * Slot] = v.low]
        PROVE  \A a \in Addresses : a <= HP => mem'[a] = mem[a]
    <2>1. PICK x \in Nat : x = FrameOf(k) + o * Slot /\ SP <= x
      BY <1>1, SlotInFrame
    <2>2. \/ mem' = [mem EXCEPT ![x] = v.low, ![x + Half] = v.high]
          \/ mem' = [mem EXCEPT ![x] = v.low]
      BY <1>3, <2>1 DEF Write64
    <2>3. ASSUME NEW a \in Addresses, a <= HP PROVE a # x /\ a # x + Half
      BY <1>1, <2>1, <2>3 DEF Half
    <2> QED BY <1>1, <2>2, <2>3
  <1>4. ASSUME NEW o \in Offsets, NEW v \in Values, StoreL(o, v)
        PROVE  \A a \in Addresses : a <= HP => mem'[a] = mem[a]
    <2>1. Depth # 0
      BY <1>1, <1>4, EmptySeq DEF StoreL, ValidOffset, Depth
    <2>2. Depth \in 1 .. Depth
      BY <1>1, <2>1
    <2>3. o \in SlotsOf(frameInfoStack[Depth])
      BY <1>4, <2>2, OffsetsOfCurrentFrame DEF StoreL
    <2>4. mem' = Write64(FrameOf(Depth) + o * Slot, v)
      BY <1>4 DEF StoreL, FrameOf, FrameAddress
    <2> QED BY <1>3, <2>2, <2>3, <2>4
  <1>5. ASSUME NEW k \in DOMAIN frameInfoStack, NEW o \in Offsets, NEW v \in Values,
               StorePointer(k, o, v) \/ StorePointer32(k, o, v)
        PROVE  \A a \in Addresses : a <= HP => mem'[a] = mem[a]
    <2>1. k \in 1 .. Depth
      BY <1>1, LenProperties DEF Depth
    <2> QED BY <1>3, <1>5, <2>1 DEF StorePointer, StorePointer32
  <1>6. CASE UNCHANGED mem
    BY <1>6
  <1>7. \/ UNCHANGED mem
        \/ \E m \in Methods, site \in Sites :
              \E args \in [1 .. m.arguments -> Values] : Call(m, args, site)
        \/ \E o \in Offsets, v \in Values : StoreL(o, v)
        \/ \E k \in DOMAIN frameInfoStack, o \in Offsets, v \in Values :
              StorePointer(k, o, v) \/ StorePointer32(k, o, v)
    BY DEF Next, vars, CallOverflow, Ret, RetEmpty, BadOffset, GrowHeap
  <1> QED BY <1>2, <1>4, <1>5, <1>6, <1>7

\* Whatever else uses the memory below SP leaves the frames and the contents
\* of their slots alone.
LEMMA Undisturbed ==
    ASSUME IInv, UNCHANGED <<FP, SP, PC, frameInfoStack, callers, status>>,
           HP' \in Addresses, HP' < SP, mem' \in [Addresses -> Nat],
           \A a \in Addresses : SP <= a => mem'[a] = mem[a]
    PROVE  /\ IInv' /\ Frames_' = Frames_
           /\ status = "running" /\ HP < HP' /\ HP' \in HeapTops => Promise!GrowHeap(HP')
  <1>1. /\ PC \in Nat /\ status \in {"running", "STACK_OVERFLOW", "INTERNAL"}
        /\ SP \in Nat /\ Depth \in Nat
    BY SequenceFacts, CallStackAssumption DEF IInv, TypeOK, Stacked, Addresses
  <1>2. ASSUME NEW k \in 1 .. Depth
        PROVE  /\ mem'[FrameOf(k)] = mem[FrameOf(k)]
               /\ mem'[FrameOf(k) + Half] = mem[FrameOf(k) + Half]
    <2>1. PICK x \in Nat : x = FrameOf(k) /\ SP <= x /\ x \in Addresses /\ x + 4 \in Addresses
      BY LinkInStack
    <2>2. mem'[x] = mem[x] /\ mem'[x + 4] = mem[x + 4]
      BY <1>1, <2>1
    <2> QED BY <2>1, <2>2 DEF Half
  <1>3. IInv'
    BY <1>1, <1>2, StoreIInv
  <1>4. ASSUME NEW k \in 1 .. Depth PROVE Frame(k)' = Frame(k)
    <2>1. ASSUME NEW o \in SlotsOf(frameInfoStack[k])
          PROVE  Read64(FrameOf(k) + o * Slot) = [low  |-> mem'[FrameOf(k) + o * Slot],
                                                  high |-> mem'[FrameOf(k) + o * Slot + Half]]
      <3>1. PICK x \in Nat : /\ x = FrameOf(k) + o * Slot /\ SP <= x
                             /\ x \in Addresses /\ x + 4 \in Addresses
        BY <1>1, SlotInFrame DEF Half, Addresses
      <3>2. mem'[x] = mem[x] /\ mem'[x + 4] = mem[x + 4]
        BY <1>1, <3>1
      <3> QED BY <3>1, <3>2 DEF Read64, Half
    <2>2. Frame(k)' = [method |-> frameInfoStack[k],
                       return |-> callers[k].PC,
                       slots  |-> [o \in SlotsOf(frameInfoStack[k]) |->
                                      [low  |-> mem'[FrameOf(k) + o * Slot],
                                       high |-> mem'[FrameOf(k) + o * Slot + Half]]]]
      BY FramesStay
    <2>3. [o \in SlotsOf(frameInfoStack[k]) |-> [low  |-> mem'[FrameOf(k) + o * Slot],
                                                 high |-> mem'[FrameOf(k) + o * Slot + Half]]]
            = [o \in SlotsOf(frameInfoStack[k]) |-> Read64(FrameOf(k) + o * Slot)]
      BY <2>1
    <2> QED BY <2>2, <2>3, Zenon DEF Frame
  <1>5. Frames_' = Frames_
    <2>1. Frames_' = [k \in 1 .. Depth |-> Frame(k)']
      BY FramesStay
    <2>2. Frames_ = [k \in 1 .. Depth |-> Frame(k)]
      BY DEF Frames_, Frame
    <2> QED BY <1>4, <2>1, <2>2
  <1>6. ASSUME status = "running", HP < HP', HP' \in HeapTops PROVE Promise!GrowHeap(HP')
    BY <1>5, <1>6 DEF Promise!GrowHeap
  <1> QED BY <1>3, <1>5, <1>6
=============================================================================
