------------------------- MODULE MemoryLayoutProofs -------------------------
(***************************************************************************)
(* Proofs about module MemoryLayout, for every address range, header size, *)
(* method and value: heap and call stack keep their own promises although  *)
(* they write to the same memory.                                          *)
(*                                                                         *)
(* The invariant is that of the heap and that of the call stack together.  *)
(* A step of one is, for the other, a step of the environment its module   *)
(* assumes: HeapProofs and CallStackProofs say what a step may write to    *)
(* (WritesBelowStack, WritesAboveHeap) and which writes by others leave    *)
(* their invariant alone (Undisturbed).                                    *)
(***************************************************************************)
EXTENDS MemoryLayout, SequenceTheorems, TLAPS

HeapP == INSTANCE HeapProofs WITH Values <- Bytes, StackTops <- HB .. MaxAddress,
                                  status <- heapStatus

StackP == INSTANCE CallStackProofs WITH HeapTops <- HB .. MaxAddress,
                                        status <- stackStatus

LEMMA HeapConstants == HeapP!HeapAssumption
  BY LayoutAssumption DEF HeapP!HeapAssumption

LEMMA StackConstants == StackP!CallStackAssumption
  BY LayoutAssumption DEF StackP!CallStackAssumption, Method, Value, FrameBytes, Slot,
     StackP!Method, StackP!Value, StackP!FrameBytes, StackP!Slot

(***************************************************************************)
(* The instances H and S of MemoryLayout and those of the proof modules    *)
(* define the same actions.                                                *)
(***************************************************************************)
LEMMA SameHeapActions ==
    /\ H!Init <=> HeapP!Init
    /\ \A size : /\ H!Alloc(size) <=> HeapP!Alloc(size)
                 /\ H!AllocOutOfMemory(size) <=> HeapP!AllocOutOfMemory(size)
                 /\ H!AllocWrapped(size) <=> HeapP!AllocWrapped(size)
    /\ H!AllocZero <=> HeapP!AllocZero
    /\ \A b : /\ H!Dealloc(b) <=> HeapP!Dealloc(b)
              /\ H!Payload(b) = HeapP!Payload(b)
              /\ H!EndOf(b) = HeapP!EndOf(b)
    /\ \A b, a, v : H!Store(b, a, v) <=> HeapP!Store(b, a, v)
    /\ H!vars = HeapP!vars
  <1>1. H!Init <=> HeapP!Init
    BY DEF H!Init, HeapP!Init, H!Addresses, HeapP!Addresses
  <1>2. ASSUME NEW size
        PROVE  H!AllocOutOfMemory(size) <=> HeapP!AllocOutOfMemory(size)
    BY DEF H!AllocOutOfMemory, HeapP!AllocOutOfMemory, H!BytesToAllocate,
       HeapP!BytesToAllocate, H!FirstFit, HeapP!FirstFit, H!CanPlace, HeapP!CanPlace
  <1>3. ASSUME NEW size PROVE H!Alloc(size) <=> HeapP!Alloc(size)
    BY DEF H!Alloc, HeapP!Alloc, H!BytesToAllocate, HeapP!BytesToAllocate,
       H!FirstFit, HeapP!FirstFit, H!CanPlace, HeapP!CanPlace, H!RaisedHP, HeapP!RaisedHP,
       H!Addresses, HeapP!Addresses, H!Zeroed, HeapP!Zeroed, H!Payload, HeapP!Payload,
       H!EndOf, HeapP!EndOf, H!TakeFrom, HeapP!TakeFrom, H!Without, HeapP!Without
  <1>4. ASSUME NEW size PROVE H!AllocWrapped(size) <=> HeapP!AllocWrapped(size)
    BY DEF H!AllocWrapped, HeapP!AllocWrapped, H!BytesToAllocate, HeapP!BytesToAllocate,
       H!FirstFit, HeapP!FirstFit, H!CanPlace, HeapP!CanPlace, H!RaisedHP, HeapP!RaisedHP,
       H!Addresses, HeapP!Addresses
  <1>5. H!AllocZero <=> HeapP!AllocZero
    BY DEF H!AllocZero, HeapP!AllocZero
  <1>6. ASSUME NEW b PROVE H!Payload(b) = HeapP!Payload(b) /\ H!EndOf(b) = HeapP!EndOf(b)
    BY DEF H!Payload, HeapP!Payload, H!EndOf, HeapP!EndOf
  <1>7. ASSUME NEW b PROVE H!Dealloc(b) <=> HeapP!Dealloc(b)
    BY DEF H!Dealloc, HeapP!Dealloc, H!EntriesBelow, HeapP!EntriesBelow,
       H!Inserted, HeapP!Inserted, H!Splice, HeapP!Splice, H!Merged, HeapP!Merged,
       H!Adjacent, HeapP!Adjacent, H!EndOf, HeapP!EndOf
  <1>8. ASSUME NEW b, NEW a, NEW v PROVE H!Store(b, a, v) <=> HeapP!Store(b, a, v)
    BY <1>6 DEF H!Store, HeapP!Store
  <1>9. H!vars = HeapP!vars
    BY DEF H!vars, HeapP!vars
  <1> QED BY <1>1, <1>2, <1>3, <1>4, <1>5, <1>6, <1>7, <1>8, <1>9

LEMMA SameStackActions ==
    /\ S!Init <=> StackP!Init
    /\ \A m, args, site : S!Call(m, args, site) <=> StackP!Call(m, args, site)
    /\ \A m : S!CallOverflow(m) <=> StackP!CallOverflow(m)
    /\ S!Ret <=> StackP!Ret
    /\ S!RetEmpty <=> StackP!RetEmpty
    /\ \A o : S!BadOffset(o) <=> StackP!BadOffset(o)
    /\ \A o, v : S!StoreL(o, v) <=> StackP!StoreL(o, v)
    /\ \A k, o, v : /\ S!StorePointer(k, o, v) <=> StackP!StorePointer(k, o, v)
                    /\ S!StorePointer32(k, o, v) <=> StackP!StorePointer32(k, o, v)
    /\ \A k : S!FrameOf(k) = StackP!FrameOf(k)
    /\ S!vars = StackP!vars
  <1>1. S!Init <=> StackP!Init
    BY DEF S!Init, StackP!Init, S!Addresses, StackP!Addresses
  <1>2. ASSUME NEW m PROVE S!Overflows(m) <=> StackP!Overflows(m)
    BY DEF S!Overflows, StackP!Overflows, S!Wrapped, StackP!Wrapped,
       S!FrameBytes, StackP!FrameBytes, S!Slot, StackP!Slot
  <1>3. ASSUME NEW m, NEW args, NEW site
        PROVE  S!Call(m, args, site) <=> StackP!Call(m, args, site)
    BY <1>2 DEF S!Call, StackP!Call, S!FrameBytes, StackP!FrameBytes, S!Slot, StackP!Slot,
       S!Addresses, StackP!Addresses, S!FrameByte, StackP!FrameByte, S!Word, StackP!Word,
       S!Half, StackP!Half
  <1>4. ASSUME NEW m PROVE S!CallOverflow(m) <=> StackP!CallOverflow(m)
    BY <1>2 DEF S!CallOverflow, StackP!CallOverflow
  <1>5. S!Ret <=> StackP!Ret
    BY DEF S!Ret, StackP!Ret, S!InStack, StackP!InStack, S!Half, StackP!Half,
       S!FrameBytes, StackP!FrameBytes, S!Slot, StackP!Slot, S!Depth, StackP!Depth,
       S!Current, StackP!Current
  <1>6. S!RetEmpty <=> StackP!RetEmpty
    BY DEF S!RetEmpty, StackP!RetEmpty
  <1>7. ASSUME NEW o PROVE S!BadOffset(o) <=> StackP!BadOffset(o)
    BY DEF S!BadOffset, StackP!BadOffset, S!ValidOffset, StackP!ValidOffset,
       S!Current, StackP!Current, S!Depth, StackP!Depth, S!InStack, StackP!InStack,
       S!FrameAddress, StackP!FrameAddress, S!Slot, StackP!Slot
  <1>8. ASSUME NEW o, NEW v PROVE S!StoreL(o, v) <=> StackP!StoreL(o, v)
    BY DEF S!StoreL, StackP!StoreL, S!ValidOffset, StackP!ValidOffset,
       S!Current, StackP!Current, S!Depth, StackP!Depth, S!InStack, StackP!InStack,
       S!FrameAddress, StackP!FrameAddress, S!Slot, StackP!Slot,
       S!Write64, StackP!Write64, S!Half, StackP!Half
  <1>9. ASSUME NEW k PROVE S!FrameOf(k) = StackP!FrameOf(k)
    BY DEF S!FrameOf, StackP!FrameOf, S!Depth, StackP!Depth
  <1>10. ASSUME NEW k, NEW o, NEW v
         PROVE  /\ S!StorePointer(k, o, v) <=> StackP!StorePointer(k, o, v)
                /\ S!StorePointer32(k, o, v) <=> StackP!StorePointer32(k, o, v)
    BY <1>9 DEF S!StorePointer, StackP!StorePointer, S!StorePointer32, StackP!StorePointer32,
       S!SlotsOf, StackP!SlotsOf, S!Write64, StackP!Write64, S!Half, StackP!Half,
       S!Slot, StackP!Slot
  <1>11. S!vars = StackP!vars
    BY DEF S!vars, StackP!vars
  <1> QED BY <1>1, <1>3, <1>4, <1>5, <1>6, <1>7, <1>8, <1>9, <1>10, <1>11

LEMMA SameAllocator ==
    /\ H!Promise!Init <=> HeapP!Promise!Init
    /\ H!Promise!Next <=> HeapP!Promise!Next
    /\ UNCHANGED H!Promise!vars <=> UNCHANGED HeapP!Promise!vars
    /\ H!SameRequest <=> HeapP!SameRequest
  <1>1. H!Promise!Init <=> HeapP!Promise!Init
    BY DEF H!Promise!Init, HeapP!Promise!Init, H!PayloadAddresses,
       HeapP!PayloadAddresses, H!Payload, HeapP!Payload, H!EndOf, HeapP!EndOf
  <1>2. UNCHANGED H!Promise!vars <=> UNCHANGED HeapP!Promise!vars
    BY DEF H!Promise!vars, HeapP!Promise!vars, H!PayloadAddresses,
       HeapP!PayloadAddresses, H!Payload, HeapP!Payload, H!EndOf, HeapP!EndOf
  <1>3. ASSUME NEW n
        PROVE  H!Promise!Alloc(n) <=> HeapP!Promise!Alloc(n)
    BY DEF H!Promise!Alloc, HeapP!Promise!Alloc, H!PayloadAddresses,
       HeapP!PayloadAddresses, H!Payload, HeapP!Payload, H!EndOf, HeapP!EndOf,
       H!Promise!PayloadAddresses, HeapP!Promise!PayloadAddresses, H!Promise!Payload,
       HeapP!Promise!Payload, H!Promise!EndOf, HeapP!Promise!EndOf, H!Promise!Disjoint,
       HeapP!Promise!Disjoint, H!Promise!Free, HeapP!Promise!Free
  <1>4. ASSUME NEW n
        PROVE  H!Promise!Refuse(n) <=> HeapP!Promise!Refuse(n)
    BY DEF H!Promise!Refuse, HeapP!Promise!Refuse, H!PayloadAddresses,
       HeapP!PayloadAddresses, H!Payload, HeapP!Payload, H!EndOf, HeapP!EndOf,
       H!Promise!EndOf, HeapP!Promise!EndOf, H!Promise!Disjoint, HeapP!Promise!Disjoint,
       H!Promise!Free, HeapP!Promise!Free
  <1>5. ASSUME NEW n
        PROVE  H!Promise!Overrun(n) <=> HeapP!Promise!Overrun(n)
    BY DEF H!Promise!Overrun, HeapP!Promise!Overrun, H!PayloadAddresses,
       HeapP!PayloadAddresses, H!Payload, HeapP!Payload, H!EndOf, HeapP!EndOf,
       H!Promise!PayloadAddresses, HeapP!Promise!PayloadAddresses, H!Promise!Payload,
       HeapP!Promise!Payload, H!Promise!EndOf, HeapP!Promise!EndOf
  <1>6. ASSUME NEW b
        PROVE  H!Promise!Dealloc(b) <=> HeapP!Promise!Dealloc(b)
    BY DEF H!Promise!Dealloc, HeapP!Promise!Dealloc, H!PayloadAddresses,
       HeapP!PayloadAddresses, H!Payload, HeapP!Payload, H!EndOf, HeapP!EndOf,
       H!Promise!PayloadAddresses, HeapP!Promise!PayloadAddresses, H!Promise!Payload,
       HeapP!Promise!Payload, H!Promise!EndOf, HeapP!Promise!EndOf
  <1>7. ASSUME NEW b, NEW a, NEW v
        PROVE  H!Promise!Store(b, a, v) <=> HeapP!Promise!Store(b, a, v)
    BY DEF H!Promise!Store, HeapP!Promise!Store, H!PayloadAddresses,
       HeapP!PayloadAddresses, H!Payload, HeapP!Payload, H!EndOf, HeapP!EndOf,
       H!Promise!Payload, HeapP!Promise!Payload, H!Promise!EndOf, HeapP!Promise!EndOf
  <1>8. ASSUME NEW sp
        PROVE  H!Promise!MoveSP(sp) <=> HeapP!Promise!MoveSP(sp)
    BY DEF H!Promise!MoveSP, HeapP!Promise!MoveSP, H!PayloadAddresses,
       HeapP!PayloadAddresses, H!Payload, HeapP!Payload, H!EndOf, HeapP!EndOf,
       H!Promise!EndOf, HeapP!Promise!EndOf
  <1>9. ASSUME NEW b PROVE H!Promise!Payload(b) = HeapP!Promise!Payload(b)
    BY DEF H!Promise!Payload, HeapP!Promise!Payload, H!Promise!EndOf,
       HeapP!Promise!EndOf
  <1>10. H!Promise!Next <=> HeapP!Promise!Next
    BY <1>3, <1>4, <1>5, <1>6, <1>7, <1>8, <1>9 DEF H!Promise!Next, HeapP!Promise!Next
  <1>11. H!SameRequest <=> HeapP!SameRequest
    BY <1>3, SameHeapActions DEF H!SameRequest, HeapP!SameRequest
  <1> QED BY <1>1, <1>2, <1>10, <1>11

LEMMA SameFrameStack ==
    /\ S!Promise!Init <=> StackP!Promise!Init
    /\ S!Promise!Next <=> StackP!Promise!Next
    /\ UNCHANGED S!Promise!vars <=> UNCHANGED StackP!Promise!vars
    /\ S!SameInstruction <=> StackP!SameInstruction
  <1>1. S!Frames_ = StackP!Frames_ /\ S!Frames_' = StackP!Frames_'
    BY DEF S!Frames_, StackP!Frames_, S!Depth, StackP!Depth, S!SlotsOf, StackP!SlotsOf,
       S!Read64, StackP!Read64, S!FrameOf, StackP!FrameOf, S!Half, StackP!Half, S!Slot,
       StackP!Slot
  <1>2. S!Promise!Init <=> StackP!Promise!Init
    BY <1>1 DEF S!Promise!Init, StackP!Promise!Init
  <1>3. UNCHANGED S!Promise!vars <=> UNCHANGED StackP!Promise!vars
    BY <1>1 DEF S!Promise!vars, StackP!Promise!vars
  <1>4. ASSUME NEW m, NEW args, NEW site
        PROVE  S!Promise!Call(m, args, site) <=> StackP!Promise!Call(m, args, site)
    BY DEF S!Promise!Call, StackP!Promise!Call, S!Frames_, StackP!Frames_, S!Depth,
       StackP!Depth, S!SlotsOf, StackP!SlotsOf, S!Read64, StackP!Read64, S!FrameOf,
       StackP!FrameOf, S!Half, StackP!Half, S!Slot, StackP!Slot, S!Promise!FrameBytes,
       StackP!Promise!FrameBytes, S!Promise!Slot, StackP!Promise!Slot, S!Promise!Zero,
       StackP!Promise!Zero, S!Promise!NewSlots, StackP!Promise!NewSlots,
       S!Promise!SlotsOf, StackP!Promise!SlotsOf
  <1>5. ASSUME NEW m
        PROVE  S!Promise!Overflow(m) <=> StackP!Promise!Overflow(m)
    BY DEF S!Promise!Overflow, StackP!Promise!Overflow, S!Frames_, StackP!Frames_,
       S!Depth, StackP!Depth, S!SlotsOf, StackP!SlotsOf, S!Read64, StackP!Read64,
       S!FrameOf, StackP!FrameOf, S!Half, StackP!Half, S!Slot, StackP!Slot,
       S!Promise!FrameBytes, StackP!Promise!FrameBytes, S!Promise!Slot,
       StackP!Promise!Slot
  <1>6. S!Promise!Ret <=> StackP!Promise!Ret
    BY DEF S!Promise!Ret, StackP!Promise!Ret, S!Frames_, StackP!Frames_, S!Depth,
       StackP!Depth, S!SlotsOf, StackP!SlotsOf, S!Read64, StackP!Read64, S!FrameOf,
       StackP!FrameOf, S!Half, StackP!Half, S!Slot, StackP!Slot, S!Promise!FrameBytes,
       StackP!Promise!FrameBytes, S!Promise!Slot, StackP!Promise!Slot, S!Promise!Top,
       StackP!Promise!Top
  <1>7. S!Promise!RetEmpty <=> StackP!Promise!RetEmpty
    BY DEF S!Promise!RetEmpty, StackP!Promise!RetEmpty, S!Frames_, StackP!Frames_,
       S!Depth, StackP!Depth, S!SlotsOf, StackP!SlotsOf, S!Read64, StackP!Read64,
       S!FrameOf, StackP!FrameOf, S!Half, StackP!Half, S!Slot, StackP!Slot
  <1>8. ASSUME NEW k, NEW o, NEW v
        PROVE  S!Promise!StoreSlot(k, o, v) <=> StackP!Promise!StoreSlot(k, o, v)
    BY DEF S!Promise!StoreSlot, StackP!Promise!StoreSlot, S!Frames_, StackP!Frames_,
       S!Depth, StackP!Depth, S!SlotsOf, StackP!SlotsOf, S!Read64, StackP!Read64,
       S!FrameOf, StackP!FrameOf, S!Half, StackP!Half, S!Slot, StackP!Slot,
       S!Promise!SlotsOf, StackP!Promise!SlotsOf
  <1>9. ASSUME NEW k, NEW o, NEW v
        PROVE  S!Promise!StoreLowHalf(k, o, v) <=> StackP!Promise!StoreLowHalf(k, o, v)
    BY DEF S!Promise!StoreLowHalf, StackP!Promise!StoreLowHalf, S!Frames_,
       StackP!Frames_, S!Depth, StackP!Depth, S!SlotsOf, StackP!SlotsOf, S!Read64,
       StackP!Read64, S!FrameOf, StackP!FrameOf, S!Half, StackP!Half, S!Slot,
       StackP!Slot, S!Promise!SlotsOf, StackP!Promise!SlotsOf
  <1>10. ASSUME NEW o
        PROVE  S!Promise!BadOffset(o) <=> StackP!Promise!BadOffset(o)
    BY DEF S!Promise!BadOffset, StackP!Promise!BadOffset, S!Frames_, StackP!Frames_,
       S!Depth, StackP!Depth, S!SlotsOf, StackP!SlotsOf, S!Read64, StackP!Read64,
       S!FrameOf, StackP!FrameOf, S!Half, StackP!Half, S!Slot, StackP!Slot,
       S!Promise!SlotsOf, StackP!Promise!SlotsOf, S!Promise!Top, StackP!Promise!Top
  <1>11. ASSUME NEW hp
        PROVE  S!Promise!GrowHeap(hp) <=> StackP!Promise!GrowHeap(hp)
    BY DEF S!Promise!GrowHeap, StackP!Promise!GrowHeap, S!Frames_, StackP!Frames_,
       S!Depth, StackP!Depth, S!SlotsOf, StackP!SlotsOf, S!Read64, StackP!Read64,
       S!FrameOf, StackP!FrameOf, S!Half, StackP!Half, S!Slot, StackP!Slot
  <1>12. S!Promise!Next <=> StackP!Promise!Next
    BY <1>1, <1>4, <1>5, <1>6, <1>7, <1>8, <1>9, <1>10, <1>11 DEF S!Promise!Next, StackP!Promise!Next
  <1>13. S!SameInstruction <=> StackP!SameInstruction
    BY <1>4, <1>5, <1>6, <1>7, <1>8, <1>9, <1>10, <1>11, SameStackActions
    DEF S!SameInstruction, StackP!SameInstruction, S!Depth, StackP!Depth
  <1> QED BY <1>2, <1>3, <1>12, <1>13
-----------------------------------------------------------------------------
LInv == HeapP!IInv /\ StackP!IInv

LEMMA InitLInv == Init => LInv
  BY HeapConstants, StackConstants, HeapP!InitIInv, StackP!InitIInv, SameHeapActions,
     SameStackActions DEF Init, LInv

\* An instruction of the heap is, for the call stack, one of its environment.
LEMMA HeapStepFacts ==
    ASSUME LInv, HeapStep
    PROVE  /\ LInv'
           /\ [HeapP!Promise!Next]_(HeapP!Promise!vars)
           /\ [StackP!Promise!Next]_(StackP!Promise!vars)
  <1>1. Running /\ UNCHANGED stackVars
    BY DEF HeapStep
  <1>2. HeapP!Next /\ UNCHANGED SP
    <2>1. ASSUME NEW size \in Sizes,
                 H!Alloc(size) \/ H!AllocOutOfMemory(size) \/ H!AllocWrapped(size)
          PROVE  HeapP!Next /\ UNCHANGED SP
      <3>1. HeapP!Alloc(size) \/ HeapP!AllocOutOfMemory(size) \/ HeapP!AllocWrapped(size)
        BY <2>1, SameHeapActions
      <3> QED
        BY <3>1 DEF HeapP!Next, HeapP!Alloc, HeapP!AllocOutOfMemory, HeapP!AllocWrapped
    <2>2. ASSUME H!AllocZero PROVE HeapP!Next /\ UNCHANGED SP
      BY <2>2, SameHeapActions DEF HeapP!Next, HeapP!AllocZero
    <2>3. ASSUME NEW b \in live, H!Dealloc(b) PROVE HeapP!Next /\ UNCHANGED SP
      <3>1. HeapP!Dealloc(b)
        BY <2>3, SameHeapActions
      <3> QED BY <3>1 DEF HeapP!Next, HeapP!Dealloc
    <2>4. ASSUME NEW b \in live, NEW v \in Bytes, NEW a \in H!Payload(b), H!Store(b, a, v)
          PROVE  HeapP!Next /\ UNCHANGED SP
      <3>1. HeapP!Store(b, a, v) /\ a \in HeapP!Payload(b)
        BY <2>4, SameHeapActions
      <3> QED BY <3>1 DEF HeapP!Next, HeapP!Store
    <2> QED BY <2>1, <2>2, <2>3, <2>4 DEF HeapStep
  <1>3. HeapP!IInv /\ StackP!IInv
    BY DEF LInv
  <1>4. HeapP!IInv'
    BY <1>2, <1>3, HeapConstants, HeapP!NextIInv
  <1>5. /\ HP <= HP' /\ HP' < SP
        /\ \A a \in HeapP!Addresses : SP <= a => mem'[a] = mem[a]
    BY <1>2, <1>3, HeapConstants, HeapP!WritesBelowStack
  <1>6. HP \in Nat /\ HP' \in StackP!Addresses /\ mem' \in [StackP!Addresses -> Nat]
    BY <1>3, <1>4, LayoutAssumption
    DEF HeapP!IInv, HeapP!TypeOK, HeapP!Addresses, StackP!Addresses
  <1>7. /\ StackP!IInv' /\ StackP!Frames_' = StackP!Frames_
        /\ HP < HP' => StackP!Promise!GrowHeap(HP')
    <2>1. UNCHANGED <<FP, SP, PC, frameInfoStack, callers, stackStatus>>
      BY <1>1, <1>2 DEF stackVars
    <2>2. HP' \in HB .. MaxAddress /\ stackStatus = "running"
      BY <1>1, <1>6 DEF Running, StackP!Addresses
    <2>3. \A a \in StackP!Addresses : SP <= a => mem'[a] = mem[a]
      BY <1>5 DEF HeapP!Addresses, StackP!Addresses
    <2> QED BY <1>3, <1>5, <1>6, <2>1, <2>2, <2>3, StackConstants, StackP!Undisturbed
  <1>8. [HeapP!Promise!Next]_(HeapP!Promise!vars)
    BY <1>2, <1>3, HeapConstants, HeapP!NextMaps
  <1>9. [StackP!Promise!Next]_(StackP!Promise!vars)
    <2>1. CASE HP < HP'
      BY <2>1, <1>6, <1>7 DEF StackP!Promise!Next, StackP!Addresses
    <2>2. CASE ~ (HP < HP')
      <3>1. HP' = HP
        BY <2>2, <1>5, <1>6, LayoutAssumption DEF StackP!Addresses
      <3> QED BY <3>1, <1>1, <1>2, <1>7 DEF StackP!Promise!vars, stackVars
    <2> QED BY <2>1, <2>2
  <1> QED BY <1>4, <1>7, <1>8, <1>9 DEF LInv

\* An instruction of the call stack is, for the heap, one of its environment.
LEMMA StackStepFacts ==
    ASSUME LInv, StackStep
    PROVE  /\ LInv'
           /\ [HeapP!Promise!Next]_(HeapP!Promise!vars)
           /\ [StackP!Promise!Next]_(StackP!Promise!vars)
  <1>1. Running /\ UNCHANGED heapVars
    BY DEF StackStep
  <1>2. StackP!Next /\ UNCHANGED HP
    <2>1. ASSUME NEW m \in Methods, NEW site \in Sites,
                 NEW args \in [1 .. m.arguments -> Values], S!Call(m, args, site)
          PROVE  StackP!Next /\ UNCHANGED HP
      <3>1. StackP!Call(m, args, site)
        BY <2>1, SameStackActions
      <3> QED BY <3>1 DEF StackP!Next, StackP!Call
    <2>2. ASSUME NEW m \in Methods, S!CallOverflow(m) PROVE StackP!Next /\ UNCHANGED HP
      <3>1. StackP!CallOverflow(m)
        BY <2>2, SameStackActions
      <3> QED BY <3>1 DEF StackP!Next, StackP!CallOverflow
    <2>3. ASSUME S!Ret \/ S!RetEmpty PROVE StackP!Next /\ UNCHANGED HP
      <3>1. StackP!Ret \/ StackP!RetEmpty
        BY <2>3, SameStackActions
      <3> QED BY <3>1 DEF StackP!Next, StackP!Ret, StackP!RetEmpty
    <2>4. ASSUME NEW o \in Offsets, NEW v \in Values, S!StoreL(o, v)
          PROVE  StackP!Next /\ UNCHANGED HP
      <3>1. StackP!StoreL(o, v)
        BY <2>4, SameStackActions
      <3> QED BY <3>1 DEF StackP!Next, StackP!StoreL
    <2>5. ASSUME NEW o \in Offsets, S!BadOffset(o) PROVE StackP!Next /\ UNCHANGED HP
      <3>1. StackP!BadOffset(o)
        BY <2>5, SameStackActions
      <3> QED BY <3>1 DEF StackP!Next, StackP!BadOffset
    <2>6. ASSUME NEW k \in DOMAIN frameInfoStack, NEW o \in Offsets, NEW v \in Values,
                 S!StorePointer(k, o, v) \/ S!StorePointer32(k, o, v)
          PROVE  StackP!Next /\ UNCHANGED HP
      <3>1. StackP!StorePointer(k, o, v) \/ StackP!StorePointer32(k, o, v)
        BY <2>6, SameStackActions
      <3> QED BY <3>1 DEF StackP!Next, StackP!StorePointer, StackP!StorePointer32
    <2> QED BY <2>1, <2>2, <2>3, <2>4, <2>5, <2>6 DEF StackStep
  <1>3. HeapP!IInv /\ StackP!IInv
    BY DEF LInv
  <1>4. StackP!IInv'
    BY <1>2, <1>3, StackConstants, StackP!NextIInv
  <1>5. \A a \in StackP!Addresses : a <= HP => mem'[a] = mem[a]
    BY <1>2, <1>3, StackConstants, StackP!WritesAboveHeap
  <1>6. SP' \in HeapP!Addresses /\ mem' \in [HeapP!Addresses -> Nat] /\ HP < SP'
    BY <1>2, <1>4 DEF StackP!IInv, StackP!TypeOK, StackP!Stacked, HeapP!Addresses,
       StackP!Addresses
  <1>7. HeapP!IInv' /\ HeapP!Promise!MoveSP(SP')
    <2>1. UNCHANGED <<freeList, HP, live, heapStatus>>
      BY <1>1, <1>2 DEF heapVars
    <2>2. SP' \in HB .. MaxAddress /\ heapStatus = "running"
      BY <1>1, <1>6 DEF Running, HeapP!Addresses
    <2>3. \A a \in HeapP!Addresses : a <= HP => mem'[a] = mem[a]
      BY <1>5 DEF HeapP!Addresses, StackP!Addresses
    <2> QED BY <1>3, <1>6, <2>1, <2>2, <2>3, HeapConstants, HeapP!Undisturbed
  <1>8. HeapP!Promise!Next
    BY <1>6, <1>7 DEF HeapP!Promise!Next, HeapP!Addresses
  <1>9. [StackP!Promise!Next]_(StackP!Promise!vars)
    BY <1>2, <1>3, StackConstants, StackP!NextMaps
  <1> QED BY <1>4, <1>7, <1>8, <1>9 DEF LInv

LEMMA NextFacts ==
    ASSUME LInv, [Next]_vars
    PROVE  /\ LInv'
           /\ [HeapP!Promise!Next]_(HeapP!Promise!vars)
           /\ [StackP!Promise!Next]_(StackP!Promise!vars)
  <1>1. CASE Next
    BY <1>1, HeapStepFacts, StackStepFacts DEF Next
  <1>2. CASE UNCHANGED vars
    <2>1. [HeapP!Next]_(HeapP!vars) /\ [StackP!Next]_(StackP!vars)
      BY <1>2 DEF vars, heapVars, stackVars, HeapP!vars, StackP!vars
    <2>2. HeapP!IInv /\ StackP!IInv
      BY DEF LInv
    <2>3. HeapP!IInv' /\ [HeapP!Promise!Next]_(HeapP!Promise!vars)
      BY <2>1, <2>2, HeapConstants, HeapP!NextIInv, HeapP!NextMaps
    <2>4. StackP!IInv' /\ [StackP!Promise!Next]_(StackP!Promise!vars)
      BY <2>1, <2>2, StackConstants, StackP!NextIInv, StackP!NextMaps
    <2> QED BY <2>3, <2>4 DEF LInv
  <1> QED BY <1>1, <1>2

THEOREM Invariance == Spec => []LInv
  BY InitLInv, NextFacts, PTL DEF Spec

\* No block reaches into a frame, however far heap and stack have grown.
THEOREM RegionsStayApart == Spec => []RegionsApart
  <1>1. ASSUME LInv PROVE RegionsApart
    <2>1. HeapP!IInv /\ StackP!IInv
      BY <1>1 DEF LInv
    <2>2. HP < SP /\ \A b \in live : H!EndOf(b) <= HP
      BY <2>1, SameHeapActions DEF HeapP!IInv, HeapP!LiveInHeap
    <2>3. ASSUME NEW k \in DOMAIN frameInfoStack
          PROVE  SP <= S!FrameOf(k) - frameInfoStack[k].locals * S!Slot
      <3>1. PICK d \in Nat : d = Len(frameInfoStack) /\ k \in 1 .. d
        BY <2>1, <2>3, LenProperties DEF StackP!IInv, StackP!TypeOK
      <3>2. SP <= StackP!Bottom(k)
        BY <2>1, <3>1 DEF StackP!IInv, StackP!Stacked, StackP!Depth
      <3> QED BY <3>2, SameStackActions DEF StackP!Bottom, StackP!Slot, S!Slot
    <2> QED BY <2>2, <2>3 DEF RegionsApart
  <1> QED BY <1>1, Invariance, PTL

\* The blocks keep Allocator's promises beside a call stack that writes to
\* the same memory.
THEOREM BlocksStayUndisturbed == Spec => BlocksUndisturbed
  <1>1. Init => H!Promise!Init
    BY HeapConstants, HeapP!InitMaps, SameHeapActions, SameAllocator DEF Init
  <1>2. ASSUME LInv, [Next]_vars
        PROVE  [H!Promise!Next]_(H!Promise!vars) /\ [H!SameRequest]_(H!vars)
    <2>1. HeapP!SameRequest
      BY <1>2, HeapConstants, HeapP!RequestMaps DEF LInv
    <2>2. [HeapP!Promise!Next]_(HeapP!Promise!vars)
      BY <1>2, NextFacts
    <2> QED BY <2>1, <2>2, SameAllocator
  <1> QED BY <1>1, <1>2, Invariance, PTL DEF Spec, BlocksUndisturbed,
          H!ImplementsAllocator, H!Promise!Spec

\* The frames keep FrameStack's promises beside a heap that hands out, zeroes
\* and writes blocks of the same memory.
THEOREM FramesStayUndisturbed == Spec => FramesUndisturbed
  <1>1. Init => S!Promise!Init
    BY StackConstants, StackP!InitMaps, SameStackActions, SameFrameStack DEF Init
  <1>2. ASSUME LInv, [Next]_vars
        PROVE  [S!Promise!Next]_(S!Promise!vars) /\ [S!SameInstruction]_(S!vars)
    <2>1. StackP!SameInstruction
      BY <1>2, StackConstants, StackP!InstructionMaps DEF LInv
    <2>2. [StackP!Promise!Next]_(StackP!Promise!vars)
      BY <1>2, NextFacts
    <2> QED BY <2>1, <2>2, SameFrameStack
  <1> QED BY <1>1, <1>2, Invariance, PTL DEF Spec, FramesUndisturbed,
          S!ImplementsFrameStack, S!Promise!Spec
=============================================================================
