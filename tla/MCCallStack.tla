---------------------------- MODULE MCCallStack -----------------------------
(* Instances of CallStack for model checking.                              *)
EXTENDS CallStack

\* A procedure, a method with a local and one with two arguments.
ThreeMethods ==
    { [entry |-> 20, arguments |-> 0, locals |-> 0],
      [entry |-> 30, arguments |-> 0, locals |-> 1],
      [entry |-> 40, arguments |-> 2, locals |-> 0] }

TwoSites == {10, 35}

\* Two 64-bit values that differ in both halves.
TwoValues == { [low |-> 1, high |-> 2], [low |-> 3, high |-> 0] }

\* Every slot of the methods and the ones just outside, but not the link.
SlotOffsets == {-2, -1, 1, 2, 3}

HeapTop == {23}
=============================================================================
