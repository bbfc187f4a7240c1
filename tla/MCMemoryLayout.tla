--------------------------- MODULE MCMemoryLayout ---------------------------
(* Instances of MemoryLayout for model checking.                           *)
EXTENDS MemoryLayout

\* A procedure and a method with an argument and a local.
TwoMethods ==
    { [entry |-> 20, arguments |-> 0, locals |-> 0],
      [entry |-> 30, arguments |-> 1, locals |-> 1] }

OneValue == { [low |-> 1, high |-> 2] }

SlotOffsets == {-1, 1}
=============================================================================
