---------------------------- MODULE MCPagedStack ----------------------------
(* Instances of PagedStack for model checking.                             *)
EXTENDS PagedStack

\* A procedure, and a method with an argument and a local.
TwoMethods ==
    { [entry |-> 20, arguments |-> 0, locals |-> 0],
      [entry |-> 40, arguments |-> 1, locals |-> 1] }

\* Two bytes in the low half; as a link, it leads to another place in the stack.
OneValue == { [low |-> 47, high |-> 2] }

\* Every slot of the methods and the ones just outside.
SlotOffsets == {-2, -1, 1, 2}

\* The offset of the link, too.
EveryOffset == {-2, -1, 0, 1, 2}
=============================================================================
