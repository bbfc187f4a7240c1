------------------------------- MODULE Frames -------------------------------
(***************************************************************************)
(* The shape of a stack frame: from high to low addresses the arguments,   *)
(* the link to the caller and the locals, eight bytes each.  A slot is     *)
(* named by its offset from the frame pointer, which points at the link.   *)
(***************************************************************************)
EXTENDS Integers

Slot == 8 \* bytes of an argument, of a local and of the link
Half == 4 \* bytes of a return address and of a frame pointer

\* What `call` reads at a method's address, and where its code starts.
Method == [entry : Nat, arguments : 0 .. 255, locals : Nat]

\* A 64-bit value as two 32-bit halves.
Value == [low : Nat, high : Nat]

Zero == [low |-> 0, high |-> 0]

FrameBytes(m) == m.arguments * Slot + Slot + m.locals * Slot

\* Arguments have positive offsets, locals negative ones.
SlotsOf(m) == ((- m.locals) .. m.arguments) \ {0}
=============================================================================
