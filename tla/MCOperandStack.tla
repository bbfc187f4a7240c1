--------------------------- MODULE MCOperandStack ---------------------------
(* Instances of OperandStack for model checking.                           *)
EXTENDS OperandStack

\* Every number of every type, with a canonical raw value.
EveryNumber == {Encoded(n, t) : n \in 0 .. (RawSize - 1), t \in Type}

Everything == Binary \cup {"not", "conv"}

Few == {Encoded(1, "i32"), Encoded(3, "ptr")}

\* One stray bit above 0, and what `not` leaves of the numbers of 32-bit types.
StrayWords == {4} \cup 12 .. 15

\* Stacks of more than two values are of a few values only, and of the values
\* with stray bits those above are followed further.
Explored ==
    /\ \A i \in 1 .. Height : Canonical(stack[i]) \/ stack[i].raw \in StrayWords
    /\ Height > 2 => \A i \in 1 .. Height : stack[i] \in Few
=============================================================================
