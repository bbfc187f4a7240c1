------------------------------- MODULE MCHeap -------------------------------
(* Model checking Heap: the bounds are those of the configurations.         *)
EXTENDS Heap
=============================================================================
