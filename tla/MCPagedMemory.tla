--------------------------- MODULE MCPagedMemory ----------------------------
(* Model checking PagedMemory: the bounds are those of the configurations. *)
EXTENDS PagedMemory
=============================================================================
