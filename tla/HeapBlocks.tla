----------------------------- MODULE HeapBlocks -----------------------------
(***************************************************************************)
(* Blocks of heap memory, free or handed out: struct FreeBlock of          *)
(* HeapManager.h without its link.                                         *)
(***************************************************************************)
EXTENDS Integers

CONSTANT HeaderSize \* BLOCK_HEADER_SIZE, the bytes in front of a payload

Block == [address : Nat, size : Nat]

\* The first address after a block.
EndOf(b) == b.address + b.size

Disjoint(b, c) == EndOf(b) <= c.address \/ EndOf(c) <= b.address

\* The addresses of a handed-out block that belong to the program.
Payload(b) == (b.address + HeaderSize) .. (EndOf(b) - 1)

PayloadAddresses(blocks) == UNION {Payload(b) : b \in blocks}
=============================================================================
