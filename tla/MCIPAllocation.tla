--------------------------- MODULE MCIPAllocation ---------------------------
(* The allocator on blocks of 1, 2, 4 and 8 addresses, with every possible  *)
(* set of used addresses.                                                   *)
EXTENDS IPAllocation

Block(ip, size) ==
  [network |-> ip - (ip % size), host |-> ip % size, size |-> size]

\* Aligned blocks, written with their first address and with another one.
MCAllCIDRs == {Block(0, 4), Block(8, 8), Block(10, 8), Block(7, 4),
               Block(5, 1), Block(6, 2), Block(11, 2)}
=============================================================================
