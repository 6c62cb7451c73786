------------------------------ MODULE MCPciMem ------------------------------
(***************************************************************************)
(* A resource of three pages of four bytes, of which byte 5 changes by     *)
(* itself and byte 7 ignores writes.  Ints end at 15: 31 is typed for -1,  *)
(* 33 for 1, and the larger products with a width overflow.                *)
(***************************************************************************)
EXTENDS PciMem

MCOffset == {0, 3, 4, 7, 11}
MCCount  == {0, 1, 2, 3, 4, 5, 9, 31, 33}
MCData   == {1, 257}
MCImage  == {[x \in 0 .. Bar - 1 |-> 0], [x \in 0 .. Bar - 1 |-> (x \div 3) % 2]}

=============================================================================
