----------------------------- MODULE MCPciDebug -----------------------------
(***************************************************************************)
(* A BAR of four bytes in a page of seven, with two values per byte: ints  *)
(* have 16 values, so that length 15 is negative and addr + len wraps      *)
(* around.  Address 4 is the size of the BAR, address 5 the first invalid  *)
(* one, length 6 too long for any address.                                 *)
(***************************************************************************)
EXTENDS PciDebug

MCAddr == {0, 1, 4, 5}
MCLen  == {0, 3, 4, 6, 15}
MCVal  == {6, 11}
MCInc  == {1, 5}

=============================================================================
