----------------------------- MODULE MCDevCtl2 -----------------------------
(***************************************************************************)
(* Two runs of the script at once, asked for the default code, for a code  *)
(* of range B, or to disable; another setting that is on or off.           *)
(***************************************************************************)
EXTENDS DevCtl2, TLC

CONSTANTS p1, p2

MCProc    == {p1, p2}
MCCodes   == {0, 6}
MCOthers  == {0, 32}
MCSymmetry == Permutations(MCProc)

=============================================================================
