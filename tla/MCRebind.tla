------------------------------ MODULE MCRebind ------------------------------
(***************************************************************************)
(* Three iterations: a first, one that finds what the one before left, and *)
(* a last.  Each wait has two turns, so that it may end at the first look, *)
(* at the last one, and without success.                                   *)
(***************************************************************************)
EXTENDS Rebind

MCIterations  == 3
MCDetachTurns == 2
MCAppearTurns == 2

=============================================================================
