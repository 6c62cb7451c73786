---------------------------- MODULE MCSriovBind ----------------------------
(***************************************************************************)
(* A physical function with two or three virtual functions: one count can  *)
(* be replaced by another that is not 0, and some of the VFs can have a    *)
(* driver while others have none.                                          *)
(***************************************************************************)
EXTENDS SriovBind

=============================================================================
