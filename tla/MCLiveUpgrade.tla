--------------------------- MODULE MCLiveUpgrade ---------------------------
(***************************************************************************)
(* Small instances of LiveUpgrade: a vblk and an NVMe physical function,   *)
(* each with a virtual one, and a second physical function, an NVMe one    *)
(* for first runs and a vblk one for repeated runs.  Device d1 is an       *)
(* NVMe-oF controller with two block devices, d2 is a Malloc or Null disk, *)
(* d3 is of a product that create_bdev does not create.  Which functions   *)
(* are in use, and which namespaces are attached to which controller, is   *)
(* left open by Init.                                                      *)
(***************************************************************************)
EXTENDS LiveUpgrade, TLC

CONSTANTS vp, vp2, vv, np, np2, nv, b1, b2, b3, b4, d1, d2, d3, n1, n2, nqn

MCVblkPFFirst == {vp}
MCNvmePFFirst == {np, np2}
MCVblkPFRerun == {vp, vp2}
MCNvmePFRerun == {np}
MCVF     == {vv, nv}
MCPFOf   == (vv :> vp) @@ (nv :> np)

MCDev     == {d1, d2, d3}
MCKind    == (d1 :> "nvmf") @@ (d2 :> "disk") @@ (d3 :> "other")
MCBdev    == {b1, b2, b3, b4}
MCBacking == (b1 :> d1) @@ (b2 :> d1) @@ (b3 :> d2) @@ (b4 :> d3)
MCNS      == {n1, n2}
MCNqn     == {nqn}
MCNsNqn   == [n \in MCNS |-> nqn]
MCCtrlNqnFirst == [f \in {np, np2, nv} |-> nqn]
MCCtrlNqnRerun == [f \in {np, nv} |-> nqn]

\* First runs: only block devices that create_bdev supports are in use; one
\* of them is behind a vblk controller and a namespace at once.
MCVblkBdevFirst == (vp :> b1) @@ (vv :> b2)
MCNsBdevFirst   == (n1 :> b1) @@ (n2 :> b3)

\* Runs after a failure: one physical vblk function is a dummy controller, the
\* other one is on a product that is not created on the destination.  The disk
\* is behind a vblk controller and a namespace, another namespace is on d1.
MCVblkBdevRerun == (vp :> None) @@ (vp2 :> b4) @@ (vv :> b3)
MCNsBdevRerun   == (n1 :> b3) @@ (n2 :> b1)

=============================================================================
