------------------------------ MODULE Handover ------------------------------
(***************************************************************************)
(* What a live upgrade of the SNAP service promises the host, whatever the *)
(* order of the RPCs that implement it: every emulated PCI function that   *)
(* was served by the source process is handed to the destination process   *)
(* and never comes back, no function loses its owner except through a gap, *)
(* and every attempt leaves at most one function in such a gap.            *)
(***************************************************************************)
EXTENDS FiniteSets, Naturals

CONSTANT Func        \* the emulated functions, physical and virtual

VARIABLES
  owner,             \* owner[f]: who answers the host on function f
  attempts           \* number of upgrade attempts started so far

vars == <<owner, attempts>>

Owner == {"unused", "source", "gap", "destination"}

\* Functions suspended on the source that nobody has taken over.
Gap == {f \in Func : owner[f] = "gap"}

Init ==
  /\ owner \in [Func -> {"unused", "source"}]
  /\ attempts = 0

Attempt ==
  /\ attempts' = attempts + 1
  /\ UNCHANGED owner

\* The source stops serving f before the destination is there to take it.
Release(f) ==
  /\ owner[f] = "source"
  /\ Cardinality(Gap) < attempts
  /\ owner' = [owner EXCEPT ![f] = "gap"]
  /\ UNCHANGED attempts

\* The destination takes f, from the source or out of a gap.
TakeOver(f) ==
  /\ owner[f] \in {"source", "gap"}
  /\ owner' = [owner EXCEPT ![f] = "destination"]
  /\ UNCHANGED attempts

Next ==
  \/ Attempt
  \/ \E f \in Func : Release(f) \/ TakeOver(f)

Spec == Init /\ [][Next]_vars

=============================================================================
