----------------------------- MODULE SriovBind -----------------------------
(***************************************************************************)
(* trace/virtio/bind_sriovpf_pci_stub.sh: give an SR-IOV physical function *)
(* (PF) to a stub driver and enable a number of its virtual functions      *)
(* (VFs), none of them attached to a host driver.                          *)
(*                                                                         *)
(* One action is one access to sysfs with the shell code up to the next    *)
(* one.  The script runs with "set -e": any failure ends it, and so may a  *)
(* signal; it undoes nothing, and it may be run again, for another number  *)
(* of VFs.  Meanwhile the kernel attaches drivers on its own, and between  *)
(* two runs the operator uses the same sysfs files.                        *)
(***************************************************************************)
EXTENDS Naturals

CONSTANT TotalVFs    \* sriov_totalvfs

ASSUME TotalAssumption == TotalVFs \in Nat \ {0}

VARIABLES
  \* the kernel
  driver,            \* of the PF: "none", "native" or "stub"
  override,          \* driver_override of the PF: "none" or "stub"
  numVfs,            \* sriov_numvfs: VFs 1 .. numVfs exist
  bound,             \* VFs attached to a host driver
  autoprobe,         \* sriov_drivers_autoprobe
  loaded,            \* is the stub driver's module loaded?
  \* the script
  pc,
  want,              \* VF_COUNT
  currentDriver,     \* CURRENT_DRIVER, as last read
  currentVfs         \* CURRENT_VFS, as last read or written

vfVars     == <<numVfs, bound>>
kernelVars == <<driver, override, vfVars, autoprobe, loaded>>
readVars   == <<currentDriver, currentVfs>>
scriptVars == <<pc, want, readVars>>
vars       == <<kernelVars, scriptVars>>

Running == {"read_driver", "read_vfs", "disable_vfs", "override", "unbind",
            "bind", "verify", "release", "autoprobe", "clear_vfs", "set_vfs",
            "check_vfs", "check_autoprobe", "check_unbound"}

Init ==
  /\ driver \in {"none", "native"} /\ override = "none"
  /\ numVfs = 0 /\ bound = {} /\ autoprobe = TRUE
  /\ loaded \in BOOLEAN
  /\ pc = "off" /\ want = 0 /\ currentDriver = "none" /\ currentVfs = 0

-----------------------------------------------------------------------------
(* What the kernel does with a write. *)

\* A count needs a driver to configure it, and replaces no other count but 0.
CanSetVfs(n) ==
  n = numVfs \/ (driver # "none" /\ (n = 0 \/ numVfs = 0))

\* Mutation: the VFs that go away keep their drivers.
SetVfsLoosely(n) == numVfs' = n /\ UNCHANGED bound

\* With autoprobe, host drivers attach to new VFs at once.
SetVfs(n) ==
  /\ numVfs' = n
  /\ \/ n = numVfs /\ UNCHANGED bound
     \/ n # numVfs /\ ~autoprobe /\ bound' = {}
     \/ n # numVfs /\ autoprobe /\ bound' \in SUBSET (1 .. n)

\* The PF loses its driver, which disables the VFs or leaves them.
LoseDriver ==
  /\ driver # "none"
  /\ driver' = "none"
  /\ \/ UNCHANGED vfVars
     \/ numVfs' = 0 /\ bound' = {}

\* The stub knows no device IDs: it takes the PF only on account of the override.
CanBindStub == driver = "none" /\ override = "stub"

-----------------------------------------------------------------------------
(* The script. *)

\* modprobe attaches a driver just loaded to the devices it matches.
Start(n) ==
  /\ pc \in {"off", "done"}
  /\ want' = n
  /\ loaded' = TRUE
  /\ driver' = IF ~loaded /\ CanBindStub THEN "stub" ELSE driver
  /\ pc' = "read_driver" /\ currentDriver' = "none" /\ currentVfs' = 0
  /\ UNCHANGED <<override, vfVars, autoprobe>>

ReadDriver ==
  /\ pc = "read_driver"
  /\ currentDriver' = driver
  /\ pc' = "read_vfs"
  /\ UNCHANGED <<kernelVars, want, currentVfs>>

\* Mutation: the PF is rebound with its VFs enabled.
ReadVfsOnly ==
  /\ pc = "read_vfs"
  /\ currentVfs' = numVfs
  /\ pc' = IF currentDriver = "stub" THEN "autoprobe" ELSE "override"
  /\ UNCHANGED <<kernelVars, want, currentDriver>>

ReadVfs ==
  /\ pc = "read_vfs"
  /\ currentVfs' = numVfs
  /\ \/ currentDriver = "stub" /\ pc' = "autoprobe"
     \/ currentDriver # "stub" /\ numVfs # 0 /\ pc' = "disable_vfs"
     \/ currentDriver # "stub" /\ numVfs = 0 /\ pc' = "override"
  /\ UNCHANGED <<kernelVars, want, currentDriver>>

DisableVfs ==
  /\ pc = "disable_vfs"
  /\ CanSetVfs(0)
  /\ SetVfs(0)
  /\ currentVfs' = 0
  /\ pc' = "override"
  /\ UNCHANGED <<driver, override, autoprobe, loaded, want, currentDriver>>

SetOverride ==
  /\ pc = "override"
  /\ override' = "stub"
  /\ pc' = IF currentDriver = "none" THEN "bind" ELSE "unbind"
  /\ UNCHANGED <<driver, vfVars, autoprobe, loaded, want, readVars>>

Unbind ==
  /\ pc = "unbind"
  /\ LoseDriver
  /\ pc' = "bind"
  /\ UNCHANGED <<override, autoprobe, loaded, want, readVars>>

Bind ==
  /\ pc = "bind"
  /\ CanBindStub
  /\ driver' = "stub"
  /\ pc' = "verify"
  /\ UNCHANGED <<override, vfVars, autoprobe, loaded, want, readVars>>

Verify ==
  /\ pc = "verify"
  /\ driver = "stub"
  /\ currentDriver' = driver
  /\ pc' = "release"
  /\ UNCHANGED <<kernelVars, want, currentVfs>>

ReleaseOverride ==
  /\ pc = "release"
  /\ override' = "none"
  /\ pc' = "autoprobe"
  /\ UNCHANGED <<driver, vfVars, autoprobe, loaded, want, readVars>>

\* Mutation: the count is written afresh, even if it is the one that is set.
DisableAutoprobeAndVfs ==
  /\ pc = "autoprobe"
  /\ autoprobe' = FALSE
  /\ pc' = IF currentVfs # 0 THEN "clear_vfs" ELSE "set_vfs"
  /\ UNCHANGED <<driver, override, vfVars, loaded, want, readVars>>

\* Mutation: one count is replaced by another in a single write.
DisableAutoprobeOnly ==
  /\ pc = "autoprobe"
  /\ autoprobe' = FALSE
  /\ pc' = IF currentVfs = want THEN "check_vfs" ELSE "set_vfs"
  /\ UNCHANGED <<driver, override, vfVars, loaded, want, readVars>>

DisableAutoprobe ==
  /\ pc = "autoprobe"
  /\ autoprobe' = FALSE
  /\ \/ currentVfs = want /\ pc' = "check_vfs"
     \/ currentVfs # want /\ currentVfs # 0 /\ pc' = "clear_vfs"
     \/ currentVfs # want /\ currentVfs = 0 /\ pc' = "set_vfs"
  /\ UNCHANGED <<driver, override, vfVars, loaded, want, readVars>>

ClearVfs ==
  /\ pc = "clear_vfs"
  /\ CanSetVfs(0)
  /\ SetVfs(0)
  /\ pc' = IF want = 0 THEN "check_vfs" ELSE "set_vfs"
  /\ UNCHANGED <<driver, override, autoprobe, loaded, want, readVars>>

CreateVfs ==
  /\ pc = "set_vfs"
  /\ CanSetVfs(want)
  /\ SetVfs(want)
  /\ pc' = "check_vfs"
  /\ UNCHANGED <<driver, override, autoprobe, loaded, want, readVars>>

CheckVfs ==
  /\ pc = "check_vfs"
  /\ numVfs = want
  /\ pc' = "check_autoprobe"
  /\ UNCHANGED <<kernelVars, want, readVars>>

CheckAutoprobe ==
  /\ pc = "check_autoprobe"
  /\ ~autoprobe
  /\ pc' = "check_unbound"
  /\ UNCHANGED <<kernelVars, want, readVars>>

\* Mutation: the virtfn links are counted, their drivers are not looked at.
CheckLinks ==
  /\ pc = "check_unbound"
  /\ pc' = "done"
  /\ UNCHANGED <<kernelVars, want, readVars>>

CheckUnbound ==
  /\ pc = "check_unbound"
  /\ bound = {}
  /\ pc' = "done"
  /\ UNCHANGED <<kernelVars, want, readVars>>

\* A check or an access fails, or a signal arrives: the process is gone.
Die ==
  /\ pc \in Running
  /\ pc' = "off" /\ want' = 0 /\ currentDriver' = "none" /\ currentVfs' = 0
  /\ UNCHANGED kernelVars

Script ==
  \/ ReadDriver \/ ReadVfs \/ DisableVfs \/ SetOverride \/ Unbind \/ Bind
  \/ Verify \/ ReleaseOverride \/ DisableAutoprobe \/ ClearVfs \/ CreateVfs
  \/ CheckVfs \/ CheckAutoprobe \/ CheckUnbound

-----------------------------------------------------------------------------
(* The rest of the host. *)

\* A driver that is loaded later attaches to a VF, if the PF lets it.
HostProbeVF ==
  /\ autoprobe
  /\ \E v \in (1 .. numVfs) \ bound : bound' = bound \cup {v}
  /\ UNCHANGED <<driver, override, numVfs, autoprobe, loaded, scriptVars>>

\* The PF's own driver attaches to it, unless the override names another.
HostProbePF ==
  /\ driver = "none" /\ override = "none"
  /\ driver' = "native"
  /\ UNCHANGED <<override, vfVars, autoprobe, loaded, scriptVars>>

\* Between two runs, by hand.
Operator ==
  /\ pc \in {"off", "done"}
  /\ pc' = "off"
  /\ \/ LoseDriver /\ UNCHANGED autoprobe
     \/ autoprobe' = ~autoprobe /\ UNCHANGED <<driver, vfVars>>
     \/ \E n \in 0 .. TotalVFs : CanSetVfs(n) /\ SetVfs(n) /\ UNCHANGED <<driver, autoprobe>>
  /\ UNCHANGED <<override, loaded, want, readVars>>

Reboot ==
  /\ driver' \in {"none", "native"} /\ override' = "none"
  /\ numVfs' = 0 /\ bound' = {} /\ autoprobe' = TRUE /\ loaded' = FALSE
  /\ pc' = "off" /\ want' = 0 /\ currentDriver' = "none" /\ currentVfs' = 0

Next ==
  \/ \E n \in 0 .. TotalVFs : Start(n)
  \/ Script \/ Die
  \/ HostProbeVF \/ HostProbePF \/ Operator \/ Reboot

Spec == Init /\ [][Next]_vars

-----------------------------------------------------------------------------
(* Properties. *)

\* Variables have their types, and only VFs that exist have drivers.
TypeOK ==
  /\ driver \in {"none", "native", "stub"}
  /\ override \in {"none", "stub"}
  /\ numVfs \in 0 .. TotalVFs
  /\ bound \subseteq 1 .. numVfs
  /\ autoprobe \in BOOLEAN /\ loaded \in BOOLEAN
  /\ pc \in Running \cup {"off", "done"}
  /\ want \in 0 .. TotalVFs
  /\ currentDriver \in {"none", "native", "stub"}
  /\ currentVfs \in 0 .. TotalVFs

\* When the script reports success, the PF is with the stub, has the VFs asked
\* for, and none of them has a host driver or can get one, although drivers
\* attach by themselves while it works and earlier runs were cut short.
DoneMeansConfigured ==
  pc = "done" =>
    /\ driver = "stub" /\ numVfs = want
    /\ bound = {} /\ ~autoprobe

\* From the moment a driver was read, no write is refused: the VFs are cleared
\* before they are counted anew, and the override set before the unbind keeps
\* the PF's own driver from coming back before the stub is bound.
NeverRefused ==
  currentDriver # "none" =>
    /\ pc \in {"disable_vfs", "clear_vfs"} => CanSetVfs(0)
    /\ pc = "set_vfs" => CanSetVfs(want)
    /\ pc = "unbind" => driver # "none"
    /\ pc = "bind" => CanBindStub
    /\ pc = "verify" => driver = "stub"

\* "VFs must be disabled before changing the PF driver" (line 127), whatever
\* was left by runs that were cut short, and by the operator.
VFsGoneFirst ==
  [][pc' # pc /\ driver' # driver /\ pc \in Running /\ pc' # "off" => numVfs = 0]_vars

\* A second run for what is there already leaves the PF and its VFs alone:
\* guests may be using them.
ConfiguredUndisturbed ==
  [][Script /\ driver = "stub" /\ numVfs = want => UNCHANGED <<driver, vfVars>>]_vars

\* "The override was needed only for this bind operation" (line 147): it is
\* gone when the script reports success.
OverrideReleased == pc = "done" => override = "none"

=============================================================================
