-------------------------- MODULE SriovBindProofs --------------------------
(***************************************************************************)
(* Proofs about SriovBind, for every number of virtual functions.  The     *)
(* inductive invariant says what each stage of the script may rely on: the *)
(* driver it read is still there, the count it remembers is the count, the *)
(* PF stays without a driver while the override is set for the stub.       *)
(***************************************************************************)
EXTENDS SriovBind, TLAPS

Rebinding == {"disable_vfs", "override", "unbind", "bind"}
Checking  == {"check_vfs", "check_autoprobe", "check_unbound", "done"}

\* What was read about the driver, up to the moment it is unbound.
DriverRead ==
  /\ pc = "read_vfs" => (driver = "stub" <=> currentDriver = "stub")
  /\ pc \in Rebinding => driver # "stub" /\ currentDriver # "stub"
  /\ pc \in {"read_vfs", "disable_vfs", "override", "unbind"} =>
       currentDriver \in {"none", driver}
  /\ pc \in {"unbind", "bind"} => override = "stub"
  /\ pc = "unbind" => currentDriver # "none"
  /\ pc = "bind" /\ currentDriver # "none" => driver = "none"

\* The PF belongs to the stub from the bind on.
WithStub ==
  pc \in {"verify", "release", "autoprobe", "clear_vfs", "set_vfs"} \cup Checking =>
    driver = "stub"

\* The count the script remembers is the count there is.
CountRead ==
  /\ pc \in {"disable_vfs", "autoprobe", "clear_vfs"} => currentVfs = numVfs
  /\ pc \in {"override", "unbind", "bind", "verify", "release"} =>
       currentVfs = 0 /\ numVfs = 0
  /\ pc = "clear_vfs" => numVfs # want
  /\ pc = "set_vfs" => numVfs = 0

\* What the last steps have established.
Configured ==
  /\ pc \in {"clear_vfs", "set_vfs"} \cup Checking => ~autoprobe
  /\ pc \in {"check_autoprobe", "check_unbound", "done"} => numVfs = want
  /\ pc = "done" => bound = {}

Inv == TypeOK /\ DriverRead /\ WithStub /\ CountRead /\ Configured

-----------------------------------------------------------------------------

\* A write of a count within the limit keeps the VFs and their drivers in step.
LEMMA SetVfsType ==
  ASSUME TypeOK, NEW n \in 0 .. TotalVFs, SetVfs(n)
  PROVE  numVfs' \in 0 .. TotalVFs /\ bound' \subseteq 1 .. numVfs'
BY DEF TypeOK, SetVfs

\* So does the removal of all of them.
LEMMA LoseDriverType ==
  ASSUME TypeOK, LoseDriver
  PROVE  numVfs' \in 0 .. TotalVFs /\ bound' \subseteq 1 .. numVfs'
<1>1. CASE UNCHANGED vfVars
  BY <1>1 DEF TypeOK, vfVars
<1>2. CASE numVfs' = 0 /\ bound' = {}
  BY <1>2, TotalAssumption
<1>3. QED BY <1>1, <1>2 DEF LoseDriver

\* The invariant holds on a host that has just been booted.
LEMMA InitInv == Init => Inv
BY TotalAssumption
   DEF Init, Inv, TypeOK, DriverRead, WithStub, CountRead, Configured, Rebinding, Checking, Running

\* A step of the script keeps types.
LEMMA ScriptType ==
  ASSUME Inv, Script
  PROVE  TypeOK'
<1>. USE TotalAssumption DEF Inv
<1>1. CASE ReadDriver
  BY <1>1 DEF ReadDriver, TypeOK, Running, kernelVars, vfVars
<1>2. CASE ReadVfs
  BY <1>2 DEF ReadVfs, TypeOK, Running, kernelVars, vfVars
<1>3. CASE DisableVfs
  <2>1. numVfs' \in 0 .. TotalVFs /\ bound' \subseteq 1 .. numVfs'
    BY <1>3, SetVfsType DEF DisableVfs
  <2>2. QED BY <1>3, <2>1 DEF DisableVfs, TypeOK, Running
<1>4. CASE SetOverride
  BY <1>4 DEF SetOverride, TypeOK, Running, vfVars, readVars
<1>5. CASE Unbind
  <2>1. numVfs' \in 0 .. TotalVFs /\ bound' \subseteq 1 .. numVfs'
    BY <1>5, LoseDriverType DEF Unbind
  <2>2. QED BY <1>5, <2>1 DEF Unbind, LoseDriver, TypeOK, Running, readVars
<1>6. CASE Bind
  BY <1>6 DEF Bind, TypeOK, Running, vfVars, readVars
<1>7. CASE Verify
  BY <1>7 DEF Verify, TypeOK, Running, kernelVars, vfVars
<1>8. CASE ReleaseOverride
  BY <1>8 DEF ReleaseOverride, TypeOK, Running, vfVars, readVars
<1>9. CASE DisableAutoprobe
  BY <1>9 DEF DisableAutoprobe, TypeOK, Running, vfVars, readVars
<1>10. CASE ClearVfs
  <2>1. numVfs' \in 0 .. TotalVFs /\ bound' \subseteq 1 .. numVfs'
    BY <1>10, SetVfsType DEF ClearVfs
  <2>2. QED BY <1>10, <2>1 DEF ClearVfs, TypeOK, Running, readVars
<1>11. CASE CreateVfs
  <2>1. numVfs' \in 0 .. TotalVFs /\ bound' \subseteq 1 .. numVfs'
    BY <1>11, SetVfsType DEF CreateVfs, TypeOK
  <2>2. QED BY <1>11, <2>1 DEF CreateVfs, TypeOK, Running, readVars
<1>12. CASE CheckVfs \/ CheckAutoprobe \/ CheckUnbound
  BY <1>12 DEF CheckVfs, CheckAutoprobe, CheckUnbound, TypeOK, Running, kernelVars, vfVars, readVars
<1>13. QED
  BY <1>1, <1>2, <1>3, <1>4, <1>5, <1>6, <1>7, <1>8, <1>9, <1>10, <1>11, <1>12 DEF Script

\* A step of the script leaves the next stage what it relies on.
LEMMA ScriptInv ==
  ASSUME Inv, Script
  PROVE  Inv'
<1>. USE DEF Inv, DriverRead, WithStub, CountRead, Configured, Rebinding, Checking
<1>0. TypeOK'
  BY ScriptType
<1>1. CASE ReadDriver
  BY <1>0, <1>1 DEF ReadDriver, kernelVars, vfVars
<1>2. CASE ReadVfs
  BY <1>0, <1>2 DEF ReadVfs, kernelVars, vfVars
<1>3. CASE DisableVfs
  BY <1>0, <1>3 DEF DisableVfs, SetVfs
<1>4. CASE SetOverride
  BY <1>0, <1>4 DEF SetOverride, vfVars, readVars
<1>5. CASE Unbind
  BY <1>0, <1>5 DEF Unbind, LoseDriver, vfVars, readVars
<1>6. CASE Bind
  BY <1>0, <1>6 DEF Bind, CanBindStub, vfVars, readVars
<1>7. CASE Verify
  BY <1>0, <1>7 DEF Verify, kernelVars, vfVars
<1>8. CASE ReleaseOverride
  BY <1>0, <1>8 DEF ReleaseOverride, vfVars, readVars
<1>9. CASE DisableAutoprobe
  BY <1>0, <1>9 DEF DisableAutoprobe, vfVars, readVars
<1>10. CASE ClearVfs
  BY <1>0, <1>10 DEF ClearVfs, SetVfs, readVars
<1>11. CASE CreateVfs
  BY <1>0, <1>11 DEF CreateVfs, SetVfs, readVars
<1>12. CASE CheckVfs \/ CheckAutoprobe \/ CheckUnbound
  BY <1>0, <1>12 DEF CheckVfs, CheckAutoprobe, CheckUnbound, kernelVars, vfVars, readVars
<1>13. QED
  BY <1>1, <1>2, <1>3, <1>4, <1>5, <1>6, <1>7, <1>8, <1>9, <1>10, <1>11, <1>12 DEF Script

\* Drivers that attach by themselves do not disturb it either, nor does the
\* operator between two runs, a reboot, or the death of the script.
LEMMA HostInv ==
  ASSUME Inv, Die \/ HostProbeVF \/ HostProbePF \/ Operator \/ Reboot
  PROVE  Inv'
<1>. USE TotalAssumption
     DEF Inv, TypeOK, DriverRead, WithStub, CountRead, Configured, Rebinding, Checking, Running
<1>1. CASE Die
  BY <1>1 DEF Die, kernelVars, vfVars
<1>2. CASE HostProbeVF
  BY <1>2 DEF HostProbeVF, scriptVars, readVars
<1>3. CASE HostProbePF
  BY <1>3 DEF HostProbePF, scriptVars, readVars, vfVars
<1>4. CASE Operator
  <2>1. numVfs' \in 0 .. TotalVFs /\ bound' \subseteq 1 .. numVfs'
    <3>1. CASE LoseDriver
      BY <3>1, LoseDriverType
    <3>2. CASE UNCHANGED vfVars
      BY <3>2 DEF vfVars
    <3>3. CASE \E n \in 0 .. TotalVFs : SetVfs(n)
      BY <3>3, SetVfsType
    <3>4. QED BY <1>4, <3>1, <3>2, <3>3 DEF Operator
  <2>2. driver' \in {"none", "native", "stub"} /\ autoprobe' \in BOOLEAN
    BY <1>4 DEF Operator, LoseDriver
  <2>3. QED BY <1>4, <2>1, <2>2 DEF Operator, readVars
<1>5. CASE Reboot
  <2>1. numVfs' \in 0 .. TotalVFs /\ bound' \subseteq 1 .. numVfs'
    BY <1>5 DEF Reboot
  <2>2. QED BY <1>5, <2>1 DEF Reboot
<1>6. QED BY <1>1, <1>2, <1>3, <1>4, <1>5

\* The invariant is inductive.
LEMMA InvHolds == Spec => []Inv
<1>1. Inv /\ [Next]_vars => Inv'
  <2>. SUFFICES ASSUME Inv, [Next]_vars PROVE Inv'
    OBVIOUS
  <2>1. CASE \E n \in 0 .. TotalVFs : Start(n)
    BY <2>1, TotalAssumption
       DEF Start, Inv, TypeOK, DriverRead, WithStub, CountRead, Configured,
           Rebinding, Checking, Running, vfVars
  <2>2. CASE Script
    BY <2>2, ScriptInv
  <2>3. CASE UNCHANGED vars
    BY <2>3 DEF Inv, TypeOK, DriverRead, WithStub, CountRead, Configured, Rebinding, Checking,
       Running, vars, kernelVars, vfVars, scriptVars, readVars
  <2>4. QED BY <2>1, <2>2, <2>3, HostInv DEF Next
<1>2. QED BY <1>1, InitInv, PTL DEF Spec

\* Variables have their types, and every VF with a driver is one that exists.
THEOREM TypeCorrect == Spec => []TypeOK
BY InvHolds, PTL DEF Inv

\* Success means what it says: the stub has the PF with the VFs asked for, and
\* no VF has a host driver or can get one, for any number of VFs.
THEOREM SuccessIsReal == Spec => []DoneMeansConfigured
<1>1. Inv => DoneMeansConfigured
  BY DEF Inv, WithStub, Configured, Checking, DoneMeansConfigured
<1>2. QED BY <1>1, InvHolds, PTL

\* After the driver has been read, the kernel refuses none of the writes.
THEOREM WritesAccepted == Spec => []NeverRefused
<1>1. Inv => NeverRefused
  BY DEF Inv, TypeOK, DriverRead, WithStub, CountRead, Rebinding, Checking,
     NeverRefused, CanSetVfs, CanBindStub
<1>2. QED BY <1>1, InvHolds, PTL

\* The script changes the driver of the PF only while no VF is enabled.
THEOREM VFsDisabledBefore == Spec => VFsGoneFirst
<1>. DEFINE Step == pc' # pc /\ driver' # driver /\ pc \in Running /\ pc' # "off" => numVfs = 0
<1>1. Inv /\ [Next]_vars => [Step]_vars
  <2>. SUFFICES ASSUME Inv, Next PROVE Step
    OBVIOUS
  <2>1. CASE \E n \in 0 .. TotalVFs : Start(n)
    BY <2>1 DEF Start, Running
  <2>2. CASE Script
    BY <2>2 DEF Inv, CountRead, Script, ReadDriver, ReadVfs, DisableVfs, SetOverride, Unbind, Bind,
       Verify, ReleaseOverride, DisableAutoprobe, ClearVfs, CreateVfs, CheckVfs, CheckAutoprobe,
       CheckUnbound, kernelVars
  <2>3. CASE Die \/ HostProbeVF \/ HostProbePF \/ Operator \/ Reboot
    BY <2>3 DEF Die, HostProbeVF, HostProbePF, Operator, Reboot, scriptVars, kernelVars
  <2>4. QED BY <2>1, <2>2, <2>3 DEF Next
<1>2. QED BY <1>1, InvHolds, PTL DEF Spec, VFsGoneFirst

\* A run for what is configured already disturbs neither the PF nor its VFs.
THEOREM RerunHarmless == Spec => ConfiguredUndisturbed
<1>. DEFINE Step == Script /\ driver = "stub" /\ numVfs = want => UNCHANGED <<driver, vfVars>>
<1>1. Inv => Step
  <2>. SUFFICES ASSUME Inv, Script, driver = "stub", numVfs = want PROVE UNCHANGED <<driver, vfVars>>
    OBVIOUS
  <2>1. pc \notin Rebinding \cup {"clear_vfs"}
    BY DEF Inv, DriverRead, CountRead
  <2>2. CASE CreateVfs
    BY <2>2 DEF Inv, CountRead, CreateVfs, SetVfs, vfVars
  <2>3. QED
    BY <2>1, <2>2 DEF Rebinding, Script, ReadDriver, ReadVfs, DisableVfs, SetOverride, Unbind, Bind,
       Verify, ReleaseOverride, DisableAutoprobe, ClearVfs, CheckVfs, CheckAutoprobe, CheckUnbound,
       kernelVars, vfVars
<1>2. QED BY <1>1, InvHolds, PTL DEF ConfiguredUndisturbed

=============================================================================
