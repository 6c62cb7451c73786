---------------------------- MODULE LiveUpgrade ----------------------------
(***************************************************************************)
(* test/vm/virtio/live_update.py: a manager process moves every emulated   *)
(* virtio-blk and NVMe function from a source SNAP process to a            *)
(* destination one, one RPC at a time.  The manager keeps all of its       *)
(* bookkeeping in memory: an RPC that fails raises and ends it, it may be  *)
(* killed between two RPCs, and it may be started again on whatever the    *)
(* two services were left with.                                            *)
(*                                                                         *)
(* One action is one RPC with the bookkeeping up to the next one.  The two *)
(* SNAP services are external: they are modelled by the objects the        *)
(* manager lists, creates and deletes, and they refuse a request on an     *)
(* object that is missing or would be created twice.                       *)
(***************************************************************************)
EXTENDS Integers, FiniteSets

CONSTANTS
  VblkPF, NvmePF,    \* physical functions, by emulation type
  VF, PFOf,          \* virtual functions, and the physical function of each
  Dev, Kind,         \* backing devices: "nvmf", "disk" (Null, Malloc), "other"
  Bdev, Backing,     \* block devices, and the backing device of each
  VblkBdev,          \* the block device of each vblk controller, or None
  NS, NsBdev, NsNqn, \* NVMe namespaces: block device and subsystem of each
  Nqn, CtrlNqn,      \* NVMe subsystems, and the one of each NVMe controller
  Sharing,           \* may two controllers have one namespace attached?
  MaxRuns,           \* bound: how often the manager is started
  None

PF   == VblkPF \cup NvmePF
Func == PF \cup VF
VFs(p) == {v \in VF : PFOf[v] = p}
Vblk == VblkPF \cup {v \in VF : PFOf[v] \in VblkPF}
Nvme == Func \ Vblk

ASSUME FunctionsAssumption ==
  /\ VblkPF \cap NvmePF = {}
  /\ PF \cap VF = {}
  /\ PFOf \in [VF -> PF]
  /\ None \notin Func \cup NS \cup Bdev
  /\ IsFiniteSet(Func)

ASSUME DevicesAssumption ==
  /\ Kind \in [Dev -> {"nvmf", "disk", "other"}]
  /\ Backing \in [Bdev -> Dev]
  /\ IsFiniteSet(Bdev)
  /\ \A b, c \in Bdev : Backing[b] = Backing[c] /\ b # c => Kind[Backing[b]] = "nvmf"

ASSUME UsersAssumption ==
  /\ VblkBdev \in [Vblk -> Bdev \cup {None}]
  /\ NsBdev \in [NS -> Bdev]
  /\ IsFiniteSet(NS)
  /\ NsNqn \in [NS -> Nqn]
  /\ CtrlNqn \in [Nvme -> Nqn]
  /\ NS \cap Func = {}

ASSUME RunsAssumption == Sharing \in BOOLEAN /\ MaxRuns \in Nat

VARIABLES
  \* the source service
  srcCtrl,           \* srcCtrl[f]: the controller of function f
  srcNs,             \* srcNs[f]: namespaces attached to it
  srcDev,            \* backing devices that exist
  \* the destination service
  dstCtrl,           \* functions with a (listening) controller
  dstNs,             \* namespaces that exist
  dstAtt,            \* dstAtt[f]: namespaces attached to controller f
  dstSubsys,         \* subsystems that exist
  dstDev,            \* backing devices that exist
  \* the manager
  pc, func,          \* the RPC to issue next, the function it is for
  pf, todo,          \* loops of main: current physical function, functions left
  ns, nsLeft,        \* loops over ctrl['namespaces']: current one, and those left
  live, ctrlNs,      \* the controllers read from the source, and their namespaces
  known,             \* keys of bdev_dict
  created,           \* bdev_dict[b]['created']
  nvmfCreated,       \* bdev_nvmf_dict[d]['created']
  used, nvmfUsed,    \* the 'used' counters of the two dictionaries
  hist,              \* nvme_subsys_hist
  runs               \* how often the manager has been started

srcVars   == <<srcCtrl, srcNs, srcDev>>
dstVars   == <<dstCtrl, dstNs, dstAtt, dstSubsys, dstDev>>
loopVars  == <<pf, todo, ns, nsLeft>>
snapVars  == <<live, ctrlNs, known>>
bookVars  == <<created, nvmfCreated, hist>>
countVars == <<used, nvmfUsed>>
vars == <<srcVars, dstVars, pc, func, loopVars, snapVars, bookVars, countVars, runs>>

VblkStage == {"create_bdev", "suspend_vblk_ctrl", "suspend_lu", "restore",
              "destroy_vblk_ctrl", "destroy_bdev"}
NvmeStage == {"create_subsys", "create_ns_bdev", "create_ns", "suspend_nvme_ctrl",
              "create_passive", "attach_ns", "notify",
              "detach_ns", "destroy_ns_bdev", "destroy_nvme_ctrl"}
Ended     == {"done", "raised", "killed"}
Stage     == VblkStage \cup NvmeStage \cup Ended \cup {"off", "main"}

-----------------------------------------------------------------------------
(* What the manager reads when it starts. *)

\* Mutation: the vblk controllers are not counted.
UsersNsOnly(b, ctrls) == {n \in NS : NsBdev[n] = b}

\* fill_bdev_hist: namespaces and vblk controllers that name block device b.
Users(b, ctrls) ==
  {n \in NS : NsBdev[n] = b} \cup {f \in ctrls \cap Vblk : VblkBdev[f] = b}

\* The block devices of device d among those listed.
On(d, bdevs) == {b \in bdevs : Backing[b] = d}

Exclusive(att) == \A f, g \in Func : f # g => att[f] \cap att[g] = {}

Init ==
  /\ srcCtrl \in [Func -> {"none", "running"}]
  /\ srcNs \in [Func -> SUBSET NS]
  /\ \A f \in Func : \A n \in srcNs[f] :
        f \in Nvme /\ srcCtrl[f] # "none" /\ NsNqn[n] = CtrlNqn[f]
  /\ Sharing \/ Exclusive(srcNs)
  /\ srcDev = Dev
  /\ dstCtrl = {} /\ dstNs = {} /\ dstSubsys = {} /\ dstDev = {}
  /\ dstAtt = [f \in Func |-> {}]
  /\ pc = "off" /\ func = None
  /\ pf = None /\ todo = {} /\ ns = None /\ nsLeft = {}
  /\ live = {} /\ ctrlNs = [f \in Func |-> {}] /\ known = {}
  /\ created = {} /\ nvmfCreated = {} /\ hist = {}
  /\ used = [b \in Bdev |-> 0] /\ nvmfUsed = [d \in Dev |-> 0]
  /\ runs = 0

\* main up to its loops, with LiveUpgradeManager.__init__.
Start ==
  /\ pc \in {"off", "raised", "killed"}
  /\ runs < MaxRuns
  /\ live' = {f \in Func : srcCtrl[f] # "none"}
  /\ ctrlNs' = srcNs
  /\ known' = {b \in Bdev : Backing[b] \in srcDev}
  /\ used' = [b \in Bdev |-> Cardinality(Users(b, live'))]
  /\ nvmfUsed' = [d \in Dev |-> Cardinality(On(d, known'))]
  /\ created' = {} /\ nvmfCreated' = {} /\ hist' = {}
  /\ pc' = "main" /\ func' = None
  /\ pf' = None /\ todo' = Func /\ ns' = None /\ nsLeft' = {}
  /\ runs' = runs + 1
  /\ UNCHANGED <<srcVars, dstVars>>

\* The process ends before its time, and its memory with it.
Exit(how) ==
  /\ pc' = how /\ func' = None
  /\ pf' = None /\ todo' = {} /\ ns' = None /\ nsLeft' = {}
  /\ live' = {} /\ ctrlNs' = [f \in Func |-> {}] /\ known' = {}
  /\ created' = {} /\ nvmfCreated' = {} /\ hist' = {}
  /\ used' = [b \in Bdev |-> 0] /\ nvmfUsed' = [d \in Dev |-> 0]
  /\ UNCHANGED <<srcVars, dstVars, runs>>

-----------------------------------------------------------------------------
(* The loops of main. *)

\* for ns in S: body; then after.
Each(S, body, after) ==
  /\ nsLeft' = S
  /\ \/ S = {} /\ ns' = None /\ pc' = after
     \/ ns' \in S /\ pc' = body

\* Mutation: a dummy vblk controller is not worth moving.
MoveSkipsDummy(f) ==
  \/ /\ f \notin live \/ (f \in Vblk /\ VblkBdev[f] = None)
     /\ UNCHANGED <<pc, func, ns, nsLeft>>
  \/ /\ f \in live
     /\ f \in Vblk => VblkBdev[f] # None
     /\ func' = f
     /\ pc' = IF f \in Vblk THEN "create_bdev" ELSE "create_subsys"
     /\ UNCHANGED <<ns, nsLeft>>

\* The call of live_update_vblk_func or live_update_nvme_func on f, up to its
\* first RPC; a function without a controller is skipped.
Move(f) ==
  \/ /\ f \notin live
     /\ UNCHANGED <<pc, func, ns, nsLeft>>
  \/ /\ f \in live \cap Vblk
     /\ func' = f
     /\ pc' = IF VblkBdev[f] = None THEN "suspend_vblk_ctrl" ELSE "create_bdev"
     /\ UNCHANGED <<ns, nsLeft>>
  \/ /\ f \in live \cap Nvme
     /\ func' = f
     /\ pc' = "create_subsys"
     /\ UNCHANGED <<ns, nsLeft>>

\* Outer loops: all vblk physical functions come before the NVMe ones.
TakePF(p) ==
  /\ pc = "main" /\ pf = None
  /\ p \in todo \cap PF
  /\ p \in NvmePF => todo \cap VblkPF = {}
  /\ pf' = p
  /\ todo' = todo \ {p}
  /\ Move(p)
  /\ UNCHANGED <<srcVars, dstVars, snapVars, bookVars, countVars, runs>>

TakeVF(v) ==
  /\ pc = "main" /\ pf # None
  /\ v \in todo \cap VFs(pf)
  /\ todo' = todo \ {v}
  /\ Move(v)
  /\ UNCHANGED <<srcVars, dstVars, pf, snapVars, bookVars, countVars, runs>>

\* Mutation: the physical function is left to its own cleanup.
FinishPFUncleaned ==
  /\ pc = "main" /\ pf # None
  /\ todo \cap VFs(pf) = {}
  /\ pf' = None
  /\ UNCHANGED <<srcVars, dstVars, pc, func, todo, ns, nsLeft, snapVars, bookVars, countVars, runs>>

\* After its virtual functions, the physical function itself is cleaned up.
FinishPF ==
  /\ pc = "main" /\ pf # None
  /\ todo \cap VFs(pf) = {}
  /\ \/ /\ pf \notin live
        /\ pf' = None
        /\ UNCHANGED <<pc, func, ns, nsLeft>>
     \/ /\ pf \in live \cap Vblk
        /\ func' = pf /\ pc' = "destroy_vblk_ctrl"
        /\ UNCHANGED <<pf, ns, nsLeft>>
     \/ /\ pf \in live \cap Nvme
        /\ func' = pf
        /\ Each(ctrlNs[pf], "detach_ns", "destroy_nvme_ctrl")
        /\ UNCHANGED pf
  /\ UNCHANGED <<srcVars, dstVars, todo, snapVars, bookVars, countVars, runs>>

Finish ==
  /\ pc = "main" /\ pf = None
  /\ todo \cap PF = {}
  /\ pc' = "done"
  /\ UNCHANGED <<srcVars, dstVars, func, loopVars, snapVars, bookVars, countVars, runs>>

\* Mutation: the inner loop reuses the outer loop's variable.
ReturnShadowed ==
  /\ pc' = "main" /\ func' = None
  /\ pf' = func

\* Back to the loops of main, with the physical function's turn over if it
\* was its own controller that has just been destroyed.
Return ==
  /\ pc' = "main" /\ func' = None
  /\ pf' = IF func = pf THEN None ELSE pf

\* Mutation: physical functions are cleaned up like virtual ones.
CleanedUpNowAlways(f) == TRUE

\* "Don't destroy the PF before detroying all its VFs".
CleanedUpNow(f) == f \in VF

-----------------------------------------------------------------------------
(* create_bdev and destroy_bdev, shared by the two kinds of function. *)

\* Mutation: only the block device itself is looked up.
CreatedItself(b) == b \in created

\* No RPC is needed: created before, or a sibling on the same NVMe-oF controller was.
Created(b) ==
  \/ b \in created
  \/ Kind[Backing[b]] = "nvmf" /\ Backing[b] \in nvmfCreated

CanCreateBdev(b) ==
  b \in known /\ (Created(b) \/ Backing[b] \notin dstDev)

\* Mutation: Null and Malloc disks are noted, but not created.
CreateBdevNvmf(b) ==
  /\ created' = created \cup {b}
  /\ \/ /\ Created(b) \/ Kind[Backing[b]] # "nvmf"
        /\ UNCHANGED <<nvmfCreated, dstDev>>
     \/ /\ ~Created(b) /\ Kind[Backing[b]] = "nvmf"
        /\ nvmfCreated' = nvmfCreated \cup {Backing[b]}
        /\ dstDev' = dstDev \cup {Backing[b]}

\* No RPC for a product that is none of the three, and no error either.
CreateBdev(b) ==
  /\ created' = created \cup {b}
  /\ \/ /\ Created(b) \/ Kind[Backing[b]] = "other"
        /\ UNCHANGED <<nvmfCreated, dstDev>>
     \/ /\ ~Created(b) /\ Kind[Backing[b]] = "nvmf"
        /\ nvmfCreated' = nvmfCreated \cup {Backing[b]}
        /\ dstDev' = dstDev \cup {Backing[b]}
     \/ /\ ~Created(b) /\ Kind[Backing[b]] = "disk"
        /\ dstDev' = dstDev \cup {Backing[b]}
        /\ UNCHANGED nvmfCreated

\* Mutation: the other block devices of the controller are not counted.
LastUseOfBdev(b) == used[b] = 1 /\ Kind[Backing[b]] # "other"

\* The last user of b is gone, and of its NVMe-oF controller if it has one.
LastUse(b) ==
  /\ used[b] = 1
  /\ \/ Kind[Backing[b]] = "disk"
     \/ Kind[Backing[b]] = "nvmf" /\ nvmfUsed[Backing[b]] = 1

CanDestroyBdev(b) ==
  b \in known /\ (LastUse(b) => Backing[b] \in srcDev)

\* Mutation: the counter of the NVMe-oF controller is only read.
DestroyBdevUncounted(b) ==
  /\ used' = [used EXCEPT ![b] = @ - 1]
  /\ srcDev' = IF LastUse(b) THEN srcDev \ {Backing[b]} ELSE srcDev
  /\ UNCHANGED nvmfUsed

DestroyBdev(b) ==
  /\ used' = [used EXCEPT ![b] = @ - 1]
  /\ nvmfUsed' = IF used[b] = 1 /\ Kind[Backing[b]] = "nvmf"
                 THEN [nvmfUsed EXCEPT ![Backing[b]] = @ - 1]
                 ELSE nvmfUsed
  /\ srcDev' = IF LastUse(b) THEN srcDev \ {Backing[b]} ELSE srcDev

\* A controller suspended for events or admin commands keeps serving I/O.
Quiesce(f) ==
  srcCtrl' = [srcCtrl EXCEPT ![f] = IF @ = "running" THEN "quiesced" ELSE @]

-----------------------------------------------------------------------------
(* live_update_vblk_func and destroy_vblk_ctrl. *)

VblkCreateBdev ==
  /\ pc = "create_bdev"
  /\ CanCreateBdev(VblkBdev[func])
  /\ CreateBdev(VblkBdev[func])
  /\ pc' = "suspend_vblk_ctrl"
  /\ UNCHANGED <<srcVars, dstCtrl, dstNs, dstAtt, dstSubsys,
                 func, loopVars, snapVars, hist, countVars, runs>>

SuspendVblkCtrl ==
  /\ pc = "suspend_vblk_ctrl"
  /\ srcCtrl[func] # "none"
  /\ Quiesce(func)
  /\ pc' = "suspend_lu"
  /\ UNCHANGED <<srcNs, srcDev, dstVars, func, loopVars, snapVars, bookVars, countVars, runs>>

\* send_suspend_restore, first half: suspend on the source with -lu ...
VblkSuspendLu ==
  /\ pc = "suspend_lu"
  /\ srcCtrl[func] # "none"
  /\ srcCtrl' = [srcCtrl EXCEPT ![func] = "suspended"]
  /\ pc' = "restore"
  /\ UNCHANGED <<srcNs, srcDev, dstVars, func, loopVars, snapVars, bookVars, countVars, runs>>

\* ... second half: only then create the listener on the destination.
VblkRestore ==
  /\ pc = "restore"
  /\ func \notin dstCtrl
  /\ VblkBdev[func] # None => Backing[VblkBdev[func]] \in dstDev
  /\ dstCtrl' = dstCtrl \cup {func}
  /\ \/ CleanedUpNow(func) /\ pc' = "destroy_vblk_ctrl" /\ UNCHANGED func
     \/ ~CleanedUpNow(func) /\ pc' = "main" /\ func' = None
  /\ UNCHANGED <<srcVars, dstNs, dstAtt, dstSubsys, dstDev,
                 loopVars, snapVars, bookVars, countVars, runs>>

DestroyVblkCtrl ==
  /\ pc = "destroy_vblk_ctrl"
  /\ srcCtrl[func] # "none"
  /\ srcCtrl' = [srcCtrl EXCEPT ![func] = "none"]
  /\ \/ VblkBdev[func] # None /\ pc' = "destroy_bdev" /\ UNCHANGED <<func, pf>>
     \/ VblkBdev[func] = None /\ Return
  /\ UNCHANGED <<srcNs, srcDev, dstVars, todo, ns, nsLeft,
                 snapVars, bookVars, countVars, runs>>

VblkDestroyBdev ==
  /\ pc = "destroy_bdev"
  /\ CanDestroyBdev(VblkBdev[func])
  /\ DestroyBdev(VblkBdev[func])
  /\ Return
  /\ UNCHANGED <<srcCtrl, srcNs, dstVars, todo, ns, nsLeft, snapVars, bookVars, runs>>

-----------------------------------------------------------------------------
(* live_update_nvme_func and cleanup_nvme_controller. *)

\* Create the subsystem unless this run or the destination has it.
CreateSubsys ==
  /\ pc = "create_subsys"
  /\ hist' = hist \cup {CtrlNqn[func]}
  /\ dstSubsys' = IF CtrlNqn[func] \in hist THEN dstSubsys
                  ELSE dstSubsys \cup {CtrlNqn[func]}
  /\ Each(ctrlNs[func], "create_ns_bdev", "suspend_nvme_ctrl")
  /\ UNCHANGED <<srcVars, dstCtrl, dstNs, dstAtt, dstDev, func, pf, todo,
                 snapVars, created, nvmfCreated, countVars, runs>>

NvmeCreateBdev ==
  /\ pc = "create_ns_bdev"
  /\ CanCreateBdev(NsBdev[ns])
  /\ CreateBdev(NsBdev[ns])
  /\ pc' = "create_ns"
  /\ UNCHANGED <<srcVars, dstCtrl, dstNs, dstAtt, dstSubsys,
                 func, loopVars, snapVars, hist, countVars, runs>>

CanCreateNs(n) ==
  \/ n \in dstNs
  \/ CtrlNqn[func] \in dstSubsys /\ Backing[NsBdev[n]] \in dstDev

CreateNs ==
  /\ pc = "create_ns"
  /\ CanCreateNs(ns)
  /\ dstNs' = dstNs \cup {ns}
  /\ Each(nsLeft \ {ns}, "create_ns_bdev", "suspend_nvme_ctrl")
  /\ UNCHANGED <<srcVars, dstCtrl, dstAtt, dstSubsys, dstDev, func, pf, todo,
                 snapVars, bookVars, countVars, runs>>

SuspendNvmeCtrl ==
  /\ pc = "suspend_nvme_ctrl"
  /\ srcCtrl[func] # "none"
  /\ Quiesce(func)
  /\ pc' = "create_passive"
  /\ UNCHANGED <<srcNs, srcDev, dstVars, func, loopVars, snapVars, bookVars, countVars, runs>>

CreatePassive ==
  /\ pc = "create_passive"
  /\ func \notin dstCtrl /\ CtrlNqn[func] \in dstSubsys
  /\ dstCtrl' = dstCtrl \cup {func}
  /\ Each(ctrlNs[func], "attach_ns", "notify")
  /\ UNCHANGED <<srcVars, dstNs, dstAtt, dstSubsys, dstDev, func, pf, todo,
                 snapVars, bookVars, countVars, runs>>

AttachNs ==
  /\ pc = "attach_ns"
  /\ ns \in dstNs \ dstAtt[func]
  /\ dstAtt' = [dstAtt EXCEPT ![func] = @ \cup {ns}]
  /\ Each(nsLeft \ {ns}, "attach_ns", "notify")
  /\ UNCHANGED <<srcVars, dstCtrl, dstNs, dstSubsys, dstDev, func, pf, todo,
                 snapVars, bookVars, countVars, runs>>

\* The source hands the function over; only a virtual one is cleaned up at once.
Notify ==
  /\ pc = "notify"
  /\ srcCtrl[func] # "none"
  /\ srcCtrl' = [srcCtrl EXCEPT ![func] = "suspended"]
  /\ \/ /\ CleanedUpNow(func)
        /\ Each(ctrlNs[func], "detach_ns", "destroy_nvme_ctrl")
        /\ UNCHANGED func
     \/ /\ ~CleanedUpNow(func)
        /\ pc' = "main" /\ func' = None
        /\ UNCHANGED <<ns, nsLeft>>
  /\ UNCHANGED <<srcNs, srcDev, dstVars, pf, todo, snapVars, bookVars, countVars, runs>>

DetachNs ==
  /\ pc = "detach_ns"
  /\ ns \in srcNs[func]
  /\ srcNs' = [srcNs EXCEPT ![func] = @ \ {ns}]
  /\ pc' = "destroy_ns_bdev"
  /\ UNCHANGED <<srcCtrl, srcDev, dstVars, func, loopVars,
                 snapVars, bookVars, countVars, runs>>

NvmeDestroyBdev ==
  /\ pc = "destroy_ns_bdev"
  /\ CanDestroyBdev(NsBdev[ns])
  /\ DestroyBdev(NsBdev[ns])
  /\ Each(nsLeft \ {ns}, "detach_ns", "destroy_nvme_ctrl")
  /\ UNCHANGED <<srcCtrl, srcNs, dstVars, func, pf, todo, snapVars, bookVars, runs>>

DestroyNvmeCtrl ==
  /\ pc = "destroy_nvme_ctrl"
  /\ srcCtrl[func] # "none"
  /\ srcCtrl' = [srcCtrl EXCEPT ![func] = "none"]
  /\ srcNs' = [srcNs EXCEPT ![func] = {}]
  /\ Return
  /\ UNCHANGED <<srcDev, dstVars, todo, ns, nsLeft, snapVars, bookVars, countVars, runs>>

-----------------------------------------------------------------------------
(* Failures. *)

\* Would the services (and the lookups in bdev_dict) accept the next request?
Accepted ==
  /\ pc = "create_bdev" => CanCreateBdev(VblkBdev[func])
  /\ pc = "create_ns_bdev" => CanCreateBdev(NsBdev[ns])
  /\ pc = "restore" => /\ func \notin dstCtrl
                       /\ VblkBdev[func] # None => Backing[VblkBdev[func]] \in dstDev
  /\ pc = "create_ns" => CanCreateNs(ns)
  /\ pc = "create_passive" => func \notin dstCtrl /\ CtrlNqn[func] \in dstSubsys
  /\ pc = "attach_ns" => ns \in dstNs \ dstAtt[func]
  /\ pc = "detach_ns" => ns \in srcNs[func]
  /\ pc = "destroy_bdev" => CanDestroyBdev(VblkBdev[func])
  /\ pc = "destroy_ns_bdev" => CanDestroyBdev(NsBdev[ns])
  /\ pc \in {"suspend_vblk_ctrl", "suspend_lu", "destroy_vblk_ctrl",
             "suspend_nvme_ctrl", "notify", "destroy_nvme_ctrl"} => srcCtrl[func] # "none"

\* send_rpc re-raises CalledProcessError: nothing catches it.
Refused ==
  /\ pc \in VblkStage \cup NvmeStage
  /\ ~Accepted
  /\ Exit("raised")

\* Killed between two RPCs, or an RPC failed for a reason of its own.
Kill ==
  /\ pc \in VblkStage \cup NvmeStage \cup {"main"}
  /\ Exit("killed")

\* Nothing is left to do: the script is not started again.
Terminated ==
  /\ \/ pc = "done"
     \/ pc \in Ended /\ runs = MaxRuns
  /\ UNCHANGED vars

Step ==
  \/ \E f \in Func : TakePF(f) \/ TakeVF(f)
  \/ FinishPF \/ Finish
  \/ VblkCreateBdev \/ SuspendVblkCtrl \/ VblkSuspendLu \/ VblkRestore
  \/ DestroyVblkCtrl \/ VblkDestroyBdev
  \/ CreateSubsys \/ NvmeCreateBdev \/ CreateNs \/ SuspendNvmeCtrl
  \/ CreatePassive \/ AttachNs \/ Notify
  \/ DetachNs \/ NvmeDestroyBdev \/ DestroyNvmeCtrl
  \/ Refused

Next == Start \/ Step \/ Kill \/ Terminated

Spec == Init /\ [][Next]_vars

-----------------------------------------------------------------------------
(* Properties. *)

\* Variables have their types.
TypeOK ==
  /\ srcCtrl \in [Func -> {"none", "running", "quiesced", "suspended"}]
  /\ srcNs \in [Func -> SUBSET NS]
  /\ srcDev \subseteq Dev
  /\ dstCtrl \subseteq Func
  /\ dstNs \subseteq NS
  /\ dstAtt \in [Func -> SUBSET NS]
  /\ dstSubsys \subseteq Nqn
  /\ dstDev \subseteq Dev
  /\ pc \in Stage
  /\ func \in Func \cup {None}
  /\ pf \in PF \cup {None}
  /\ todo \subseteq Func
  /\ nsLeft \subseteq NS
  /\ ns \in NS \cup {None}
  /\ live \subseteq Func
  /\ ctrlNs \in [Func -> SUBSET NS]
  /\ known \subseteq Bdev
  /\ created \subseteq Bdev
  /\ nvmfCreated \subseteq Dev
  /\ used \in [Bdev -> Int]
  /\ nvmfUsed \in [Dev -> Int]
  /\ hist \subseteq Nqn
  /\ runs \in 0 .. MaxRuns

\* A block device named by a controller that still exists on the source is
\* never deleted there, or the host would see its capacity drop to 0
\* (live_update.py:385-386).  It rests on the two levels of 'used' counters.
SourceKeepsBacking ==
  \A f \in Func : srcCtrl[f] # "none" =>
    /\ f \in Vblk => VblkBdev[f] = None \/ Backing[VblkBdev[f]] \in srcDev
    /\ \A n \in srcNs[f] : Backing[NsBdev[n]] \in srcDev

\* The same while the source still answers the host on that controller: the
\* comment's promise to the host, for namespaces as well as vblk controllers,
\* and whether or not a namespace is attached to several controllers.
ServingKeepsCapacity ==
  \A f \in Func : srcCtrl[f] \in {"running", "quiesced"} =>
    /\ f \in Vblk => VblkBdev[f] = None \/ Backing[VblkBdev[f]] \in srcDev
    /\ \A n \in srcNs[f] : Backing[NsBdev[n]] \in srcDev

\* The first run against an empty destination never issues a request that the
\* services refuse: create_bdev, the subsystem history and the two existence
\* checks create everything once and before it is named.
NeverRefused ==
  runs = 1 => pc # "raised"

\* When main returns, no function is left on the source, each one it listed
\* has its controller on the destination, with all of its namespaces, and
\* each of those has its block device there.
MovedCompletely ==
  pc = "done" =>
    /\ \A f \in Func : srcCtrl[f] = "none"
    /\ live \subseteq dstCtrl
    /\ \A f \in live : ctrlNs[f] = dstAtt[f]
    /\ \A f \in dstCtrl : \A n \in dstAtt[f] : Backing[NsBdev[n]] \in dstDev
    /\ \A f \in dstCtrl \cap Vblk :
         VblkBdev[f] # None => Backing[VblkBdev[f]] \in dstDev

\* When main returns, a backing device whose block devices were all in use by
\* functions that moved is deleted on the source: no counter is left above 0.
SourceDrained ==
  pc = "done" =>
    \A d \in Dev :
      /\ Kind[d] # "other"
      /\ On(d, known) # {}
      /\ \A b \in On(d, known) :
           /\ Users(b, live) # {}
           /\ Users(b, live) \cap NS \subseteq UNION {ctrlNs[f] : f \in live}
      => d \notin srcDev

\* "Don't destroy the PF before destroying all its VFs" (live_update.py:413,
\* 578), whatever was killed and started again before.
PFDestroyedLast ==
  [][\A p \in PF : srcCtrl[p] # "none" /\ srcCtrl'[p] = "none" =>
       \A v \in VFs(p) : srcCtrl[v] = "none"]_vars

\* A run that is refused, on what an earlier one has left or for any other
\* reason, leaves the function of its turn to whom it had before: what can be
\* refused comes before the suspend, unless the destination has the function
\* already or create_bdev (line 217) passed over the block device's product.
GapOnlyByKill ==
  [][pc = "restore" /\ pc' = "raised" =>
       func \in dstCtrl \/ Kind[Backing[VblkBdev[func]]] = "other"]_vars

\* Who answers the host on function f.
OwnerOf(f) ==
  IF srcCtrl[f] \in {"running", "quiesced"} THEN "source"
  ELSE IF f \in dstCtrl THEN "destination"
  ELSE IF srcCtrl[f] = "suspended" THEN "gap" ELSE "unused"

Promise == INSTANCE Handover WITH
  owner <- [f \in Func |-> OwnerOf(f)], attempts <- runs

\* The manager implements the promise of module Handover: a function moves
\* from source to destination and never back, is never destroyed on the
\* source without a successor, and each run leaves at most one in a gap.
HandoverRefined == Promise!Spec

=============================================================================
