# A verification model of dcperf

dcperf is a toolbox for data-centre work on DPUs and hosts: a live upgrade of the storage service behind
emulated PCI functions, scripts that reconfigure PCI devices while other software uses them, small debug
programs, and many straight-line test and tracing scripts.  There is no common program: each tool runs on its
own, and what they interact with is the host, that is the kernel's sysfs files, PCI registers, the SNAP storage
services.  The models follow that shape: one module per tool, with the part of the host that it depends on.

## 1. Inventory

| Component | State it keeps | Operations | What is hard | What makes it correct | Status |
|---|---|---|---|---|---|
| Live upgrade manager, `test/vm/virtio/live_update.py` | counters and flags per block device and per backing controller, the controllers read at the start; outside: objects of two SNAP services | read both services; move each vblk and NVMe function: create block devices, subsystem, namespaces, suspend, create a listener, attach, hand over; clean up | a chain of RPCs that can fail or be cut anywhere and is started again from nothing; reference counts on two levels; PF after its VFs | block devices outlive their users; nothing is moved back or lost; at most one function in a gap per run; a first run is never refused | modelled |
| SR-IOV PF binder, `trace/virtio/bind_sriovpf_pci_stub.sh` | driver and VF count as read; outside: driver, override, VFs, autoprobe | read, disable VFs, override, unbind, bind, verify, release, autoprobe off, set VFs, check | stale reads, drivers that attach by themselves, runs cut short and repeated, an order the kernel insists on | success is real; no refused write; VFs gone before the driver changes; a rerun disturbs nobody | modelled |
| Completion timeout setter, `trace/set_cmplto.sh` | register word as read; outside: DevCap2, DevCtl2 | check capability, read, masked write, read back | a masked write is not atomic, the register is shared | never an unadvertised setting; alone, exactly its bits change | modelled |
| PCI debug tool, `trace/tool/pci/pci_debug.c` | endian mode, the mapped BAR | display, change, fill, endian, command file, prompt | bounds in bytes and loops in words, signed and unsigned, wrap-around | writes stay in range; what is written is shown | modelled |
| Symbolic backtrace, `trace/backtrace/backtrace.c` | a table of 64 lines shared by frames, sections and inlined functions; open file, symbol table | create, next, print, destroy | limits in two loops, error exits that own resources | the table is a prefix of the full listing; nothing leaks; a freed symbol table is used again in one known case only; it ends | modelled |
| PCI memory access tool, `trace/tool/pci/pcimem.c` | loop variables, the previous value; outside: the resource | map, read items, leave out repeated values, write one item | int arithmetic of sizes, a pointer left over from a loop, a device that changes under the reads | accesses are mapped; the shortened output determines the values; the write goes where the last read was | modelled |
| Driver rebind loop, `trace/virtio/bind_unbind.sh` | iteration, turn of a wait; outside: driver link, disk, mounts | check mounts, resolve, unbind, wait, bind, wait | bounded waits, then the next step anyway; mounts checked once; the disk is known by its name; other tools | what is reported happened; no disk is taken from a file system that the check could see; it ends | modelled |
| Live upgrade scripts, `test/vm/nvme/*.sh`, `test/vm/virtio/live.sh` | none | fixed RPC sequences | errors are ignored, the next step follows | the Handover promise | not modelled |
| Reboot and attach loop, `test/vm/virtio/reboot_attach.sh`, `host_reboot.sh` | round and retry counters | attach, detach, power reset, wait for ssh | the old system answers the wait; bounded retries | a disk is attached when the host boots from it | not modelled |
| Hot-plug loop, `test/hotplug` | round | create, plug, unplug, destroy; a polling load | the poller's timeout against slow rounds | every round cleans up | not modelled |
| Kernel trace programs, `*.bt` | flags per thread | entry and return probes | nested or missed returns | what is printed belongs to the call it names | not modelled |
| Strict aliasing example, `trace/virtio/tbaa.c` | one word seen through two types | store, load | undefined behaviour: the build may use the value read before | fixed variants read what was written | not modelled |

Not worth a model: the RDMA tracing set-ups (`trace/krdma`), `sys_reset.sh` and the benchmark command lines decide
nothing; `vblk_read_write.c`, `intel_set_fcs.c`, `sshcmd.py`, `usadd` and the
installers are pure I/O; the VM definitions are data; the two long notes describe the kernel and firmware.
`PROJECT.json` lists every file under its component, and the hazards of the code at their lines.

The components interact through the host only: the binder gives a PF to the stub driver so that VMs can use its
VFs, the timeout setter acts on the root port above it, and the live upgrade moves the functions that such VMs use.  They are therefore not composed; what
does interact, each tool with the host beside it, is in each module.

## 2. Modules

Each program step that another actor can observe (an RPC, an access to sysfs or to a register) is one action,
with all of the program's code up to the next one.  A definition beginning with `\* Mutation:` is not part of the
model: it is a plausible bug that shows that some property would notice it.

**`LiveUpgrade`** (the manager and both services).  `pc` names the next RPC; `func`, `pf`, `todo`, `ns`, `nsLeft`
are the loop variables of `main` and of the two `live_update_*_func`; `known`, `created`, `used`, `nvmfCreated`,
`nvmfUsed` are `bdev_dict` and `bdev_nvmf_dict`; `live`, `ctrlNs` what `__init__` read.  `Start` is
`__init__`; `TakePF`, `TakeVF`, `FinishPF`, `Finish` are the loops; the other actions are one RPC each.  `Refused` is the
exception that follows an RPC on an object that is missing or exists already; `Kill` also stands for an RPC that fails by
itself, since nothing catches the exception.  The services (`src*`, `dst*`) are external: what they list,
create, delete and refuse is taken from how the manager uses them; that includes one assumption about a program outside the
repository: the manager passes the suspend and create lines of a vblk function to `snap_rpc.py` as one argument each (lines 338 to 341), and the model has them
accepted as if they were split at the spaces.  `MCLiveUpgrade` gives the instances.

**`Handover`** is the promise: who answers the host on each function.  `LiveUpgrade!Promise` is the refinement mapping:
the source owns what it has not suspended for live update, then the destination if it has the controller, otherwise
the function is in a gap.

**`SriovBind`**: `driver`, `override`, `numVfs`, `bound`, `autoprobe`, `loaded` are the kernel's state behind sysfs;
`want`, `currentDriver`, `currentVfs` the script's variables.  `Die` ends a run after any access (`set -e`, `die`, a signal).
`HostProbeVF`, `HostProbePF`, `Operator` and `Reboot` are the rest of the host.  What the kernel does with a write
(`CanSetVfs`, `SetVfs`, `LoseDriver`, `CanBindStub`) is external.  One assumption there is worth naming: while the script
runs nobody else writes these files, only the kernel attaches drivers by itself.  Between runs `Operator` may unbind the PF's driver, turn autoprobe over and set
any VF count that the kernel accepts; he does not touch the override, and binds by loading a driver (`HostProbePF`, `HostProbeVF`).

**`DevCtl2`**: `cap` and `reg` are the two registers, split into the timeout value, the disable bit and everything else; `pc`, `req`,
`before`, `fetched` are per run of the script, of which there may be several.  `Fetch` and `Store` are the two halves of `setpci VALUE:MASK`;
`KernelWrite` and `DeviceReset` may come in between.  `alone` is a history variable.  Reserved ranges are not in `Encodings`
because the script refuses them.

**`PciDebug`**: `mem` is the mapped page, `Region` the BAR in it.  A byte has `Base` values instead of 256, and an int four such bytes,
so that sign, truncation and wrap-around occur at small numbers.  `Clip`, `DisplayCount`, `FillCount`, `Place` are
the arithmetic of the commands.  An access past the page ends the program (`"fault"`).  Parsing is left out: a command is
its arguments.  `RegionAssumption` has `2 * Size < Word`, so that the size is a positive int: BARs of 2 GiB and more are outside the model and the proofs.

**`Backtrace`**: the input is a stack: for each frame, what becomes of its file in `load_file`, and for each section of that file
the source lines libbfd knows (none if the address is not in it).  `LookUp`, `Load`, `Reread`, `Section`, `Line`, `Unload` are the loop nest of
`debug_backtrace_create`, with the two symbol reads of `load_file` as steps of their own, `NextLine` is `debug_backtrace_next`.  `size`, `count`, `position` are the code's; `chain` is libbfd's place in the inlined functions; `strings`, `bfd`, `syms`
follow what must be released: `syms` is what the pointer of that name points to, nothing, a table, or a table that was freed.  Whether libbfd allocates a
table for no symbols, and whether it sets the pointer then, is left open in both reads.  What a use of a freed table does is undefined; of the outcomes the
model has two, the program crashes (`"crashed"`) or goes on as if nothing had happened, and none in which it prints something else.

**`PciMem`**: `mem` is the resource, `target`, `width`, `count`, `data` the arguments as `main` has them; `i`, `prev`, `dupped` are the
loop's variables, `reads`, `shown` and `dots` record what was read and which items printed a value or `...`.  Ints are scaled as in
`PciDebug`, and `ToInt` is the conversion of `items_count` and `map_size`.  A product that overflows is
undefined in C: `Products` has the two outcomes a build produces, wrapped or computed wider.  An access beyond
the mapping, or through the pointer the loop never set, ends the behaviour (`"stray"`).  `Change` is the device.

**`Bytes`** is what the two programs that access PCI memory share, a number as the bytes of memory that hold it: `Weight[k]` is what byte `k`
counts, `Digit` takes a byte out of a number and `Number` puts them together again.

**`Rebind`**: `driver`, `disk` and `mounted` are the host; `"leaving"` is a driver whose `remove` has begun, when the link is still there.  The
kernel takes the disk away before the link, and adds it after the bind, each in its own time (`RemoveDisk`, `Detach`, `AddDisk`); `Mount`,
`Unmount`, `Rival` and `Foreign` are the rest of the host.  The script's actions are its accesses, with one action per turn of a wait.  `mounted` is a set of the ways in which file systems on the disk
are mounted: `"by_name"` if the mount table has the disk's name, `"unseen"` if it has a mapper's or an array's, or if the mount is in another namespace.  `Validate` sees the
first only; it may also refuse because of a name that merely begins like the disk's.  The name of the
kernel's disk stays the same unless somebody else takes it or still holds the old one.  `rebound`, `late` and `alone` are history
variables.

`LiveUpgradeProofs` (types, block devices, the end of a run), `HandoverProofs` (order, refinement, refusals, what is moved and deleted), `SriovBindProofs`, `DevCtl2Proofs`, `PciDebugProofs`,
`PciMemProofs`, `RebindProofs` and `BacktraceProofs` hold the theorems.

## 3. Runs

| Run | Instance and bounds | Shows |
|---|---|---|
| `lu_first` | 3 PFs and 2 VFs of both types, 4 block devices on an NVMe-oF controller, a disk and an unsupported device, 2 namespaces; any of them in use; 1 run, killed anywhere | types; nothing refused; everything moved with its block device; devices deleted exactly when unused |
| `lu_rerun` | 2 vblk PFs, 1 NVMe PF, 2 VFs; a dummy controller, a vblk controller on an unsupported device, a disk with two users; up to 3 runs | devices outlive users, PF last, a refusal leaves no gap, `Handover` is implemented |
| `lu_shared` | as `lu_first`, a namespace may be attached to two controllers | **violation**, section 5 |
| `sriov` | 3 VFs, any number of runs | the five properties of the binder |
| `sriov_override` | 2 VFs | **violation** |
| `devctl2` | 2 runs at once, again and again, codes 0 and 6, one other bit; all capability values; symmetric in the runs | the register is legal; a run alone is exact |
| `devctl2_lost` | the same | **violation** |
| `pcidebug` | BAR of 4 bytes at offset 1 in a page of 7; addresses 0, 1, size and beyond; lengths 0, 3, 4 and a negative one | bytes stay bytes; written is shown in both modes; lengths are bytes; a wrapped range is bounded too |
| `pcidebug_trunc` | the same | **violation** |
| `backtrace` | table of 3 lines, all stacks of up to 3 frames (some of 4) out of 10 kinds of frame, 4 values of `strip`; `WF(Step)` | prefix, rest, no leaks, the one use of a freed table, termination |
| `pcimem` | ints up to 15, a resource of 3 pages of 4 bytes, one byte that changes by itself, one that ignores writes; offsets at the start, in the middle and at the end of pages; counts 0 to 5, 9, and two that are negative and positive again as ints; with and without data | mapped accesses, unambiguous output, place of the write |
| `rebind` | 3 iterations, waits of 2 turns; mounts of both ways, a rival and another disk at any time; `WF(Script)` | what is reported happened, mounts, termination |

Why the bounds suffice.  `lu_*`: the counters distinguish "first, other, last user" of a block device and of a
controller with two block devices; two PFs of one type and a VF exercise each loop twice; three runs let a rerun meet what a
rerun left.  `sriov`: with three VFs one nonzero count replaces another and some VFs are bound while others are not; the number of runs is
not bounded at all.  `devctl2`: a third run adds nothing that a kernel write or a reset between two halves does not.
`pcidebug`: all widths fit into the BAR, at least one address is unaligned, at least one range crosses the end, and a
range crosses the page.  `pcimem`: each width has a count that fits, one that leaves the resource and one whose product overflows; runs of equal values
start at the first item, in the middle, and are interrupted by `Change`.  `rebind`: a wait of two turns can succeed at once, at its last
look, or not; the second of three iterations begins and ends in the loop.  `backtrace`: the table is full in the middle of a frame, at the end of one, and before the last.

Fairness.  `Spec` of `Backtrace` and of `Rebind` has weak fairness on the program's own steps: a single thread that nobody blocks (a call of libbfd
and a write to sysfs return, a turn of a wait sleeps 0.1 s).  Nothing is assumed of the kernel: `Rebind` ends
because its waits count, not because the disk comes back.  The others have no liveness property.  Scripts that may be killed promise none; `pcimem` is one counted
loop; and the live upgrade cannot promise to end, because its RPCs are subprocesses without a timeout (`live_update.py:29`, `:56`): a service that never answers
keeps it waiting, which its `Spec`, without fairness, allows at every RPC.

Deadlock is checked in every run; programs that are over stutter explicitly (`Terminated`, `Ended`, `Done`) or start again.

## 4. What is proved

For every value of the constants that satisfies the named assumptions:

| Theorem | Statement | Argument |
|---|---|---|
| `LiveUpgradeProofs!TypeCorrect` | `[]TypeOK` | with `StageOK`: each stage has the function, block device and namespace its RPC names |
| `LiveUpgradeProofs!WorkEnds` | each start, step and kill leaves less to do, in a well-founded order | `NsTaken`, below |
| `LiveUpgradeProofs!BackingKept` | `[]SourceKeepsBacking`, if namespaces are not shared | below |
| `HandoverProofs!PhysicalLast` | `PFDestroyedLast` | `LoopInv` |
| `HandoverProofs!ImplementsHandover` | `HandoverRefined`, that is `Spec => Promise!Spec` | `OwnerInv`, `GapInv`, below |
| `HandoverProofs!NoGapByRefusal` | `GapOnlyByKill` | `BookInv`: what is noted as created exists on the destination |
| `HandoverProofs!MovesAll` | `[]MovedCompletely` | `DstInv`, `AttachedInv`, `GoneInv`: what is over for each function whose turn is over |
| `HandoverProofs!DevicesDeleted` | `[]SourceDrained`, if namespaces are not shared | `ExactInv`, `DetachInv`, below |
| `HandoverProofs!FirstRunAccepted` | `[]NeverRefused`, if `create_bdev` supports the block devices in use | `FreshInv`, `FirstBookInv`, `FirstNsInv`, below |
| `SriovBindProofs!TypeCorrect` | `[]TypeOK` | with what each stage has read |
| `SriovBindProofs!SuccessIsReal` | `[]DoneMeansConfigured` | each check's result holds until the end, because nothing the kernel does by itself undoes it |
| `SriovBindProofs!WritesAccepted` | `[]NeverRefused` | what was read still restricts the driver and the count at each stage |
| `SriovBindProofs!VFsDisabledBefore` | `[]VFsGoneFirst` | from the same invariant |
| `SriovBindProofs!RerunHarmless` | `[]ConfiguredUndisturbed` | with `currentVfs` equal to the count, the clearing stages are not reached |
| `DevCtl2Proofs!TypeCorrect` | `[]TypeOK` | |
| `DevCtl2Proofs!AlwaysLegal` | `[]LegalSetting` | the words about to be written back are legal as well as the register, and so is every accepted request |
| `DevCtl2Proofs!AloneExact` | `[]ExactWhenAlone` | while `alone`, the register is `before` until the write, and `fetched` is it |
| `RebindProofs!TypeCorrect` | `[]TypeOK` | with `InLoop`: while the loop runs, an iteration is left |
| `RebindProofs!CompletedCounts` | `[]CompletedMeansRebound` | it is inductive |
| `RebindProofs!OwnDiskReported` | `ReportedAlone` | `Undisturbed`: where driver and disk can be at each stage while nobody else touched them |
| `RebindProofs!LateMountsOnly` | `OnlyLateMountsLost` | `MountsKnown`: after the check, what is mounted by name came later |
| `RebindProofs!StepsCounted` | at most `Iterations * (DetachTurns + AppearTurns + 3) + 2` steps of the script | `Waiting`: each wait is at a turn it has |
| `PciMemProofs!TypesCorrect` | `[]TypeOK` | `MappedInside`: what is mapped is part of the resource, so what is read is made of bytes |
| `PciMemProofs!AccessesMapped` | `[]InsideMapping` | `Covered`: if the product is an int, the mapping reaches to the end of the last item |
| `PciMemProofs!WritesWhereRead` | `WritesLastRead` | when the loop is left, `i` is `count` unless it never ran |
| `PciMemProofs!OutputSuffices` | `[]OutputDetermines` | `Remembered`: `read_result_dupped` says whether the last item was left out |
| `PciMemProofs!StepsCounted` | at most `count + 3` steps of the program, 3 for a count below 1 | the loop stays within its count |
| `PciDebugProofs!TypesCorrect` | `[]TypeOK` | each byte of a number is a byte |
| `PciDebugProofs!WordsReadBack` | `[]WrittenIsShown` | `Stored`: the bytes where a command has written are those of its words, below |
| `PciDebugProofs!LengthsAreBytes` | `LengthInBytes` | arithmetic of `Clip` and the loop bounds; no invariant |
| `PciDebugProofs!BoundedWrites` | `WritesBounded` | the same, with the sum that wraps |
| `BacktraceProofs!TableBounded` | `[]TypeOK` | `Room`: lines counted for a frame and lines in the table fit together |
| `BacktraceProofs!AllReleased` | `[]NothingLeaks` | `Held`: what is open or allocated at each place |
| `BacktraceProofs!FreedTwiceOnlyIfEmpty` | `[]FreedOnce` | it is inductive, with `Held`: the pointer is freed or empty when the second read begins |
| `BacktraceProofs!TableTruncates` | `[]TableIsPrefix` | `Progress`: the table has the lines up to the rank the program has come to, below |
| `BacktraceProofs!ListingComplete` | `[]PrintedRest` | `Listed`: each line that is kept is printed at its rank among those |
| `BacktraceProofs!WorkEnds` | each step leaves less to do, in a well-founded order | from `Progress` and `Listed`, below |

`SourceKeepsBacking` is not inductive: a block device is deleted when a counter reaches 0, so one has to know that the
counter is never below what is still to be released.  `SafeInv` says so.  A *claim* on a block device is a user (a vblk controller or an
attached namespace) whose `destroy_bdev` has not been executed, including the one between its removal on the source and that call.
`CountInv` bounds the number of claims by `used`, and the number of block devices with a positive counter by `nvmfUsed`; `PendingInv` and
`AttachInv` (no namespace attached twice) make each release remove exactly one claim (`Released`, a cardinality argument).
Without the assumption on shared namespaces it fails, and run `lu_shared` shows where.

`DevicesDeleted` needs the other half of `CountInv`.  `ExactInv` says it for the devices whose block devices were all in use by what this run
moves: `used` is not above the number of claims either, and a device that still exists has a counter above 0 (a Null or Malloc disk in `used`, an NVMe-oF
controller in `nvmfUsed`), because the release that takes it to 0 is the one that deletes the device.  When `main` returns, `MovesAll` says that no
controller is left, so there is no claim, so no such counter is above 0.  `DetachInv` says that every namespace is detached, and
so released, before its controller is destroyed, which would drop its claim uncounted.

The refinement.  `Handover` bounds the functions in a gap by the number of runs.  `GapInv` is that bound with the function in hand taken
out: while a run is going on, at most `runs - 1` functions are in a gap besides the one about to be restored; when the run ends there (killed or
refused), that one counts.  `OwnerInv` says that the destination has the controller before the source destroys its own, which makes
each destruction a stutter of `Handover`.  Both need `LoopInv`, which says which functions the nested loops of `main` have been
through: the PF that `main` cleans up is the one of this turn, and its VFs are gone.

`FirstRunAccepted` has to know that everything a request names exists, and that nothing it creates does.  For the functions, that is
`FreshInv` (until its turn a function is as it was listed, and the destination does not have it); for block devices `FirstBookInv`
(the flags of `bdev_dict` and `bdev_nvmf_dict` are exact in a first run, and a counter that is spent stays spent); for
namespaces `FirstNsInv` (created before attached).  The assumption `Supported` cannot be dropped: for any other product `create_bdev` notes a device that it has not
created, and the restore is refused.  `FirstRunAccepted` holds with shared namespaces too.

The table of the backtrace.  `TableIsPrefix` is about a listing that no program step ever produces, the one without a limit, and its lines come
from nested loops.  The place of a line in it is its *rank*: the number of lines of the frames before (`Rank`, the cardinality of the set `Before`)
plus its own number within its frame.  Unlike a fold, a cardinality needs no induction: one frame more adds its lines (`NextRank`), and ranks of different
frames do not overlap (`RankBefore`).  `Filled(f)` says that the table has the lines of the frames before `f`, each at its rank, and is full or ends there.
Within a frame, `Progress` says what `count` is: 0 until a section knows the address, then as many lines as there are or as
there is room for (`Taken`), and while lines are added, `chain` is the rest of that section's lines.  That is where `count == 0` of the section loop is needed: without it a
second section that knows the address would add its lines too.  `PrintedRest` is proved the same way from `Kept`, the
lines that are not excluded.

Numbers and bytes.  `WrittenIsShown` holds because a number is determined by its bytes (`NumberOfDigits`: the digits of a number below `Weight[w]` make up that number, by
dividing twice, for each width) and because `Place` undoes itself: reading in the mode of the write undoes the order of the bytes, reading in the other one reverses
it.  `Stored` says that what the last command has written is still there as its words, which needs that the words of one command do not overlap (`WriteStored`).
`Weight` is a recursive function; the proofs unroll it for the 8 bytes that a number can have.

Termination.  What a loop does to a measure is a safety property, and that half is proved for every value of the constants.  `PciMem` and `Rebind` have a number of
steps left (`Left`) that each step of the program lowers and nobody else changes.  For `LiveUpgrade` and `Backtrace`, `Work` is five numbers that become less as one:
runs, functions, stages, namespaces and RPCs for a namespace; parts, frames or lines, opening steps, sections and room in the table.  The first of them that changes becomes smaller
(`Fewer`), and that order is well-founded (`FewerEnds`).  The work of the live upgrade needs no invariant about the services: whatever they hold, a run
whose RPCs return has only so many of them.  `NsTaken` says that the namespace that a loop is done with was one of those it had left.

Only model-checked: the liveness properties `Ends` of `Backtrace` and of `Rebind`.  The theorems above
bound the steps; that a step is taken as long as the program is not over is fairness and `ENABLED`, which are out of the prover's reach, and the runs
check it, with the absence of deadlocks.

## 5. Findings

* `lu_shared`: `cleanup_nvme_controller` counts a block device down once per attachment, `fill_bdev_hist` counts namespaces once. With a namespace attached
  to two controllers, the first cleanup deletes the device under the second controller, which still serves the host; the comment at
  `live_update.py:385` names that as what must not happen.
* `sriov_override`: a run cut short after the bind leaves `driver_override` set, the next one sees its target driver, skips the block
  that clears it, and reports success.
* `devctl2_lost`: "All other DevCtl2 bits remain unchanged" does not hold when the kernel or another run writes between the two halves of `setpci`;
  the readback looks at the masked bits only.
* `pcidebug_trunc`: "Truncate" sets the length to the size of the BAR without subtracting the address.

Smaller ones met on the way (hazards without a property): the prompt does not end at end of input; the help calls big-endian the default, the
code starts little-endian (`pci_debug.c:369`, `:72`).  Hazards whose bad case is real but bounded by a
property: `addr = size` passes the check of the debug tool, so one word may land behind the BAR (`WritesBounded`); a rerun of the live upgrade cannot get past a
block device that the killed run created, but leaves no function in a gap there (`GapOnlyByKill`); a product unknown to `create_bdev` leaves a vblk function suspended
(the exception that `GapOnlyByKill` names); `pcimem` with data and a count below 1 writes through an uninitialized pointer, and a large count maps
too little (the exceptions that `InsideMapping` names); the rebind script takes a file system's disk away if it was mounted after the script had
started, or before through a mapper or an array or in another namespace, and counts another disk of the same name as its own (`OnlyLateMountsLost`, `ReportedAlone`);
`load_file` frees an empty symbol table and keeps the pointer (`backtrace.c:219`), so that for a file without any symbols, if the second read does not set it, libbfd is given
a freed table and `unload_file` frees it again (`FreedOnce`; nothing in the repository promises otherwise, so there is no run that fails).

## 6. Not modelled

In the modelled tools: parsing, printing and option handling; RPC parameters that no decision depends on (queue counts, segment limits, serial
numbers); sizes of disks; the inside of SNAP, libbfd and the kernel beyond the effects listed; the wall clock.  In `PciDebug`, end of input and
the set-up errors before the mapping exists.  In `Backtrace`, libbfd's own allocations, such as the list of formats of an ambiguous file, which nobody frees (`backtrace.c:208`).  In `SriovBind`, other programs writing the same sysfs files while the script runs.  In
`PciMem`, the readback after the write, which is only printed, and a failing `munmap`.  In `Rebind`, another disk that takes the name
between the look at the mounts and the resolution of the device: the script would then rebind that disk's device, and the model would need a second one.

Components without a module, and why:

* The live upgrade scripts are fixed sequences of RPCs for one configuration each, without a decision: what a step that fails unnoticed
  leads to is the next step.  What they are to achieve is `Handover`, which `LiveUpgrade` implements.
* The reboot and attach loop retries commands to a host, its BMC and a storage target, the hot-plug loop is a fixed round of RPCs beside a poller that starts
  a load.  Which machine answers and when a disk appears is decided by systems that are not in the repository.
* The kernel trace programs print; two of them keep a flag per thread between entry and return of one function.
* `tbaa.c` is one store between two loads; its point is which of the two values a compiler reuses, which its header states in full.

## 7. Plan

Done, in this order: the live upgrade and its promise, the binder, the timeout register, the debug tool, the backtrace; then the proofs of the promise and of a
first run, `PciMem`, `Rebind` and the proofs for the C tools; then what they read, write and list, and the bounds on their steps.
Every invariant and action property of a passing run is now a theorem.  What would come next:

1. The rebind script with two devices, to cover a disk that takes the name before the device is resolved.
2. The entry and return flags of `vblk_pci_dev.bt` with nested and missed returns.
3. The scripts of section 6 against `Handover`, if they ever check an RPC's result.
