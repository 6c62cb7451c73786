------------------------------- MODULE Rebind -------------------------------
(***************************************************************************)
(* trace/virtio/bind_unbind.sh: detach the PCI device behind a disk from   *)
(* its driver and attach it again, a number of times, with bounded waits.  *)
(*                                                                         *)
(* One action is one access to sysfs or to the mount table.  The script    *)
(* runs with "set -e": a refused write ends it.  Meanwhile the kernel      *)
(* removes and adds the disk in its own time, somebody mounts it, another  *)
(* tool rebinds the device, and another disk takes the name.               *)
(***************************************************************************)
EXTENDS Naturals

CONSTANTS
  Iterations,        \* ITERATIONS
  DetachTurns,       \* turns of the wait for the detach, 50
  AppearTurns        \* turns of the wait for the disk, 100

ASSUME CountsAssumption ==
  Iterations \in Nat \ {0} /\ DetachTurns \in Nat \ {0} /\ AppearTurns \in Nat \ {0}

VARIABLES
  \* the host
  driver,            \* of the device; "leaving": the link is still there
  disk,              \* whose disk has the name: "own", "foreign" or "none"
  mounted,           \* how the file systems on the device's disk are mounted
  \* the script
  pc,
  completed,         \* iterations reported: i - 1 in the loop
  turn,              \* of the wait it is in
  \* history
  rebound,           \* times the script attached the device
  late,              \* how it was mounted after the mounts were checked
  alone              \* has nobody else changed driver or disk?

hostVars    == <<driver, disk, mounted>>
historyVars == <<rebound, late, alone>>
vars        == <<hostVars, pc, completed, turn, historyVars>>

\* The mount table has a file system under the disk's own name, or it has not:
\* it has the mapper's or the array's (LVM, dm-crypt, md), or the file system
\* is mounted in another namespace.
Ways == {"by_name", "unseen"}

Running == {"validate", "resolve", "unbind", "detach", "bind", "appear", "test"}

Init ==
  /\ driver = "native" /\ disk = "own" /\ mounted \in SUBSET Ways
  /\ pc = "validate" /\ completed = 0 /\ turn = 0
  /\ rebound = 0 /\ late = {} /\ alone = TRUE

-----------------------------------------------------------------------------
(* The script. *)

\* Mutation: mounts are not looked at.
ValidateName ==
  /\ pc = "validate"
  /\ pc' = IF disk # "none" THEN "resolve" ELSE "failed"
  /\ UNCHANGED <<hostVars, completed, turn, historyVars>>

\* validate_block_device compares names: that of the disk with the beginnings
\* of the mounted sources, and with any part of the root's.  Another disk's
\* name may match as well (vdaa, for vda), and a mapper's.
Validate ==
  /\ pc = "validate"
  /\ \/ disk # "none" /\ "by_name" \notin mounted /\ pc' = "resolve"
     \/ pc' = "failed"
  /\ UNCHANGED <<hostVars, completed, turn, historyVars>>

\* resolve_pci_addr, and the driver whose files are used from now on.
Resolve ==
  /\ pc = "resolve"
  /\ pc' = IF disk = "own" /\ driver \in {"native", "leaving"} THEN "unbind" ELSE "failed"
  /\ UNCHANGED <<hostVars, completed, turn, historyVars>>

\* A driver's unbind file accepts the devices of that driver.
Unbind ==
  /\ pc = "unbind"
  /\ IF driver = "native"
     THEN driver' = "leaving" /\ pc' = "detach"
     ELSE pc' = "failed" /\ UNCHANGED driver
  /\ UNCHANGED <<disk, mounted, completed, turn, historyVars>>

\* Mutation: the wait has no end.
WaitDetachedForever ==
  /\ pc = "detach" /\ driver = "none" /\ pc' = "bind"
  /\ UNCHANGED <<hostVars, completed, turn, historyVars>>

\* One turn: a look at the link, and a sleep.
WaitDetached ==
  /\ pc = "detach"
  /\ \/ /\ driver = "none" \/ turn + 1 = DetachTurns
        /\ pc' = "bind" /\ turn' = 0
     \/ /\ driver # "none" /\ turn + 1 < DetachTurns
        /\ turn' = turn + 1 /\ UNCHANGED pc
  /\ UNCHANGED <<hostVars, completed, historyVars>>

\* Mutation: a refused write is not noticed.
BindUnchecked ==
  /\ pc = "bind"
  /\ pc' = "appear"
  /\ IF driver = "none"
     THEN driver' = "native" /\ rebound' = rebound + 1
     ELSE UNCHANGED <<driver, rebound>>
  /\ UNCHANGED <<disk, mounted, completed, turn, late, alone>>

\* It needs a device without driver, and the probe may fail.
Bind ==
  /\ pc = "bind"
  /\ \/ /\ driver = "none" /\ driver' = "native"
        /\ rebound' = rebound + 1
        /\ pc' = "appear"
     \/ pc' = "failed" /\ UNCHANGED <<driver, rebound>>
  /\ UNCHANGED <<disk, mounted, completed, turn, late, alone>>

WaitDisk ==
  /\ pc = "appear"
  /\ \/ /\ disk # "none" \/ turn + 1 = AppearTurns
        /\ pc' = "test" /\ turn' = 0
     \/ /\ disk = "none" /\ turn + 1 < AppearTurns
        /\ turn' = turn + 1 /\ UNCHANGED pc
  /\ UNCHANGED <<hostVars, completed, historyVars>>

\* Mutation: the end of the wait is taken for the disk.
ReportAlways ==
  /\ pc = "test"
  /\ completed' = completed + 1
  /\ pc' = IF completed' = Iterations THEN "done" ELSE "unbind"
  /\ UNCHANGED <<hostVars, turn, historyVars>>

\* Mutation: the loop runs while i <= ITERATIONS from 0.
ReportOneMore ==
  /\ pc = "test"
  /\ IF disk = "none"
     THEN pc' = "failed" /\ UNCHANGED completed
     ELSE /\ completed' = completed + 1
          /\ pc' = IF completed = Iterations THEN "done" ELSE "unbind"
  /\ UNCHANGED <<hostVars, turn, historyVars>>

\* "did not reappear", or "completed": the disk is known by its name.
Report ==
  /\ pc = "test"
  /\ IF disk = "none"
     THEN pc' = "failed" /\ UNCHANGED completed
     ELSE /\ completed' = completed + 1
          /\ pc' = IF completed' = Iterations THEN "done" ELSE "unbind"
  /\ UNCHANGED <<hostVars, turn, historyVars>>

Script ==
  \/ Validate \/ Resolve \/ Unbind \/ WaitDetached \/ Bind \/ WaitDisk \/ Report

-----------------------------------------------------------------------------
(* The kernel, in its own time. *)

\* The disk goes before the link to the driver does.
RemoveDisk ==
  /\ driver = "leaving" /\ disk = "own"
  /\ disk' = "none"
  /\ UNCHANGED <<driver, mounted, pc, completed, turn, historyVars>>

Detach ==
  /\ driver = "leaving" /\ disk # "own"
  /\ driver' = "none"
  /\ UNCHANGED <<disk, mounted, pc, completed, turn, historyVars>>

\* Under the same name, if nobody holds the disk that had it.
AddDisk ==
  /\ driver = "native" /\ disk = "none" /\ mounted = {}
  /\ disk' = "own"
  /\ UNCHANGED <<driver, mounted, pc, completed, turn, historyVars>>

-----------------------------------------------------------------------------
(* Everybody else on the host. *)

Mount ==
  /\ driver = "native" /\ disk = "own"
  /\ \E way \in Ways :
       /\ mounted' = mounted \cup {way}
       /\ late' = IF pc = "validate" THEN late ELSE late \cup {way}
  /\ UNCHANGED <<driver, disk, pc, completed, turn, rebound, alone>>

Unmount ==
  /\ \E way \in mounted : mounted' = mounted \ {way}
  /\ UNCHANGED <<driver, disk, pc, completed, turn, historyVars>>

\* Another tool detaches the device, or attaches it to this or another driver.
Rival ==
  /\ \/ driver = "native" /\ driver' = "leaving"
     \/ driver = "other" /\ driver' = "none"
     \/ driver = "none" /\ driver' \in {"native", "other"}
  /\ alone' = FALSE
  /\ UNCHANGED <<disk, mounted, pc, completed, turn, rebound, late>>

\* Another disk takes the name, once the script knows its device, or leaves it.
Foreign ==
  /\ pc \notin {"validate", "resolve"}
  /\ \/ disk = "none" /\ disk' = "foreign"
     \/ disk = "foreign" /\ disk' = "none"
  /\ alone' = FALSE
  /\ UNCHANGED <<driver, mounted, pc, completed, turn, rebound, late>>

Host == RemoveDisk \/ Detach \/ AddDisk \/ Mount \/ Unmount \/ Rival \/ Foreign

Next == Script \/ Host

\* Nobody blocks the script: a write returns, and each wait counts its turns.
Spec == Init /\ [][Next]_vars /\ WF_vars(Script)

-----------------------------------------------------------------------------
(* Properties. *)

\* Variables have their types; a device without driver has no disk.
TypeOK ==
  /\ driver \in {"native", "leaving", "none", "other"}
  /\ disk \in {"own", "foreign", "none"} /\ mounted \subseteq Ways
  /\ pc \in Running \cup {"done", "failed"}
  /\ completed \in 0 .. Iterations
  /\ turn \in Nat
  /\ rebound \in Nat /\ late \subseteq Ways /\ alone \in BOOLEAN
  /\ disk = "own" => driver \in {"native", "leaving"}

\* Each iteration that is reported was a detach and an attach of its own, even
\* when a wait ran out or another tool got in between: "done" means that the
\* device was attached ITERATIONS times.
CompletedMeansRebound ==
  pc # "failed" =>
    rebound = IF pc \in {"appear", "test"} THEN completed + 1 ELSE completed

\* With nobody else at work, an iteration is reported when the device is with
\* its driver and its own disk is there under its name, however slow the kernel.
ReportedAlone ==
  [][completed' # completed /\ alone => driver = "native" /\ disk = "own"]_vars

\* "is mounted; refusing to unbind" (line 37) is said once, before the first of
\* many unbinds: a file system that the mount table has under the disk's name
\* loses its disk only if it was mounted after the script had looked.  One that
\* is mounted otherwise may lose it at any time.
OnlyLateMountsLost ==
  [][Script /\ driver' # driver => mounted \ late \subseteq {"unseen"}]_vars

\* The script comes to an end, whatever the device and the others do.
Ends == <>(pc \in {"done", "failed"})

=============================================================================
