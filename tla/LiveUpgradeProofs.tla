------------------------- MODULE LiveUpgradeProofs -------------------------
(***************************************************************************)
(* Theorems of LiveUpgrade, for every set of functions, devices and        *)
(* namespaces and every number of runs: types; block devices, by the       *)
(* counters that say who still uses them; and the end of every run, by     *)
(* what is left to do.                                                     *)
(***************************************************************************)
EXTENDS LiveUpgrade, FiniteSetTheorems, WellFoundedInduction, TLAPS

BdevStage == {"create_bdev", "destroy_bdev"}
NsStage   == {"create_ns_bdev", "create_ns", "attach_ns", "detach_ns", "destroy_ns_bdev"}

\* What the local variables of the manager hold at each stage.
StageOK ==
  /\ pc \in VblkStage => func \in Vblk
  /\ pc \in NvmeStage => func \in Nvme
  /\ pc \in BdevStage => VblkBdev[func] \in Bdev
  /\ pc \in NsStage => ns \in NS

TypeInv == TypeOK /\ StageOK

\* Each iteration of a loop over namespaces has one, and the loop ends.
LEMMA EachType ==
  ASSUME NEW S \in SUBSET NS, NEW body \in NsStage,
         NEW after \in {"suspend_nvme_ctrl", "notify", "destroy_nvme_ctrl"},
         Each(S, body, after)
  PROVE  /\ nsLeft' \subseteq NS
         /\ ns' \in NS \cup {None}
         /\ pc' \in {body, after}
         /\ pc' \in NsStage => ns' \in NS
  BY DEF Each, NsStage

\* Every function is of one kind, and the kinds make up all functions.
LEMMA FuncSets ==
  /\ Vblk \subseteq Func /\ Nvme \subseteq Func
  /\ PF \subseteq Func /\ VF \subseteq Func
  /\ Func = Vblk \cup Nvme
  BY FunctionsAssumption DEF Vblk, Nvme, Func, PF

\* The end of a run keeps types: its stage has no operands.
LEMMA ExitType ==
  ASSUME TypeInv, NEW how \in {"raised", "killed"}, Exit(how)
  PROVE  TypeInv'
  BY DEF TypeInv, TypeOK, StageOK, Exit, srcVars, dstVars, Stage, Ended,
         VblkStage, NvmeStage, BdevStage, NsStage

\* create_bdev marks block devices and device names only.
LEMMA CreateBdevType ==
  ASSUME TypeInv, NEW b \in Bdev, CreateBdev(b)
  PROVE  created' \subseteq Bdev /\ nvmfCreated' \subseteq Dev /\ dstDev' \subseteq Dev
  BY DevicesAssumption DEF TypeInv, TypeOK, CreateBdev

\* destroy_bdev counts down, and removes only what existed.
LEMMA DestroyBdevType ==
  ASSUME TypeInv, NEW b \in Bdev, DestroyBdev(b)
  PROVE  used' \in [Bdev -> Int] /\ nvmfUsed' \in [Dev -> Int] /\ srcDev' \subseteq Dev
<1>1. used \in [Bdev -> Int] /\ nvmfUsed \in [Dev -> Int] /\ srcDev \subseteq Dev
  BY DEF TypeInv, TypeOK
<1>2. Backing[b] \in Dev
  BY DevicesAssumption
<1>3. used' \in [Bdev -> Int]
  BY <1>1 DEF DestroyBdev
<1>4. nvmfUsed' \in [Dev -> Int]
  BY <1>1, <1>2 DEF DestroyBdev
<1>5. srcDev' \subseteq Dev
  BY <1>1 DEF DestroyBdev
<1>6. QED BY <1>3, <1>4, <1>5

\* A new run reads well-typed counters from the source.
LEMMA StartType ==
  ASSUME TypeInv, Start
  PROVE  TypeInv'
<1>1. live' \subseteq Func /\ known' \subseteq Bdev
  BY DEF Start
<1>2. \A b \in Bdev : Cardinality(Users(b, live')) \in Int
  <2>. SUFFICES ASSUME NEW b \in Bdev PROVE Cardinality(Users(b, live')) \in Int
    OBVIOUS
  <2>1. IsFiniteSet(NS \cup Func)
    BY FS_Union, FunctionsAssumption, UsersAssumption
  <2>2. Users(b, live') \in SUBSET (NS \cup Func)
    BY <1>1 DEF Users
  <2>3. QED BY <2>1, <2>2, FS_Subset, FS_CardinalityType
<1>3. \A d \in Dev : Cardinality(On(d, known')) \in Int
  <2>. SUFFICES ASSUME NEW d \in Dev PROVE Cardinality(On(d, known')) \in Int
    OBVIOUS
  <2>1. On(d, known') \in SUBSET Bdev
    BY <1>1 DEF On
  <2>2. QED BY <2>1, FS_Subset, FS_CardinalityType, DevicesAssumption
<1>4. used' \in [Bdev -> Int] /\ nvmfUsed' \in [Dev -> Int]
  BY <1>2, <1>3 DEF Start
<1>5. runs' \in 0 .. MaxRuns
  BY RunsAssumption DEF Start, TypeInv, TypeOK
<1>6. TypeOK'
  BY <1>1, <1>4, <1>5 DEF Start, TypeInv, TypeOK, srcVars, dstVars, Stage
<1>7. StageOK'
  BY DEF Start, StageOK, VblkStage, NvmeStage, BdevStage, NsStage
<1>8. QED BY <1>6, <1>7 DEF TypeInv

\* The initial states are well-typed.
LEMMA InitType == Init => TypeInv
  BY RunsAssumption
  DEF Init, TypeInv, TypeOK, StageOK, Stage, VblkStage, NvmeStage, BdevStage, NsStage

\* The move of a function starts at the first stage of its kind.
LEMMA MoveType ==
  ASSUME TypeInv, pc = "main", NEW f \in Func, Move(f)
  PROVE  /\ pc' \in Stage /\ func' \in Func \cup {None}
         /\ nsLeft' \subseteq NS /\ ns' \in NS \cup {None}
         /\ StageOK'
<1>1. CASE f \notin live
  BY <1>1 DEF Move, TypeInv, TypeOK, StageOK, VblkStage, NvmeStage, BdevStage, NsStage
<1>2. CASE f \in live /\ f \in Vblk
  BY <1>2, UsersAssumption
  DEF Move, TypeInv, TypeOK, StageOK, Stage, VblkStage, NvmeStage, BdevStage, NsStage, Nvme
<1>3. CASE f \in live /\ f \in Nvme
  BY <1>3 DEF Move, TypeInv, TypeOK, StageOK, Stage, VblkStage, NvmeStage, BdevStage, NsStage, Nvme
<1>4. QED BY <1>1, <1>2, <1>3, FuncSets

\* A step of the manager keeps types and stages.
LEMMA StepType ==
  ASSUME TypeInv, Step
  PROVE  TypeInv'
<1>. USE DEF TypeInv, TypeOK, srcVars, dstVars, loopVars, snapVars, bookVars, countVars
<1>. USE DEF StageOK, Stage, VblkStage, NvmeStage, BdevStage, NsStage, Ended
<1>1. ASSUME NEW f \in Func, TakePF(f) PROVE TypeInv'
  BY <1>1, MoveType DEF TakePF
<1>2. ASSUME NEW f \in Func, TakeVF(f) PROVE TypeInv'
  BY <1>2, MoveType DEF TakeVF
<1>3. CASE FinishPF
  BY <1>3, EachType, FuncSets DEF FinishPF
<1>4. CASE Finish
  BY <1>4 DEF Finish
<1>5. CASE VblkCreateBdev
  BY <1>5, CreateBdevType DEF VblkCreateBdev
<1>6. CASE SuspendVblkCtrl
  BY <1>6, FuncSets DEF SuspendVblkCtrl, Quiesce
<1>7. CASE VblkSuspendLu
  BY <1>7, FuncSets DEF VblkSuspendLu
<1>8. CASE VblkRestore
  BY <1>8, FuncSets DEF VblkRestore
<1>9. CASE DestroyVblkCtrl
  BY <1>9, FuncSets, UsersAssumption DEF DestroyVblkCtrl, Return
<1>10. CASE VblkDestroyBdev
  BY <1>10, DestroyBdevType DEF VblkDestroyBdev, Return
<1>11. CASE CreateSubsys
  BY <1>11, EachType, FuncSets, UsersAssumption DEF CreateSubsys
<1>12. CASE NvmeCreateBdev
  BY <1>12, CreateBdevType, UsersAssumption DEF NvmeCreateBdev
<1>13. CASE CreateNs
  BY <1>13, EachType DEF CreateNs
<1>14. CASE SuspendNvmeCtrl
  BY <1>14, FuncSets DEF SuspendNvmeCtrl, Quiesce
<1>15. CASE CreatePassive
  BY <1>15, EachType, FuncSets DEF CreatePassive
<1>16. CASE AttachNs
  BY <1>16, EachType, FuncSets DEF AttachNs
<1>17. CASE Notify
  BY <1>17, EachType, FuncSets DEF Notify
<1>18. CASE DetachNs
  BY <1>18, FuncSets DEF DetachNs
<1>19. CASE NvmeDestroyBdev
  BY <1>19, EachType, DestroyBdevType, UsersAssumption DEF NvmeDestroyBdev
<1>20. CASE DestroyNvmeCtrl
  BY <1>20, FuncSets DEF DestroyNvmeCtrl, Return
<1>21. CASE Refused
  BY <1>21, ExitType DEF Refused
<1>22. QED
  BY <1>1, <1>2, <1>3, <1>4, <1>5, <1>6, <1>7, <1>8, <1>9, <1>10, <1>11, <1>12,
     <1>13, <1>14, <1>15, <1>16, <1>17, <1>18, <1>19, <1>20, <1>21 DEF Step

\* Every step keeps types and stages, the end and a kill of a run too.
LEMMA NextType ==
  ASSUME TypeInv, [Next]_vars
  PROVE  TypeInv'
<1>1. CASE Start
  BY <1>1, StartType
<1>2. CASE Step
  BY <1>2, StepType
<1>3. CASE Kill
  BY <1>3, ExitType DEF Kill
<1>4. CASE UNCHANGED vars
  BY <1>4 DEF TypeInv, TypeOK, StageOK, vars, srcVars, dstVars, loopVars,
     snapVars, bookVars, countVars
<1>5. QED BY <1>1, <1>2, <1>3, <1>4 DEF Next, Terminated

\* Every variable keeps its type, and every stage of the manager has the
\* function, block device and namespace its request names.
THEOREM TypeCorrect == Spec => []TypeOK
<1>1. Init => TypeInv
  BY InitType
<1>2. TypeInv /\ [Next]_vars => TypeInv'
  BY NextType
<1>3. TypeInv => TypeOK
  BY DEF TypeInv
<1>4. QED BY <1>1, <1>2, <1>3, PTL DEF Spec

-----------------------------------------------------------------------------
(* The counters.  A claim on block device b is a user of b on the source   *)
(* whose release, a call of destroy_bdev, has not been executed yet.       *)

Running == pc \in VblkStage \cup NvmeStage \cup {"main"}
Claimant(f) == srcCtrl[f] # "none" \/ (pc = "destroy_bdev" /\ func = f)
Attached(n) == (\E f \in Func : n \in srcNs[f]) \/ (pc = "destroy_ns_bdev" /\ ns = n)

Claims(b) ==
  {f \in Vblk : VblkBdev[f] = b /\ Claimant(f)} \cup {n \in NS : NsBdev[n] = b /\ Attached(n)}

\* Block devices of d that still have a positive counter.
Alive(d) == {b \in On(d, known) : used[b] > 0}

AttachInv ==
  /\ \A f \in Func : srcNs[f] # {} => f \in Nvme /\ srcCtrl[f] # "none"
  /\ Exclusive(srcNs)

\* Between a release on the source and destroy_bdev, the user is gone there.
PendingInv ==
  /\ pc = "destroy_bdev" => srcCtrl[func] = "none"
  /\ pc = "destroy_ns_bdev" => \A f \in Func : ns \notin srcNs[f]

\* The counters of both levels are never below what is left to release.
CountInv ==
  Running =>
    /\ \A b \in Bdev : Claims(b) # {} => b \in known
    /\ \A b \in Bdev : Cardinality(Claims(b)) <= used[b]
    /\ \A d \in Dev : Kind[d] = "nvmf" => Cardinality(Alive(d)) <= nvmfUsed[d]

SafeInv == TypeInv /\ AttachInv /\ PendingInv /\ CountInv /\ SourceKeepsBacking

\* There are finitely many claims on a block device.
LEMMA ClaimsFinite ==
  ASSUME NEW b
  PROVE  /\ IsFiniteSet(Claims(b)) /\ Cardinality(Claims(b)) \in Nat
         /\ Claims(b) \in SUBSET (NS \cup Func)
<1>1. IsFiniteSet(NS \cup Func)
  BY FS_Union, FunctionsAssumption, UsersAssumption
<1>2. Claims(b) \in SUBSET (NS \cup Func)
  BY FuncSets DEF Claims
<1>3. QED BY <1>1, <1>2, FS_Subset, FS_CardinalityType

\* So there are after a step.
LEMMA ClaimsFiniteNext ==
  ASSUME NEW b
  PROVE  IsFiniteSet(Claims(b)') /\ Cardinality(Claims(b)') \in Nat
<1>1. IsFiniteSet(NS \cup Func)
  BY FS_Union, FunctionsAssumption, UsersAssumption
<1>2. Claims(b)' \in SUBSET (NS \cup Func)
  BY FuncSets DEF Claims
<1>3. QED BY <1>1, <1>2, FS_Subset, FS_CardinalityType

\* There are finitely many block devices on a device.
LEMMA AliveFinite ==
  ASSUME TypeInv, NEW d
  PROVE  IsFiniteSet(Alive(d)) /\ Cardinality(Alive(d)) \in Nat
<1>1. Alive(d) \in SUBSET Bdev
  BY DEF Alive, On, TypeInv, TypeOK
<1>2. QED BY <1>1, FS_Subset, FS_CardinalityType, DevicesAssumption

\* A step that takes no claim's release and leaves the counters alone.
LEMMA ClaimsShrink ==
  ASSUME SafeInv, TypeInv', Running,
         \A b \in Bdev : Claims(b)' \subseteq Claims(b),
         UNCHANGED <<known, used, nvmfUsed>>
  PROVE  CountInv'
<1>. USE DEF SafeInv, CountInv
<1>1. \A b \in Bdev : (Claims(b) # {})' => b \in known'
  OBVIOUS
<1>2. ASSUME NEW b \in Bdev PROVE Cardinality(Claims(b)') <= used'[b]
  <2>1. Cardinality(Claims(b)') <= Cardinality(Claims(b))
    BY ClaimsFinite, FS_Subset
  <2>2. used[b] \in Int /\ used'[b] = used[b]
    BY DEF TypeInv, TypeOK
  <2>3. QED BY <2>1, <2>2, ClaimsFinite, ClaimsFiniteNext
<1>3. ASSUME NEW d \in Dev, Kind[d] = "nvmf" PROVE Cardinality(Alive(d)') <= nvmfUsed'[d]
  <2>1. Alive(d)' = Alive(d)
    BY DEF Alive, On
  <2>2. QED BY <2>1, <1>3
<1>4. QED BY <1>1, <1>2, <1>3

\* A step that neither releases nor destroys: the controllers and namespaces
\* on the source stay, whatever else the manager does.
LEMMA Frame ==
  ASSUME SafeInv, TypeInv', Running,
         pc \notin {"destroy_bdev", "destroy_ns_bdev"},
         pc' \notin {"destroy_bdev", "destroy_ns_bdev"},
         \A f \in Func : srcCtrl'[f] = "none" <=> srcCtrl[f] = "none",
         UNCHANGED <<srcNs, srcDev, known, used, nvmfUsed>>
  PROVE  SafeInv'
<1>1. \A b \in Bdev : Claims(b)' \subseteq Claims(b)
  BY FuncSets DEF Claims, Claimant, Attached
<1>2. CountInv'
  BY <1>1, ClaimsShrink
<1>3. AttachInv' /\ PendingInv'
  BY DEF SafeInv, AttachInv, PendingInv, Exclusive
<1>4. SourceKeepsBacking'
  BY DEF SafeInv, SourceKeepsBacking
<1>5. QED BY <1>2, <1>3, <1>4 DEF SafeInv

\* The end of a run releases nothing.
LEMMA ExitSafe ==
  ASSUME SafeInv, TypeInv', pc' \in Ended, UNCHANGED srcVars
  PROVE  SafeInv'
BY DEF SafeInv, AttachInv, PendingInv, Exclusive, CountInv, Running, Ended,
       VblkStage, NvmeStage, SourceKeepsBacking, srcVars

\* When claimant x of b has been released, DestroyBdev(b) keeps the counters
\* right, and removes no device that another claim still needs.
LEMMA Released ==
  ASSUME SafeInv, TypeInv', Running, NEW b \in Bdev, NEW x \in Claims(b),
         DestroyBdev(b),
         UNCHANGED known,
         (Claims(b))' = Claims(b) \ {x},
         \A c \in Bdev \ {b} : (Claims(c))' = Claims(c)
  PROVE  /\ CountInv'
         /\ \A c \in Bdev : (Claims(c) # {})' /\ Backing[c] \in srcDev => Backing[c] \in srcDev'
<1>. DEFINE d == Backing[b]
<1>1. /\ used \in [Bdev -> Int] /\ nvmfUsed \in [Dev -> Int]
      /\ known \subseteq Bdev /\ d \in Dev
      /\ \A c \in Bdev : Claims(c) # {} => c \in known
      /\ \A c \in Bdev : Cardinality(Claims(c)) <= used[c]
      /\ \A e \in Dev : Kind[e] = "nvmf" => Cardinality(Alive(e)) <= nvmfUsed[e]
  BY DevicesAssumption DEF SafeInv, CountInv, TypeInv, TypeOK
<1>2. used' = [used EXCEPT ![b] = @ - 1]
  BY DEF DestroyBdev
<1>3. Cardinality(Claims(b)') = Cardinality(Claims(b)) - 1
  BY ClaimsFinite, FS_RemoveElement
<1>4. used[b] >= 1
  <2>1. Cardinality(Claims(b)) \in Nat /\ Cardinality(Claims(b)) # 0
    BY ClaimsFinite, FS_EmptySet
  <2>2. used[b] \in Int /\ Cardinality(Claims(b)) <= used[b]
    BY <1>1
  <2>3. QED BY <2>1, <2>2
<1>5. \A c \in Bdev : Cardinality((Claims(c))') <= used'[c]
  <2>1. ASSUME NEW c \in Bdev \ {b} PROVE Cardinality((Claims(c))') <= used'[c]
    BY <2>1, <1>1, <1>2
  <2>2. Cardinality((Claims(b))') <= used'[b]
    BY <1>1, <1>2, <1>3, ClaimsFinite
  <2>3. QED BY <2>1, <2>2
<1>6. \A c \in Bdev : (Claims(c))' # {} => c \in known'
  BY <1>1
<1>7. ASSUME NEW e \in Dev, Kind[e] = "nvmf"
      PROVE  Cardinality((Alive(e))') <= nvmfUsed'[e]
  <2>1. CASE e = d /\ used[b] = 1
    <3>1. (Alive(e))' = Alive(e) \ {b}
      BY <2>1, <1>1, <1>2 DEF Alive, On
    <3>2. b \in Alive(e)
      BY <2>1, <1>1 DEF Alive, On
    <3>3. Cardinality((Alive(e))') = Cardinality(Alive(e)) - 1
      BY <3>1, <3>2, AliveFinite, FS_RemoveElement DEF SafeInv
    <3>4. nvmfUsed'[e] = nvmfUsed[e] - 1
      BY <2>1, <1>1, <1>7 DEF DestroyBdev
    <3>5. QED BY <3>3, <3>4, <1>1, <1>7, AliveFinite DEF SafeInv
  <2>2. CASE e = d /\ used[b] # 1
    <3>1. (Alive(e))' = Alive(e)
      BY <2>2, <1>1, <1>2, <1>4 DEF Alive, On
    <3>2. nvmfUsed'[e] = nvmfUsed[e]
      BY <2>2 DEF DestroyBdev
    <3>3. QED BY <3>1, <3>2, <1>1, <1>7
  <2>3. CASE e # d
    <3>1. (Alive(e))' = Alive(e)
      BY <2>3, <1>1, <1>2 DEF Alive, On
    <3>2. nvmfUsed'[e] = nvmfUsed[e]
      BY <2>3, <1>1 DEF DestroyBdev
    <3>3. QED BY <3>1, <3>2, <1>1, <1>7
  <2>4. QED BY <2>1, <2>2, <2>3
<1>8. CountInv'
  BY <1>5, <1>6, <1>7 DEF CountInv
<1>9. ASSUME NEW c \in Bdev, (Claims(c) # {})', Backing[c] \in srcDev
      PROVE  Backing[c] \in srcDev'
  <2>1. used'[c] >= 1
    <3>1. Cardinality((Claims(c))') # 0
      BY <1>9, ClaimsFiniteNext, FS_EmptySet
    <3>2. QED BY <3>1, <1>1, <1>2, <1>5, ClaimsFiniteNext
  <2>2. CASE ~LastUse(b) \/ Backing[c] # d
    BY <2>2, <1>9 DEF DestroyBdev
  <2>3. CASE LastUse(b) /\ Backing[c] = d
    <3>1. c # b
      BY <2>1, <2>3, <1>1, <1>2 DEF LastUse
    <3>2. Kind[d] = "nvmf" /\ nvmfUsed[d] = 1
      BY <3>1, <2>3, DevicesAssumption DEF LastUse
    <3>3. nvmfUsed'[d] = 0
      BY <3>2, <2>3, <1>1 DEF DestroyBdev, LastUse
    <3>4. c \in (Alive(d))'
      <4>1. c \in known' /\ Backing[c] = d /\ used'[c] \in Int
        BY <2>3, <1>6, <1>9 DEF TypeInv, TypeOK
      <4>2. QED BY <4>1, <2>1 DEF Alive, On
    <3>5. Cardinality((Alive(d))') <= 0
      BY <3>2, <3>3, <1>1, <1>7
    <3>6. IsFiniteSet((Alive(d))') /\ Cardinality((Alive(d))') \in Nat
      <4>1. (Alive(d))' \in SUBSET Bdev
        BY DEF Alive, On, TypeInv, TypeOK
      <4>2. QED BY <4>1, FS_Subset, FS_CardinalityType, DevicesAssumption
    <3>7. QED BY <3>4, <3>5, <3>6, FS_EmptySet
  <2>4. QED BY <2>2, <2>3
<1>10. QED BY <1>8, <1>9

\* A controller that still exists has a claim on its block devices.
LEMMA KeepBacking ==
  ASSUME SafeInv, TypeInv', AttachInv',
         \A f \in Func : srcCtrl'[f] # "none" => srcCtrl[f] # "none",
         \A f \in Func : srcNs'[f] \subseteq srcNs[f],
         \A c \in Bdev : (Claims(c) # {})' /\ Backing[c] \in srcDev => Backing[c] \in srcDev'
  PROVE  SourceKeepsBacking'
<1>. SUFFICES ASSUME NEW f \in Func, srcCtrl'[f] # "none"
              PROVE  /\ f \in Vblk => VblkBdev[f] = None \/ Backing[VblkBdev[f]] \in srcDev'
                     /\ \A n \in srcNs'[f] : Backing[NsBdev[n]] \in srcDev'
  BY DEF SourceKeepsBacking
<1>1. ASSUME f \in Vblk, VblkBdev[f] # None PROVE Backing[VblkBdev[f]] \in srcDev'
  <2>1. VblkBdev[f] \in Bdev
    BY <1>1, UsersAssumption
  <2>2. f \in (Claims(VblkBdev[f]))'
    BY <1>1, <2>1 DEF Claims, Claimant
  <2>3. Backing[VblkBdev[f]] \in srcDev
    BY <1>1 DEF SafeInv, SourceKeepsBacking
  <2>4. QED BY <2>1, <2>2, <2>3
<1>2. ASSUME NEW n \in srcNs'[f] PROVE Backing[NsBdev[n]] \in srcDev'
  <2>1. n \in NS /\ NsBdev[n] \in Bdev
    BY UsersAssumption DEF TypeInv, TypeOK
  <2>2. n \in (Claims(NsBdev[n]))'
    BY <2>1 DEF Claims, Attached
  <2>3. Backing[NsBdev[n]] \in srcDev
    BY <1>2 DEF SafeInv, SourceKeepsBacking
  <2>4. QED BY <2>1, <2>2, <2>3
<1>3. QED BY <1>1, <1>2

\* A vblk controller is gone before its block device is released: the release
\* is pending.
LEMMA DestroyVblkCtrlSafe ==
  ASSUME SafeInv, TypeInv', DestroyVblkCtrl
  PROVE  SafeInv'
<1>1. func \in Vblk /\ func \in Func /\ srcNs[func] = {} /\ Running
  BY FuncSets DEF SafeInv, TypeInv, StageOK, AttachInv, DestroyVblkCtrl,
     VblkStage, Nvme, Running
<1>2. srcCtrl' = [srcCtrl EXCEPT ![func] = "none"] /\ srcCtrl \in [Func -> {"none", "running", "quiesced", "suspended"}]
  BY DEF DestroyVblkCtrl, SafeInv, TypeInv, TypeOK
<1>3. UNCHANGED <<srcNs, srcDev, known, used, nvmfUsed>>
  BY DEF DestroyVblkCtrl, snapVars, countVars
<1>4. pc = "destroy_vblk_ctrl" /\ srcCtrl[func] # "none"
  BY DEF DestroyVblkCtrl
<1>5. \/ pc' = "destroy_bdev" /\ func' = func
      \/ pc' = "main" /\ VblkBdev[func] = None
  BY DEF DestroyVblkCtrl, Return
<1>6. \A b \in Bdev : Claims(b)' \subseteq Claims(b)
  BY <1>1, <1>2, <1>3, <1>4, <1>5, FuncSets DEF Claims, Claimant, Attached
<1>7. AttachInv' /\ PendingInv'
  BY <1>1, <1>2, <1>3, <1>5 DEF SafeInv, AttachInv, PendingInv, Exclusive
<1>8. CountInv'
  BY <1>1, <1>3, <1>6, ClaimsShrink
<1>9. SourceKeepsBacking'
  BY <1>2, <1>3, <1>7, KeepBacking
<1>10. QED BY <1>7, <1>8, <1>9 DEF SafeInv

\* A detached namespace is released next: the release is pending.
LEMMA DetachNsSafe ==
  ASSUME SafeInv, TypeInv', DetachNs
  PROVE  SafeInv'
<1>1. func \in Func /\ ns \in srcNs[func] /\ Running
  BY FuncSets DEF SafeInv, TypeInv, StageOK, DetachNs, NvmeStage, Running
<1>2. srcNs' = [srcNs EXCEPT ![func] = @ \ {ns}] /\ srcNs \in [Func -> SUBSET NS]
  BY DEF DetachNs, SafeInv, TypeInv, TypeOK
<1>3. UNCHANGED <<srcCtrl, srcDev, known, used, nvmfUsed, ns, func>>
  BY DEF DetachNs, snapVars, countVars, loopVars
<1>4. pc = "detach_ns" /\ pc' = "destroy_ns_bdev"
  BY DEF DetachNs
<1>5. \A b \in Bdev : Claims(b)' \subseteq Claims(b)
  BY <1>1, <1>2, <1>3, <1>4 DEF Claims, Claimant, Attached
<1>6. AttachInv'
  BY <1>2, <1>3 DEF SafeInv, AttachInv, Exclusive
<1>7. PendingInv'
  BY <1>1, <1>2, <1>3, <1>4 DEF SafeInv, AttachInv, PendingInv, Exclusive
<1>8. CountInv'
  BY <1>1, <1>3, <1>5, ClaimsShrink
<1>9. SourceKeepsBacking'
  BY <1>2, <1>3, <1>6, KeepBacking
<1>10. QED BY <1>6, <1>7, <1>8, <1>9 DEF SafeInv

\* An NVMe controller goes when no namespace is attached to it: no claim is
\* lost.
LEMMA DestroyNvmeCtrlSafe ==
  ASSUME SafeInv, TypeInv', DestroyNvmeCtrl
  PROVE  SafeInv'
<1>1. func \in Nvme /\ func \in Func /\ func \notin Vblk /\ Running
  BY FuncSets DEF SafeInv, TypeInv, StageOK, DestroyNvmeCtrl, NvmeStage, Nvme, Running
<1>2. /\ srcCtrl' = [srcCtrl EXCEPT ![func] = "none"]
      /\ srcNs' = [srcNs EXCEPT ![func] = {}]
      /\ srcCtrl \in [Func -> {"none", "running", "quiesced", "suspended"}]
      /\ srcNs \in [Func -> SUBSET NS]
  BY DEF DestroyNvmeCtrl, SafeInv, TypeInv, TypeOK
<1>3. UNCHANGED <<srcDev, known, used, nvmfUsed>>
  BY DEF DestroyNvmeCtrl, snapVars, countVars
<1>4. pc = "destroy_nvme_ctrl" /\ pc' = "main"
  BY DEF DestroyNvmeCtrl, Return
<1>5. \A b \in Bdev : Claims(b)' \subseteq Claims(b)
  BY <1>1, <1>2, <1>4, FuncSets DEF Claims, Claimant, Attached
<1>6. AttachInv' /\ PendingInv'
  BY <1>2, <1>4 DEF SafeInv, AttachInv, PendingInv, Exclusive
<1>7. CountInv'
  BY <1>1, <1>3, <1>5, ClaimsShrink
<1>8. SourceKeepsBacking'
  BY <1>2, <1>3, <1>6, KeepBacking
<1>9. QED BY <1>6, <1>7, <1>8 DEF SafeInv

\* Claimant x of block device b is released, and nothing else.
ReleaseOf(b, x) ==
  /\ x \in Claims(b)
  /\ DestroyBdev(b)
  /\ (Claims(b))' = Claims(b) \ {x}
  /\ \A c \in Bdev \ {b} : (Claims(c))' = Claims(c)

Releases == \E b \in Bdev, x \in NS \cup Func : ReleaseOf(b, x)

\* The pending release of a vblk function is its own.
LEMMA VblkReleases ==
  ASSUME SafeInv, VblkDestroyBdev
  PROVE  Releases
<1>1. /\ func \in Vblk /\ VblkBdev[func] \in Bdev /\ srcCtrl[func] = "none"
      /\ pc = "destroy_bdev" /\ pc' = "main"
  BY DEF SafeInv, TypeInv, StageOK, PendingInv, VblkDestroyBdev, VblkStage,
     BdevStage, Return
<1>2. UNCHANGED <<srcCtrl, srcNs>>
  BY DEF VblkDestroyBdev
<1>3. PICK f \in Vblk : f = func
  BY <1>1
<1>4. PICK b \in Bdev : b = VblkBdev[func]
  BY <1>1
<1>5. f \notin NS
  BY FuncSets, UsersAssumption
<1>6. f \in Claims(b)
  BY <1>1, <1>3, <1>4 DEF Claims, Claimant
<1>7. (Claims(b))' = Claims(b) \ {f}
  BY <1>1, <1>2, <1>3, <1>4, <1>5 DEF Claims, Claimant, Attached
<1>8. \A c \in Bdev \ {b} : (Claims(c))' = Claims(c)
  BY <1>1, <1>2, <1>3, <1>4 DEF Claims, Claimant, Attached
<1>9. DestroyBdev(b)
  BY <1>4 DEF VblkDestroyBdev
<1>10. QED BY <1>6, <1>7, <1>8, <1>9, FuncSets DEF Releases, ReleaseOf

\* The pending release of a namespace is its own.
LEMMA NvmeReleases ==
  ASSUME SafeInv, NvmeDestroyBdev
  PROVE  Releases
<1>1. /\ ns \in NS /\ NsBdev[ns] \in Bdev
      /\ \A f \in Func : ns \notin srcNs[f]
      /\ pc = "destroy_ns_bdev"
  BY UsersAssumption DEF SafeInv, TypeInv, StageOK, PendingInv, NvmeDestroyBdev,
     NvmeStage, NsStage
<1>2. UNCHANGED <<srcCtrl, srcNs>> /\ pc' \in {"detach_ns", "destroy_nvme_ctrl"}
  BY DEF NvmeDestroyBdev, Each
<1>3. PICK n \in NS : n = ns
  BY <1>1
<1>4. PICK b \in Bdev : b = NsBdev[ns]
  BY <1>1
<1>5. n \notin Vblk
  BY FuncSets, UsersAssumption
<1>6. n \in Claims(b)
  BY <1>1, <1>3, <1>4 DEF Claims, Attached
<1>7. (Claims(b))' = Claims(b) \ {n}
  BY <1>1, <1>2, <1>3, <1>4, <1>5 DEF Claims, Claimant, Attached
<1>8. \A c \in Bdev \ {b} : (Claims(c))' = Claims(c)
  BY <1>1, <1>2, <1>3, <1>4 DEF Claims, Claimant, Attached
<1>9. DestroyBdev(b)
  BY <1>4 DEF NvmeDestroyBdev
<1>10. QED BY <1>6, <1>7, <1>8, <1>9, FuncSets DEF Releases, ReleaseOf

\* A release keeps the counters right and the device of every other claim.
LEMMA ReleaseSafe ==
  ASSUME SafeInv, TypeInv', VblkDestroyBdev \/ NvmeDestroyBdev
  PROVE  SafeInv'
<1>1. UNCHANGED <<srcCtrl, srcNs, known>> /\ Running
  BY DEF VblkDestroyBdev, NvmeDestroyBdev, snapVars, Running, VblkStage, NvmeStage
<1>2. Releases
  BY VblkReleases, NvmeReleases
<1>3. PICK b \in Bdev, x \in NS \cup Func : ReleaseOf(b, x)
  BY <1>2 DEF Releases
<1>4. /\ CountInv'
      /\ \A c \in Bdev : (Claims(c) # {})' /\ Backing[c] \in srcDev => Backing[c] \in srcDev'
  BY <1>1, <1>3, Released DEF ReleaseOf
<1>5. AttachInv' /\ PendingInv'
  BY <1>1 DEF SafeInv, AttachInv, PendingInv, Exclusive, VblkDestroyBdev, NvmeDestroyBdev,
     Return, Each
<1>6. SourceKeepsBacking'
  BY <1>1, <1>4, <1>5, KeepBacking
<1>7. QED BY <1>4, <1>5, <1>6 DEF SafeInv

\* When the manager starts, every user is counted and nothing is pending.
LEMMA StartSafe ==
  ASSUME SafeInv, TypeInv', Start
  PROVE  SafeInv'
<1>1. /\ UNCHANGED <<srcCtrl, srcNs, srcDev>> /\ pc' = "main"
      /\ live' = {f \in Func : srcCtrl[f] # "none"}
      /\ known' = {b \in Bdev : Backing[b] \in srcDev}
      /\ used' = [b \in Bdev |-> Cardinality(Users(b, live'))]
      /\ nvmfUsed' = [d \in Dev |-> Cardinality(On(d, known'))]
  BY DEF Start, srcVars
<1>2. AttachInv' /\ PendingInv' /\ SourceKeepsBacking'
  BY <1>1 DEF SafeInv, AttachInv, PendingInv, Exclusive, SourceKeepsBacking
<1>3. ASSUME NEW b \in Bdev PROVE (Claims(b) # {})' => b \in known'
  <2>1. ASSUME NEW f \in Vblk, VblkBdev[f] = b, srcCtrl[f] # "none" PROVE b \in known'
    BY <2>1, <1>1, FuncSets, FunctionsAssumption DEF SafeInv, SourceKeepsBacking
  <2>2. ASSUME NEW n \in NS, NsBdev[n] = b, NEW f \in Func, n \in srcNs[f] PROVE b \in known'
    BY <2>2, <1>1 DEF SafeInv, SourceKeepsBacking, AttachInv
  <2>3. QED BY <1>1, <2>1, <2>2 DEF Claims, Claimant, Attached
<1>4. ASSUME NEW b \in Bdev PROVE Cardinality((Claims(b))') <= used'[b]
  <2>1. (Claims(b))' \in SUBSET Users(b, live')
    BY <1>1, FuncSets DEF Claims, Claimant, Attached, Users
  <2>2. IsFiniteSet(Users(b, live'))
    <3>1. IsFiniteSet(NS \cup Func)
      BY FS_Union, FunctionsAssumption, UsersAssumption
    <3>2. Users(b, live') \in SUBSET (NS \cup Func)
      BY FuncSets DEF Users
    <3>3. QED BY <3>1, <3>2, FS_Subset
  <2>3. QED BY <1>1, <2>1, <2>2, FS_Subset
<1>5. ASSUME NEW d \in Dev PROVE Cardinality((Alive(d))') <= nvmfUsed'[d]
  <2>1. (Alive(d))' \in SUBSET On(d, known')
    BY DEF Alive, On
  <2>2. IsFiniteSet(On(d, known'))
    <3>1. On(d, known') \in SUBSET Bdev
      BY <1>1 DEF On
    <3>2. QED BY <3>1, FS_Subset, DevicesAssumption
  <2>3. QED BY <1>1, <2>1, <2>2, FS_Subset
<1>6. CountInv'
  BY <1>3, <1>4, <1>5 DEF CountInv
<1>7. QED BY <1>2, <1>6 DEF SafeInv

\* One step per action; most of them neither release nor destroy anything.
LEMMA StepSafe ==
  ASSUME SafeInv, TypeInv', Step
  PROVE  SafeInv'
<1>. USE DEF srcVars, snapVars, countVars, Running, VblkStage, NvmeStage
<1>1. ASSUME NEW f \in Func, TakePF(f) \/ TakeVF(f) PROVE SafeInv'
  BY <1>1, Frame DEF TakePF, TakeVF, Move
<1>2. CASE FinishPF
  BY <1>2, Frame DEF FinishPF, Each
<1>3. CASE Finish
  BY <1>3, Frame DEF Finish
<1>4. CASE VblkCreateBdev
  BY <1>4, Frame DEF VblkCreateBdev
<1>5. CASE SuspendVblkCtrl
  <2>1. func \in Func /\ srcCtrl \in [Func -> {"none", "running", "quiesced", "suspended"}]
    BY <1>5, FuncSets DEF SuspendVblkCtrl, SafeInv, TypeInv, TypeOK, StageOK
  <2>2. QED BY <1>5, <2>1, Frame DEF SuspendVblkCtrl, Quiesce
<1>6. CASE VblkSuspendLu
  <2>1. func \in Func /\ srcCtrl \in [Func -> {"none", "running", "quiesced", "suspended"}]
    BY <1>6, FuncSets DEF VblkSuspendLu, SafeInv, TypeInv, TypeOK, StageOK
  <2>2. QED BY <1>6, <2>1, Frame DEF VblkSuspendLu
<1>7. CASE VblkRestore
  BY <1>7, Frame DEF VblkRestore
<1>8. CASE CreateSubsys
  BY <1>8, Frame DEF CreateSubsys, Each
<1>9. CASE NvmeCreateBdev
  BY <1>9, Frame DEF NvmeCreateBdev
<1>10. CASE CreateNs
  BY <1>10, Frame DEF CreateNs, Each
<1>11. CASE SuspendNvmeCtrl
  <2>1. func \in Func /\ srcCtrl \in [Func -> {"none", "running", "quiesced", "suspended"}]
    BY <1>11, FuncSets DEF SuspendNvmeCtrl, SafeInv, TypeInv, TypeOK, StageOK
  <2>2. QED BY <1>11, <2>1, Frame DEF SuspendNvmeCtrl, Quiesce
<1>12. CASE CreatePassive
  BY <1>12, Frame DEF CreatePassive, Each
<1>13. CASE AttachNs
  BY <1>13, Frame DEF AttachNs, Each
<1>14. CASE Notify
  <2>1. func \in Func /\ srcCtrl \in [Func -> {"none", "running", "quiesced", "suspended"}]
    BY <1>14, FuncSets DEF Notify, SafeInv, TypeInv, TypeOK, StageOK
  <2>2. pc' \in {"detach_ns", "destroy_nvme_ctrl", "main"}
    BY <1>14 DEF Notify, Each
  <2>3. QED BY <1>14, <2>1, <2>2, Frame DEF Notify
<1>15. CASE Refused
  BY <1>15, ExitSafe DEF Refused, Exit, Ended
<1>16. QED
  BY <1>1, <1>2, <1>3, <1>4, <1>5, <1>6, <1>7, <1>8, <1>9, <1>10, <1>11, <1>12,
     <1>13, <1>14, <1>15, DestroyVblkCtrlSafe, ReleaseSafe, DetachNsSafe,
     DestroyNvmeCtrlSafe DEF Step

\* At first everything that is in use is there.
LEMMA SafeInit ==
  ASSUME ~Sharing, Init
  PROVE  SafeInv
<1>1. TypeInv
  BY InitType
<1>2. AttachInv
  BY DEF Init, AttachInv
<1>3. PendingInv /\ CountInv
  BY DEF Init, PendingInv, CountInv, Running, VblkStage, NvmeStage
<1>4. SourceKeepsBacking
  BY FuncSets, DevicesAssumption, UsersAssumption DEF Init, SourceKeepsBacking
<1>5. QED BY <1>1, <1>2, <1>3, <1>4 DEF SafeInv

\* Every step keeps counters and block devices in order.
LEMMA SafeKept ==
  ASSUME SafeInv, [Next]_vars
  PROVE  SafeInv'
<1>1. TypeInv'
  BY NextType DEF SafeInv
<1>2. CASE Start
  BY <1>1, <1>2, StartSafe
<1>3. CASE Step
  BY <1>1, <1>3, StepSafe
<1>4. CASE Kill
  BY <1>1, <1>4, ExitSafe DEF Kill, Exit, Ended
<1>5. CASE UNCHANGED vars
  BY <1>5 DEF SafeInv, TypeInv, TypeOK, StageOK, AttachInv, Exclusive, PendingInv,
     CountInv, Running, Claims, Claimant, Attached, Alive, On, SourceKeepsBacking,
     vars, srcVars, dstVars, loopVars, snapVars, bookVars, countVars
<1>6. QED BY <1>2, <1>3, <1>4, <1>5 DEF Next, Terminated

\* As long as no namespace is attached to two controllers, the two levels of
\* counters keep every block device of an existing source controller alive,
\* over any number of kills and new runs.
THEOREM BackingKept ==
  ASSUME ~Sharing
  PROVE  Spec => []SourceKeepsBacking
<1>1. Init => SafeInv
  BY SafeInit
<1>2. SafeInv /\ [Next]_vars => SafeInv'
  BY SafeKept
<1>3. SafeInv => SourceKeepsBacking
  BY DEF SafeInv
<1>4. QED BY <1>1, <1>2, <1>3, PTL DEF Spec

-----------------------------------------------------------------------------
(* The end of a run.  Function by function, stage by stage and namespace   *)
(* by namespace, what is left to do becomes less.                          *)

\* Five numbers become fewer if the first one that changes becomes smaller.
Fewer == LexProductOrdering(OpToRel(<, Nat), Nat, 5)

\* Nothing becomes fewer without end.
LEMMA FewerEnds == IsWellFoundedOn(Fewer, [1 .. 5 -> Nat])
<1>. DEFINE R == OpToRel(<, Nat)
<1>1. IsWellFoundedOn(R, Nat)
  BY NatLessThanWellFounded
<1>. HIDE DEF R
<1>2. IsWellFoundedOn(LexProductOrdering(R, Nat, 5), [1 .. 5 -> Nat])
  BY <1>1, WFLexProductOrdering
<1>3. QED BY <1>2 DEF Fewer, R

\* The number that becomes smaller, at its place.
LEMMA FewerAt ==
  ASSUME NEW a \in [1 .. 5 -> Nat], NEW b \in [1 .. 5 -> Nat], NEW k \in 1 .. 5,
         a[k] < b[k], \A j \in 1 .. k - 1 : a[j] = b[j]
  PROVE  <<a, b>> \in Fewer
<1>. DEFINE R == OpToRel(<, Nat)
<1>1. <<a[k], b[k]>> \in R
  BY DEF OpToRel
<1>. HIDE DEF R
<1>2. <<a, b>> \in LexProductOrdering(R, Nat, 5)
  BY <1>1 DEF LexProductOrdering
<1>3. QED BY <1>2 DEF Fewer, R

\* The same with the places written out.
FirstFewer(a, b) ==
  \/ a[1] < b[1]
  \/ a[1] = b[1] /\ a[2] < b[2]
  \/ a[1] = b[1] /\ a[2] = b[2] /\ a[3] < b[3]
  \/ a[1] = b[1] /\ a[2] = b[2] /\ a[3] = b[3] /\ a[4] < b[4]
  \/ a[1] = b[1] /\ a[2] = b[2] /\ a[3] = b[3] /\ a[4] = b[4] /\ a[5] < b[5]

\* Then the numbers become fewer.
LEMMA FewerNumbers ==
  ASSUME NEW a \in [1 .. 5 -> Nat], NEW b \in [1 .. 5 -> Nat], FirstFewer(a, b)
  PROVE  <<a, b>> \in Fewer
<1>1. \E k \in 1 .. 5 : a[k] < b[k] /\ \A j \in 1 .. k - 1 : a[j] = b[j]
  <2>1. CASE a[1] < b[1]
    BY <2>1
  <2>2. CASE a[1] = b[1] /\ a[2] < b[2]
    BY <2>2
  <2>3. CASE a[1] = b[1] /\ a[2] = b[2] /\ a[3] < b[3]
    BY <2>3
  <2>4. CASE a[1] = b[1] /\ a[2] = b[2] /\ a[3] = b[3] /\ a[4] < b[4]
    BY <2>4
  <2>5. CASE a[1] = b[1] /\ a[2] = b[2] /\ a[3] = b[3] /\ a[4] = b[4] /\ a[5] < b[5]
    BY <2>5
  <2>6. QED BY <2>1, <2>2, <2>3, <2>4, <2>5 DEF FirstFewer
<1>2. QED BY <1>1, FewerAt

\* The stages in the order in which they come for one function, a physical
\* one's cleanup after the turns of its virtual ones.
StagesLeft ==
  CASE pc = "create_subsys" -> 16
    [] pc \in {"create_ns_bdev", "create_ns"} -> 15
    [] pc \in {"create_bdev", "suspend_nvme_ctrl"} -> 14
    [] pc \in {"suspend_vblk_ctrl", "create_passive"} -> 13
    [] pc \in {"suspend_lu", "attach_ns"} -> 12
    [] pc \in {"restore", "notify"} -> 11
    [] pc \in {"destroy_vblk_ctrl", "detach_ns", "destroy_ns_bdev"} -> IF func = pf THEN 5 ELSE 9
    [] pc \in {"destroy_bdev", "destroy_nvme_ctrl"} -> IF func = pf THEN 4 ELSE 8
    [] pc = "main" -> IF pf = None THEN 2 ELSE 7
    [] OTHER -> 0

\* Two RPCs for one namespace: the first is still to come.
First == IF pc \in {"create_ns_bdev", "detach_ns"} THEN 1 ELSE 0

\* What is left to do: runs, functions, stages, namespaces, and their RPCs.
Work == <<MaxRuns - runs, Cardinality(todo), StagesLeft, Cardinality(nsLeft), First>>

\* The namespace in hand is one of those left.
NsTaken == pc \in NsStage => ns \in nsLeft

\* Each loop over namespaces takes one of those it has.
LEMMA NsTakenKept ==
  ASSUME NsTaken, [Next]_vars
  PROVE  NsTaken'
<1>. USE DEF NsTaken, NsStage
<1>1. CASE Start \/ Kill \/ Refused
  BY <1>1 DEF Start, Kill, Refused, Exit
<1>2. ASSUME NEW f \in Func, TakePF(f) \/ TakeVF(f) PROVE NsTaken'
  BY <1>2 DEF TakePF, TakeVF, Move
<1>3. CASE FinishPF \/ Finish
  BY <1>3 DEF FinishPF, Finish, Each
<1>4. CASE VblkCreateBdev \/ SuspendVblkCtrl \/ VblkSuspendLu \/ VblkRestore
           \/ DestroyVblkCtrl \/ VblkDestroyBdev
  BY <1>4 DEF VblkCreateBdev, SuspendVblkCtrl, VblkSuspendLu, VblkRestore,
     DestroyVblkCtrl, VblkDestroyBdev, Return
<1>5. CASE CreateSubsys \/ CreateNs \/ CreatePassive \/ AttachNs \/ Notify \/ NvmeDestroyBdev
  BY <1>5 DEF CreateSubsys, CreateNs, CreatePassive, AttachNs, Notify, NvmeDestroyBdev, Each
<1>6. CASE NvmeCreateBdev \/ DetachNs
  BY <1>6 DEF NvmeCreateBdev, DetachNs, loopVars
<1>7. CASE SuspendNvmeCtrl \/ DestroyNvmeCtrl
  BY <1>7 DEF SuspendNvmeCtrl, DestroyNvmeCtrl, Return
<1>8. CASE UNCHANGED vars
  BY <1>8 DEF vars, loopVars
<1>9. QED
  BY <1>1, <1>2, <1>3, <1>4, <1>5, <1>6, <1>7, <1>8 DEF Next, Step, Terminated

\* What is left is counted in numbers.
LEMMA WorkType ==
  ASSUME TypeInv
  PROVE  /\ MaxRuns - runs \in Nat /\ Cardinality(todo) \in Nat
         /\ StagesLeft \in Nat /\ Cardinality(nsLeft) \in Nat /\ First \in Nat
         /\ Work \in [1 .. 5 -> Nat]
<1>1. MaxRuns - runs \in Nat
  BY RunsAssumption DEF TypeInv, TypeOK
<1>2. Cardinality(todo) \in Nat
  BY FunctionsAssumption, FS_Subset, FS_CardinalityType DEF TypeInv, TypeOK
<1>3. Cardinality(nsLeft) \in Nat
  BY UsersAssumption, FS_Subset, FS_CardinalityType DEF TypeInv, TypeOK
<1>4. StagesLeft \in Nat /\ First \in Nat
  BY DEF StagesLeft, First
<1>5. QED BY <1>1, <1>2, <1>3, <1>4 DEF Work

\* A stage is over and another one begins, with all the rest as it is.
LEMMA StageOver ==
  ASSUME \/ FinishPF \/ Finish
         \/ VblkCreateBdev \/ SuspendVblkCtrl \/ VblkSuspendLu \/ VblkRestore
         \/ DestroyVblkCtrl \/ VblkDestroyBdev
         \/ CreateSubsys \/ SuspendNvmeCtrl \/ CreatePassive \/ Notify \/ DestroyNvmeCtrl
  PROVE  runs' = runs /\ todo' = todo /\ StagesLeft' < StagesLeft
<1>. USE DEF loopVars
<1>1. CASE FinishPF
  <2>1. /\ pc = "main" /\ pf # None /\ runs' = runs /\ todo' = todo
        /\ \/ pc' = "main" /\ pf' = None
           \/ /\ func' = pf' /\ pc' \in {"destroy_vblk_ctrl", "detach_ns", "destroy_nvme_ctrl"}
    BY <1>1 DEF FinishPF, Each
  <2>2. StagesLeft = 7 /\ StagesLeft' \in {2, 4, 5}
    BY <2>1 DEF StagesLeft
  <2>3. QED BY <2>1, <2>2
<1>2. CASE Finish
  BY <1>2 DEF Finish, StagesLeft
<1>3. CASE VblkCreateBdev \/ SuspendVblkCtrl \/ VblkSuspendLu
  BY <1>3 DEF VblkCreateBdev, SuspendVblkCtrl, VblkSuspendLu, StagesLeft
<1>4. CASE VblkRestore \/ Notify
  <2>1. /\ runs' = runs /\ todo' = todo /\ StagesLeft = 11
        /\ pc' \in {"destroy_vblk_ctrl", "detach_ns", "destroy_nvme_ctrl", "main"}
    BY <1>4 DEF VblkRestore, Notify, Each, StagesLeft
  <2>2. StagesLeft' \in {2, 4, 5, 7, 8, 9}
    BY <2>1 DEF StagesLeft
  <2>3. QED BY <2>1, <2>2
<1>5. CASE DestroyVblkCtrl \/ VblkDestroyBdev \/ DestroyNvmeCtrl
  <2>1. /\ runs' = runs /\ todo' = todo
        /\ pc \in {"destroy_vblk_ctrl", "destroy_bdev", "destroy_nvme_ctrl"}
        /\ \/ pc = "destroy_vblk_ctrl" /\ pc' = "destroy_bdev" /\ UNCHANGED <<func, pf>>
           \/ pc' = "main" /\ pf' = IF func = pf THEN None ELSE pf
    BY <1>5 DEF DestroyVblkCtrl, VblkDestroyBdev, DestroyNvmeCtrl, Return
  <2>2. StagesLeft \in (IF func = pf THEN {4, 5} ELSE {8, 9})
    BY <2>1 DEF StagesLeft
  <2>3. CASE pc = "destroy_vblk_ctrl" /\ pc' = "destroy_bdev" /\ UNCHANGED <<func, pf>>
    BY <2>1, <2>3 DEF StagesLeft
  <2>4. CASE pc' = "main" /\ pf' = IF func = pf THEN None ELSE pf
    <3>1. StagesLeft' \in (IF func = pf THEN {2} ELSE {2, 7})
      BY <2>4 DEF StagesLeft
    <3>2. QED BY <2>1, <2>2, <3>1
  <2>5. QED BY <2>1, <2>3, <2>4
<1>6. CASE CreateSubsys \/ SuspendNvmeCtrl \/ CreatePassive
  BY <1>6 DEF CreateSubsys, SuspendNvmeCtrl, CreatePassive, Each, StagesLeft
<1>7. QED BY <1>1, <1>2, <1>3, <1>4, <1>5, <1>6

\* A namespace is done with, and with the last one the loop is.
LEMMA NamespaceOver ==
  ASSUME TypeInv, NsTaken, CreateNs \/ AttachNs \/ NvmeDestroyBdev
  PROVE  /\ runs' = runs /\ todo' = todo /\ StagesLeft' <= StagesLeft
         /\ Cardinality(nsLeft') < Cardinality(nsLeft)
<1>1. ns \in nsLeft /\ nsLeft' = nsLeft \ {ns}
  BY DEF NsTaken, NsStage, CreateNs, AttachNs, NvmeDestroyBdev, Each
<1>2. IsFiniteSet(nsLeft)
  BY UsersAssumption, FS_Subset DEF TypeInv, TypeOK
<1>3. Cardinality(nsLeft') = Cardinality(nsLeft) - 1 /\ Cardinality(nsLeft) \in Nat
  BY <1>1, <1>2, FS_RemoveElement, FS_CardinalityType
<1>4. /\ runs' = runs /\ todo' = todo /\ UNCHANGED <<func, pf>>
      /\ \/ pc = "create_ns" /\ pc' \in {"create_ns_bdev", "suspend_nvme_ctrl"}
         \/ pc = "attach_ns" /\ pc' \in {"attach_ns", "notify"}
         \/ pc = "destroy_ns_bdev" /\ pc' \in {"detach_ns", "destroy_nvme_ctrl"}
  BY DEF CreateNs, AttachNs, NvmeDestroyBdev, Each
<1>5. StagesLeft' <= StagesLeft
  BY <1>4 DEF StagesLeft
<1>6. QED BY <1>3, <1>4, <1>5

\* Whatever happens, what is left becomes less.
LEMMA WorkShrinks ==
  ASSUME TypeInv, TypeInv', NsTaken, Start \/ Step \/ Kill
  PROVE  <<Work', Work>> \in Fewer
<1>. DEFINE less ==
       \/ (MaxRuns - runs)' < MaxRuns - runs
       \/ runs' = runs /\ Cardinality(todo') < Cardinality(todo)
       \/ runs' = runs /\ Cardinality(todo') = Cardinality(todo) /\ StagesLeft' < StagesLeft
       \/ /\ runs' = runs /\ Cardinality(todo') = Cardinality(todo) /\ StagesLeft' = StagesLeft
          /\ Cardinality(nsLeft') < Cardinality(nsLeft)
       \/ /\ runs' = runs /\ Cardinality(todo') = Cardinality(todo) /\ StagesLeft' = StagesLeft
          /\ Cardinality(nsLeft') = Cardinality(nsLeft) /\ First' < First
<1>1. /\ MaxRuns - runs \in Nat /\ Cardinality(todo) \in Nat
      /\ StagesLeft \in Nat /\ Cardinality(nsLeft) \in Nat /\ First \in Nat
      /\ (MaxRuns - runs)' \in Nat /\ Cardinality(todo') \in Nat
      /\ StagesLeft' \in Nat /\ Cardinality(nsLeft') \in Nat /\ First' \in Nat
  <2>1. TypeInv => /\ MaxRuns - runs \in Nat /\ Cardinality(todo) \in Nat
                   /\ StagesLeft \in Nat /\ Cardinality(nsLeft) \in Nat /\ First \in Nat
    BY WorkType
  <2>2. (TypeInv => /\ MaxRuns - runs \in Nat /\ Cardinality(todo) \in Nat
                    /\ StagesLeft \in Nat /\ Cardinality(nsLeft) \in Nat /\ First \in Nat)'
    BY WorkType, PTL
  <2>3. QED BY <2>1, <2>2
<1>. SUFFICES less
  <2>. DEFINE a == Work'
              b == Work
  <2>1. a \in [1 .. 5 -> Nat] /\ b \in [1 .. 5 -> Nat]
    BY <1>1 DEF Work
  <2>2. /\ a[1] = (MaxRuns - runs)' /\ b[1] = MaxRuns - runs
        /\ a[2] = Cardinality(todo') /\ b[2] = Cardinality(todo)
        /\ a[3] = StagesLeft' /\ b[3] = StagesLeft
        /\ a[4] = Cardinality(nsLeft') /\ b[4] = Cardinality(nsLeft)
        /\ a[5] = First' /\ b[5] = First
        /\ runs' = runs => a[1] = b[1]
    BY DEF Work
  <2>. HIDE DEF a, b
  <2>3. ASSUME less PROVE FirstFewer(a, b)
    BY <2>2, <2>3 DEF FirstFewer
  <2>4. QED BY <2>1, <2>3, FewerNumbers DEF a, b
<1>2. CASE Start
  BY <1>2, RunsAssumption DEF Start, TypeInv, TypeOK
<1>3. CASE Kill \/ Refused
  <2>1. runs' = runs /\ todo' = {} /\ StagesLeft' = 0
    BY <1>3 DEF Kill, Refused, Exit, StagesLeft
  <2>2. StagesLeft > 0
    BY <1>3 DEF Kill, Refused, VblkStage, NvmeStage, StagesLeft
  <2>3. Cardinality(todo') = 0
    BY <2>1, FS_EmptySet
  <2>4. QED BY <1>1, <2>1, <2>2, <2>3
<1>4. ASSUME NEW f \in Func, TakePF(f) \/ TakeVF(f) PROVE less
  <2>1. f \in todo /\ todo' = todo \ {f} /\ runs' = runs
    BY <1>4 DEF TakePF, TakeVF
  <2>2. IsFiniteSet(todo)
    BY FunctionsAssumption, FS_Subset DEF TypeInv, TypeOK
  <2>3. Cardinality(todo') = Cardinality(todo) - 1
    BY <2>1, <2>2, FS_RemoveElement
  <2>4. QED BY <1>1, <2>1, <2>3
<1>5. CASE \/ FinishPF \/ Finish
           \/ VblkCreateBdev \/ SuspendVblkCtrl \/ VblkSuspendLu \/ VblkRestore
           \/ DestroyVblkCtrl \/ VblkDestroyBdev
           \/ CreateSubsys \/ SuspendNvmeCtrl \/ CreatePassive \/ Notify \/ DestroyNvmeCtrl
  BY <1>5, StageOver
<1>6. CASE CreateNs \/ AttachNs \/ NvmeDestroyBdev
  BY <1>1, <1>6, NamespaceOver
<1>7. CASE NvmeCreateBdev \/ DetachNs
  <2>1. /\ UNCHANGED <<runs, todo, nsLeft, func, pf>>
        /\ \/ pc = "create_ns_bdev" /\ pc' = "create_ns"
           \/ pc = "detach_ns" /\ pc' = "destroy_ns_bdev"
    BY <1>7 DEF NvmeCreateBdev, DetachNs, loopVars
  <2>2. StagesLeft' = StagesLeft /\ First' < First
    BY <2>1 DEF StagesLeft, First
  <2>3. QED BY <2>1, <2>2
<1>8. QED BY <1>2, <1>3, <1>4, <1>5, <1>6, <1>7 DEF Step

\* Every run ends: each start, each step and each kill leaves less to do, and
\* nothing becomes less without end.  The loops over functions and namespaces
\* come to their ends on whatever earlier runs have left on the two services.
THEOREM WorkEnds ==
  /\ IsWellFoundedOn(Fewer, [1 .. 5 -> Nat])
  /\ Spec => /\ [](Work \in [1 .. 5 -> Nat])
             /\ [][Start \/ Step \/ Kill => <<Work', Work>> \in Fewer]_vars
<1>1. Init => TypeInv /\ NsTaken
  BY InitType DEF Init, NsTaken, NsStage
<1>2. TypeInv /\ NsTaken /\ [Next]_vars => TypeInv' /\ NsTaken'
  BY NextType, NsTakenKept
<1>3. TypeInv => Work \in [1 .. 5 -> Nat]
  BY WorkType
<1>4. TypeInv /\ TypeInv' /\ NsTaken /\ (Start \/ Step \/ Kill) => <<Work', Work>> \in Fewer
  BY WorkShrinks
<1>5. Spec => /\ [](Work \in [1 .. 5 -> Nat])
              /\ [][Start \/ Step \/ Kill => <<Work', Work>> \in Fewer]_vars
  BY <1>1, <1>2, <1>3, <1>4, PTL DEF Spec
<1>6. QED BY <1>5, FewerEnds

=============================================================================
