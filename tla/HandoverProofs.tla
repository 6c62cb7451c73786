--------------------------- MODULE HandoverProofs ---------------------------
(***************************************************************************)
(* What the manager promises to the host, for every set of functions and   *)
(* every number of runs, with and without shared namespaces: a physical    *)
(* function is destroyed after its virtual ones, the manager implements    *)
(* module Handover, a refused request leaves no function in a gap, and a   *)
(* run that reaches the end has moved everything.  A first run onto an     *)
(* empty destination is refused nothing.  Last, with no shared namespace,  *)
(* such a run also deletes the devices it has no more use for.             *)
(***************************************************************************)
EXTENDS LiveUpgradeProofs

CleanupStage == {"destroy_vblk_ctrl", "destroy_bdev",
                 "detach_ns", "destroy_ns_bdev", "destroy_nvme_ctrl"}

\* What the loops of main know.  A function that was not listed has no
\* controller; virtual functions wait for the turn of their physical one, and
\* when it has come, those that are not waiting and not being moved are gone;
\* a physical function is cleaned up in its turn only, when none is waiting.
LoopInv ==
  /\ pc = "main" => func = None
  /\ Running =>
       /\ \A f \in Func \ live : srcCtrl[f] = "none"
       /\ \A p \in todo \cap PF : VFs(p) \subseteq todo
       /\ pf # None =>
            /\ pf \notin todo
            /\ \A v \in VFs(pf) \ todo : v # func => srcCtrl[v] = "none"
  /\ pc \in CleanupStage /\ func \in PF => func = pf /\ todo \cap VFs(pf) = {}
  /\ pc = "destroy_bdev" => srcCtrl[func] = "none"

OrderInv == TypeInv /\ LoopInv

\* A request in the middle of a function's turn: no controller appears, and a
\* cleanup begins at once for virtual functions only.
LEMMA TurnGoesOn ==
  ASSUME OrderInv, pc \in VblkStage \cup NvmeStage, pc' \in VblkStage \cup NvmeStage,
         UNCHANGED <<func, pf, todo, live>>,
         \A f \in Func : srcCtrl[f] = "none" => srcCtrl'[f] = "none",
         pc' \in CleanupStage => pc \in CleanupStage \/ func \in VF,
         pc' = "destroy_bdev" => srcCtrl'[func] = "none"
  PROVE  LoopInv'
<1>1. pc' # "main" /\ Running
  BY DEF VblkStage, NvmeStage, Running
<1>2. VF \subseteq Func /\ PF \cap VF = {}
  BY FunctionsAssumption, FuncSets
<1>3. QED BY <1>1, <1>2 DEF OrderInv, LoopInv, VFs

\* The last request of a function's turn: it is a physical one that main
\* still has to clean up, or its controller is gone.
LEMMA TurnEnds ==
  ASSUME OrderInv, pc \in VblkStage \cup NvmeStage, pc' = "main", func' = None,
         UNCHANGED <<todo, live>>, pf' \in {pf, None},
         \A f \in Func : srcCtrl[f] = "none" => srcCtrl'[f] = "none",
         func \in VF => srcCtrl'[func] = "none"
  PROVE  LoopInv'
<1>1. Running
  BY DEF Running
<1>2. VF \subseteq Func
  BY FuncSets
<1>3. QED BY <1>1, <1>2 DEF OrderInv, LoopInv, VFs, CleanupStage

\* The end of a run forgets the loops.
LEMMA RunEndsLoops ==
  ASSUME pc' \in Ended
  PROVE  LoopInv'
BY DEF LoopInv, Ended, Running, VblkStage, NvmeStage, CleanupStage

\* The first request of a function's turn is not one of the cleanup.
LEMMA TurnBegins ==
  ASSUME OrderInv, pc = "main", NEW f \in Func, Move(f)
  PROVE  /\ pc' \in VblkStage \cup NvmeStage \cup {"main"}
         /\ pc' \notin CleanupStage
         /\ func' = IF f \in live THEN f ELSE None
         /\ pc' = "main" <=> f \notin live
<1>1. func = None
  BY DEF OrderInv, LoopInv
<1>2. CASE f \notin live
  BY <1>1, <1>2 DEF Move, CleanupStage
<1>3. CASE f \in live /\ f \in Vblk
  BY <1>3 DEF Move, CleanupStage, VblkStage, NvmeStage, Nvme
<1>4. CASE f \in live /\ f \in Nvme
  BY <1>4 DEF Move, CleanupStage, VblkStage, NvmeStage, Nvme
<1>5. QED BY <1>2, <1>3, <1>4, FuncSets

\* The steps of the loops of main.
LEMMA LoopStep ==
  ASSUME OrderInv, (\E f \in Func : TakePF(f) \/ TakeVF(f)) \/ FinishPF \/ Finish
  PROVE  LoopInv'
<1>1. pc = "main" /\ Running /\ func = None
  BY DEF TakePF, TakeVF, FinishPF, Finish, Running, OrderInv, LoopInv
<1>2. VF \subseteq Func /\ PF \subseteq Func /\ PF \cap VF = {} /\ None \notin Func
  BY FunctionsAssumption, FuncSets
<1>3. UNCHANGED <<srcCtrl, live>>
  BY DEF TakePF, TakeVF, FinishPF, Finish, srcVars, snapVars
<1>4. ASSUME NEW p \in Func, TakePF(p) PROVE LoopInv'
  <2>1. /\ pc' \notin CleanupStage
        /\ func' = IF p \in live THEN p ELSE None
        /\ pc' = "main" <=> p \notin live
    BY <1>1, <1>4, TurnBegins DEF TakePF
  <2>2. p \in todo \cap PF /\ pf' = p /\ todo' = todo \ {p}
    BY <1>4 DEF TakePF
  <2>3. VFs(p) \subseteq todo'
    BY <1>1, <1>2, <2>2 DEF OrderInv, LoopInv, VFs
  <2>4. \A q \in todo' \cap PF : VFs(q) \subseteq todo'
    BY <1>1, <1>2, <2>2 DEF OrderInv, LoopInv, VFs
  <2>5. \A f \in Func \ live' : srcCtrl'[f] = "none"
    BY <1>1, <1>3 DEF OrderInv, LoopInv
  <2>6. pc' # "destroy_bdev"
    BY <2>1 DEF CleanupStage
  <2>7. QED BY <2>1, <2>2, <2>3, <2>4, <2>5, <2>6 DEF LoopInv, VFs
<1>5. ASSUME NEW v \in Func, TakeVF(v) PROVE LoopInv'
  <2>1. /\ pc' \notin CleanupStage
        /\ func' = IF v \in live THEN v ELSE None
        /\ pc' = "main" <=> v \notin live
    BY <1>1, <1>5, TurnBegins DEF TakeVF
  <2>2. v \in todo \cap VFs(pf) /\ pf # None /\ pf' = pf /\ todo' = todo \ {v}
    BY <1>5 DEF TakeVF
  <2>3. \A q \in todo' \cap PF : VFs(q) \subseteq todo'
    BY <1>1, <1>2, <2>2 DEF OrderInv, LoopInv, VFs
  <2>4. \A f \in Func \ live' : srcCtrl'[f] = "none"
    BY <1>1, <1>3 DEF OrderInv, LoopInv
  <2>5. \A u \in VFs(pf) \ todo' : u # func' => srcCtrl'[u] = "none"
    <3>. SUFFICES ASSUME NEW u \in VFs(pf) \ todo', u # func' PROVE srcCtrl'[u] = "none"
      OBVIOUS
    <3>1. CASE u = v
      BY <1>2, <2>1, <2>4, <1>3, <3>1 DEF VFs
    <3>2. CASE u # v
      BY <1>1, <1>2, <1>3, <2>2, <3>2 DEF OrderInv, LoopInv, VFs
    <3>3. QED BY <3>1, <3>2
  <2>6. pf' \notin todo'
    BY <1>1, <2>2 DEF OrderInv, LoopInv
  <2>7. pc' # "destroy_bdev"
    BY <2>1 DEF CleanupStage
  <2>8. QED BY <2>1, <2>2, <2>3, <2>4, <2>5, <2>6, <2>7 DEF LoopInv, VFs
<1>6. CASE FinishPF
  <2>1. pf # None /\ todo \cap VFs(pf) = {} /\ todo' = todo
    BY <1>6 DEF FinishPF
  <2>2. \/ pf' = None /\ pc' = "main" /\ func' = None
        \/ pf' = pf /\ func' = pf /\ pc' \in CleanupStage \ {"destroy_bdev"}
    BY <1>1, <1>6 DEF FinishPF, Each, CleanupStage
  <2>3. \A v \in VFs(pf) : v # None
    BY <1>2 DEF VFs
  <2>4. /\ \A f \in Func \ live' : srcCtrl'[f] = "none"
        /\ \A q \in todo' \cap PF : VFs(q) \subseteq todo'
        /\ pf \notin todo /\ \A v \in VFs(pf) \ todo : srcCtrl'[v] = "none"
    BY <1>1, <1>3, <2>1, <2>3 DEF OrderInv, LoopInv
  <2>5. CASE pf' = None /\ pc' = "main" /\ func' = None
    BY <2>4, <2>5 DEF LoopInv, CleanupStage
  <2>6. CASE pf' = pf /\ func' = pf /\ pc' \in CleanupStage \ {"destroy_bdev"}
    <3>1. pc' # "main" /\ pc' # "destroy_bdev"
      BY <2>6 DEF CleanupStage
    <3>2. QED BY <2>1, <2>4, <2>6, <3>1 DEF LoopInv
  <2>7. QED BY <2>2, <2>5, <2>6
<1>7. CASE Finish
  BY <1>7, RunEndsLoops DEF Finish, Ended
<1>8. QED BY <1>4, <1>5, <1>6, <1>7

\* The requests.
LEMMA RequestLoops ==
  ASSUME OrderInv, Step, ~((\E f \in Func : TakePF(f) \/ TakeVF(f)) \/ FinishPF \/ Finish)
  PROVE  LoopInv'
<1>. USE DEF srcVars, dstVars, loopVars, snapVars
<1>1. func \in Func \cup {None} /\ srcCtrl \in [Func -> {"none", "running", "quiesced", "suspended"}]
  BY DEF OrderInv, TypeInv, TypeOK
<1>2. Func = PF \cup VF /\ PF \cap VF = {}
  BY FunctionsAssumption DEF Func
<1>3. CASE VblkCreateBdev
  BY <1>3, TurnGoesOn DEF VblkCreateBdev, VblkStage, CleanupStage
<1>4. CASE SuspendVblkCtrl
  BY <1>1, <1>4, TurnGoesOn DEF SuspendVblkCtrl, Quiesce, VblkStage, CleanupStage
<1>5. CASE VblkSuspendLu
  BY <1>1, <1>5, TurnGoesOn DEF VblkSuspendLu, VblkStage, CleanupStage
<1>6. CASE VblkRestore
  <2>1. CASE func \in VF
    BY <1>6, <2>1, TurnGoesOn DEF VblkRestore, CleanedUpNow, VblkStage, CleanupStage
  <2>2. CASE func \notin VF
    BY <1>6, <2>2, TurnEnds DEF VblkRestore, CleanedUpNow, VblkStage
  <2>3. QED BY <2>1, <2>2
<1>7. CASE DestroyVblkCtrl
  <2>1. srcCtrl' = [srcCtrl EXCEPT ![func] = "none"] /\ pc \in VblkStage /\ pc \in CleanupStage
    BY <1>7 DEF DestroyVblkCtrl, VblkStage, CleanupStage
  <2>2. CASE VblkBdev[func] # None /\ pc' = "destroy_bdev" /\ UNCHANGED <<func, pf>>
    BY <1>1, <1>7, <2>1, <2>2, TurnGoesOn, FuncSets
    DEF DestroyVblkCtrl, VblkStage, OrderInv, TypeInv, StageOK
  <2>3. CASE Return
    BY <1>1, <1>2, <1>7, <2>1, <2>3, TurnEnds DEF DestroyVblkCtrl, Return
  <2>4. QED BY <1>7, <2>2, <2>3 DEF DestroyVblkCtrl
<1>8. CASE VblkDestroyBdev
  <2>1. srcCtrl[func] = "none"
    BY <1>8 DEF VblkDestroyBdev, OrderInv, LoopInv
  <2>2. QED BY <1>8, <2>1, TurnEnds DEF VblkDestroyBdev, Return, VblkStage
<1>9. CASE CreateSubsys
  BY <1>9, TurnGoesOn DEF CreateSubsys, Each, NvmeStage, CleanupStage
<1>10. CASE NvmeCreateBdev
  BY <1>10, TurnGoesOn DEF NvmeCreateBdev, NvmeStage, CleanupStage
<1>11. CASE CreateNs
  BY <1>11, TurnGoesOn DEF CreateNs, Each, NvmeStage, CleanupStage
<1>12. CASE SuspendNvmeCtrl
  BY <1>1, <1>12, TurnGoesOn DEF SuspendNvmeCtrl, Quiesce, NvmeStage, CleanupStage
<1>13. CASE CreatePassive
  BY <1>13, TurnGoesOn DEF CreatePassive, Each, NvmeStage, CleanupStage
<1>14. CASE AttachNs
  BY <1>14, TurnGoesOn DEF AttachNs, Each, NvmeStage, CleanupStage
<1>15. CASE Notify
  <2>1. pc \in NvmeStage /\ \A f \in Func : srcCtrl[f] = "none" => srcCtrl'[f] = "none"
    BY <1>1, <1>15 DEF Notify, NvmeStage
  <2>2. CASE func \in VF
    <3>1. pc' \in {"detach_ns", "destroy_nvme_ctrl"} /\ func' = func
      BY <1>15, <2>2 DEF Notify, Each, CleanedUpNow
    <3>2. QED BY <1>15, <2>1, <2>2, <3>1, TurnGoesOn DEF Notify, NvmeStage
  <2>3. CASE func \notin VF
    BY <1>15, <2>1, <2>3, TurnEnds DEF Notify, CleanedUpNow
  <2>4. QED BY <2>2, <2>3
<1>16. CASE DetachNs
  BY <1>16, TurnGoesOn DEF DetachNs, NvmeStage, CleanupStage
<1>17. CASE NvmeDestroyBdev
  BY <1>17, TurnGoesOn DEF NvmeDestroyBdev, Each, NvmeStage, CleanupStage
<1>18. CASE DestroyNvmeCtrl
  BY <1>1, <1>2, <1>18, TurnEnds DEF DestroyNvmeCtrl, Return, NvmeStage
<1>19. CASE Refused
  BY <1>19, RunEndsLoops DEF Refused, Exit, Ended
<1>20. QED
  BY <1>3, <1>4, <1>5, <1>6, <1>7, <1>8, <1>9, <1>10, <1>11, <1>12, <1>13,
     <1>14, <1>15, <1>16, <1>17, <1>18, <1>19 DEF Step

\* Every step keeps the order of the loops.
LEMMA OrderKept ==
  ASSUME OrderInv, [Next]_vars
  PROVE  OrderInv'
<1>1. TypeInv'
  BY NextType DEF OrderInv
<1>2. CASE Start
  <2>1. VF \subseteq Func
    BY FuncSets
  <2>2. QED BY <1>1, <1>2, <2>1 DEF Start, OrderInv, LoopInv, VFs, CleanupStage, srcVars
<1>3. CASE Step
  BY <1>1, <1>3, LoopStep, RequestLoops DEF OrderInv
<1>4. CASE Kill
  BY <1>1, <1>4, RunEndsLoops DEF Kill, Exit, Ended, OrderInv
<1>5. CASE UNCHANGED vars
  BY <1>1, <1>5 DEF OrderInv, LoopInv, Running, vars, srcVars, loopVars, snapVars
<1>6. QED BY <1>2, <1>3, <1>4, <1>5 DEF Next, Terminated

\* It holds at first, when no run has begun.
LEMMA OrderInit == Init => OrderInv
BY InitType DEF Init, OrderInv, LoopInv, Running, VblkStage, NvmeStage, CleanupStage

\* Only the two destroy requests remove a controller from the source.
LEMMA Destroyers ==
  ASSUME OrderInv, [Next]_vars, NEW p \in Func, srcCtrl[p] # "none", srcCtrl'[p] = "none"
  PROVE  pc \in CleanupStage /\ func = p
<1>. USE DEF srcVars
<1>1. srcCtrl \in [Func -> {"none", "running", "quiesced", "suspended"}]
  BY DEF OrderInv, TypeInv, TypeOK
<1>2. CASE DestroyVblkCtrl \/ DestroyNvmeCtrl
  BY <1>1, <1>2 DEF DestroyVblkCtrl, DestroyNvmeCtrl, CleanupStage
<1>3. CASE SuspendVblkCtrl \/ SuspendNvmeCtrl \/ VblkSuspendLu \/ Notify
  BY <1>1, <1>3 DEF SuspendVblkCtrl, SuspendNvmeCtrl, VblkSuspendLu, Notify, Quiesce
<1>4. CASE UNCHANGED srcCtrl
  BY <1>4
<1>5. QED BY <1>2, <1>3, <1>4
  DEF Next, Step, Start, Kill, Refused, Exit, Terminated, vars, TakePF, TakeVF, FinishPF, Finish,
      VblkCreateBdev, VblkRestore, VblkDestroyBdev, CreateSubsys, NvmeCreateBdev, CreateNs,
      CreatePassive, AttachNs, DetachNs, NvmeDestroyBdev

\* A physical function is never destroyed on the source before its virtual
\* functions, however often the manager was killed and started again.
THEOREM PhysicalLast == Spec => PFDestroyedLast
<1>1. ASSUME OrderInv, [Next]_vars, NEW p \in PF, srcCtrl[p] # "none", srcCtrl'[p] = "none"
      PROVE  \A v \in VFs(p) : srcCtrl[v] = "none"
  <2>1. pc \in CleanupStage /\ func = p
    BY <1>1, Destroyers, FuncSets
  <2>2. pf = p /\ todo \cap VFs(p) = {}
    BY <1>1, <2>1 DEF OrderInv, LoopInv
  <2>3. Running /\ pf # None /\ p \notin VFs(p)
    BY <2>1, <2>2, FunctionsAssumption, FuncSets DEF Running, CleanupStage, VblkStage, NvmeStage, VFs
  <2>4. QED BY <1>1, <2>1, <2>2, <2>3 DEF OrderInv, LoopInv
<1>2. OrderInv /\ [Next]_vars =>
        [\A p \in PF : srcCtrl[p] # "none" /\ srcCtrl'[p] = "none" =>
           \A v \in VFs(p) : srcCtrl[v] = "none"]_vars
  BY <1>1
<1>3. QED BY <1>2, OrderInit, OrderKept, PTL DEF Spec, PFDestroyedLast

-----------------------------------------------------------------------------
(* The refinement of Handover.  A function is never in a gap except between *)
(* two requests of its own turn, or because a run ended there; each run     *)
(* ends once, so there are at most as many gaps as runs.                    *)

\* The destination has the controller before the source destroys its own.
OwnerInv ==
  /\ pc = "restore" => srcCtrl[func] = "suspended"
  /\ pc = "create_passive" => srcCtrl[func] # "none"
  /\ pc \in {"attach_ns", "notify"} \cup CleanupStage => func \in dstCtrl
  /\ Running /\ pf \in live /\ func # pf => pf \in dstCtrl

\* Functions in a gap, and the one that is about to leave it.
Gaps == {f \in Func : srcCtrl[f] = "suspended" /\ f \notin dstCtrl}
Leaving == IF pc = "restore" THEN {func} ELSE {}

GapInv ==
  /\ Running => runs > 0 /\ Cardinality(Gaps \ Leaving) <= runs - 1
  /\ ~Running => Cardinality(Gaps) <= runs

HandInv == OrderInv /\ OwnerInv /\ GapInv

\* There are finitely many gaps.
LEMMA GapsFinite ==
  /\ IsFiniteSet(Gaps) /\ Cardinality(Gaps) \in Nat
  /\ IsFiniteSet(Gaps \ Leaving) /\ Cardinality(Gaps \ Leaving) \in Nat
  /\ Cardinality(Gaps') \in Nat /\ Cardinality(Gaps' \ Leaving') \in Nat
<1>1. /\ Gaps \in SUBSET Func /\ Gaps' \in SUBSET Func
      /\ Gaps \ Leaving \in SUBSET Func /\ Gaps' \ Leaving' \in SUBSET Func
  BY DEF Gaps
<1>2. QED BY <1>1, FS_Subset, FS_CardinalityType, FunctionsAssumption

\* No new gap, in the middle of a run.
LEMMA NoNewGap ==
  ASSUME HandInv, Running, Running', UNCHANGED runs,
         Gaps' \ Leaving' \subseteq Gaps \ Leaving
  PROVE  GapInv'
<1>1. Cardinality(Gaps' \ Leaving') <= Cardinality(Gaps \ Leaving)
  BY GapsFinite, FS_Subset
<1>2. runs \in Int
  BY DEF HandInv, OrderInv, TypeInv, TypeOK
<1>3. /\ Cardinality(Gaps \ Leaving) \in Int /\ Cardinality(Gaps' \ Leaving') \in Int
      /\ Cardinality(Gaps \ Leaving) <= runs - 1 /\ runs > 0
  BY GapsFinite DEF HandInv, GapInv
<1>4. runs' > 0 /\ Cardinality(Gaps' \ Leaving') <= runs' - 1
  BY <1>1, <1>2, <1>3
<1>5. QED BY <1>4 DEF GapInv

\* The end of a run: the function of its turn may be left in a gap.
LEMMA GapLeft ==
  ASSUME HandInv, Running, ~Running', UNCHANGED <<runs, srcCtrl, dstCtrl>>
  PROVE  GapInv'
<1>1. Gaps' = Gaps
  BY DEF Gaps
<1>2. Cardinality(Gaps) <= Cardinality(Gaps \ Leaving) + 1
  <2>1. CASE pc = "restore" /\ func \in Gaps
    <3>1. Cardinality(Gaps \ {func}) = Cardinality(Gaps) - 1
      BY <2>1, GapsFinite, FS_RemoveElement
    <3>2. Leaving = {func}
      BY <2>1 DEF Leaving
    <3>3. Cardinality(Gaps) \in Int
      BY GapsFinite
    <3>4. QED BY <3>1, <3>2, <3>3
  <2>2. CASE ~(pc = "restore" /\ func \in Gaps)
    <3>1. Gaps \ Leaving = Gaps
      BY <2>2 DEF Leaving
    <3>2. Cardinality(Gaps) \in Int
      BY GapsFinite
    <3>3. QED BY <3>1, <3>2
  <2>3. QED BY <2>1, <2>2
<1>3. runs \in Int
  BY DEF HandInv, OrderInv, TypeInv, TypeOK
<1>4. Cardinality(Gaps') <= runs'
  BY <1>1, <1>2, <1>3, GapsFinite DEF HandInv, GapInv
<1>5. QED BY <1>4 DEF GapInv

\* The owners of the functions that a step does not touch.
LEMMA OwnersKept ==
  ASSUME \A f \in Func : OwnerOf(f)' = OwnerOf(f), UNCHANGED runs
  PROVE  UNCHANGED Promise!vars
BY DEF Promise!vars

\* A step that gives one function to another owner.
LEMMA OwnerChanged ==
  ASSUME NEW g \in Func, NEW o, OwnerOf(g)' = o,
         \A f \in Func \ {g} : OwnerOf(f)' = OwnerOf(f)
  PROVE  [f \in Func |-> OwnerOf(f)]' = [[f \in Func |-> OwnerOf(f)] EXCEPT ![g] = o]
OBVIOUS

\* The gaps of Handover are the functions suspended and not taken over.
LEMMA SameGaps == Promise!Gap = Gaps
BY DEF Promise!Gap, Gaps, OwnerOf

\* The destination takes function g.
LEMMA Takes ==
  ASSUME NEW g \in Func, OwnerOf(g) \in {"source", "gap"}, OwnerOf(g)' = "destination",
         \A f \in Func \ {g} : OwnerOf(f)' = OwnerOf(f), UNCHANGED runs
  PROVE  Promise!Next
<1>1. Promise!TakeOver(g)
  BY OwnerChanged DEF Promise!TakeOver
<1>2. QED BY <1>1 DEF Promise!Next

\* The loops of main leave both services alone.
LEMMA LoopOwner ==
  ASSUME HandInv, (\E f \in Func : TakePF(f) \/ TakeVF(f)) \/ FinishPF \/ Finish
  PROVE  /\ OwnerInv' /\ GapInv'
         /\ UNCHANGED <<srcCtrl, dstCtrl, runs>>
<1>. USE DEF HandInv
<1>1. /\ UNCHANGED <<srcCtrl, dstCtrl, runs, live>> /\ pc = "main" /\ func = None
      /\ Running /\ None \notin live
  BY FunctionsAssumption DEF TakePF, TakeVF, FinishPF, Finish, srcVars, dstVars, snapVars,
     OrderInv, LoopInv, TypeInv, TypeOK, Running
<1>2. Gaps' = Gaps /\ Leaving = {}
  BY <1>1 DEF Gaps, Leaving
<1>3. CASE FinishPF
  <2>1. \/ pf' = None /\ pc' = "main" /\ func' = None
        \/ pf' = pf /\ func' = pf /\ pc' \in CleanupStage /\ pf \in live
    BY <1>1, <1>3 DEF FinishPF, Each, CleanupStage
  <2>2. pf \in live => pf \in dstCtrl
    BY <1>1 DEF OwnerInv
  <2>3. pc' \notin {"restore", "create_passive"} /\ Running'
    BY <2>1 DEF CleanupStage, Running, VblkStage, NvmeStage
  <2>4. OwnerInv'
    BY <1>1, <2>1, <2>2, <2>3 DEF OwnerInv, CleanupStage
  <2>5. GapInv'
    BY <1>1, <1>2, <2>3, NoNewGap DEF Leaving
  <2>6. QED BY <1>1, <2>4, <2>5
<1>4. CASE Finish
  <2>1. pc' = "done" /\ ~Running'
    BY <1>4 DEF Finish, Running, VblkStage, NvmeStage
  <2>2. OwnerInv'
    BY <2>1 DEF OwnerInv, CleanupStage
  <2>3. QED BY <1>1, <2>1, <2>2, GapLeft
<1>5. ASSUME NEW f \in Func, TakePF(f) \/ TakeVF(f) PROVE OwnerInv' /\ GapInv'
  <2>1. pc' \in {"main", "create_bdev", "suspend_vblk_ctrl", "create_subsys"}
    BY <1>1, <1>5 DEF TakePF, TakeVF, Move
  <2>2. func' = IF f \in live THEN f ELSE None
    BY <1>1, <1>5, TurnBegins DEF TakePF, TakeVF
  <2>3. \/ pf' = f
        \/ pf' = pf
    BY <1>5 DEF TakePF, TakeVF
  <2>4. Running' /\ Leaving' = {}
    BY <2>1 DEF Running, Leaving, VblkStage, NvmeStage
  <2>5. OwnerInv'
    BY <1>1, <2>1, <2>2, <2>3 DEF OwnerInv, CleanupStage
  <2>6. QED BY <1>1, <1>2, <2>4, <2>5, NoNewGap
<1>6. QED BY <1>1, <1>3, <1>4, <1>5

\* The end of a run leaves both services alone.
LEMMA ExitOwner ==
  ASSUME HandInv, Running, NEW how \in {"raised", "killed"}, Exit(how)
  PROVE  /\ OwnerInv' /\ GapInv'
         /\ UNCHANGED <<srcCtrl, dstCtrl, runs>>
<1>1. UNCHANGED <<srcCtrl, dstCtrl, runs>> /\ ~Running' /\ pc' = how
  BY DEF Exit, srcVars, dstVars, Running, VblkStage, NvmeStage
<1>2. OwnerInv'
  BY <1>1 DEF OwnerInv, CleanupStage
<1>3. QED BY <1>1, <1>2, GapLeft

\* A request that leaves the controllers of both services alone.
LEMMA QuietOwner ==
  ASSUME HandInv, VblkCreateBdev \/ VblkDestroyBdev \/ CreateSubsys \/ NvmeCreateBdev
                  \/ CreateNs \/ AttachNs \/ DetachNs \/ NvmeDestroyBdev
  PROVE  /\ OwnerInv' /\ GapInv'
         /\ UNCHANGED <<srcCtrl, dstCtrl, runs>>
<1>. USE DEF HandInv
<1>1. UNCHANGED <<srcCtrl, dstCtrl, runs, live>> /\ None \notin live
  BY FunctionsAssumption DEF VblkCreateBdev, VblkDestroyBdev, CreateSubsys, NvmeCreateBdev,
     CreateNs, AttachNs, DetachNs, NvmeDestroyBdev, srcVars, dstVars, snapVars,
     OrderInv, TypeInv, TypeOK
<1>2. /\ Running /\ pc # "restore" /\ Running' /\ pc' \notin {"restore", "create_passive"}
  BY DEF VblkCreateBdev, VblkDestroyBdev, CreateSubsys, NvmeCreateBdev,
     CreateNs, AttachNs, DetachNs, NvmeDestroyBdev, Running, VblkStage, NvmeStage, Each, Return
<1>3. \/ UNCHANGED <<func, pf>>
      \/ pc' = "main" /\ func' = None /\ pf' = IF func = pf THEN None ELSE pf
  BY DEF VblkCreateBdev, VblkDestroyBdev, CreateSubsys, NvmeCreateBdev,
     CreateNs, AttachNs, DetachNs, NvmeDestroyBdev, Return, loopVars
<1>4. \/ pc' \notin {"attach_ns", "notify"} \cup CleanupStage
      \/ pc \in {"attach_ns", "notify"} \cup CleanupStage /\ UNCHANGED func
  BY DEF VblkCreateBdev, VblkDestroyBdev, CreateSubsys, NvmeCreateBdev,
     CreateNs, AttachNs, DetachNs, NvmeDestroyBdev, Return, Each, CleanupStage
<1>5. OwnerInv'
  BY <1>1, <1>2, <1>3, <1>4 DEF OwnerInv
<1>6. Gaps' = Gaps /\ Leaving = {} /\ Leaving' = {}
  BY <1>1, <1>2 DEF Gaps, Leaving
<1>7. QED BY <1>1, <1>2, <1>5, <1>6, NoNewGap

\* The first suspend changes nothing the host notices.
LEMMA QuiesceOwner ==
  ASSUME HandInv, SuspendVblkCtrl \/ SuspendNvmeCtrl
  PROVE  /\ OwnerInv' /\ GapInv'
         /\ \A f \in Func : OwnerOf(f)' = OwnerOf(f)
         /\ UNCHANGED runs
<1>. USE DEF HandInv
<1>1. UNCHANGED <<dstCtrl, runs, live, func, pf>> /\ Quiesce(func) /\ srcCtrl[func] # "none"
  BY DEF SuspendVblkCtrl, SuspendNvmeCtrl, dstVars, snapVars, loopVars
<1>2. srcCtrl \in [Func -> {"none", "running", "quiesced", "suspended"}] /\ func \in Func
  BY FuncSets DEF OrderInv, TypeInv, TypeOK, StageOK, SuspendVblkCtrl, SuspendNvmeCtrl,
     VblkStage, NvmeStage
<1>3. /\ Running /\ pc # "restore" /\ Running' /\ pc' \in {"suspend_lu", "create_passive"}
  BY DEF SuspendVblkCtrl, SuspendNvmeCtrl, Running, VblkStage, NvmeStage
<1>4. \A f \in Func : /\ OwnerOf(f)' = OwnerOf(f)
                      /\ srcCtrl'[f] = "suspended" <=> srcCtrl[f] = "suspended"
                      /\ srcCtrl'[f] = "none" <=> srcCtrl[f] = "none"
  BY <1>1, <1>2 DEF OwnerOf, Quiesce
<1>5. OwnerInv'
  BY <1>1, <1>2, <1>3, <1>4 DEF OwnerInv, CleanupStage
<1>6. Gaps' = Gaps /\ Leaving = {} /\ Leaving' = {}
  BY <1>1, <1>3, <1>4 DEF Gaps, Leaving
<1>7. QED BY <1>1, <1>3, <1>4, <1>5, <1>6, NoNewGap

\* A vblk function is suspended before the destination has it: a gap.
LEMMA SuspendOwner ==
  ASSUME HandInv, VblkSuspendLu
  PROVE  OwnerInv' /\ GapInv' /\ [Promise!Next]_(Promise!vars)
<1>. USE DEF HandInv
<1>1. /\ UNCHANGED <<dstCtrl, runs, live, func, pf>>
      /\ srcCtrl' = [srcCtrl EXCEPT ![func] = "suspended"] /\ srcCtrl[func] # "none"
      /\ pc = "suspend_lu" /\ pc' = "restore"
  BY DEF VblkSuspendLu, dstVars, snapVars, loopVars
<1>2. srcCtrl \in [Func -> {"none", "running", "quiesced", "suspended"}] /\ func \in Func
  BY <1>1, FuncSets DEF OrderInv, TypeInv, TypeOK, StageOK, VblkStage
<1>g. PICK g \in Func : g = func
  BY <1>2
<1>3. Running /\ Running'
  BY <1>1 DEF Running, VblkStage
<1>4. srcCtrl'[func] = "suspended" /\ \A f \in Func \ {g} : srcCtrl'[f] = srcCtrl[f]
  BY <1>g, <1>1, <1>2
<1>5. OwnerInv'
  BY <1>g, <1>1, <1>3, <1>4 DEF OwnerInv, CleanupStage
<1>6. Gaps' \ {func} \subseteq Gaps /\ Leaving' = {func} /\ Leaving = {}
  BY <1>g, <1>1, <1>4 DEF Gaps, Leaving
<1>7. GapInv'
  BY <1>g, <1>1, <1>3, <1>6, NoNewGap
<1>8. \A f \in Func \ {g} : OwnerOf(f)' = OwnerOf(f)
  BY <1>g, <1>1, <1>4 DEF OwnerOf
<1>9. CASE srcCtrl[func] = "suspended"
  <2>1. OwnerOf(g)' = OwnerOf(g)
    BY <1>g, <1>1, <1>4, <1>9 DEF OwnerOf
  <2>2. QED BY <1>g, <1>1, <1>5, <1>7, <1>8, <2>1, OwnersKept
<1>10. CASE srcCtrl[func] # "suspended" /\ func \in dstCtrl
  <2>1. OwnerOf(g) = "source" /\ OwnerOf(g)' = "destination"
    BY <1>g, <1>1, <1>2, <1>4, <1>10 DEF OwnerOf
  <2>2. QED BY <1>g, <1>1, <1>2, <1>5, <1>7, <1>8, <2>1, Takes
<1>11. CASE srcCtrl[func] # "suspended" /\ func \notin dstCtrl
  <2>1. OwnerOf(g) = "source" /\ OwnerOf(g)' = "gap"
    BY <1>g, <1>1, <1>2, <1>4, <1>11 DEF OwnerOf
  <2>2. Cardinality(Gaps) < runs
    <3>1. Gaps \ Leaving = Gaps
      BY <1>6
    <3>2. Cardinality(Gaps) <= runs - 1
      BY <1>3, <3>1 DEF GapInv
    <3>3. Cardinality(Gaps) \in Nat /\ runs \in Int
      BY GapsFinite DEF OrderInv, TypeInv, TypeOK
    <3>4. QED BY <3>2, <3>3
  <2>3. Promise!Release(g)
    <3>1. [f \in Func |-> OwnerOf(f)]' = [[f \in Func |-> OwnerOf(f)] EXCEPT ![g] = "gap"]
      BY <1>8, <2>1, OwnerChanged
    <3>2. [f \in Func |-> OwnerOf(f)][g] = "source"
      BY <2>1
    <3>3. Promise!Cardinality(Promise!Gap) < runs
      BY <2>2, SameGaps DEF Cardinality, Promise!Cardinality
    <3>4. UNCHANGED runs
      BY <1>1
    <3>5. QED BY <3>1, <3>2, <3>3, <3>4 DEF Promise!Release
  <2>4. QED BY <1>5, <1>7, <2>3 DEF Promise!Next
<1>12. QED BY <1>9, <1>10, <1>11

\* The destination creates the controller: out of a gap, or while the source
\* still serves the host.
LEMMA CreateOwner ==
  ASSUME HandInv, VblkRestore \/ CreatePassive
  PROVE  OwnerInv' /\ GapInv' /\ [Promise!Next]_(Promise!vars)
<1>. USE DEF HandInv
<1>1. /\ UNCHANGED <<srcCtrl, runs, live, pf>>
      /\ dstCtrl' = dstCtrl \cup {func} /\ func \notin dstCtrl
      /\ \/ pc = "restore" /\ pc' \in {"destroy_vblk_ctrl", "main"}
         \/ pc = "create_passive" /\ pc' \in {"attach_ns", "notify"}
      /\ \/ func' = func
         \/ pc' = "main" /\ func' = None
  BY DEF VblkRestore, CreatePassive, Each, srcVars, snapVars, loopVars
<1>2. srcCtrl \in [Func -> {"none", "running", "quiesced", "suspended"}] /\ func \in Func
  BY <1>1, FuncSets DEF OrderInv, TypeInv, TypeOK, StageOK, VblkStage, NvmeStage
<1>g. PICK g \in Func : g = func
  BY <1>2
<1>3. Running /\ Running' /\ pc' \notin {"restore", "create_passive"}
  BY <1>1 DEF Running, VblkStage, NvmeStage
<1>4. OwnerInv'
  BY <1>g, <1>1, <1>2, <1>3 DEF OwnerInv, CleanupStage
<1>5. Gaps' \subseteq Gaps \ Leaving
  BY <1>g, <1>1 DEF Gaps, Leaving
<1>6. GapInv'
  BY <1>g, <1>1, <1>3, <1>5, NoNewGap
<1>7. \A f \in Func \ {g} : OwnerOf(f)' = OwnerOf(f)
  BY <1>g, <1>1 DEF OwnerOf
<1>8. srcCtrl[func] # "none"
  BY <1>g, <1>1 DEF OwnerInv
<1>9. CASE srcCtrl[func] = "suspended"
  <2>1. OwnerOf(g) = "gap" /\ OwnerOf(g)' = "destination"
    BY <1>g, <1>1, <1>2, <1>9 DEF OwnerOf
  <2>2. QED BY <1>g, <1>1, <1>2, <1>4, <1>6, <1>7, <2>1, Takes
<1>10. CASE srcCtrl[func] # "suspended"
  <2>1. OwnerOf(g)' = OwnerOf(g)
    BY <1>g, <1>1, <1>2, <1>8, <1>10 DEF OwnerOf
  <2>2. QED BY <1>g, <1>1, <1>4, <1>6, <1>7, <2>1, OwnersKept
<1>11. QED BY <1>9, <1>10

\* The source gives up a controller that the destination has.
LEMMA GiveUpOwner ==
  ASSUME HandInv, Notify \/ DestroyVblkCtrl \/ DestroyNvmeCtrl
  PROVE  OwnerInv' /\ GapInv' /\ [Promise!Next]_(Promise!vars)
<1>. USE DEF HandInv
<1>1. /\ UNCHANGED <<dstCtrl, runs, live>> /\ srcCtrl[func] # "none"
      /\ \E s \in {"suspended", "none"} : srcCtrl' = [srcCtrl EXCEPT ![func] = s]
      /\ pc \in {"notify", "destroy_vblk_ctrl", "destroy_nvme_ctrl"}
      /\ \/ pc' \in CleanupStage /\ func' = func /\ pf' = pf
         \/ /\ pc' = "main" /\ func' = None
            /\ pf' = pf \/ pf' = IF func = pf THEN None ELSE pf
  BY DEF Notify, DestroyVblkCtrl, DestroyNvmeCtrl, Return, Each, CleanupStage, dstVars, snapVars
<1>2. /\ srcCtrl \in [Func -> {"none", "running", "quiesced", "suspended"}] /\ func \in Func
      /\ None \notin live
  BY <1>1, FuncSets, FunctionsAssumption
  DEF OrderInv, TypeInv, TypeOK, StageOK, VblkStage, NvmeStage
<1>g. PICK g \in Func : g = func
  BY <1>2
<1>3. Running /\ Running' /\ pc # "restore" /\ pc' \notin {"restore", "create_passive"}
  BY <1>1 DEF Running, VblkStage, NvmeStage, CleanupStage
<1>4. func \in dstCtrl
  BY <1>g, <1>1 DEF OwnerInv, CleanupStage
<1>5. OwnerInv'
  BY <1>g, <1>1, <1>2, <1>3, <1>4 DEF OwnerInv, CleanupStage
<1>6. \A f \in Func \ {g} : srcCtrl'[f] = srcCtrl[f] /\ OwnerOf(f)' = OwnerOf(f)
  BY <1>g, <1>1, <1>2 DEF OwnerOf
<1>7. Gaps' \subseteq Gaps /\ Leaving = {} /\ Leaving' = {}
  BY <1>g, <1>1, <1>3, <1>4, <1>6 DEF Gaps, Leaving
<1>8. GapInv'
  BY <1>g, <1>1, <1>3, <1>7, NoNewGap
<1>9. OwnerOf(g)' = "destination"
  BY <1>g, <1>1, <1>2, <1>4 DEF OwnerOf
<1>10. CASE OwnerOf(g) = "source"
  BY <1>g, <1>1, <1>2, <1>5, <1>6, <1>8, <1>9, <1>10, Takes
<1>11. CASE OwnerOf(g) # "source"
  <2>1. OwnerOf(g) = "destination"
    BY <1>g, <1>4, <1>11 DEF OwnerOf
  <2>2. QED BY <1>g, <1>1, <1>5, <1>6, <1>8, <1>9, <2>1, OwnersKept
<1>12. QED BY <1>g, <1>10, <1>11

\* Every step keeps the invariant, and is a step of Handover or stutters.
LEMMA StepHands ==
  ASSUME HandInv, [Next]_vars
  PROVE  HandInv' /\ [Promise!Next]_(Promise!vars)
<1>1. OrderInv'
  BY OrderKept DEF HandInv
<1>2. ASSUME UNCHANGED <<srcCtrl, dstCtrl, runs>>
      PROVE  [Promise!Next]_(Promise!vars)
  BY <1>2, OwnersKept DEF OwnerOf
<1>3. CASE Start
  <2>1. UNCHANGED <<srcCtrl, dstCtrl>> /\ runs' = runs + 1 /\ pc' = "main"
        /\ pc \in {"off", "raised", "killed"} /\ pf' = None /\ live' \subseteq Func
    BY <1>3 DEF Start, srcVars, dstVars
  <2>2. Gaps' = Gaps /\ Leaving' = {} /\ ~Running /\ runs \in Nat
    BY <2>1, RunsAssumption
    DEF Gaps, Leaving, Running, VblkStage, NvmeStage, HandInv, OrderInv, TypeInv, TypeOK
  <2>3. Gaps' \ Leaving' = Gaps
    BY <2>2
  <2>4. GapInv'
    BY <2>1, <2>2, <2>3, GapsFinite DEF GapInv, HandInv, Running
  <2>5. OwnerInv'
    BY <2>1, FunctionsAssumption DEF OwnerInv, CleanupStage
  <2>6. Promise!Attempt
    BY <2>1 DEF Promise!Attempt, OwnerOf
  <2>7. QED BY <1>1, <2>4, <2>5, <2>6 DEF HandInv, Promise!Next
<1>4. CASE (\E f \in Func : TakePF(f) \/ TakeVF(f)) \/ FinishPF \/ Finish
  BY <1>1, <1>2, <1>4, LoopOwner DEF HandInv
<1>5. CASE Refused \/ Kill
  <2>1. Running /\ \E how \in {"raised", "killed"} : Exit(how)
    BY <1>5 DEF Refused, Kill, Running
  <2>2. QED BY <1>1, <1>2, <2>1, ExitOwner DEF HandInv
<1>6. CASE VblkCreateBdev \/ VblkDestroyBdev \/ CreateSubsys \/ NvmeCreateBdev
           \/ CreateNs \/ AttachNs \/ DetachNs \/ NvmeDestroyBdev
  BY <1>1, <1>2, <1>6, QuietOwner DEF HandInv
<1>7. CASE SuspendVblkCtrl \/ SuspendNvmeCtrl
  BY <1>1, <1>7, QuiesceOwner, OwnersKept DEF HandInv
<1>8. CASE VblkSuspendLu
  BY <1>1, <1>8, SuspendOwner DEF HandInv
<1>9. CASE VblkRestore \/ CreatePassive
  BY <1>1, <1>9, CreateOwner DEF HandInv
<1>10. CASE Notify \/ DestroyVblkCtrl \/ DestroyNvmeCtrl
  BY <1>1, <1>10, GiveUpOwner DEF HandInv
<1>11. CASE UNCHANGED vars
  <2>1. UNCHANGED <<srcCtrl, dstCtrl, runs, pc, func, pf, live>>
    BY <1>11 DEF vars, srcVars, dstVars, loopVars, snapVars
  <2>2. OwnerInv' /\ GapInv'
    BY <2>1 DEF HandInv, OwnerInv, GapInv, Gaps, Leaving, Running
  <2>3. QED BY <1>1, <1>2, <2>1, <2>2 DEF HandInv
<1>12. QED
  BY <1>3, <1>4, <1>5, <1>6, <1>7, <1>8, <1>9, <1>10, <1>11 DEF Next, Step, Terminated

\* At first nobody is in a gap.
LEMMA HandInit == Init => HandInv
<1>. SUFFICES ASSUME Init PROVE HandInv
  OBVIOUS
<1>1. Gaps = {} /\ Cardinality(Gaps) = 0 /\ runs = 0 /\ pc = "off"
  BY FS_EmptySet DEF Gaps, Init
<1>2. OwnerInv /\ GapInv
  BY <1>1 DEF OwnerInv, GapInv, Running, CleanupStage, VblkStage, NvmeStage
<1>3. QED BY <1>2, OrderInit DEF HandInv

\* The manager implements the promise: a function goes from source to
\* destination and never back, is never destroyed without a successor, and
\* each run leaves at most one in a gap.
THEOREM ImplementsHandover == Spec => HandoverRefined
<1>1. Init => Promise!Init
  <2>. SUFFICES ASSUME Init PROVE Promise!Init
    OBVIOUS
  <2>1. \A f \in Func : OwnerOf(f) \in {"unused", "source"}
    BY DEF Init, OwnerOf
  <2>2. QED BY <2>1 DEF Init, Promise!Init
<1>2. HandInv /\ [Next]_vars => HandInv' /\ [Promise!Next]_(Promise!vars)
  BY StepHands
<1>3. QED BY <1>1, <1>2, HandInit, PTL DEF Spec, HandoverRefined, Promise!Spec

-----------------------------------------------------------------------------
(* What create_bdev has noted exists, so that a function is not suspended   *)
(* for a block device that is missing on the destination.                   *)

BookInv ==
  /\ Running => /\ \A b \in created : Kind[Backing[b]] = "other" \/ Backing[b] \in dstDev
                /\ nvmfCreated \subseteq dstDev
  /\ pc \in {"suspend_vblk_ctrl", "suspend_lu", "restore"} =>
       VblkBdev[func] = None \/ VblkBdev[func] \in created

\* create_bdev notes b, and what it notes exists.
LEMMA CreateBdevBook ==
  ASSUME TypeInv, BookInv, Running, NEW b \in Bdev, CreateBdev(b)
  PROVE  /\ created' = created \cup {b}
         /\ dstDev \subseteq dstDev' /\ nvmfCreated' \subseteq dstDev'
         /\ \A c \in created' : Kind[Backing[c]] = "other" \/ Backing[c] \in dstDev'
<1>1. Kind[Backing[b]] \in {"nvmf", "disk", "other"}
  BY DevicesAssumption
<1>2. created' = created \cup {b} /\ dstDev \subseteq dstDev' /\ nvmfCreated' \subseteq dstDev'
  BY DEF CreateBdev, BookInv
<1>3. Kind[Backing[b]] = "other" \/ Backing[b] \in dstDev'
  BY <1>1 DEF CreateBdev, Created, BookInv
<1>4. QED BY <1>2, <1>3 DEF BookInv

\* The requests that lead to the suspend of a vblk function, and all others.
LEMMA BookKept ==
  ASSUME OrderInv, BookInv, [Next]_vars
  PROVE  BookInv'
<1>. USE DEF OrderInv
<1>1. CASE Start
  BY <1>1 DEF Start, BookInv
<1>2. CASE Refused \/ Kill
  BY <1>2 DEF Refused, Kill, Exit, BookInv, Running, VblkStage, NvmeStage
<1>3. CASE VblkCreateBdev
  <2>1. Running /\ VblkBdev[func] \in Bdev /\ CreateBdev(VblkBdev[func])
        /\ UNCHANGED func
    BY <1>3 DEF VblkCreateBdev, Running, VblkStage, TypeInv, StageOK, BdevStage
  <2>2. QED BY <2>1, CreateBdevBook DEF BookInv
<1>4. CASE NvmeCreateBdev
  <2>1. Running /\ NsBdev[ns] \in Bdev /\ CreateBdev(NsBdev[ns]) /\ pc' = "create_ns"
    BY <1>4, UsersAssumption DEF NvmeCreateBdev, Running, NvmeStage, TypeInv, StageOK, NsStage
  <2>2. QED BY <2>1, CreateBdevBook DEF BookInv
<1>5. ASSUME UNCHANGED <<created, nvmfCreated, dstDev>>, Running,
             pc' \in {"suspend_vblk_ctrl", "suspend_lu", "restore"} =>
               VblkBdev[func'] = None \/ VblkBdev[func'] \in created
      PROVE  BookInv'
  BY <1>5 DEF BookInv
<1>6. ASSUME NEW f \in Func, TakePF(f) \/ TakeVF(f) PROVE BookInv'
  <2>1. UNCHANGED <<created, nvmfCreated, dstDev>> /\ Running /\ pc = "main"
    BY <1>6 DEF TakePF, TakeVF, bookVars, dstVars, Running
  <2>2. pc' \in {"suspend_vblk_ctrl", "suspend_lu", "restore"} => VblkBdev[func'] = None
    BY <1>6, <2>1 DEF TakePF, TakeVF, Move
  <2>3. QED BY <1>5, <2>1, <2>2
<1>7. CASE FinishPF \/ Finish
  <2>1. /\ UNCHANGED <<created, nvmfCreated, dstDev>> /\ Running
        /\ pc' \notin {"suspend_vblk_ctrl", "suspend_lu", "restore"}
    BY <1>7 DEF FinishPF, Finish, bookVars, dstVars, Running, Each
  <2>2. QED BY <1>5, <2>1
<1>8. CASE SuspendVblkCtrl \/ VblkSuspendLu
  <2>1. /\ UNCHANGED <<created, nvmfCreated, dstDev, func>> /\ Running
        /\ pc \in {"suspend_vblk_ctrl", "suspend_lu"}
    BY <1>8 DEF SuspendVblkCtrl, VblkSuspendLu, bookVars, dstVars, Running, VblkStage
  <2>2. QED BY <1>5, <2>1 DEF BookInv
<1>9. CASE VblkRestore \/ DestroyVblkCtrl \/ VblkDestroyBdev \/ CreateSubsys \/ CreateNs
           \/ SuspendNvmeCtrl \/ CreatePassive \/ AttachNs \/ Notify
           \/ DetachNs \/ NvmeDestroyBdev \/ DestroyNvmeCtrl
  <2>1. /\ UNCHANGED <<created, nvmfCreated, dstDev>> /\ Running
        /\ pc' \notin {"suspend_vblk_ctrl", "suspend_lu", "restore"}
    BY <1>9 DEF VblkRestore, DestroyVblkCtrl, VblkDestroyBdev, CreateSubsys, CreateNs,
       SuspendNvmeCtrl, CreatePassive, AttachNs, Notify, DetachNs, NvmeDestroyBdev,
       DestroyNvmeCtrl, bookVars, dstVars, Running, VblkStage, NvmeStage, Each, Return
  <2>2. QED BY <1>5, <2>1
<1>10. CASE UNCHANGED vars
  BY <1>10 DEF vars, dstVars, bookVars, BookInv, Running
<1>11. QED
  BY <1>1, <1>2, <1>3, <1>4, <1>6, <1>7, <1>8, <1>9, <1>10 DEF Next, Step, Terminated

\* No refusal leaves a function in a gap, unless its block device is of a
\* product that create_bdev passes over: only a kill does.
THEOREM NoGapByRefusal == Spec => GapOnlyByKill
<1>1. Init => OrderInv /\ BookInv
  BY OrderInit DEF Init, BookInv, Running, VblkStage, NvmeStage
<1>2. OrderInv /\ BookInv /\ [Next]_vars => OrderInv' /\ BookInv'
  BY OrderKept, BookKept
<1>3. ASSUME OrderInv, BookInv, [Next]_vars, pc = "restore", pc' = "raised"
      PROVE  func \in dstCtrl \/ Kind[Backing[VblkBdev[func]]] = "other"
  <2>1. ~Accepted
    BY <1>3 DEF Next, Step, Start, Kill, Exit, Refused, Terminated, Ended, vars, TakePF, TakeVF,
       FinishPF, Finish, VblkCreateBdev, SuspendVblkCtrl, VblkSuspendLu, VblkRestore,
       DestroyVblkCtrl, VblkDestroyBdev, CreateSubsys, NvmeCreateBdev, CreateNs,
       SuspendNvmeCtrl, CreatePassive, AttachNs, Notify, DetachNs, NvmeDestroyBdev,
       DestroyNvmeCtrl
  <2>2. func \in dstCtrl \/ (VblkBdev[func] # None /\ Backing[VblkBdev[func]] \notin dstDev)
    BY <1>3, <2>1 DEF Accepted
  <2>3. Running
    BY <1>3 DEF Running, VblkStage
  <2>4. QED BY <1>3, <2>2, <2>3 DEF BookInv
<1>4. OrderInv /\ BookInv /\ [Next]_vars =>
        [pc = "restore" /\ pc' = "raised" =>
           func \in dstCtrl \/ Kind[Backing[VblkBdev[func]]] = "other"]_vars
  BY <1>3
<1>5. QED BY <1>1, <1>2, <1>4, PTL DEF Spec, GapOnlyByKill

-----------------------------------------------------------------------------
(* A run that returns has moved everything.                                 *)

\* On the destination, what is attached exists, with its block device.
DstInv ==
  /\ \A f \in Func : dstAtt[f] \subseteq dstNs
  /\ \A f \in Func \ dstCtrl : dstAtt[f] = {}
  /\ \A f \in Vblk : dstAtt[f] = {} /\ srcNs[f] = {}
  /\ \A n \in dstNs : Backing[NsBdev[n]] \in dstDev
  /\ \A f \in dstCtrl \cap Vblk : VblkBdev[f] # None => Backing[VblkBdev[f]] \in dstDev

\* The function of this turn has the namespaces the loop has been through;
\* those whose turn is over have all of theirs.
AttachedInv ==
  /\ Running => \A f \in Vblk : ctrlNs[f] = {}
  /\ pc = "attach_ns" =>
       ns \in nsLeft /\ nsLeft \subseteq ctrlNs[func] /\ dstAtt[func] = ctrlNs[func] \ nsLeft
  /\ pc \in {"notify"} \cup CleanupStage => dstAtt[func] = ctrlNs[func]
  /\ Running => \A f \in live \ todo : f # func => f \in dstCtrl /\ dstAtt[f] = ctrlNs[f]

\* A physical function whose turn is over is gone, and its virtual ones too.
GoneInv ==
  Running => \A p \in PF \ todo : p # pf =>
               /\ srcCtrl[p] = "none"
               /\ \A v \in VFs(p) : v \notin todo /\ srcCtrl[v] = "none"

\* create_bdev removes nothing.
LEMMA CreateBdevGrows ==
  ASSUME NEW b, CreateBdev(b)
  PROVE  dstDev \subseteq dstDev'
BY DEF CreateBdev

\* The destination stays in order.
LEMMA DstKept ==
  ASSUME HandInv, DstInv, [Next]_vars
  PROVE  DstInv'
<1>. USE DEF HandInv, OrderInv
<1>. USE DEF srcVars, dstVars
<1>1. ASSUME UNCHANGED <<srcNs, dstCtrl, dstNs, dstAtt>>, dstDev \subseteq dstDev'
      PROVE  DstInv'
  BY <1>1 DEF DstInv
<1>2. CASE UNCHANGED <<srcNs, dstVars>>
  BY <1>1, <1>2
<1>3. CASE VblkCreateBdev
  BY <1>1, <1>3, CreateBdevGrows DEF VblkCreateBdev
<1>4. CASE NvmeCreateBdev
  BY <1>1, <1>4, CreateBdevGrows DEF NvmeCreateBdev
<1>5. CASE VblkRestore
  <2>1. /\ UNCHANGED <<srcNs, dstNs, dstAtt, dstDev>> /\ dstCtrl' = dstCtrl \cup {func}
        /\ VblkBdev[func] # None => Backing[VblkBdev[func]] \in dstDev
    BY <1>5 DEF VblkRestore
  <2>2. QED BY <2>1 DEF DstInv
<1>6. CASE CreateSubsys
  BY <1>1, <1>6 DEF CreateSubsys
<1>7. CASE CreateNs
  <2>1. /\ UNCHANGED <<srcNs, dstCtrl, dstAtt, dstDev>> /\ dstNs' = dstNs \cup {ns}
        /\ ns \in dstNs \/ Backing[NsBdev[ns]] \in dstDev
    BY <1>7 DEF CreateNs, CanCreateNs
  <2>2. QED BY <2>1 DEF DstInv
<1>8. CASE CreatePassive
  <2>1. /\ UNCHANGED <<srcNs, dstNs, dstAtt, dstDev>> /\ dstCtrl' = dstCtrl \cup {func}
        /\ func \notin Vblk
    BY <1>8 DEF CreatePassive, TypeInv, StageOK, NvmeStage, Nvme
  <2>2. QED BY <2>1 DEF DstInv
<1>9. CASE AttachNs
  <2>1. /\ UNCHANGED <<srcNs, dstCtrl, dstNs, dstDev>> /\ ns \in dstNs
        /\ dstAtt' = [dstAtt EXCEPT ![func] = @ \cup {ns}] /\ func \in Func \ Vblk
    BY <1>9 DEF AttachNs, TypeInv, StageOK, NvmeStage, Nvme
  <2>2. func \in dstCtrl /\ dstAtt \in [Func -> SUBSET NS]
    BY <1>9 DEF AttachNs, OwnerInv, TypeInv, TypeOK
  <2>3. \A f \in Func : dstAtt'[f] = IF f = func THEN dstAtt[f] \cup {ns} ELSE dstAtt[f]
    BY <2>1, <2>2
  <2>4. QED BY <2>1, <2>2, <2>3, FuncSets DEF DstInv
<1>10. CASE DetachNs \/ DestroyNvmeCtrl
  <2>1. UNCHANGED dstVars /\ \A f \in Vblk : srcNs[f] = {} => srcNs'[f] = {}
    BY <1>10, FuncSets DEF DetachNs, DestroyNvmeCtrl, TypeInv, TypeOK
  <2>2. QED BY <2>1 DEF DstInv
<1>11. QED
  BY <1>2, <1>3, <1>4, <1>5, <1>6, <1>7, <1>8, <1>9, <1>10
  DEF Next, Step, Start, Kill, Refused, Exit, Terminated, vars, TakePF, TakeVF, FinishPF, Finish,
      SuspendVblkCtrl, VblkSuspendLu, DestroyVblkCtrl, VblkDestroyBdev,
      SuspendNvmeCtrl, Notify, NvmeDestroyBdev

\* The namespaces follow their function.
LEMMA AttachedKept ==
  ASSUME HandInv, DstInv, AttachedInv, [Next]_vars
  PROVE  AttachedInv'
<1>. USE DEF HandInv, OrderInv
<1>. USE DEF srcVars, dstVars, snapVars, loopVars
<1>. DEFINE After == {"notify"} \cup CleanupStage
<1>1. None \notin Func
  BY FunctionsAssumption
<1>2. CASE Start
  BY <1>2 DEF Start, DstInv, AttachedInv, CleanupStage
<1>3. CASE Refused \/ Kill
  BY <1>3 DEF Refused, Kill, Exit, AttachedInv, Running, VblkStage, NvmeStage, CleanupStage
<1>4. ASSUME NEW f \in Func, TakePF(f) \/ TakeVF(f) PROVE AttachedInv'
  <2>1. /\ UNCHANGED <<dstCtrl, dstAtt, ctrlNs, live>> /\ Running /\ pc = "main"
        /\ todo' = todo \ {f}
    BY <1>4 DEF TakePF, TakeVF, Running
  <2>2. pc' \in {"main", "create_bdev", "suspend_vblk_ctrl", "create_subsys"}
    BY <1>4, <2>1 DEF TakePF, TakeVF, Move
  <2>3. func = None /\ func' = IF f \in live THEN f ELSE None
    BY <1>4, <2>1, TurnBegins DEF TakePF, TakeVF, LoopInv
  <2>4. live \subseteq Func
    BY DEF TypeInv, TypeOK
  <2>5. QED BY <1>1, <2>1, <2>2, <2>3, <2>4 DEF AttachedInv, CleanupStage
<1>5. CASE FinishPF
  <2>1. /\ UNCHANGED <<dstCtrl, dstAtt, ctrlNs, live, todo>> /\ Running
        /\ func = None /\ pf # None /\ pf \notin todo
    BY <1>5 DEF FinishPF, Running, LoopInv
  <2>2. \/ pc' = "main" /\ func' = None
        \/ pf \in live /\ func' = pf /\ pc' \in CleanupStage
    BY <1>5, <2>1 DEF FinishPF, Each, CleanupStage
  <2>3. pf \in live => dstAtt[pf] = ctrlNs[pf]
    BY <2>1 DEF AttachedInv
  <2>4. live \subseteq Func
    BY DEF TypeInv, TypeOK
  <2>5. QED BY <1>1, <2>1, <2>2, <2>3, <2>4 DEF AttachedInv, CleanupStage
<1>6. CASE Finish
  BY <1>6 DEF Finish, AttachedInv, Running, VblkStage, NvmeStage, CleanupStage
<1>7. ASSUME Running, UNCHANGED <<dstCtrl, dstAtt, ctrlNs, live, todo, func>>,
             pc' # "attach_ns",
             pc' \in After => pc \in After
      PROVE  AttachedInv'
  BY <1>7 DEF AttachedInv
<1>8. ASSUME Running, UNCHANGED <<dstAtt, ctrlNs, live, todo>>,
             dstCtrl \subseteq dstCtrl', func \in dstCtrl', dstAtt[func] = ctrlNs[func],
             \/ pc' = "main" /\ func' = None
             \/ pc' # "attach_ns" /\ func' = func
      PROVE  AttachedInv'
  BY <1>8 DEF AttachedInv, CleanupStage
<1>9. CASE VblkCreateBdev \/ SuspendVblkCtrl \/ VblkSuspendLu \/ CreateSubsys \/ NvmeCreateBdev
           \/ CreateNs \/ SuspendNvmeCtrl
  <2>1. /\ Running /\ UNCHANGED <<dstCtrl, dstAtt, ctrlNs, live, todo, func>>
        /\ pc' # "attach_ns" /\ pc' \notin After
    BY <1>9 DEF VblkCreateBdev, SuspendVblkCtrl, VblkSuspendLu, CreateSubsys, NvmeCreateBdev,
       CreateNs, SuspendNvmeCtrl, Each, Running, VblkStage, NvmeStage, CleanupStage
  <2>2. QED BY <1>7, <2>1
<1>10. CASE VblkRestore
  <2>1. /\ Running /\ UNCHANGED <<dstAtt, ctrlNs, live, todo>> /\ dstCtrl' = dstCtrl \cup {func}
        /\ \/ pc' = "main" /\ func' = None
           \/ pc' # "attach_ns" /\ func' = func
    BY <1>10 DEF VblkRestore, Running, VblkStage
  <2>2. func \in Vblk
    BY <1>10 DEF VblkRestore, TypeInv, StageOK, VblkStage
  <2>3. dstAtt[func] = ctrlNs[func]
    BY <2>1, <2>2 DEF DstInv, AttachedInv
  <2>4. QED BY <1>8, <2>1, <2>3
<1>11. CASE DestroyVblkCtrl \/ VblkDestroyBdev \/ Notify \/ DetachNs \/ NvmeDestroyBdev
            \/ DestroyNvmeCtrl
  <2>1. /\ Running /\ UNCHANGED <<dstCtrl, dstAtt, ctrlNs, live, todo>>
        /\ pc \in After
        /\ \/ pc' = "main" /\ func' = None
           \/ pc' # "attach_ns" /\ func' = func
    BY <1>11 DEF DestroyVblkCtrl, VblkDestroyBdev, Notify, DetachNs, NvmeDestroyBdev,
       DestroyNvmeCtrl, Return, Each, Running, VblkStage, NvmeStage, CleanupStage
  <2>2. func \in dstCtrl /\ dstAtt[func] = ctrlNs[func]
    BY <2>1 DEF OwnerInv, AttachedInv
  <2>3. QED BY <1>8, <2>1, <2>2
<1>12. CASE CreatePassive
  <2>1. /\ Running /\ UNCHANGED <<dstAtt, ctrlNs, live, todo, func>>
        /\ dstCtrl' = dstCtrl \cup {func} /\ func \notin dstCtrl
        /\ Each(ctrlNs[func], "attach_ns", "notify")
    BY <1>12 DEF CreatePassive, Running, NvmeStage
  <2>2. func \in Func
    BY <1>12, FuncSets DEF CreatePassive, TypeInv, StageOK, NvmeStage
  <2>3. dstAtt[func] = {}
    BY <2>1, <2>2 DEF DstInv
  <2>4. QED BY <2>1, <2>3 DEF AttachedInv, Each, CleanupStage
<1>13. CASE AttachNs
  <2>1. /\ Running /\ UNCHANGED <<dstCtrl, ctrlNs, live, todo, func>>
        /\ dstAtt' = [dstAtt EXCEPT ![func] = @ \cup {ns}]
        /\ Each(nsLeft \ {ns}, "attach_ns", "notify") /\ pc = "attach_ns"
    BY <1>13 DEF AttachNs, Running, NvmeStage
  <2>2. func \in Func /\ dstAtt \in [Func -> SUBSET NS] /\ live \subseteq Func
    BY <1>13, FuncSets DEF AttachNs, TypeInv, TypeOK, StageOK, NvmeStage
  <2>3. \A f \in Func : dstAtt'[f] = IF f = func THEN dstAtt[f] \cup {ns} ELSE dstAtt[f]
    BY <2>1, <2>2
  <2>4. /\ ns \in nsLeft /\ nsLeft \subseteq ctrlNs[func]
        /\ dstAtt'[func] = ctrlNs[func] \ (nsLeft \ {ns})
    BY <2>1, <2>2, <2>3 DEF AttachedInv
  <2>5. \/ pc' = "attach_ns" /\ ns' \in nsLeft' /\ nsLeft' = nsLeft \ {ns}
        \/ pc' = "notify" /\ nsLeft \ {ns} = {}
    BY <2>1 DEF Each
  <2>6. \A f \in live' \ todo' : f # func' => f \in dstCtrl' /\ dstAtt'[f] = ctrlNs'[f]
    BY <2>1, <2>2, <2>3 DEF AttachedInv
  <2>7. Running' => \A f \in Vblk : ctrlNs'[f] = {}
    BY <2>1 DEF AttachedInv
  <2>8. CASE pc' = "attach_ns"
    BY <2>1, <2>4, <2>5, <2>6, <2>7, <2>8 DEF AttachedInv, CleanupStage
  <2>9. CASE pc' = "notify"
    BY <2>1, <2>4, <2>5, <2>6, <2>7, <2>9 DEF AttachedInv, CleanupStage
  <2>10. QED BY <2>5, <2>8, <2>9
<1>14. CASE UNCHANGED vars
  BY <1>14 DEF vars, AttachedInv, Running
<1>15. QED
  BY <1>2, <1>3, <1>4, <1>5, <1>6, <1>9, <1>10, <1>11, <1>12, <1>13, <1>14
  DEF Next, Step, Terminated

\* A function whose turn is over stays gone.
LEMMA GoneKept ==
  ASSUME HandInv, GoneInv, [Next]_vars
  PROVE  GoneInv'
<1>. USE DEF HandInv, OrderInv
<1>. USE DEF srcVars, dstVars, snapVars, loopVars
<1>1. /\ VF \subseteq Func /\ PF \subseteq Func /\ PF \cap VF = {} /\ None \notin Func
      /\ \A p : VFs(p) \subseteq VF
  BY FunctionsAssumption, FuncSets DEF VFs
<1>2. CASE Start
  BY <1>1, <1>2 DEF Start, GoneInv
<1>3. CASE Refused \/ Kill
  BY <1>3 DEF Refused, Kill, Exit, GoneInv, Running, VblkStage, NvmeStage
<1>4. ASSUME NEW f \in Func, TakePF(f) PROVE GoneInv'
  <2>1. /\ UNCHANGED srcCtrl /\ Running
        /\ todo' = todo \ {f} /\ pf' = f
    BY <1>4 DEF TakePF, Running
  <2>2. pf = None
    BY <1>4 DEF TakePF
  <2>3. QED BY <1>1, <2>1, <2>2 DEF GoneInv
<1>5. ASSUME NEW f \in Func, TakeVF(f) PROVE GoneInv'
  <2>1. /\ UNCHANGED <<srcCtrl, pf>> /\ Running
        /\ todo' = todo \ {f} /\ f \in VF
    BY <1>1, <1>5 DEF TakeVF, Running
  <2>2. QED BY <1>1, <2>1 DEF GoneInv
<1>6. CASE FinishPF
  <2>1. /\ UNCHANGED <<srcCtrl, todo>> /\ Running
        /\ func = None /\ pf # None /\ todo \cap VFs(pf) = {}
        /\ pf' = pf \/ (pf' = None /\ pf \notin live)
    BY <1>6 DEF FinishPF, Running, LoopInv
  <2>2. \A v \in VFs(pf) : v \notin todo /\ srcCtrl[v] = "none"
    BY <1>1, <2>1 DEF LoopInv
  <2>3. pf \in Func /\ (pf \notin live => srcCtrl[pf] = "none")
    BY <1>1, <2>1 DEF LoopInv, TypeInv, TypeOK
  <2>4. QED BY <2>1, <2>2, <2>3 DEF GoneInv
<1>7. CASE Finish
  BY <1>7 DEF Finish, GoneInv, Running, VblkStage, NvmeStage
<1>8. \A f \in Func : srcCtrl[f] = "none" => srcCtrl'[f] = "none"
  <2>1. srcCtrl \in [Func -> {"none", "running", "quiesced", "suspended"}]
    BY DEF TypeInv, TypeOK
  <2>2. CASE SuspendVblkCtrl \/ SuspendNvmeCtrl \/ VblkSuspendLu \/ Notify
             \/ DestroyVblkCtrl \/ DestroyNvmeCtrl
    BY <2>1, <2>2 DEF SuspendVblkCtrl, SuspendNvmeCtrl, VblkSuspendLu, Notify, Quiesce,
       DestroyVblkCtrl, DestroyNvmeCtrl
  <2>3. CASE UNCHANGED srcCtrl
    BY <2>3
  <2>4. QED BY <2>2, <2>3
    DEF Next, Step, Start, Kill, Refused, Exit, Terminated, vars, TakePF, TakeVF, FinishPF, Finish,
        VblkCreateBdev, VblkRestore, VblkDestroyBdev, CreateSubsys, NvmeCreateBdev, CreateNs,
        CreatePassive, AttachNs, DetachNs, NvmeDestroyBdev
<1>9. ASSUME Running, UNCHANGED <<todo, pf>> PROVE GoneInv'
  BY <1>1, <1>8, <1>9 DEF GoneInv
<1>10. CASE VblkCreateBdev \/ SuspendVblkCtrl \/ VblkSuspendLu \/ VblkRestore
            \/ CreateSubsys \/ NvmeCreateBdev \/ CreateNs \/ SuspendNvmeCtrl \/ CreatePassive
            \/ AttachNs \/ Notify \/ DetachNs \/ NvmeDestroyBdev
  BY <1>9, <1>10 DEF VblkCreateBdev, SuspendVblkCtrl, VblkSuspendLu, VblkRestore, CreateSubsys,
     NvmeCreateBdev, CreateNs, SuspendNvmeCtrl, CreatePassive, AttachNs, Notify, DetachNs,
     NvmeDestroyBdev, Running, VblkStage, NvmeStage
<1>11. CASE DestroyVblkCtrl \/ VblkDestroyBdev \/ DestroyNvmeCtrl
  <2>1. /\ Running /\ UNCHANGED todo /\ pc \in CleanupStage /\ func \in Func
        /\ \/ pf' = pf
           \/ pf' = None /\ func = pf /\ srcCtrl'[func] = "none"
    BY <1>11, FuncSets DEF DestroyVblkCtrl, VblkDestroyBdev, DestroyNvmeCtrl, Return, LoopInv,
       Running, VblkStage, NvmeStage, CleanupStage, TypeInv, TypeOK, StageOK
  <2>2. CASE pf' = pf
    BY <1>9, <2>1, <2>2
  <2>3. CASE pf' = None /\ func = pf /\ srcCtrl'[func] = "none"
    <3>1. pf \in PF /\ pf # None /\ todo \cap VFs(pf) = {}
      BY <1>1, <2>1, <2>3 DEF LoopInv, TypeInv, TypeOK
    <3>2. \A v \in VFs(pf) : v \notin todo /\ srcCtrl[v] = "none"
      BY <1>1, <2>1, <2>3, <3>1 DEF LoopInv
    <3>3. QED BY <1>1, <1>8, <2>1, <2>3, <3>2 DEF GoneInv
  <2>4. QED BY <2>1, <2>2, <2>3
<1>12. CASE UNCHANGED vars
  BY <1>12 DEF vars, GoneInv, Running
<1>13. QED
  BY <1>2, <1>3, <1>4, <1>5, <1>6, <1>7, <1>10, <1>11, <1>12 DEF Next, Step, Terminated

\* What holds when main returns, from what its loops have done.
LEMMA MovedAtEnd ==
  ASSUME HandInv, DstInv, AttachedInv, GoneInv, Finish
  PROVE  MovedCompletely'
<1>1. /\ UNCHANGED <<srcCtrl, dstCtrl, dstNs, dstAtt, dstDev, live, ctrlNs>>
      /\ Running /\ func = None /\ pf = None /\ todo \cap PF = {}
  BY DEF Finish, srcVars, dstVars, snapVars, Running, HandInv, OrderInv, LoopInv
<1>2. \A p \in PF : srcCtrl[p] = "none" /\ \A v \in VFs(p) : v \notin todo /\ srcCtrl[v] = "none"
  BY <1>1, FunctionsAssumption, FuncSets DEF GoneInv
<1>3. \A v \in VF : v \in VFs(PFOf[v]) /\ PFOf[v] \in PF
  BY FunctionsAssumption DEF VFs
<1>4. todo = {} /\ \A f \in Func : srcCtrl[f] = "none"
  BY <1>1, <1>2, <1>3 DEF Func, HandInv, OrderInv, TypeInv, TypeOK
<1>5. live \subseteq Func /\ None \notin Func
  BY FunctionsAssumption DEF HandInv, OrderInv, TypeInv, TypeOK
<1>6. \A f \in live : f \in dstCtrl /\ ctrlNs[f] = dstAtt[f]
  BY <1>1, <1>4, <1>5 DEF AttachedInv
<1>7. /\ \A f \in dstCtrl : \A n \in dstAtt[f] : Backing[NsBdev[n]] \in dstDev
      /\ \A f \in dstCtrl \cap Vblk :
           VblkBdev[f] # None => Backing[VblkBdev[f]] \in dstDev
  BY DEF DstInv, HandInv, OrderInv, TypeInv, TypeOK
<1>8. QED BY <1>1, <1>4, <1>6, <1>7 DEF MovedCompletely

\* Only the end of main's loops makes it return.
LEMMA DoneByFinish ==
  ASSUME [Next]_vars, ~Finish
  PROVE  pc' = "done" => UNCHANGED vars
  BY DEF Next, Step, Start, Kill, Refused, Exit, Terminated, TakePF, TakeVF, Move,
     FinishPF, VblkCreateBdev, SuspendVblkCtrl, VblkSuspendLu, VblkRestore,
     DestroyVblkCtrl, VblkDestroyBdev, CreateSubsys, NvmeCreateBdev, CreateNs,
     SuspendNvmeCtrl, CreatePassive, AttachNs, Notify, DetachNs, NvmeDestroyBdev,
     DestroyNvmeCtrl, Return, Each

\* When main returns, the source has no function left, and the destination has
\* all of them, with their namespaces and block devices: after a first run and
\* after any later one that gets that far.
THEOREM MovesAll == Spec => []MovedCompletely
<1>. DEFINE MoveInv == HandInv /\ DstInv /\ AttachedInv /\ GoneInv /\ MovedCompletely
<1>1. Init => MoveInv
  <2>. SUFFICES ASSUME Init PROVE MoveInv
    OBVIOUS
  <2>1. HandInv
    BY HandInit
  <2>2. DstInv
    BY FuncSets DEF Init, DstInv, Nvme
  <2>3. AttachedInv /\ GoneInv /\ MovedCompletely
    BY DEF Init, AttachedInv, GoneInv, MovedCompletely, Running, CleanupStage, VblkStage, NvmeStage
  <2>4. QED BY <2>1, <2>2, <2>3
<1>2. MoveInv /\ [Next]_vars => MoveInv'
  <2>. SUFFICES ASSUME MoveInv, [Next]_vars PROVE MoveInv'
    OBVIOUS
  <2>1. HandInv' /\ DstInv' /\ AttachedInv' /\ GoneInv'
    BY StepHands, DstKept, AttachedKept, GoneKept
  <2>2. CASE Finish
    BY <2>1, <2>2, MovedAtEnd
  <2>3. CASE ~Finish
    <3>1. pc' = "done" => UNCHANGED vars
      BY <2>3, DoneByFinish
    <3>2. UNCHANGED vars => MovedCompletely'
      BY DEF MovedCompletely, vars, srcVars, dstVars, snapVars
    <3>3. pc' # "done" => MovedCompletely'
      BY DEF MovedCompletely
    <3>4. QED BY <2>1, <3>1, <3>2, <3>3
  <2>4. QED BY <2>2, <2>3
<1>3. MoveInv => MovedCompletely
  OBVIOUS
<1>4. QED BY <1>1, <1>2, <1>3, PTL DEF Spec

-----------------------------------------------------------------------------
(* The first run is refused nothing.                                        *)

FirstRun == Running /\ runs = 1

Moving   == {"create_bdev", "suspend_vblk_ctrl", "suspend_lu", "restore", "create_subsys",
             "create_ns_bdev", "create_ns", "suspend_nvme_ctrl", "create_passive"}
Handing  == {"attach_ns", "notify"}

\* create_bdev supports every block device that is in use.
Supported ==
  /\ \A f \in Vblk : VblkBdev[f] # None => Kind[Backing[VblkBdev[f]]] # "other"
  /\ \A n \in NS : Kind[Backing[NsBdev[n]]] # "other"

\* Before the first run.
UnusedInv ==
  runs = 0 => pc = "off" /\ dstCtrl = {} /\ dstDev = {} /\ srcDev = Dev

\* The source has function f as it was listed.
Listed(f) == srcCtrl[f] # "none" /\ srcNs[f] = ctrlNs[f]

\* Functions are as they were listed until their cleanup, and the destination
\* has none before its turn.
FreshInv ==
  FirstRun =>
    /\ func \notin todo
    /\ \A f \in live \cap todo : f \notin dstCtrl /\ Listed(f)
    /\ pc \in Moving => func \notin dstCtrl /\ Listed(func)
    /\ pc \in Handing => Listed(func)
    /\ pf \in live /\ func # pf => Listed(pf)
    /\ pc \in CleanupStage \ {"destroy_bdev"} => srcCtrl[func] # "none"
    /\ pc = "detach_ns" => ns \in nsLeft /\ nsLeft \subseteq srcNs[func]
    /\ pc = "destroy_ns_bdev" => nsLeft \ {ns} \subseteq srcNs[func]

\* The manager's dictionaries say what exists on both services.
FirstBookInv ==
  FirstRun =>
    /\ known = Bdev
    /\ \A b \in Bdev :
         /\ Kind[Backing[b]] = "nvmf" /\ Backing[b] \in dstDev => Backing[b] \in nvmfCreated
         /\ Kind[Backing[b]] = "disk" /\ Backing[b] \in dstDev => b \in created
         /\ Kind[Backing[b]] = "nvmf" /\ Backing[b] \notin srcDev => nvmfUsed[Backing[b]] <= 0
         /\ Kind[Backing[b]] = "disk" /\ Backing[b] \notin srcDev => used[b] <= 0

\* Namespaces are created before they are attached.
FirstNsInv ==
  Running =>
    /\ hist \subseteq dstSubsys
    /\ pc \in {"create_ns_bdev", "create_ns"} =>
         /\ CtrlNqn[func] \in dstSubsys
         /\ ns \in nsLeft /\ ctrlNs[func] \ nsLeft \subseteq dstNs
    /\ pc = "create_ns" => NsBdev[ns] \in created
    /\ pc \in {"suspend_nvme_ctrl", "create_passive"} =>
         CtrlNqn[func] \in dstSubsys /\ ctrlNs[func] \subseteq dstNs
    /\ pc = "attach_ns" => ctrlNs[func] \subseteq dstNs

\* Every start counts.
LEMMA UnusedKept ==
  ASSUME TypeInv, UnusedInv, [Next]_vars
  PROVE  UnusedInv'
<1>1. CASE Start
  BY <1>1, RunsAssumption DEF Start, UnusedInv, TypeInv, TypeOK
<1>2. ASSUME runs' = runs, pc # "off" PROVE UnusedInv'
  BY <1>2 DEF UnusedInv
<1>3. CASE UNCHANGED vars
  BY <1>3 DEF vars, UnusedInv, srcVars, dstVars
<1>4. CASE Step \/ Kill
  <2>1. runs' = runs /\ pc # "off"
    BY <1>4 DEF Step, Kill, Refused, Exit, TakePF, TakeVF, FinishPF, Finish, VblkCreateBdev,
       SuspendVblkCtrl, VblkSuspendLu, VblkRestore, DestroyVblkCtrl, VblkDestroyBdev,
       CreateSubsys, NvmeCreateBdev, CreateNs, SuspendNvmeCtrl, CreatePassive, AttachNs,
       Notify, DetachNs, NvmeDestroyBdev, DestroyNvmeCtrl, VblkStage, NvmeStage
  <2>2. QED BY <1>2, <2>1
<1>5. QED BY <1>1, <1>3, <1>4 DEF Next, Terminated

\* Namespaces of the turn are created in the loop before.
LEMMA FirstNsKept ==
  ASSUME OrderInv, FirstNsInv, [Next]_vars
  PROVE  FirstNsInv'
<1>. USE DEF OrderInv
<1>. USE DEF srcVars, dstVars, snapVars, loopVars, bookVars
<1>1. CASE Start
  BY <1>1 DEF Start, FirstNsInv
<1>2. CASE Refused \/ Kill
  BY <1>2 DEF Refused, Kill, Exit, FirstNsInv, Running, VblkStage, NvmeStage
<1>3. ASSUME NEW f \in Func, TakePF(f) \/ TakeVF(f) PROVE FirstNsInv'
  <2>1. /\ UNCHANGED <<hist, dstSubsys>> /\ Running
        /\ pc' \in {"main", "create_bdev", "suspend_vblk_ctrl", "create_subsys"}
    BY <1>3 DEF TakePF, TakeVF, Running, Move
  <2>2. QED BY <2>1 DEF FirstNsInv
<1>4. CASE FinishPF \/ Finish
  BY <1>4 DEF FinishPF, Finish, FirstNsInv, Each, Running
<1>5. CASE CreateSubsys
  <2>1. /\ hist' \subseteq dstSubsys' /\ CtrlNqn[func] \in dstSubsys'
        /\ UNCHANGED <<func, ctrlNs, dstNs>>
        /\ Each(ctrlNs[func], "create_ns_bdev", "suspend_nvme_ctrl")
    BY <1>5 DEF CreateSubsys, FirstNsInv, Running, NvmeStage
  <2>2. QED BY <2>1 DEF FirstNsInv, Each
<1>6. CASE NvmeCreateBdev
  <2>1. NsBdev[ns] \in created'
    BY <1>6 DEF NvmeCreateBdev, CreateBdev
  <2>2. QED BY <1>6, <2>1 DEF NvmeCreateBdev, FirstNsInv, Running, NvmeStage
<1>7. CASE CreateNs
  <2>1. /\ UNCHANGED <<hist, dstSubsys, func, ctrlNs>> /\ Running /\ pc = "create_ns"
        /\ dstNs' = dstNs \cup {ns}
        /\ Each(nsLeft \ {ns}, "create_ns_bdev", "suspend_nvme_ctrl")
    BY <1>7 DEF CreateNs, Running, NvmeStage
  <2>2. ctrlNs[func] \ (nsLeft \ {ns}) \subseteq dstNs' /\ CtrlNqn[func] \in dstSubsys
        /\ hist \subseteq dstSubsys
    BY <2>1 DEF FirstNsInv
  <2>3. \/ pc' = "create_ns_bdev" /\ ns' \in nsLeft' /\ nsLeft' = nsLeft \ {ns}
        \/ pc' = "suspend_nvme_ctrl" /\ nsLeft \ {ns} = {}
    BY <2>1 DEF Each
  <2>4. CASE pc' = "create_ns_bdev"
    BY <2>1, <2>2, <2>3, <2>4 DEF FirstNsInv
  <2>5. CASE pc' = "suspend_nvme_ctrl"
    BY <2>1, <2>2, <2>3, <2>5 DEF FirstNsInv
  <2>6. QED BY <2>3, <2>4, <2>5
<1>8. CASE SuspendNvmeCtrl
  BY <1>8 DEF SuspendNvmeCtrl, FirstNsInv, Running, NvmeStage
<1>9. CASE CreatePassive
  BY <1>9 DEF CreatePassive, FirstNsInv, Running, NvmeStage, Each
<1>10. CASE AttachNs
  BY <1>10 DEF AttachNs, FirstNsInv, Running, NvmeStage, Each
<1>11. CASE VblkCreateBdev \/ SuspendVblkCtrl \/ VblkSuspendLu \/ VblkRestore
            \/ DestroyVblkCtrl \/ VblkDestroyBdev \/ Notify \/ DetachNs \/ NvmeDestroyBdev
            \/ DestroyNvmeCtrl
  <2>1. /\ UNCHANGED <<hist, dstSubsys>> /\ Running
        /\ pc' \notin {"create_ns_bdev", "create_ns", "suspend_nvme_ctrl", "create_passive",
                       "attach_ns"}
    BY <1>11 DEF VblkCreateBdev, SuspendVblkCtrl, VblkSuspendLu, VblkRestore,
       DestroyVblkCtrl, VblkDestroyBdev, Notify, DetachNs, NvmeDestroyBdev,
       DestroyNvmeCtrl, Running, VblkStage, NvmeStage, Each, Return
  <2>2. QED BY <2>1 DEF FirstNsInv
<1>12. CASE UNCHANGED vars
  BY <1>12 DEF vars, FirstNsInv, Running
<1>13. QED
  BY <1>1, <1>2, <1>3, <1>4, <1>5, <1>6, <1>7, <1>8, <1>9, <1>10, <1>11, <1>12
  DEF Next, Step, Terminated

\* A request for func touches no other function.
LEMMA FreshTurn ==
  ASSUME OrderInv, FreshInv, pc \in VblkStage \cup NvmeStage,
         UNCHANGED <<live, todo, ctrlNs, runs>>,
         \A f \in Func \ {func} : /\ srcCtrl'[f] = srcCtrl[f] /\ srcNs'[f] = srcNs[f]
                                  /\ f \in dstCtrl' <=> f \in dstCtrl,
         \/ /\ func' = func /\ pf' = pf /\ pc' # "main"
            /\ FirstRun =>
                 /\ pc' \in Moving => func \notin dstCtrl'
                 /\ pc' \in Moving \cup Handing => srcCtrl'[func] # "none" /\ srcNs'[func] = ctrlNs[func]
                 /\ pc' \in CleanupStage \ {"destroy_bdev"} => srcCtrl'[func] # "none"
                 /\ pc' = "detach_ns" => ns' \in nsLeft' /\ nsLeft' \subseteq srcNs'[func]
                 /\ pc' = "destroy_ns_bdev" => nsLeft' \ {ns'} \subseteq srcNs'[func]
         \/ /\ func' = None /\ pc' = "main"
            /\ \/ pf' = pf /\ func # pf
               \/ pf' = None
               \/ pf' = pf /\ (FirstRun => srcCtrl'[func] # "none" /\ srcNs'[func] = ctrlNs[func])
  PROVE  FreshInv'
<1>1. Running /\ live \subseteq Func /\ todo \subseteq Func /\ None \notin Func
  BY FunctionsAssumption DEF Running, OrderInv, TypeInv, TypeOK
<1>2. \A f \in live \cap todo : FirstRun => f # func /\ f \notin dstCtrl' /\ Listed(f)'
  BY <1>1 DEF FreshInv, Listed, FirstRun
<1>3. pf \in live /\ func # pf /\ FirstRun => srcCtrl'[pf] # "none" /\ srcNs'[pf] = ctrlNs[pf]
  BY <1>1 DEF FreshInv, Listed
<1>4. FirstRun' => FirstRun
  BY <1>1 DEF FirstRun
<1>5. CASE func' = func /\ pf' = pf /\ pc' # "main"
  BY <1>1, <1>2, <1>3, <1>4, <1>5 DEF FreshInv, Listed
<1>6. CASE func' = None /\ pc' = "main"
  <2>1. pc' \notin Moving \cup Handing \cup CleanupStage
    BY <1>6 DEF Moving, Handing, CleanupStage
  <2>2. pf' \in live' /\ FirstRun' => srcCtrl'[pf'] # "none" /\ srcNs'[pf'] = ctrlNs'[pf']
    BY <1>1, <1>3, <1>4, <1>6
  <2>3. func' \notin todo'
    BY <1>1, <1>6
  <2>4. QED BY <1>1, <1>2, <1>4, <1>6, <2>1, <2>2, <2>3 DEF FreshInv, Listed, CleanupStage
<1>7. QED BY <1>5, <1>6

\* Each request.
LEMMA FreshRequest ==
  ASSUME OrderInv, FreshInv, Step,
         ~((\E f \in Func : TakePF(f) \/ TakeVF(f)) \/ FinishPF \/ Finish \/ Refused)
  PROVE  FreshInv'
<1>. USE DEF OrderInv, srcVars, dstVars, snapVars, loopVars
<1>1. pc \in VblkStage \cup NvmeStage
  BY DEF Step, VblkCreateBdev, SuspendVblkCtrl, VblkSuspendLu, VblkRestore, DestroyVblkCtrl,
     VblkDestroyBdev, CreateSubsys, NvmeCreateBdev, CreateNs, SuspendNvmeCtrl, CreatePassive,
     AttachNs, Notify, DetachNs, NvmeDestroyBdev, DestroyNvmeCtrl, VblkStage, NvmeStage
<1>2. /\ func \in Func /\ UNCHANGED <<live, todo, ctrlNs, runs>> /\ Running
      /\ srcCtrl \in [Func -> {"none", "running", "quiesced", "suspended"}]
      /\ srcNs \in [Func -> SUBSET NS]
  BY <1>1, FuncSets DEF Step, VblkCreateBdev, SuspendVblkCtrl, VblkSuspendLu, VblkRestore,
     DestroyVblkCtrl, VblkDestroyBdev, CreateSubsys, NvmeCreateBdev, CreateNs, SuspendNvmeCtrl,
     CreatePassive, AttachNs, Notify, DetachNs, NvmeDestroyBdev, DestroyNvmeCtrl,
     TypeInv, TypeOK, StageOK, Running
<1>3. FirstRun =>
        /\ pc \in Moving => func \notin dstCtrl /\ srcCtrl[func] # "none" /\ srcNs[func] = ctrlNs[func]
        /\ pc \in Handing => srcCtrl[func] # "none" /\ srcNs[func] = ctrlNs[func]
        /\ pc \in CleanupStage \ {"destroy_bdev"} => srcCtrl[func] # "none"
        /\ pc = "detach_ns" => ns \in nsLeft /\ nsLeft \subseteq srcNs[func]
        /\ pc = "destroy_ns_bdev" => nsLeft \ {ns} \subseteq srcNs[func]
  BY DEF FreshInv, Listed
<1>4. CASE VblkCreateBdev \/ CreateSubsys \/ NvmeCreateBdev \/ CreateNs
  <2>1. /\ UNCHANGED <<srcCtrl, srcNs, dstCtrl, func, pf>>
        /\ pc \in Moving /\ pc' \in Moving
    BY <1>4 DEF VblkCreateBdev, CreateSubsys, NvmeCreateBdev, CreateNs, Each, Moving
  <2>2. pc' \notin CleanupStage /\ pc' # "main"
    BY <2>1 DEF Moving, CleanupStage
  <2>3. QED BY <1>1, <1>2, <1>3, <2>1, <2>2, FreshTurn DEF CleanupStage
<1>5. CASE SuspendVblkCtrl \/ SuspendNvmeCtrl \/ VblkSuspendLu
  <2>1. /\ UNCHANGED <<srcNs, dstCtrl, func, pf>>
        /\ \A f \in Func : srcCtrl'[f] # srcCtrl[f] => f = func /\ srcCtrl'[f] # "none"
        /\ pc \in Moving /\ pc' \in Moving
    BY <1>2, <1>5 DEF SuspendVblkCtrl, SuspendNvmeCtrl, VblkSuspendLu, Quiesce, Moving
  <2>2. pc' \notin CleanupStage /\ pc' # "main"
    BY <2>1 DEF Moving, CleanupStage
  <2>3. QED BY <1>1, <1>2, <1>3, <2>1, <2>2, FreshTurn DEF CleanupStage
<1>6. CASE VblkRestore
  <2>1. /\ UNCHANGED <<srcCtrl, srcNs, pf>> /\ dstCtrl' = dstCtrl \cup {func}
        /\ pc \in Moving
        /\ \/ pc' = "destroy_vblk_ctrl" /\ func' = func
           \/ pc' = "main" /\ func' = None
    BY <1>6 DEF VblkRestore, Moving
  <2>2. QED BY <1>1, <1>2, <1>3, <2>1, FreshTurn DEF Moving, Handing, CleanupStage
<1>7. CASE CreatePassive
  <2>1. /\ UNCHANGED <<srcCtrl, srcNs, pf, func>> /\ dstCtrl' = dstCtrl \cup {func}
        /\ pc \in Moving /\ pc' \in Handing
    BY <1>7 DEF CreatePassive, Moving, Handing, Each
  <2>2. pc' \notin Moving \cup CleanupStage /\ pc' # "main"
    BY <2>1 DEF Moving, Handing, CleanupStage
  <2>3. QED BY <1>1, <1>2, <1>3, <2>1, <2>2, FreshTurn DEF CleanupStage
<1>8. CASE AttachNs
  <2>1. /\ UNCHANGED <<srcCtrl, srcNs, dstCtrl, pf, func>>
        /\ pc \in Handing /\ pc' \in Handing
    BY <1>8 DEF AttachNs, Handing, Each
  <2>2. pc' \notin Moving \cup CleanupStage /\ pc' # "main"
    BY <2>1 DEF Moving, Handing, CleanupStage
  <2>3. QED BY <1>1, <1>2, <1>3, <2>1, <2>2, FreshTurn DEF CleanupStage
<1>9. CASE Notify
  <2>1. /\ UNCHANGED <<srcNs, dstCtrl, pf>> /\ pc \in Handing
        /\ srcCtrl' = [srcCtrl EXCEPT ![func] = "suspended"]
        /\ \/ /\ func' = func /\ nsLeft' = ctrlNs[func]
              /\ \/ pc' = "detach_ns" /\ ns' \in ctrlNs[func]
                 \/ pc' = "destroy_nvme_ctrl"
           \/ func' = None /\ pc' = "main"
    BY <1>9 DEF Notify, Handing, Each
  <2>2. /\ \A f \in Func \ {func} : srcCtrl'[f] = srcCtrl[f]
        /\ srcCtrl'[func] # "none"
    BY <1>2, <2>1
  <2>3. CASE func' = func
    <3>1. pc' \notin Moving \cup Handing /\ pc' # "main" /\ pc' # "destroy_ns_bdev"
      BY <2>1, <2>3, <1>2, FunctionsAssumption DEF Moving, Handing
    <3>2. pc' = "detach_ns" => ns' \in nsLeft' /\ nsLeft' = ctrlNs[func]
      BY <1>2, <2>1, <2>3, FunctionsAssumption
    <3>3. QED BY <1>1, <1>2, <1>3, <2>1, <2>2, <2>3, <3>1, <3>2, FreshTurn
  <2>4. CASE func' = None /\ pc' = "main"
    BY <1>1, <1>2, <1>3, <2>1, <2>2, <2>4, FreshTurn
  <2>5. QED BY <2>1, <2>3, <2>4
<1>10. CASE DetachNs
  <2>1. /\ UNCHANGED <<srcCtrl, dstCtrl, pf, func, ns, nsLeft>>
        /\ pc = "detach_ns" /\ pc' = "destroy_ns_bdev"
        /\ srcNs' = [srcNs EXCEPT ![func] = @ \ {ns}]
    BY <1>10 DEF DetachNs
  <2>2. /\ \A f \in Func \ {func} : srcNs'[f] = srcNs[f]
        /\ srcNs'[func] = srcNs[func] \ {ns}
    BY <1>2, <2>1
  <2>3. QED BY <1>1, <1>2, <1>3, <2>1, <2>2, FreshTurn DEF Moving, Handing, CleanupStage
<1>11. CASE NvmeDestroyBdev
  <2>1. /\ UNCHANGED <<srcCtrl, srcNs, dstCtrl, pf, func>> /\ pc = "destroy_ns_bdev"
        /\ nsLeft' = nsLeft \ {ns}
        /\ \/ pc' = "detach_ns" /\ ns' \in nsLeft'
           \/ pc' = "destroy_nvme_ctrl"
    BY <1>11 DEF NvmeDestroyBdev, Each
  <2>2. QED BY <1>1, <1>2, <1>3, <2>1, FreshTurn DEF Moving, Handing, CleanupStage
<1>12. CASE DestroyVblkCtrl
  <2>1. /\ UNCHANGED <<srcNs, dstCtrl>>
        /\ srcCtrl' = [srcCtrl EXCEPT ![func] = "none"]
        /\ \/ func' = func /\ pf' = pf /\ pc' = "destroy_bdev"
           \/ func' = None /\ pc' = "main" /\ pf' = IF func = pf THEN None ELSE pf
    BY <1>12 DEF DestroyVblkCtrl, Return
  <2>2. \A f \in Func \ {func} : srcCtrl'[f] = srcCtrl[f]
    BY <1>2, <2>1
  <2>3. QED BY <1>1, <1>2, <2>1, <2>2, FreshTurn DEF Moving, Handing, CleanupStage
<1>13. CASE DestroyNvmeCtrl
  <2>1. /\ UNCHANGED dstCtrl
        /\ srcCtrl' = [srcCtrl EXCEPT ![func] = "none"]
        /\ srcNs' = [srcNs EXCEPT ![func] = {}]
        /\ func' = None /\ pc' = "main" /\ pf' = IF func = pf THEN None ELSE pf
    BY <1>13 DEF DestroyNvmeCtrl, Return
  <2>2. \A f \in Func \ {func} : srcCtrl'[f] = srcCtrl[f] /\ srcNs'[f] = srcNs[f]
    BY <1>2, <2>1
  <2>3. QED BY <1>1, <1>2, <2>1, <2>2, FreshTurn
<1>14. CASE VblkDestroyBdev
  <2>1. /\ UNCHANGED <<srcCtrl, srcNs, dstCtrl>>
        /\ func' = None /\ pc' = "main" /\ pf' = IF func = pf THEN None ELSE pf
    BY <1>14 DEF VblkDestroyBdev, Return
  <2>2. QED BY <1>1, <1>2, <2>1, FreshTurn
<1>15. QED
  BY <1>4, <1>5, <1>6, <1>7, <1>8, <1>9, <1>10, <1>11, <1>12, <1>13, <1>14 DEF Step

\* All steps.
LEMMA FreshKept ==
  ASSUME OrderInv, UnusedInv, FreshInv, [Next]_vars
  PROVE  FreshInv'
<1>. USE DEF OrderInv, srcVars, dstVars, snapVars, loopVars
<1>1. live \subseteq Func /\ todo \subseteq Func /\ None \notin Func /\ runs \in Nat
  BY FunctionsAssumption, RunsAssumption DEF TypeInv, TypeOK
<1>2. CASE Start
  <2>1. /\ runs' = runs + 1 /\ UNCHANGED <<srcCtrl, srcNs, dstCtrl>> /\ pc' = "main"
        /\ live' = {f \in Func : srcCtrl[f] # "none"} /\ ctrlNs' = srcNs
        /\ func' = None /\ pf' = None /\ todo' = Func
    BY <1>2 DEF Start
  <2>2. runs' = 1 => dstCtrl = {}
    BY <1>1, <2>1 DEF UnusedInv
  <2>3. QED BY <1>1, <2>1, <2>2 DEF FreshInv, FirstRun, Listed, Moving, Handing, CleanupStage
<1>3. CASE Refused \/ Kill
  BY <1>3 DEF Refused, Kill, Exit, FreshInv, FirstRun, Running, VblkStage, NvmeStage
<1>4. ASSUME NEW f \in Func, TakePF(f) \/ TakeVF(f) PROVE FreshInv'
  <2>1. /\ UNCHANGED <<srcCtrl, srcNs, dstCtrl, ctrlNs, live, runs>> /\ Running /\ pc = "main"
        /\ todo' = todo \ {f} /\ f \in todo /\ pf' \in {f, pf}
        /\ pf' = f \/ pf # None
    BY <1>4 DEF TakePF, TakeVF, Running
  <2>2. pc' \in {"main", "create_bdev", "suspend_vblk_ctrl", "create_subsys"}
    BY <1>4, <2>1 DEF TakePF, TakeVF, Move
  <2>3. func = None /\ func' = IF f \in live THEN f ELSE None
    BY <1>4, <2>1, TurnBegins DEF TakePF, TakeVF, LoopInv
  <2>4. pc' \in Moving => f \in live
    BY <1>4, <2>1, TurnBegins DEF TakePF, TakeVF, Moving
  <2>5. QED BY <1>1, <2>1, <2>2, <2>3, <2>4
        DEF FreshInv, FirstRun, Listed, Handing, CleanupStage
<1>5. CASE FinishPF
  <2>1. /\ UNCHANGED <<srcCtrl, srcNs, dstCtrl, ctrlNs, live, todo, runs>> /\ Running
        /\ func = None /\ pf # None /\ pf \notin todo
    BY <1>5 DEF FinishPF, Running, LoopInv
  <2>2. \/ pc' = "main" /\ func' = None /\ pf' = None
        \/ /\ pf \in live /\ func' = pf /\ pf' = pf
           /\ \/ pc' \in {"destroy_vblk_ctrl", "destroy_nvme_ctrl"}
              \/ pc' = "detach_ns" /\ nsLeft' = ctrlNs[pf] /\ ns' \in nsLeft'
    BY <1>5, <2>1 DEF FinishPF, Each
  <2>3. pf \in live /\ FirstRun => Listed(pf)
    BY <2>1 DEF FreshInv
  <2>4. QED BY <1>1, <2>1, <2>2, <2>3
        DEF FreshInv, FirstRun, Listed, Moving, Handing, CleanupStage
<1>6. CASE Finish
  BY <1>6 DEF Finish, FreshInv, FirstRun, Running, VblkStage, NvmeStage
<1>7. CASE UNCHANGED vars
  BY <1>7 DEF vars, FreshInv, FirstRun, Listed, Running
<1>8. QED
  BY <1>2, <1>3, <1>4, <1>5, <1>6, <1>7, FreshRequest DEF Next, Step, Terminated

\* create_bdev notes what it creates.
LEMMA FirstBookCreate ==
  ASSUME FirstBookInv, Running, NEW b \in Bdev, CreateBdev(b),
         UNCHANGED <<runs, known, used, nvmfUsed, srcDev>>
  PROVE  FirstBookInv'
<1>1. \A c \in Bdev : Backing[c] = Backing[b] /\ c # b => Kind[Backing[b]] = "nvmf"
  BY DevicesAssumption
<1>2. FirstRun' => FirstRun
  BY DEF FirstRun
<1>3. /\ created' = created \cup {b} /\ nvmfCreated \subseteq nvmfCreated'
      /\ \A d \in dstDev' \ dstDev : d = Backing[b] /\ (Kind[d] = "nvmf" => d \in nvmfCreated')
  BY DEF CreateBdev
<1>4. QED BY <1>1, <1>2, <1>3 DEF FirstBookInv

\* destroy_bdev deletes a device when its counter has reached 0.
LEMMA FirstBookDestroy ==
  ASSUME TypeInv, FirstBookInv, Running, NEW b \in Bdev, DestroyBdev(b),
         UNCHANGED <<runs, known, created, nvmfCreated, dstDev>>
  PROVE  FirstBookInv'
<1>1. \A c \in Bdev : Backing[c] = Backing[b] /\ c # b => Kind[Backing[b]] = "nvmf"
  BY DevicesAssumption
<1>2. FirstRun' => FirstRun
  BY DEF FirstRun
<1>3. /\ used \in [Bdev -> Int] /\ nvmfUsed \in [Dev -> Int] /\ Backing \in [Bdev -> Dev]
  BY DevicesAssumption DEF TypeInv, TypeOK
<1>4. /\ \A c \in Bdev : used'[c] = IF c = b THEN used[c] - 1 ELSE used[c]
      /\ \A d \in Dev : nvmfUsed'[d] = IF d = Backing[b] /\ used[b] = 1 /\ Kind[d] = "nvmf"
                                       THEN nvmfUsed[d] - 1 ELSE nvmfUsed[d]
  BY <1>3 DEF DestroyBdev
<1>5. \A d \in srcDev \ srcDev' : d = Backing[b] /\ LastUse(b)
  BY DEF DestroyBdev
<1>6. ASSUME NEW c \in Bdev, FirstRun, Backing[c] \notin srcDev', Kind[Backing[c]] = "nvmf"
      PROVE  nvmfUsed'[Backing[c]] <= 0
  <2>1. nvmfUsed[Backing[c]] \in Int /\ Backing[c] \in Dev
    BY <1>3
  <2>2. CASE Backing[c] \notin srcDev
    BY <1>4, <1>6, <2>1, <2>2 DEF FirstBookInv
  <2>3. CASE Backing[c] \in srcDev
    <3>1. Backing[c] = Backing[b] /\ used[b] = 1 /\ nvmfUsed[Backing[b]] = 1
      BY <1>5, <1>6, <2>3 DEF LastUse
    <3>2. QED BY <1>4, <1>6, <2>1, <3>1
  <2>4. QED BY <2>2, <2>3
<1>7. ASSUME NEW c \in Bdev, FirstRun, Backing[c] \notin srcDev', Kind[Backing[c]] = "disk"
      PROVE  used'[c] <= 0
  <2>1. used[c] \in Int
    BY <1>3
  <2>2. CASE Backing[c] \notin srcDev
    BY <1>4, <1>7, <2>1, <2>2 DEF FirstBookInv
  <2>3. CASE Backing[c] \in srcDev
    <3>1. c = b /\ used[b] = 1
      BY <1>1, <1>5, <1>7, <2>3 DEF LastUse
    <3>2. QED BY <1>4, <2>1, <3>1
  <2>4. QED BY <2>2, <2>3
<1>8. QED BY <1>2, <1>6, <1>7 DEF FirstBookInv

\* The dictionaries agree with the services, for the first run.
LEMMA FirstBookKept ==
  ASSUME OrderInv, UnusedInv, FirstBookInv, [Next]_vars
  PROVE  FirstBookInv'
<1>. USE DEF OrderInv, srcVars, dstVars, snapVars, loopVars, bookVars, countVars
<1>1. CASE Start
  <2>1. runs' = runs + 1 /\ runs \in Nat /\ known' = {b \in Bdev : Backing[b] \in srcDev}
        /\ UNCHANGED <<srcDev, dstDev>>
    BY <1>1, RunsAssumption DEF Start, TypeInv, TypeOK
  <2>2. runs' = 1 => srcDev = Dev /\ dstDev = {}
    BY <2>1 DEF UnusedInv
  <2>3. QED BY <2>1, <2>2, DevicesAssumption DEF FirstBookInv, FirstRun
<1>2. CASE Refused \/ Kill
  BY <1>2 DEF Refused, Kill, Exit, FirstBookInv, FirstRun, Running, VblkStage, NvmeStage
<1>3. CASE VblkCreateBdev
  BY <1>3, FirstBookCreate
  DEF VblkCreateBdev, Running, VblkStage, TypeInv, StageOK, BdevStage
<1>4. CASE NvmeCreateBdev
  BY <1>4, FirstBookCreate, UsersAssumption
  DEF NvmeCreateBdev, Running, NvmeStage, TypeInv, StageOK, NsStage
<1>5. CASE VblkDestroyBdev
  BY <1>5, FirstBookDestroy
  DEF VblkDestroyBdev, Running, VblkStage, TypeInv, StageOK, BdevStage
<1>6. CASE NvmeDestroyBdev
  BY <1>6, FirstBookDestroy, UsersAssumption
  DEF NvmeDestroyBdev, Running, NvmeStage, TypeInv, StageOK, NsStage
<1>7. ASSUME Running, UNCHANGED <<runs, known, used, nvmfUsed, srcDev, dstDev, created, nvmfCreated>>
      PROVE  FirstBookInv'
  BY <1>7 DEF FirstBookInv, FirstRun
<1>8. CASE (\E f \in Func : TakePF(f) \/ TakeVF(f)) \/ FinishPF \/ Finish
           \/ SuspendVblkCtrl \/ VblkSuspendLu \/ VblkRestore \/ DestroyVblkCtrl
           \/ CreateSubsys \/ CreateNs \/ SuspendNvmeCtrl \/ CreatePassive \/ AttachNs
           \/ Notify \/ DetachNs \/ DestroyNvmeCtrl
  BY <1>7, <1>8 DEF TakePF, TakeVF, FinishPF, Finish, SuspendVblkCtrl, VblkSuspendLu,
     VblkRestore, DestroyVblkCtrl, CreateSubsys, CreateNs, SuspendNvmeCtrl, CreatePassive,
     AttachNs, Notify, DetachNs, DestroyNvmeCtrl, Running, VblkStage, NvmeStage
<1>9. CASE UNCHANGED vars
  BY <1>9 DEF vars, FirstBookInv, FirstRun, Running
<1>10. QED
  BY <1>1, <1>2, <1>3, <1>4, <1>5, <1>6, <1>8, <1>9 DEF Next, Step, Terminated

FirstInv ==
  HandInv /\ BookInv /\ DstInv /\ AttachedInv /\ UnusedInv
  /\ FreshInv /\ FirstBookInv /\ FirstNsInv

\* All of it is kept.
LEMMA FirstKept ==
  ASSUME FirstInv, [Next]_vars
  PROVE  FirstInv'
<1>1. OrderInv /\ TypeInv
  BY DEF FirstInv, HandInv, OrderInv
<1>2. QED
  BY <1>1, StepHands, BookKept, DstKept, AttachedKept, UnusedKept, FreshKept, FirstBookKept,
     FirstNsKept DEF FirstInv

\* In a first run, the next request is one that the services accept.
LEMMA FirstAccepted ==
  ASSUME Supported, FirstInv, runs = 1, pc \in VblkStage \cup NvmeStage
  PROVE  Accepted
<1>1. FirstRun /\ Running
  BY DEF FirstRun, Running
<1>2. /\ pc \in Moving => func \notin dstCtrl /\ srcCtrl[func] # "none"
      /\ pc \in Handing => srcCtrl[func] # "none"
      /\ pc \in CleanupStage \ {"destroy_bdev"} => srcCtrl[func] # "none"
      /\ pc = "detach_ns" => ns \in srcNs[func]
  BY <1>1 DEF FirstInv, FreshInv, Listed
<1>3. /\ pc \in VblkStage => func \in Vblk
      /\ pc \in BdevStage => VblkBdev[func] \in Bdev
      /\ pc \in NsStage => ns \in NS /\ NsBdev[ns] \in Bdev
      /\ ~(None \in Bdev)
  BY UsersAssumption, FunctionsAssumption DEF FirstInv, HandInv, OrderInv, TypeInv, StageOK
<1>4. \A b \in Bdev : Kind[Backing[b]] \in {"nvmf", "disk", "other"} /\ b \in known
  BY <1>1, DevicesAssumption DEF FirstInv, FirstBookInv
<1>5. ASSUME NEW b \in Bdev, Kind[Backing[b]] # "other" PROVE CanCreateBdev(b)
  BY <1>1, <1>4, <1>5 DEF CanCreateBdev, Created, FirstInv, FirstBookInv
<1>6. ASSUME NEW b \in Bdev PROVE CanDestroyBdev(b)
  <2>1. ASSUME LastUse(b), Backing[b] \notin srcDev PROVE FALSE
    BY <1>1, <2>1 DEF LastUse, FirstInv, FirstBookInv
  <2>2. QED BY <1>4, <2>1 DEF CanDestroyBdev
<1>7. \A b \in created : Kind[Backing[b]] = "other" \/ Backing[b] \in dstDev
  BY <1>1 DEF FirstInv, BookInv
<1>8. pc = "create_bdev" => CanCreateBdev(VblkBdev[func])
  BY <1>3, <1>5 DEF Supported, BdevStage, VblkStage
<1>9. pc = "create_ns_bdev" => CanCreateBdev(NsBdev[ns])
  BY <1>3, <1>5 DEF Supported, NsStage
<1>10. pc = "restore" => /\ func \notin dstCtrl
                         /\ VblkBdev[func] # None => Backing[VblkBdev[func]] \in dstDev
  BY <1>2, <1>3, <1>7 DEF Supported, Moving, VblkStage, FirstInv, BookInv
<1>11. pc = "create_ns" => CanCreateNs(ns)
  BY <1>1, <1>3, <1>7 DEF Supported, NsStage, FirstInv, FirstNsInv, CanCreateNs
<1>12. pc = "create_passive" => func \notin dstCtrl /\ CtrlNqn[func] \in dstSubsys
  BY <1>1, <1>2 DEF Moving, FirstInv, FirstNsInv
<1>13. pc = "attach_ns" => ns \in dstNs \ dstAtt[func]
  BY <1>1 DEF FirstInv, FirstNsInv, AttachedInv
<1>14. /\ pc = "destroy_bdev" => CanDestroyBdev(VblkBdev[func])
       /\ pc = "destroy_ns_bdev" => CanDestroyBdev(NsBdev[ns])
  BY <1>3, <1>6 DEF BdevStage, NsStage
<1>15. pc \in {"suspend_vblk_ctrl", "suspend_lu", "destroy_vblk_ctrl",
               "suspend_nvme_ctrl", "notify", "destroy_nvme_ctrl"} => srcCtrl[func] # "none"
  BY <1>2 DEF Moving, Handing, CleanupStage
<1>16. QED
  BY <1>2, <1>8, <1>9, <1>10, <1>11, <1>12, <1>13, <1>14, <1>15 DEF Accepted

\* The first run onto an empty destination is refused nothing, if create_bdev
\* supports the block devices in use, and whether or not controllers share
\* namespaces.
THEOREM FirstRunAccepted ==
  ASSUME Supported
  PROVE  Spec => []NeverRefused
<1>1. Init => FirstInv /\ NeverRefused
  <2>. SUFFICES ASSUME Init PROVE FirstInv /\ NeverRefused
    OBVIOUS
  <2>1. HandInv /\ runs = 0 /\ pc = "off" /\ ~Running
    BY HandInit DEF Init, Running, VblkStage, NvmeStage
  <2>2. DstInv /\ UnusedInv
    BY FuncSets DEF Init, DstInv, UnusedInv, Nvme
  <2>3. BookInv /\ AttachedInv /\ FreshInv /\ FirstBookInv /\ FirstNsInv
    BY <2>1 DEF BookInv, AttachedInv, FreshInv, FirstBookInv, FirstNsInv, FirstRun, CleanupStage
  <2>4. QED BY <2>1, <2>2, <2>3 DEF FirstInv, NeverRefused
<1>2. FirstInv /\ NeverRefused /\ [Next]_vars => FirstInv' /\ NeverRefused'
  <2>. SUFFICES ASSUME FirstInv, NeverRefused, [Next]_vars PROVE NeverRefused'
    BY FirstKept
  <2>1. CASE Start
    BY <2>1 DEF Start, NeverRefused
  <2>2. CASE Kill
    BY <2>2 DEF Kill, Exit, NeverRefused
  <2>3. CASE Refused
    BY <2>3, FirstAccepted DEF Refused, Exit, NeverRefused
  <2>4. CASE Step /\ ~Refused
    BY <2>4 DEF Step, NeverRefused, TakePF, TakeVF, Move, FinishPF, Finish, VblkCreateBdev,
       SuspendVblkCtrl, VblkSuspendLu, VblkRestore, DestroyVblkCtrl, VblkDestroyBdev,
       CreateSubsys, NvmeCreateBdev, CreateNs, SuspendNvmeCtrl, CreatePassive, AttachNs, Notify,
       DetachNs, NvmeDestroyBdev, DestroyNvmeCtrl, Return, Each
  <2>5. CASE UNCHANGED vars
    BY <2>5 DEF vars, NeverRefused
  <2>6. QED BY <2>1, <2>2, <2>3, <2>4, <2>5 DEF Next, Terminated
<1>3. QED BY <1>1, <1>2, PTL DEF Spec

-----------------------------------------------------------------------------
(* A run that returns has deleted the block devices that nobody uses.  For   *)
(* those whose users are all among what this run moves, the counters are not *)
(* above what is left to release either: the other half of CountInv.         *)

\* The users of b are all moved by this run.
InUse(b) ==
  /\ Users(b, live) # {}
  /\ Users(b, live) \cap NS \subseteq UNION {ctrlNs[f] : f \in live}

AllInUse(d) == On(d, known) # {} /\ \A b \in On(d, known) : InUse(b)

\* The counters of device d are exact, and above 0 as long as it exists.
Exact(d) ==
  /\ \A b \in On(d, known) : used[b] <= Cardinality(Claims(b))
  /\ Kind[d] = "disk" /\ d \in srcDev => \A b \in On(d, known) : used[b] >= 1
  /\ Kind[d] = "nvmf" => nvmfUsed[d] <= Cardinality(Alive(d))
  /\ Kind[d] = "nvmf" /\ d \in srcDev => nvmfUsed[d] >= 1

ExactInv == Running => \A d \in Dev : AllInUse(d) => Exact(d)

\* The loop that detaches namespaces has all that are attached before it.
DetachInv ==
  Running =>
    /\ \A f \in Func : srcNs[f] \subseteq ctrlNs[f]
    /\ pc = "detach_ns" => srcNs[func] \subseteq nsLeft
    /\ pc = "destroy_ns_bdev" => srcNs[func] \subseteq nsLeft \ {ns}
    /\ pc = "destroy_nvme_ctrl" => srcNs[func] = {}

\* No namespace is attached when an NVMe controller is destroyed.
LEMMA DetachKept ==
  ASSUME TypeInv, DetachInv, [Next]_vars
  PROVE  DetachInv'
<1>. USE DEF srcVars, snapVars
<1>1. CASE Start
  BY <1>1 DEF Start, DetachInv
<1>2. CASE Refused \/ Kill
  BY <1>2 DEF Refused, Kill, Exit, DetachInv, Running, VblkStage, NvmeStage
<1>3. ASSUME Running, UNCHANGED <<srcNs, ctrlNs>>,
             pc' \notin {"detach_ns", "destroy_ns_bdev", "destroy_nvme_ctrl"}
      PROVE  DetachInv'
  BY <1>3 DEF DetachInv
<1>4. ASSUME Running, UNCHANGED <<srcNs, ctrlNs>>, NEW f \in Func, func' = f,
             Each(ctrlNs[f], "detach_ns", "destroy_nvme_ctrl")
      PROVE  DetachInv'
  BY <1>4 DEF DetachInv, Each
<1>5. CASE FinishPF
  <2>1. Running /\ UNCHANGED <<srcNs, ctrlNs>> /\ pf \in Func
    BY <1>5, FuncSets DEF FinishPF, Running, TypeInv, TypeOK
  <2>2. \/ func' = pf /\ Each(ctrlNs[pf], "detach_ns", "destroy_nvme_ctrl")
        \/ pc' \in {"main", "destroy_vblk_ctrl"}
    BY <1>5 DEF FinishPF
  <2>3. QED BY <1>3, <1>4, <2>1, <2>2
<1>6. CASE Notify
  <2>1. Running /\ UNCHANGED <<srcNs, ctrlNs>> /\ func \in Func
    BY <1>6, FuncSets DEF Notify, Running, TypeInv, StageOK, NvmeStage
  <2>2. \/ func' = func /\ Each(ctrlNs[func], "detach_ns", "destroy_nvme_ctrl")
        \/ pc' = "main"
    BY <1>6 DEF Notify
  <2>3. QED BY <1>3, <1>4, <2>1, <2>2
<1>7. CASE DetachNs
  <2>1. /\ Running /\ func \in Func /\ srcNs \in [Func -> SUBSET NS]
        /\ srcNs' = [srcNs EXCEPT ![func] = @ \ {ns}] /\ UNCHANGED <<func, ns, nsLeft, ctrlNs>>
        /\ srcNs[func] \subseteq nsLeft /\ pc' = "destroy_ns_bdev"
    BY <1>7, FuncSets DEF DetachNs, DetachInv, Running, TypeInv, TypeOK, StageOK, NvmeStage, loopVars
  <2>2. QED BY <2>1 DEF DetachInv
<1>8. CASE NvmeDestroyBdev
  <2>1. /\ Running /\ UNCHANGED <<func, srcNs, ctrlNs>> /\ srcNs[func] \subseteq nsLeft \ {ns}
        /\ Each(nsLeft \ {ns}, "detach_ns", "destroy_nvme_ctrl")
    BY <1>8 DEF NvmeDestroyBdev, DetachInv, Running, NvmeStage
  <2>2. QED BY <2>1 DEF DetachInv, Each
<1>9. CASE DestroyNvmeCtrl
  <2>1. /\ Running /\ func \in Func /\ srcNs \in [Func -> SUBSET NS]
        /\ srcNs' = [srcNs EXCEPT ![func] = {}] /\ UNCHANGED ctrlNs /\ pc' = "main"
    BY <1>9, FuncSets
    DEF DestroyNvmeCtrl, Return, Running, TypeInv, TypeOK, StageOK, NvmeStage
  <2>2. QED BY <2>1 DEF DetachInv
<1>10. ASSUME NEW f \in Func, TakePF(f) \/ TakeVF(f) PROVE DetachInv'
  <2>1. /\ Running /\ UNCHANGED <<srcNs, ctrlNs>>
        /\ pc' \in {"main", "create_bdev", "suspend_vblk_ctrl", "create_subsys"}
    BY <1>10 DEF TakePF, TakeVF, Move, Running
  <2>2. QED BY <1>3, <2>1
<1>11. CASE DestroyVblkCtrl \/ VblkDestroyBdev
  BY <1>3, <1>11 DEF DestroyVblkCtrl, VblkDestroyBdev, Return, Running, VblkStage
<1>12. CASE Finish \/ VblkCreateBdev \/ SuspendVblkCtrl \/ VblkSuspendLu \/ NvmeCreateBdev
            \/ SuspendNvmeCtrl
  BY <1>3, <1>12 DEF Finish, VblkCreateBdev, SuspendVblkCtrl, VblkSuspendLu, NvmeCreateBdev,
     SuspendNvmeCtrl, Running, VblkStage, NvmeStage
<1>13. CASE VblkRestore
  BY <1>3, <1>13 DEF VblkRestore, Running, VblkStage, DetachInv
<1>14. CASE CreateSubsys \/ CreateNs \/ CreatePassive \/ AttachNs
  BY <1>3, <1>14 DEF CreateSubsys, CreateNs, CreatePassive, AttachNs, Each, Running, NvmeStage
<1>15. CASE UNCHANGED vars
  BY <1>15 DEF vars, loopVars, DetachInv, Running
<1>16. QED
  BY <1>1, <1>2, <1>5, <1>6, <1>7, <1>8, <1>9, <1>10, <1>11, <1>12, <1>13, <1>14, <1>15
  DEF Next, Step, Terminated

DrainInv == SafeInv /\ DetachInv /\ ExactInv

\* A step that releases nothing and counts nothing.
LEMMA ExactFrame ==
  ASSUME ExactInv, Running,
         \A b \in Bdev : (Claims(b))' = Claims(b), known \subseteq Bdev,
         UNCHANGED <<srcDev, live, ctrlNs, known, used, nvmfUsed>>
  PROVE  ExactInv'
<1>. SUFFICES ASSUME NEW d \in Dev, AllInUse(d)' PROVE Exact(d)'
  BY DEF ExactInv
<1>1. On(d, known)' = On(d, known) /\ On(d, known) \subseteq Bdev /\ (Alive(d))' = Alive(d)
  BY DEF On, Alive
<1>2. AllInUse(d)
  BY DEF AllInUse, InUse, Users, On
<1>3. Exact(d)
  BY <1>2 DEF ExactInv
<1>4. QED BY <1>1, <1>3 DEF Exact

\* At the start of a run everything listed is counted once.
LEMMA ExactStart ==
  ASSUME SafeInv, Start
  PROVE  ExactInv'
<1>1. /\ UNCHANGED <<srcCtrl, srcNs, srcDev>> /\ pc' = "main"
      /\ live' = {f \in Func : srcCtrl[f] # "none"} /\ ctrlNs' = srcNs
      /\ known' = {b \in Bdev : Backing[b] \in srcDev}
      /\ used' = [b \in Bdev |-> Cardinality(Users(b, live'))]
      /\ nvmfUsed' = [d \in Dev |-> Cardinality(On(d, known'))]
  BY DEF Start, srcVars
<1>. SUFFICES ASSUME NEW d \in Dev, AllInUse(d)' PROVE Exact(d)'
  BY DEF ExactInv
<1>2. ASSUME NEW b \in Bdev, InUse(b)'
      PROVE  /\ Users(b, live') \in SUBSET (Claims(b)')
             /\ used'[b] = Cardinality(Users(b, live')) /\ used'[b] \in Nat /\ used'[b] >= 1
             /\ used'[b] <= Cardinality(Claims(b)')
  <2>1. Users(b, live') \in SUBSET (Claims(b)')
    <3>1. ASSUME NEW f \in live' \cap Vblk, VblkBdev[f] = b PROVE f \in (Claims(b))'
      BY <1>1, <3>1 DEF Claims, Claimant
    <3>2. ASSUME NEW n \in NS, NsBdev[n] = b PROVE n \in (Claims(b))'
      <4>1. n \in Users(b, live') \cap NS
        BY <3>2 DEF Users
      <4>2. PICK f \in live' : n \in ctrlNs'[f]
        BY <1>2, <4>1 DEF InUse
      <4>3. f \in Func /\ n \in srcNs'[f]
        BY <1>1, <4>2
      <4>4. QED BY <3>2, <4>3 DEF Claims, Attached
    <3>3. QED BY <3>1, <3>2 DEF Users
  <2>2. IsFiniteSet((Claims(b))') /\ Cardinality((Claims(b))') \in Nat
    BY ClaimsFiniteNext
  <2>3. /\ IsFiniteSet(Users(b, live')) /\ Cardinality(Users(b, live')) <= Cardinality((Claims(b))')
        /\ Cardinality(Users(b, live')) \in Nat
    BY <2>1, <2>2, FS_Subset, FS_CardinalityType
  <2>4. Users(b, live') # {}
    BY <1>2 DEF InUse
  <2>5. Cardinality(Users(b, live')) # 0
    BY <2>3, <2>4, FS_EmptySet
  <2>6. used'[b] = Cardinality(Users(b, live'))
    BY <1>1
  <2>7. QED BY <2>1, <2>3, <2>5, <2>6
<1>3. On(d, known)' \in SUBSET Bdev /\ \A b \in On(d, known)' : InUse(b)'
  BY <1>1 DEF On, AllInUse
<1>4. (Alive(d))' = On(d, known)'
  BY <1>2, <1>3 DEF Alive
<1>5. nvmfUsed'[d] = Cardinality(On(d, known)') /\ On(d, known)' # {}
  BY <1>1 DEF AllInUse
<1>6. IsFiniteSet(On(d, known)') /\ Cardinality(On(d, known)') \in Nat /\ Cardinality(On(d, known)') # 0
  BY <1>3, <1>5, FS_Subset, FS_CardinalityType, FS_EmptySet, DevicesAssumption
<1>7. QED BY <1>2, <1>3, <1>4, <1>5, <1>6 DEF Exact

\* A release counts once, and the last one deletes the device.
LEMMA ExactReleased ==
  ASSUME SafeInv, ExactInv, Running, Releases, UNCHANGED <<live, ctrlNs, known>>
  PROVE  ExactInv'
<1>. SUFFICES ASSUME NEW d \in Dev, AllInUse(d)' PROVE Exact(d)'
  BY DEF ExactInv
<1>1. PICK b \in Bdev, x \in NS \cup Func : ReleaseOf(b, x)
  BY DEF Releases
<1>2. /\ x \in Claims(b) /\ (Claims(b))' = Claims(b) \ {x}
      /\ \A c \in Bdev \ {b} : (Claims(c))' = Claims(c)
      /\ used' = [used EXCEPT ![b] = @ - 1]
      /\ nvmfUsed' = IF used[b] = 1 /\ Kind[Backing[b]] = "nvmf"
                     THEN [nvmfUsed EXCEPT ![Backing[b]] = @ - 1]
                     ELSE nvmfUsed
      /\ srcDev' = IF LastUse(b) THEN srcDev \ {Backing[b]} ELSE srcDev
  BY <1>1 DEF ReleaseOf, DestroyBdev
<1>3. /\ used \in [Bdev -> Int] /\ nvmfUsed \in [Dev -> Int] /\ known \subseteq Bdev
      /\ b \in known /\ Cardinality(Claims(b)) <= used[b] /\ Backing[b] \in Dev
  BY <1>2, DevicesAssumption DEF SafeInv, CountInv, TypeInv, TypeOK
<1>4. /\ Cardinality((Claims(b))') = Cardinality(Claims(b)) - 1
      /\ Cardinality(Claims(b)) \in Nat /\ used[b] >= 1
  <2>1. Cardinality(Claims(b)) \in Nat /\ Cardinality(Claims(b)) # 0
    BY <1>2, ClaimsFinite, FS_EmptySet
  <2>2. Cardinality((Claims(b))') = Cardinality(Claims(b)) - 1
    BY <1>2, ClaimsFinite, FS_RemoveElement
  <2>3. QED BY <1>3, <2>1, <2>2
<1>5. On(d, known)' = On(d, known) /\ On(d, known) \subseteq Bdev /\ AllInUse(d)
  BY <1>3 DEF AllInUse, InUse, Users, On
<1>6. Exact(d)
  BY <1>5 DEF ExactInv
<1>7. \A c \in On(d, known) : used'[c] <= Cardinality((Claims(c))')
  <2>1. ASSUME b \in On(d, known) PROVE used'[b] <= Cardinality((Claims(b))')
    <3>1. used[b] <= Cardinality(Claims(b))
      BY <1>6, <2>1 DEF Exact
    <3>2. used'[b] = used[b] - 1 /\ used[b] \in Int
      BY <1>2, <1>3
    <3>3. QED BY <1>4, <3>1, <3>2
  <2>2. ASSUME NEW c \in On(d, known) \ {b} PROVE used'[c] <= Cardinality((Claims(c))')
    <3>1. c \in Bdev /\ used[c] <= Cardinality(Claims(c))
      BY <1>5, <1>6, <2>2 DEF Exact
    <3>2. QED BY <1>2, <1>3, <2>2, <3>1
  <2>3. QED BY <2>1, <2>2
<1>8. CASE d # Backing[b]
  <2>1. /\ nvmfUsed'[d] = nvmfUsed[d] /\ (d \in srcDev' <=> d \in srcDev)
        /\ \A c \in On(d, known) : c # b /\ used'[c] = used[c]
    BY <1>2, <1>3, <1>5, <1>8 DEF On
  <2>2. (Alive(d))' = Alive(d)
    BY <1>5, <2>1 DEF Alive
  <2>3. QED BY <1>5, <1>6, <1>7, <2>1, <2>2 DEF Exact
<1>9. CASE d = Backing[b] /\ Kind[d] # "nvmf"
  <2>1. \A c \in On(d, known) : c = b
    BY <1>3, <1>5, <1>9, DevicesAssumption DEF On
  <2>2. used'[b] = used[b] - 1 /\ used[b] \in Int
    BY <1>2, <1>3
  <2>3. Kind[d] = "disk" /\ d \in srcDev' => used[b] # 1
    BY <1>2, <1>9 DEF LastUse
  <2>4. Kind[d] = "disk" /\ d \in srcDev' => \A c \in On(d, known) : used'[c] >= 1
    BY <1>4, <2>1, <2>2, <2>3
  <2>5. QED BY <1>5, <1>7, <1>9, <2>4 DEF Exact
<1>10. CASE d = Backing[b] /\ Kind[d] = "nvmf" /\ used[b] = 1
  <2>1. nvmfUsed'[d] = nvmfUsed[d] - 1 /\ nvmfUsed[d] \in Int
    BY <1>2, <1>3, <1>10
  <2>2. (Alive(d))' = Alive(d) \ {b} /\ b \in Alive(d)
    BY <1>2, <1>3, <1>5, <1>10 DEF Alive, On
  <2>3. /\ Cardinality((Alive(d))') = Cardinality(Alive(d)) - 1
        /\ Cardinality(Alive(d)) \in Nat
    BY <2>2, AliveFinite, FS_RemoveElement DEF SafeInv
  <2>4. d \in srcDev' => d \in srcDev /\ nvmfUsed[d] # 1
    BY <1>2, <1>10 DEF LastUse
  <2>5. nvmfUsed[d] <= Cardinality(Alive(d)) /\ (d \in srcDev => nvmfUsed[d] >= 1)
    BY <1>6, <1>10 DEF Exact
  <2>6. nvmfUsed'[d] <= Cardinality((Alive(d))') /\ (d \in srcDev' => nvmfUsed'[d] >= 1)
    BY <2>1, <2>3, <2>4, <2>5
  <2>7. QED BY <1>5, <1>7, <1>10, <2>6 DEF Exact
<1>11. CASE d = Backing[b] /\ Kind[d] = "nvmf" /\ used[b] # 1
  <2>1. nvmfUsed'[d] = nvmfUsed[d] /\ srcDev' = srcDev
    BY <1>2, <1>11 DEF LastUse
  <2>2. (Alive(d))' = Alive(d)
    <3>1. \A c \in On(d, known) : used'[c] > 0 <=> used[c] > 0
      BY <1>2, <1>3, <1>4, <1>5, <1>11
    <3>2. QED BY <1>5, <3>1 DEF Alive
  <2>3. QED BY <1>5, <1>6, <1>7, <1>11, <2>1, <2>2 DEF Exact
<1>12. QED BY <1>8, <1>9, <1>10, <1>11

\* Requests that neither release nor destroy leave every claim in place.
LEMMA QuietClaims ==
  ASSUME pc \notin {"destroy_bdev", "destroy_ns_bdev"},
         pc' \notin {"destroy_bdev", "destroy_ns_bdev"},
         \A f \in Func : srcCtrl'[f] = "none" <=> srcCtrl[f] = "none",
         UNCHANGED srcNs
  PROVE  \A b \in Bdev : (Claims(b))' = Claims(b)
  BY FuncSets DEF Claims, Claimant, Attached

\* What destroy_vblk_ctrl and detach_ns take off the source is pending, and
\* cleanup_nvme_controller has detached all namespaces before it is through.
LEMMA PendingClaims ==
  ASSUME SafeInv, DetachInv, DestroyVblkCtrl \/ DetachNs \/ DestroyNvmeCtrl
  PROVE  \A b \in Bdev : (Claims(b))' = Claims(b)
<1>1. /\ func \in Func
      /\ srcCtrl \in [Func -> {"none", "running", "quiesced", "suspended"}]
      /\ srcNs \in [Func -> SUBSET NS]
  BY FuncSets DEF SafeInv, TypeInv, TypeOK, StageOK, DestroyVblkCtrl, DetachNs,
     DestroyNvmeCtrl, VblkStage, NvmeStage
<1>2. CASE DestroyVblkCtrl
  <2>1. /\ pc = "destroy_vblk_ctrl" /\ srcCtrl[func] # "none"
        /\ srcCtrl' = [srcCtrl EXCEPT ![func] = "none"] /\ UNCHANGED srcNs
        /\ \/ pc' = "destroy_bdev" /\ func' = func
           \/ pc' = "main" /\ VblkBdev[func] \notin Bdev
    BY <1>2, FunctionsAssumption DEF DestroyVblkCtrl, Return
  <2>2. QED BY <1>1, <2>1, FuncSets DEF Claims, Claimant, Attached
<1>3. CASE DetachNs
  <2>1. /\ pc = "detach_ns" /\ pc' = "destroy_ns_bdev" /\ ns \in srcNs[func]
        /\ srcNs' = [srcNs EXCEPT ![func] = @ \ {ns}] /\ UNCHANGED <<srcCtrl, ns>>
    BY <1>3 DEF DetachNs, loopVars
  <2>2. ASSUME NEW n \in NS PROVE (Attached(n))' <=> Attached(n)
    BY <1>1, <2>1 DEF Attached
  <2>3. ASSUME NEW f \in Vblk PROVE (Claimant(f))' <=> Claimant(f)
    BY <2>1 DEF Claimant
  <2>4. QED BY <2>2, <2>3 DEF Claims
<1>4. CASE DestroyNvmeCtrl
  <2>1. /\ pc = "destroy_nvme_ctrl" /\ pc' = "main" /\ func \notin Vblk
        /\ srcCtrl' = [srcCtrl EXCEPT ![func] = "none"]
        /\ srcNs' = [srcNs EXCEPT ![func] = {}] /\ srcNs[func] = {}
    BY <1>4 DEF DestroyNvmeCtrl, Return, SafeInv, TypeInv, StageOK, NvmeStage, Nvme,
       DetachInv, Running
  <2>2. QED BY <1>1, <2>1, FuncSets DEF Claims, Claimant, Attached
<1>5. QED BY <1>2, <1>3, <1>4

\* The counters of what this run moves stay exact.
LEMMA ExactKept ==
  ASSUME DrainInv, [Next]_vars
  PROVE  ExactInv'
<1>. USE DEF DrainInv, srcVars, snapVars, countVars, VblkStage, NvmeStage
<1>1. known \subseteq Bdev
  BY DEF SafeInv, TypeInv, TypeOK
<1>2. CASE Start
  BY <1>2, ExactStart
<1>3. CASE Refused \/ Kill
  BY <1>3 DEF Refused, Kill, Exit, ExactInv, Running
<1>4. CASE VblkDestroyBdev \/ NvmeDestroyBdev
  <2>1. Running /\ UNCHANGED <<live, ctrlNs, known>>
    BY <1>4 DEF VblkDestroyBdev, NvmeDestroyBdev, Running
  <2>2. QED BY <1>4, <2>1, VblkReleases, NvmeReleases, ExactReleased
<1>5. CASE DestroyVblkCtrl \/ DetachNs \/ DestroyNvmeCtrl
  <2>1. Running /\ UNCHANGED <<srcDev, live, ctrlNs, known, used, nvmfUsed>>
    BY <1>5 DEF DestroyVblkCtrl, DetachNs, DestroyNvmeCtrl, Running
  <2>2. QED BY <1>1, <1>5, <2>1, PendingClaims, ExactFrame
<1>6. ASSUME Running, UNCHANGED <<srcNs, srcDev, live, ctrlNs, known, used, nvmfUsed>>,
             pc \notin {"destroy_bdev", "destroy_ns_bdev"},
             pc' \notin {"destroy_bdev", "destroy_ns_bdev"},
             \A f \in Func : srcCtrl'[f] = "none" <=> srcCtrl[f] = "none"
      PROVE  ExactInv'
  BY <1>1, <1>6, QuietClaims, ExactFrame
<1>7. CASE SuspendVblkCtrl \/ SuspendNvmeCtrl \/ VblkSuspendLu \/ Notify
  <2>1. func \in Func /\ srcCtrl \in [Func -> {"none", "running", "quiesced", "suspended"}]
    BY <1>7, FuncSets DEF SafeInv, TypeInv, TypeOK, StageOK, SuspendVblkCtrl,
       SuspendNvmeCtrl, VblkSuspendLu, Notify
  <2>2. \A f \in Func : srcCtrl'[f] = "none" <=> srcCtrl[f] = "none"
    BY <1>7, <2>1 DEF SuspendVblkCtrl, SuspendNvmeCtrl, VblkSuspendLu, Notify, Quiesce
  <2>3. /\ Running /\ UNCHANGED <<srcNs, srcDev, live, ctrlNs, known, used, nvmfUsed>>
        /\ pc \notin {"destroy_bdev", "destroy_ns_bdev"}
    BY <1>7 DEF SuspendVblkCtrl, SuspendNvmeCtrl, VblkSuspendLu, Notify, Running
  <2>4. pc' \notin {"destroy_bdev", "destroy_ns_bdev"}
    BY <1>7 DEF SuspendVblkCtrl, SuspendNvmeCtrl, VblkSuspendLu, Notify, Each
  <2>5. QED BY <1>6, <2>2, <2>3, <2>4
<1>8. CASE (\E f \in Func : TakePF(f) \/ TakeVF(f)) \/ FinishPF \/ Finish \/ VblkRestore
  <2>1. Running /\ UNCHANGED <<srcCtrl, srcNs, srcDev, live, ctrlNs, known, used, nvmfUsed>>
    BY <1>8 DEF TakePF, TakeVF, FinishPF, Finish, VblkRestore, Running
  <2>2. /\ pc \notin {"destroy_bdev", "destroy_ns_bdev"}
        /\ pc' \notin {"destroy_bdev", "destroy_ns_bdev"}
    BY <1>8 DEF TakePF, TakeVF, Move, FinishPF, Finish, VblkRestore, Each
  <2>3. QED BY <1>6, <2>1, <2>2
<1>9. CASE VblkCreateBdev \/ CreateSubsys \/ NvmeCreateBdev \/ CreateNs
           \/ CreatePassive \/ AttachNs
  <2>1. Running /\ UNCHANGED <<srcCtrl, srcNs, srcDev, live, ctrlNs, known, used, nvmfUsed>>
    BY <1>9 DEF VblkCreateBdev, CreateSubsys, NvmeCreateBdev, CreateNs, CreatePassive,
       AttachNs, Running
  <2>2. /\ pc \notin {"destroy_bdev", "destroy_ns_bdev"}
        /\ pc' \notin {"destroy_bdev", "destroy_ns_bdev"}
    BY <1>9 DEF VblkCreateBdev, CreateSubsys, NvmeCreateBdev, CreateNs, CreatePassive,
       AttachNs, Each
  <2>3. QED BY <1>6, <2>1, <2>2
<1>10. CASE UNCHANGED vars
  <2>1. \A b \in Bdev : (Claims(b))' = Claims(b)
    BY <1>10 DEF vars, loopVars, Claims, Claimant, Attached
  <2>2. CASE Running
    BY <1>1, <1>10, <2>1, <2>2, ExactFrame DEF vars
  <2>3. CASE ~Running
    BY <1>10, <2>3 DEF vars, ExactInv, Running
  <2>4. QED BY <2>2, <2>3
<1>11. QED
  BY <1>2, <1>3, <1>4, <1>5, <1>7, <1>8, <1>9, <1>10 DEF Next, Step, Terminated

\* When everything has moved there is nothing left to release, and a counter
\* above 0 would be a claim: the devices in use are gone.
LEMMA DrainedAtEnd ==
  ASSUME DrainInv, Finish, \A f \in Func : srcCtrl[f] = "none"
  PROVE  SourceDrained'
<1>1. /\ UNCHANGED <<srcDev, known, live, ctrlNs>> /\ pc = "main" /\ Running
  BY DEF Finish, srcVars, snapVars, Running
<1>2. \A b \in Bdev : Claims(b) = {}
  BY <1>1, FuncSets DEF DrainInv, SafeInv, AttachInv, Claims, Claimant, Attached
<1>3. ASSUME NEW d \in Dev, Kind[d] # "other", AllInUse(d) PROVE d \notin srcDev
  <2>1. Exact(d) /\ On(d, known) # {} /\ On(d, known) \subseteq Bdev
    BY <1>1, <1>3 DEF DrainInv, ExactInv, AllInUse, On, SafeInv, TypeInv, TypeOK
  <2>2. \A b \in On(d, known) : used[b] \in Int /\ used[b] <= 0
    BY <1>2, <2>1, FS_EmptySet DEF Exact, DrainInv, SafeInv, TypeInv, TypeOK
  <2>3. CASE Kind[d] = "disk"
    BY <2>1, <2>2, <2>3 DEF Exact
  <2>4. CASE Kind[d] = "nvmf"
    <3>1. Alive(d) = {}
      BY <2>2 DEF Alive
    <3>2. nvmfUsed[d] <= 0 /\ nvmfUsed[d] \in Int
      BY <2>1, <2>4, <3>1, FS_EmptySet DEF Exact, DrainInv, SafeInv, TypeInv, TypeOK
    <3>3. QED BY <2>1, <2>4, <3>2 DEF Exact
  <2>5. QED BY <1>3, <2>3, <2>4, DevicesAssumption
<1>4. QED BY <1>1, <1>3 DEF SourceDrained, AllInUse, InUse

\* As long as no namespace is attached to two controllers, a run that returns
\* has deleted on the source every backing device whose block devices were all
\* in use by what it moved, after any number of kills and new runs: it is the
\* last release that deletes, and it is never missed.
THEOREM DevicesDeleted ==
  ASSUME ~Sharing
  PROVE  Spec => []SourceDrained
<1>. DEFINE MoveInv == HandInv /\ DstInv /\ AttachedInv /\ GoneInv
<1>1. Init => MoveInv /\ DrainInv /\ SourceDrained
  <2>. SUFFICES ASSUME Init PROVE MoveInv /\ DrainInv /\ SourceDrained
    OBVIOUS
  <2>1. HandInv /\ SafeInv /\ pc = "off"
    BY HandInit, SafeInit DEF Init
  <2>2. DstInv
    BY FuncSets DEF Init, DstInv, Nvme
  <2>3. AttachedInv /\ GoneInv /\ DetachInv /\ ExactInv /\ SourceDrained
    BY <2>1 DEF AttachedInv, GoneInv, DetachInv, ExactInv, SourceDrained, Running,
       CleanupStage, VblkStage, NvmeStage
  <2>4. QED BY <2>1, <2>2, <2>3 DEF DrainInv
<1>2. MoveInv /\ DrainInv /\ SourceDrained /\ [Next]_vars => (MoveInv /\ DrainInv /\ SourceDrained)'
  <2>. SUFFICES ASSUME MoveInv, DrainInv, SourceDrained, [Next]_vars
                PROVE  (MoveInv /\ DrainInv /\ SourceDrained)'
    OBVIOUS
  <2>1. MoveInv'
    BY StepHands, DstKept, AttachedKept, GoneKept
  <2>2. DrainInv'
    BY SafeKept, DetachKept, ExactKept DEF DrainInv, SafeInv
  <2>3. CASE Finish
    <3>1. MovedCompletely'
      BY <2>3, MovedAtEnd
    <3>2. \A f \in Func : srcCtrl[f] = "none"
      BY <2>3, <3>1 DEF Finish, MovedCompletely, srcVars
    <3>3. QED BY <2>1, <2>2, <2>3, <3>2, DrainedAtEnd
  <2>4. CASE ~Finish
    <3>1. pc' = "done" => UNCHANGED vars
      BY <2>4, DoneByFinish
    <3>2. UNCHANGED vars => SourceDrained'
      BY DEF SourceDrained, On, vars, srcVars, snapVars
    <3>3. pc' # "done" => SourceDrained'
      BY DEF SourceDrained
    <3>4. QED BY <2>1, <2>2, <3>1, <3>2, <3>3
  <2>5. QED BY <2>3, <2>4
<1>3. QED BY <1>1, <1>2, PTL DEF Spec

=============================================================================
