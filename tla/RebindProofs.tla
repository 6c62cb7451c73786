---------------------------- MODULE RebindProofs ----------------------------
(***************************************************************************)
(* Proofs about Rebind, for every number of iterations and of turns. While *)
(* the script is alone, its place in the iteration says how far the kernel *)
(* can have come with the device and its disk; and once the mounts were    *)
(* looked at, what is mounted by the disk's name was mounted later. The    *)
(* steps left to the script are a number that only the script changes, so  *)
(* it ends whatever the host does.                                         *)
(***************************************************************************)
EXTENDS Rebind, TLAPS

\* Where the device and its disk can be while nobody else touches them.
Undisturbed ==
  /\ disk # "foreign"
  /\ pc \in {"validate", "resolve", "unbind"} => driver = "native" /\ disk = "own"
  /\ pc \in {"detach", "bind"} => driver \in {"leaving", "none"}
  /\ pc \in {"appear", "test"} => driver = "native"

\* After the look at the mounts, what is mounted by name came later.
MountsKnown == pc \notin {"validate", "failed"} /\ "by_name" \in mounted => "by_name" \in late

\* The loop is left as soon as all iterations are reported.
InLoop == pc \in Running => completed < Iterations

Inv ==
  /\ TypeOK /\ CompletedMeansRebound
  /\ InLoop /\ MountsKnown
  /\ alone => Undisturbed

-----------------------------------------------------------------------------

\* The first state: nothing was done yet.
LEMMA InitInv == Init => Inv
<1>. SUFFICES ASSUME Init PROVE Inv
  OBVIOUS
<1>1. TypeOK
  <2>1. completed \in 0 .. Iterations /\ turn \in Nat /\ rebound \in Nat
    BY CountsAssumption DEF Init
  <2>2. late \subseteq Ways /\ alone \in BOOLEAN /\ mounted \subseteq Ways
    BY DEF Init
  <2>3. QED BY <2>1, <2>2 DEF Init, TypeOK, Running
<1>2. CompletedMeansRebound /\ InLoop
  BY CountsAssumption DEF Init, CompletedMeansRebound, InLoop
<1>3. MountsKnown /\ Undisturbed
  BY DEF Init, MountsKnown, Undisturbed
<1>4. QED BY <1>1, <1>2, <1>3 DEF Inv

\* Each step of the script keeps the invariant.
LEMMA ScriptInv ==
  ASSUME Inv, Script
  PROVE  Inv'
<1>. USE DEF Inv, TypeOK, Running, CompletedMeansRebound, InLoop, MountsKnown,
             Undisturbed, Ways, hostVars, historyVars
<1>1. CASE Validate
  BY <1>1 DEF Validate
<1>2. CASE Resolve
  BY <1>2 DEF Resolve
<1>3. CASE Unbind
  BY <1>3 DEF Unbind
<1>4. CASE WaitDetached
  BY <1>4 DEF WaitDetached
<1>5. CASE Bind
  BY <1>5 DEF Bind
<1>6. CASE WaitDisk
  BY <1>6 DEF WaitDisk
<1>7. CASE Report
  <2>1. completed < Iterations /\ completed \in Nat /\ Iterations \in Nat
    BY <1>7, CountsAssumption DEF Report
  <2>2. CASE disk = "none"
    BY <1>7, <2>2 DEF Report
  <2>3. CASE disk # "none"
    BY <1>7, <2>1, <2>3 DEF Report
  <2>4. QED BY <2>2, <2>3
<1>8. QED
  BY <1>1, <1>2, <1>3, <1>4, <1>5, <1>6, <1>7 DEF Script

\* So does everything else that happens on the host.
LEMMA HostInv ==
  ASSUME Inv, Host
  PROVE  Inv'
<1>. USE DEF Inv, TypeOK, Running, CompletedMeansRebound, InLoop, MountsKnown,
             Undisturbed, Ways, hostVars, historyVars
<1>1. CASE RemoveDisk
  BY <1>1 DEF RemoveDisk
<1>2. CASE Detach
  BY <1>2 DEF Detach
<1>3. CASE AddDisk
  BY <1>3 DEF AddDisk
<1>4. CASE Mount
  BY <1>4 DEF Mount
<1>5. CASE Unmount
  BY <1>5 DEF Unmount
<1>6. CASE Rival
  BY <1>6 DEF Rival
<1>7. CASE Foreign
  BY <1>7 DEF Foreign
<1>8. QED
  BY <1>1, <1>2, <1>3, <1>4, <1>5, <1>6, <1>7 DEF Host

\* The invariant holds in every state.
LEMMA Invariance == Spec => []Inv
<1>1. ASSUME Inv, [Next]_vars PROVE Inv'
  <2>1. CASE Script
    BY <1>1, <2>1, ScriptInv
  <2>2. CASE Host
    BY <1>1, <2>2, HostInv
  <2>3. CASE UNCHANGED vars
    BY <1>1, <2>3
    DEF Inv, TypeOK, CompletedMeansRebound, InLoop, MountsKnown, Undisturbed,
        vars, hostVars, historyVars
  <2>4. QED BY <1>1, <2>1, <2>2, <2>3 DEF Next
<1>2. QED BY InitInv, <1>1, PTL DEF Spec

-----------------------------------------------------------------------------

\* Variables have their types, and a device without driver has no disk.
THEOREM TypeCorrect == Spec => []TypeOK
BY Invariance, PTL DEF Inv

\* Each iteration reported was a detach and an attach of its own, for any
\* length of the waits and any interference.
THEOREM CompletedCounts == Spec => []CompletedMeansRebound
BY Invariance, PTL DEF Inv

\* An undisturbed iteration is reported only with the device's own disk there.
THEOREM OwnDiskReported == Spec => ReportedAlone
<1>1. ASSUME Inv, Next
      PROVE  completed' # completed /\ alone => driver = "native" /\ disk = "own"
  <2>1. CASE Report
    BY <1>1, <2>1 DEF Inv, TypeOK, Undisturbed, Report
  <2>2. CASE ~Report
    BY <1>1, <2>2 DEF Next, Script, Host, Validate, Resolve, Unbind, WaitDetached,
       Bind, WaitDisk, RemoveDisk, Detach, AddDisk, Mount, Unmount, Rival, Foreign
  <2>3. QED BY <2>1, <2>2
<1>2. QED BY <1>1, Invariance, PTL DEF Spec, ReportedAlone

\* The script takes the disk from no file system that is mounted by the disk's
\* name, but from one mounted after its check.
THEOREM LateMountsOnly == Spec => OnlyLateMountsLost
<1>1. ASSUME Inv, Script PROVE driver' # driver => mounted \ late \subseteq {"unseen"}
  <2>1. driver' # driver => pc \notin {"validate", "failed"}
    BY <1>1 DEF Script, Validate, Resolve, Unbind, WaitDetached, Bind, WaitDisk, Report, hostVars
  <2>2. mounted \subseteq {"by_name", "unseen"}
    BY <1>1 DEF Inv, TypeOK, Ways
  <2>3. QED BY <1>1, <2>1, <2>2 DEF Inv, MountsKnown
<1>2. QED BY <1>1, Invariance, PTL DEF Spec, OnlyLateMountsLost

-----------------------------------------------------------------------------
(* The end. *)

\* The accesses of an iteration, with the turns of its waits.
EachTakes == DetachTurns + AppearTurns + 3

\* The waits begin at their first turn and are left at their last.
Waiting ==
  /\ pc \in {"validate", "resolve"} => completed = 0
  /\ pc \in Running \ {"detach", "appear"} => turn = 0
  /\ pc = "detach" => turn < DetachTurns
  /\ pc = "appear" => turn < AppearTurns

\* What an iteration takes until its end, from each of its places.
Rest ==
  CASE pc = "unbind" -> EachTakes
    [] pc = "detach" -> AppearTurns + 2 + DetachTurns - turn
    [] pc = "bind"   -> AppearTurns + 2
    [] pc = "appear" -> 1 + AppearTurns - turn
    [] pc = "test"   -> 1
    [] OTHER         -> 0

\* How many steps the script has left, at most.
Left ==
  CASE pc = "validate" -> Iterations * EachTakes + 2
    [] pc = "resolve"  -> Iterations * EachTakes + 1
    [] pc \in {"unbind", "detach", "bind", "appear", "test"} ->
         (Iterations - completed - 1) * EachTakes + Rest
    [] OTHER -> 0

\* An iteration more takes EachTakes more.
LEMMA OneMore ==
  ASSUME NEW n \in Nat
  PROVE  /\ EachTakes \in Nat /\ n * EachTakes \in Nat
         /\ (n + 1) * EachTakes = n * EachTakes + EachTakes
<1>1. EachTakes \in Nat
  BY CountsAssumption DEF EachTakes
<1>2. QED BY <1>1

\* The place within a wait is known in every state.
LEMMA WaitsBounded == Spec => []Waiting
<1>1. Init => Waiting
  BY DEF Init, Waiting, Running
<1>2. ASSUME Waiting, Inv, [Next]_vars PROVE Waiting'
  <2>1. CASE Script
    BY <1>2, <2>1, CountsAssumption
    DEF Inv, TypeOK, Waiting, Script, Validate, Resolve, Unbind, WaitDetached, Bind, WaitDisk,
        Report, Running
  <2>2. CASE Host \/ UNCHANGED vars
    <3>1. UNCHANGED <<pc, turn, completed>>
      BY <2>2 DEF Host, RemoveDisk, Detach, AddDisk, Mount, Unmount, Rival, Foreign, vars
    <3>2. QED BY <1>2, <3>1 DEF Waiting
  <2>3. QED BY <1>2, <2>1, <2>2 DEF Next
<1>3. QED BY <1>1, <1>2, Invariance, PTL DEF Spec

\* The number of steps left is one.
LEMMA LeftType ==
  ASSUME Inv, Waiting
  PROVE  Left \in Nat
<1>1. /\ Iterations \in Nat /\ turn \in Nat /\ DetachTurns \in Nat /\ AppearTurns \in Nat
  BY CountsAssumption DEF Inv, TypeOK
<1>2. CASE pc \in {"unbind", "detach", "bind", "appear", "test"}
  <2>1. Iterations - completed - 1 \in Nat
    BY <1>1, <1>2 DEF Inv, TypeOK, InLoop, Running
  <2>2. Rest \in Nat
    BY <1>1, <1>2, OneMore DEF Rest, Waiting
  <2>3. QED BY <1>2, <2>1, <2>2, OneMore DEF Left
<1>3. CASE pc \notin {"unbind", "detach", "bind", "appear", "test"}
  BY <1>1, <1>3, OneMore DEF Left
<1>4. QED BY <1>2, <1>3

\* Each step of the script is one of them.
LEMMA ScriptCounts ==
  ASSUME Inv, Waiting, Script
  PROVE  Left' < Left
<1>1. /\ turn \in Nat /\ DetachTurns \in Nat /\ AppearTurns \in Nat
      /\ Iterations \in Nat \ {0} /\ Left \in Nat
      /\ completed \in Nat
  BY CountsAssumption, LeftType DEF Inv, TypeOK
<1>. DEFINE n == Iterations - completed - 1
<1>2. pc \in Running => n \in Nat
  BY <1>1 DEF Inv, InLoop
<1>3. EachTakes \in Nat /\ (pc \in Running => n * EachTakes \in Nat)
  BY <1>2, OneMore, CountsAssumption DEF EachTakes
<1>f. ASSUME pc' = "failed", Left > 0 PROVE Left' < Left
  BY <1>f, <1>1 DEF Left
<1>4. CASE Validate
  <2>1. Left = Iterations * EachTakes + 2 /\ Iterations * EachTakes \in Nat
    BY <1>1, <1>4, OneMore DEF Validate, Left
  <2>2. pc' = "resolve" => Left' = Iterations * EachTakes + 1
    BY DEF Left
  <2>3. QED BY <1>f, <1>4, <2>1, <2>2 DEF Validate
<1>5. CASE Resolve
  <2>1. Left = Iterations * EachTakes + 1 /\ Iterations * EachTakes \in Nat
    BY <1>1, <1>5, OneMore DEF Resolve, Left
  <2>2. completed = 0 /\ completed' = 0
    BY <1>5 DEF Resolve, Waiting
  <2>3. Iterations * EachTakes = (Iterations - 0 - 1) * EachTakes + EachTakes
    <3>1. Iterations - 0 - 1 \in Nat /\ (Iterations - 0 - 1) + 1 = Iterations
      BY <1>1
    <3>2. QED BY <3>1, OneMore
  <2>4. pc' = "unbind" => Left' = Iterations * EachTakes
    BY <2>2, <2>3 DEF Left, Rest
  <2>5. QED BY <1>f, <1>5, <2>1, <2>4 DEF Resolve
<1>6. CASE Unbind \/ WaitDetached \/ Bind \/ WaitDisk
  <2>1. /\ completed' = completed
        /\ \/ pc = "unbind" /\ pc' \in {"detach", "failed"} /\ turn' = turn
           \/ pc = "detach" /\ pc' = "bind"
           \/ pc = "detach" /\ pc' = "detach" /\ turn' = turn + 1
           \/ pc = "bind" /\ pc' \in {"appear", "failed"} /\ turn' = turn
           \/ pc = "appear" /\ pc' = "test"
           \/ pc = "appear" /\ pc' = "appear" /\ turn' = turn + 1
    BY <1>6 DEF Unbind, WaitDetached, Bind, WaitDisk, hostVars
  <2>2. /\ pc = "detach" => turn < DetachTurns
        /\ pc = "appear" => turn < AppearTurns
        /\ pc \in {"unbind", "bind"} => turn = 0
    BY DEF Waiting, Running
  <2>3. Left = n * EachTakes + Rest /\ n * EachTakes \in Nat
    BY <1>3, <2>1 DEF Left, Running
  <2>. HIDE DEF n
  <2>4. Rest \in Nat /\ Rest > 0
    BY <1>1, <1>3, <2>1, <2>2 DEF Rest, EachTakes
  <2>5. CASE pc' = "failed"
    BY <1>f, <2>3, <2>4, <2>5
  <2>6. CASE pc' # "failed"
    <3>1. Rest' \in Nat /\ Rest' < Rest
      <4>1. CASE pc = "unbind"
        BY <1>1, <2>1, <2>2, <2>6, <4>1 DEF Rest, EachTakes
      <4>2. CASE pc = "detach"
        BY <1>1, <2>1, <2>2, <2>6, <4>2 DEF Rest
      <4>3. CASE pc = "bind"
        BY <1>1, <2>1, <2>2, <2>6, <4>3 DEF Rest
      <4>4. CASE pc = "appear"
        BY <1>1, <2>1, <2>2, <2>6, <4>4 DEF Rest
      <4>5. QED BY <2>1, <4>1, <4>2, <4>3, <4>4
    <3>2. Left' = n * EachTakes + Rest'
      BY <2>1, <2>6 DEF Left, n
    <3>3. QED BY <2>3, <2>4, <3>1, <3>2
  <2>7. QED BY <2>5, <2>6
<1>7. CASE Report
  <2>1. Left = n * EachTakes + 1 /\ n * EachTakes \in Nat
    BY <1>3, <1>7 DEF Report, Left, Rest, Running
  <2>2. CASE pc' \in {"done", "failed"}
    BY <2>1, <2>2 DEF Left
  <2>3. CASE completed' = completed + 1 /\ completed' # Iterations /\ pc' = "unbind"
    <3>1. Iterations - (completed + 1) - 1 \in Nat
      BY <1>1, <1>2, <1>7, <2>3 DEF Report, Running
    <3>2. Iterations - (completed + 1) - 1 + 1 = n
      BY <1>1
    <3>3. n * EachTakes = (Iterations - (completed + 1) - 1) * EachTakes + EachTakes
      BY <3>1, <3>2, OneMore
    <3>4. Left' = (Iterations - (completed + 1) - 1) * EachTakes + EachTakes
      BY <2>3 DEF Left, Rest
    <3>5. QED BY <2>1, <3>3, <3>4
  <2>4. QED BY <1>7, <2>2, <2>3 DEF Report
<1>8. QED BY <1>4, <1>5, <1>6, <1>7 DEF Script

\* The script ends after Iterations * (DetachTurns + AppearTurns + 3) + 2 steps
\* of its own at most, and nothing that happens on the host adds one: the waits
\* count their turns, and do not wait for the device.
THEOREM StepsCounted ==
  Spec => /\ Left = Iterations * EachTakes + 2
          /\ [](Left \in Nat)
          /\ [][/\ Script => Left' < Left
                /\ Host => Left' = Left]_vars
<1>1. Init => Left = Iterations * EachTakes + 2
  BY DEF Init, Left
<1>2. ASSUME Host PROVE Left' = Left
  <2>1. UNCHANGED <<pc, turn, completed>>
    BY <1>2 DEF Host, RemoveDisk, Detach, AddDisk, Mount, Unmount, Rival, Foreign
  <2>2. QED BY <2>1 DEF Left, Rest
<1>3. QED
  BY <1>1, <1>2, Invariance, WaitsBounded, LeftType, ScriptCounts, PTL DEF Spec

=============================================================================
