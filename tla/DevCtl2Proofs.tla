--------------------------- MODULE DevCtl2Proofs ---------------------------
(***************************************************************************)
(* Proofs about DevCtl2, for any number of concurrent runs.  A word that   *)
(* is about to be written back was legal when it was read and is legal     *)
(* still, since the capabilities do not change; and while a run is alone,  *)
(* the register is what it found until its own write.                      *)
(***************************************************************************)
EXTENDS DevCtl2, TLAPS

Legal(word) ==
  /\ word.value # 0 => RangeOf(word.value) \in cap.ranges
  /\ word.disable => cap.disable

\* Whatever is, or is about to be, in the register is legal.
AllLegal ==
  /\ Legal(reg)
  /\ \A p \in Proc :
       /\ Legal(fetched[p])
       /\ pc[p] \notin {"off", "caps"} => Offers(req[p])

\* How far a run has come that is alone.
Progress(p) ==
  /\ pc[p] \notin {"off", "caps", "before"}
  /\ pc[p] = "fetch" => reg = before[p]
  /\ pc[p] = "store" => reg = before[p] /\ fetched[p] = before[p]
  /\ pc[p] \in {"after", "done"} => Exact(p)

Inv == TypeOK /\ AllLegal /\ \A p \in Proc : alone[p] => Progress(p)

-----------------------------------------------------------------------------

\* A write under a mask yields a register value.
LEMMA ApplyType ==
  ASSUME NEW word \in Register, NEW r \in Request
  PROVE  /\ Apply(word, r) \in Register
         /\ Apply(word, r).other = word.other
         /\ Apply(word, r).value = IF r.disable THEN word.value ELSE r.code
         /\ Apply(word, r).disable = r.disable
BY CodesAssumption DEF Apply, Register, Request

\* The register starts from its reset value.
LEMMA InitInv == Init => Inv
<1>. SUFFICES ASSUME Init PROVE Inv
  OBVIOUS
<1>1. Reset \in Register /\ NoRequest \in Request
  BY CodesAssumption DEF Reset, NoRequest, Register, Request
<1>2. TypeOK
  BY <1>1 DEF Init, TypeOK
<1>3. AllLegal
  BY DEF Init, AllLegal, Legal, Reset
<1>4. QED BY <1>2, <1>3 DEF Inv, Init

\* Every step keeps types.
LEMMA NextType ==
  ASSUME TypeOK, Next
  PROVE  TypeOK'
<1>. USE DEF TypeOK
<1>0. Reset \in Register /\ NoRequest \in Request
  BY CodesAssumption DEF Reset, NoRequest, Register, Request
<1>1. ASSUME NEW p \in Proc, NEW r \in Request, Start(p, r) PROVE TypeOK'
  BY <1>1 DEF Start, Goto
<1>2. ASSUME NEW p \in Proc, CheckCaps(p) PROVE TypeOK'
  BY <1>2 DEF CheckCaps, Goto
<1>3. ASSUME NEW p \in Proc, ReadBefore(p) PROVE TypeOK'
  BY <1>3 DEF ReadBefore, Goto
<1>4. ASSUME NEW p \in Proc, Fetch(p) PROVE TypeOK'
  BY <1>4 DEF Fetch, Goto
<1>5. ASSUME NEW p \in Proc, Store(p) PROVE TypeOK'
  <2>1. reg' \in Register
    BY <1>5, ApplyType DEF Store
  <2>2. alone' \in [Proc -> BOOLEAN]
    BY <1>5 DEF Store, Interfere
  <2>3. QED BY <1>0, <1>5, <2>1, <2>2 DEF Store, Goto
<1>6. ASSUME NEW p \in Proc, ReadAfter(p) PROVE TypeOK'
  BY <1>6 DEF ReadAfter, Goto
<1>7. ASSUME NEW p \in Proc, Exit(p) PROVE TypeOK'
  BY <1>0, <1>7 DEF Exit, Forget, Goto
<1>8. CASE KernelWrite
  BY <1>8 DEF KernelWrite, Register
<1>9. CASE DeviceReset
  BY <1>0, <1>9 DEF DeviceReset
<1>10. QED
  BY <1>1, <1>2, <1>3, <1>4, <1>5, <1>6, <1>7, <1>8, <1>9 DEF Next

\* Every step keeps the register, and what will be written to it, legal.
LEMMA NextLegal ==
  ASSUME TypeOK, AllLegal, Next
  PROVE  AllLegal'
<1>. USE DEF TypeOK, AllLegal
<1>0. cap' = cap
  BY DEF Next, Start, CheckCaps, ReadBefore, Fetch, Store, ReadAfter, Exit, KernelWrite, DeviceReset
<1>1. ASSUME NEW p \in Proc, NEW r \in Request, Start(p, r) PROVE AllLegal'
  BY <1>0, <1>1 DEF Start, Goto, Legal, Offers
<1>2. ASSUME NEW p \in Proc, CheckCaps(p) PROVE AllLegal'
  BY <1>0, <1>2 DEF CheckCaps, Goto, Legal, Offers
<1>3. ASSUME NEW p \in Proc, ReadBefore(p) PROVE AllLegal'
  BY <1>0, <1>3 DEF ReadBefore, Goto, Legal, Offers
<1>4. ASSUME NEW p \in Proc, Fetch(p) PROVE AllLegal'
  BY <1>0, <1>4 DEF Fetch, Goto, Legal, Offers
<1>5. ASSUME NEW p \in Proc, Store(p) PROVE AllLegal'
  <2>1. Legal(reg)'
    <3>. DEFINE word == fetched[p]  r == req[p]
    <3>1. word \in Register /\ r \in Request /\ reg' = Apply(word, r)
      BY <1>5 DEF Store
    <3>2. Legal(word) /\ Offers(r)
      BY <1>5 DEF Store
    <3>3. /\ reg'.value = IF r.disable THEN word.value ELSE r.code
          /\ reg'.disable = r.disable
      BY <3>1, ApplyType
    <3>. HIDE DEF word, r
    <3>4. QED BY <1>0, <3>2, <3>3 DEF Legal, Offers
  <2>2. \A q \in Proc : Legal(fetched[q])'
    BY <1>0, <1>5 DEF Store, Legal, Reset
  <2>3. QED BY <1>0, <1>5, <2>1, <2>2 DEF Store, Goto, Offers
<1>6. ASSUME NEW p \in Proc, ReadAfter(p) PROVE AllLegal'
  BY <1>0, <1>6 DEF ReadAfter, Goto, Legal, Offers
<1>7. ASSUME NEW p \in Proc, Exit(p) PROVE AllLegal'
  BY <1>0, <1>7 DEF Exit, Forget, Goto, Legal, Offers, Reset
<1>8. CASE KernelWrite
  BY <1>0, <1>8 DEF KernelWrite, Legal, Offers, Register
<1>9. CASE DeviceReset
  BY <1>0, <1>9 DEF DeviceReset, Legal, Offers, Reset
<1>10. QED
  BY <1>1, <1>2, <1>3, <1>4, <1>5, <1>6, <1>7, <1>8, <1>9 DEF Next

\* A run that is alone comes to change exactly the bits it is about.
LEMMA NextProgress ==
  ASSUME TypeOK, \A p \in Proc : alone[p] => Progress(p), Next,
         NEW q \in Proc, alone'[q]
  PROVE  Progress(q)'
<1>. USE DEF TypeOK, Progress, Exact
<1>1. ASSUME NEW p \in Proc, NEW r \in Request, Start(p, r) PROVE Progress(q)'
  BY <1>1 DEF Start, Goto
<1>2. ASSUME NEW p \in Proc, CheckCaps(p) PROVE Progress(q)'
  BY <1>2 DEF CheckCaps, Goto
<1>3. ASSUME NEW p \in Proc, ReadBefore(p) PROVE Progress(q)'
  BY <1>3 DEF ReadBefore, Goto, Has, Register, Request
<1>4. ASSUME NEW p \in Proc, Fetch(p) PROVE Progress(q)'
  BY <1>4 DEF Fetch, Goto
<1>5. ASSUME NEW p \in Proc, Store(p) PROVE Progress(q)'
  <2>1. q = p /\ alone[p]
    BY <1>5 DEF Store, Interfere
  <2>2. fetched[p] = before[p] /\ reg' = Apply(before[p], req[p])
    BY <1>5, <2>1 DEF Store
  <2>3. Exact(p)'
    BY <1>5, <2>2, ApplyType DEF Store
  <2>4. QED BY <1>5, <2>1, <2>3 DEF Store, Goto
<1>6. ASSUME NEW p \in Proc, ReadAfter(p) PROVE Progress(q)'
  BY <1>6 DEF ReadAfter, Goto
<1>7. ASSUME NEW p \in Proc, Exit(p) PROVE Progress(q)'
  BY <1>7 DEF Exit, Forget, Goto
<1>8. CASE KernelWrite \/ DeviceReset
  BY <1>8 DEF KernelWrite, DeviceReset
<1>9. QED
  BY <1>1, <1>2, <1>3, <1>4, <1>5, <1>6, <1>7, <1>8 DEF Next

\* The invariant is inductive.
LEMMA InvHolds == Spec => []Inv
<1>1. Inv /\ [Next]_vars => Inv'
  <2>. SUFFICES ASSUME Inv, [Next]_vars PROVE Inv'
    OBVIOUS
  <2>1. CASE Next
    <3>1. TypeOK' /\ AllLegal'
      BY <2>1, NextType, NextLegal DEF Inv
    <3>2. \A q \in Proc : alone'[q] => Progress(q)'
      BY <2>1, NextProgress DEF Inv
    <3>3. QED BY <3>1, <3>2 DEF Inv
  <2>2. CASE UNCHANGED vars
    BY <2>2 DEF Inv, TypeOK, AllLegal, Legal, Offers, Progress, Exact, vars
  <2>3. QED BY <2>1, <2>2
<1>2. QED BY <1>1, InitInv, PTL DEF Spec

\* Variables have their types, for any codes, values and number of runs.
THEOREM TypeCorrect == Spec => []TypeOK
<1>1. Inv => TypeOK
  BY DEF Inv
<1>2. QED BY <1>1, InvHolds, PTL

\* The register is always a setting the port advertises, however many runs
\* write back words that they read before others wrote.
THEOREM AlwaysLegal == Spec => []LegalSetting
<1>1. Inv => LegalSetting
  BY DEF Inv, AllLegal, Legal, LegalSetting
<1>2. QED BY <1>1, InvHolds, PTL

\* Alone, a run that reports success has changed exactly its bits.
THEOREM AloneExact == Spec => []ExactWhenAlone
<1>1. Inv => ExactWhenAlone
  BY DEF Inv, TypeOK, Progress, ExactWhenAlone
<1>2. QED BY <1>1, InvHolds, PTL

=============================================================================
