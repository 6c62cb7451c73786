------------------------------ MODULE DevCtl2 ------------------------------
(***************************************************************************)
(* trace/set_cmplto.sh: set or disable the Completion Timeout of a PCIe    *)
(* root port, in the Device Control 2 register that it shares with other   *)
(* settings.  setpci updates the bits under a mask by reading the register *)
(* and writing it back; the script may be run by several shells at once,   *)
(* the kernel writes other bits of the same register, and a reset restores *)
(* all of it.                                                              *)
(***************************************************************************)
EXTENDS Naturals

CONSTANTS
  Proc,              \* runs of the script
  Codes,             \* timeout codes asked for
  Others             \* values of the other bits of the register

\* REQUIRED_RANGE: the timeout range a code belongs to; code 0 needs none.
RangeOf(code) ==
  CASE code \in {1, 2} -> "A"
    [] code \in {5, 6} -> "B"
    [] code \in {9, 10} -> "C"
    [] code \in {13, 14} -> "D"
    [] OTHER -> "default"

\* The sets of ranges that DevCap2 encodes; others are reserved.
Encodings ==
  {{}, {"A"}, {"B"}, {"A", "B"}, {"B", "C"}, {"A", "B", "C"},
   {"B", "C", "D"}, {"A", "B", "C", "D"}}

ASSUME CodesAssumption ==
  /\ 0 \in Codes /\ Codes \subseteq {0, 1, 2, 5, 6, 9, 10, 13, 14}
  /\ 0 \in Others

VARIABLES
  cap,               \* DevCap2: ranges, and whether the timeout can be disabled
  reg,               \* DevCtl2: bits 3:0, bit 4, and the rest
  pc, req,           \* of each run: next step, and what it was asked for
  before,            \* BEFORE_HEX
  fetched,           \* what setpci has read and is about to write back
  alone              \* history: nobody else wrote the register since BEFORE_HEX

vars == <<cap, reg, pc, req, before, fetched, alone>>

Register == [value : Codes, disable : BOOLEAN, other : Others]
Reset    == [value |-> 0, disable |-> FALSE, other |-> 0]

\* What one can ask for: a code, or --disable.
Request == [disable : {FALSE}, code : Codes] \cup [disable : {TRUE}, code : {0}]

NoRequest == [disable |-> FALSE, code |-> 0]

\* Mutation: any range will do.
OffersAny(r) ==
  IF r.disable THEN cap.disable
  ELSE r.code # 0 => cap.ranges # {}

Offers(r) ==
  IF r.disable THEN cap.disable
  ELSE r.code # 0 => RangeOf(r.code) \in cap.ranges

\* Mutation: one mask for both modes.
ApplyBoth(word, r) == [word EXCEPT !.value = r.code, !.disable = r.disable]

\* WRITE_VALUE under WRITE_MASK: bit 4 alone, or bits 4:0.
Apply(word, r) ==
  IF r.disable THEN [word EXCEPT !.disable = TRUE]
  ELSE [word EXCEPT !.value = r.code, !.disable = FALSE]

\* (word & WRITE_MASK) = WRITE_VALUE
Has(word, r) ==
  IF r.disable THEN word.disable ELSE word.value = r.code /\ ~word.disable

Init ==
  /\ cap \in [ranges : Encodings, disable : BOOLEAN]
  /\ reg = Reset
  /\ pc = [p \in Proc |-> "off"]
  /\ req = [p \in Proc |-> NoRequest]
  /\ before = [p \in Proc |-> Reset] /\ fetched = [p \in Proc |-> Reset]
  /\ alone = [p \in Proc |-> FALSE]

-----------------------------------------------------------------------------
(* The script. *)

Goto(p, label) == pc' = [pc EXCEPT ![p] = label]

\* A write by p (or by None of them) ends the solitude of the others.
Interfere(p) == alone' = [q \in Proc |-> alone[q] /\ q = p]

\* A process that ends takes its memory with it.
Forget(p) ==
  /\ req' = [req EXCEPT ![p] = NoRequest]
  /\ before' = [before EXCEPT ![p] = Reset]
  /\ fetched' = [fetched EXCEPT ![p] = Reset]
  /\ alone' = [alone EXCEPT ![p] = FALSE]

Start(p, r) ==
  /\ pc[p] = "off"
  /\ req' = [req EXCEPT ![p] = r]
  /\ Goto(p, "caps")
  /\ UNCHANGED <<cap, reg, before, fetched, alone>>

\* The capability registers never change: their reads are one step.
CheckCaps(p) ==
  /\ pc[p] = "caps"
  /\ Offers(req[p])
  /\ Goto(p, "before")
  /\ UNCHANGED <<cap, reg, req, before, fetched, alone>>

ReadBefore(p) ==
  /\ pc[p] = "before"
  /\ before' = [before EXCEPT ![p] = reg]
  /\ alone' = [alone EXCEPT ![p] = TRUE]
  /\ \/ Has(reg, req[p]) /\ Goto(p, "after")
     \/ ~Has(reg, req[p]) /\ Goto(p, "fetch")
  /\ UNCHANGED <<cap, reg, req, fetched>>

\* setpci, first half.
Fetch(p) ==
  /\ pc[p] = "fetch"
  /\ fetched' = [fetched EXCEPT ![p] = reg]
  /\ Goto(p, "store")
  /\ UNCHANGED <<cap, reg, req, before, alone>>

\* setpci, second half.
Store(p) ==
  /\ pc[p] = "store"
  /\ reg' = Apply(fetched[p], req[p])
  /\ Interfere(p)
  /\ fetched' = [fetched EXCEPT ![p] = Reset]
  /\ Goto(p, "after")
  /\ UNCHANGED <<cap, req, before>>

ReadAfter(p) ==
  /\ pc[p] = "after"
  /\ Has(reg, req[p])
  /\ Goto(p, "done")
  /\ UNCHANGED <<cap, reg, req, before, fetched, alone>>

\* A check or an access fails, the run is interrupted, or it is over.
Exit(p) ==
  /\ pc[p] # "off"
  /\ Forget(p)
  /\ Goto(p, "off")
  /\ UNCHANGED <<cap, reg>>

-----------------------------------------------------------------------------
(* Others that write the register. *)

KernelWrite ==
  /\ \E x \in Others : reg' = [reg EXCEPT !.other = x]
  /\ reg' # reg
  /\ alone' = [q \in Proc |-> FALSE]
  /\ UNCHANGED <<cap, pc, req, before, fetched>>

DeviceReset ==
  /\ reg' = Reset
  /\ alone' = [q \in Proc |-> FALSE]
  /\ UNCHANGED <<cap, pc, req, before, fetched>>

Next ==
  \/ \E p \in Proc :
       \/ \E r \in Request : Start(p, r)
       \/ CheckCaps(p) \/ ReadBefore(p) \/ Fetch(p) \/ Store(p) \/ ReadAfter(p)
       \/ Exit(p)
  \/ KernelWrite \/ DeviceReset

Spec == Init /\ [][Next]_vars

-----------------------------------------------------------------------------
(* Properties. *)

\* Variables have their types.
TypeOK ==
  /\ cap \in [ranges : Encodings, disable : BOOLEAN]
  /\ reg \in Register
  /\ pc \in [Proc -> {"off", "caps", "before", "fetch", "store", "after", "done"}]
  /\ req \in [Proc -> Request]
  /\ before \in [Proc -> Register] /\ fetched \in [Proc -> Register]
  /\ alone \in [Proc -> BOOLEAN]

\* The register never holds a timeout that the port does not advertise, nor a
\* disabled timeout on a port that cannot disable it, although every run writes
\* back a word it read before, and others write meanwhile.
LegalSetting ==
  /\ reg.value # 0 => RangeOf(reg.value) \in cap.ranges
  /\ reg.disable => cap.disable

\* The register is what run p found, but for the bits it is about.
Exact(p) ==
  /\ reg.other = before[p].other
  /\ IF req[p].disable
     THEN reg.disable /\ reg.value = before[p].value
     ELSE ~reg.disable /\ reg.value = req[p].code

\* A run that reports success, and during which nobody else wrote, has changed
\* the bits it is about and nothing else, and left them as asked: "Disable mode
\* updates only bit 4, preserving the configured timeout value.  Enable mode
\* updates bits 3:0 and clears bit 4" (lines 220-222).
ExactWhenAlone ==
  \A p \in Proc : pc[p] = "done" /\ alone[p] => Exact(p)

\* "All other DevCtl2 bits remain unchanged" (lines 221-222), and a disabling
\* run preserves the value, when others write too.
OtherBitsUnchanged ==
  [][\A p \in Proc : Store(p) =>
       /\ reg'.other = reg.other
       /\ req[p].disable => reg'.value = reg.value]_vars

=============================================================================
