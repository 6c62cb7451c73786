------------------------------- MODULE PciMem -------------------------------
(***************************************************************************)
(* trace/tool/pci/pcimem.c: map part of a PCI resource, read a number of   *)
(* items of one width, print them with repeated values left out, and write *)
(* one item.  The device, or another tool, changes the memory meanwhile.   *)
(* Integers are scaled: an int lies in -IntMax - 1 .. IntMax.              *)
(***************************************************************************)
EXTENDS Bytes

CONSTANTS
  IntMax,
  Page,              \* bytes of a page
  InitialMap,        \* map_size to begin with
  Bar,               \* bytes of the resource, whole pages
  Offset, Count,     \* bound: offsets and counts typed
  Data,              \* bound: values typed to be written
  Image,             \* bound: contents of the resource at the start
  Volatile,          \* bytes that change by themselves
  ReadOnly           \* bytes that ignore a write

Wrap  == 2 * (IntMax + 1)
Width == {1, 2, 4, 8}

ASSUME SizesAssumption ==
  /\ IntMax \in Nat \ {0}
  /\ Page \in Nat \ {0} /\ Page <= IntMax
  /\ InitialMap \in Nat \ {0} /\ InitialMap <= IntMax
  /\ Bar \in Nat
  /\ Offset \subseteq Nat /\ Count \subseteq Nat /\ Data \subseteq Nat
  /\ Volatile \cup ReadOnly \subseteq 0 .. Bar - 1
  /\ Image \subseteq [0 .. Bar - 1 -> 0 .. Base - 1]

VARIABLES
  mem,               \* the resource
  target, width,     \* arguments; items_count as an int
  count,
  data,              \* the value to be written: a set of at most one
  mapSize,           \* map_size, 0 before mmap
  pc,
  i,
  prev,              \* prev_read_result
  dupped,            \* read_result_dupped
  reads,             \* history: the values read
  shown, dots        \* items that printed their value, and those that printed "..."

arguments == <<target, width, count, data>>
loopVars  == <<i, prev, dupped, reads, shown, dots>>
vars      == <<mem, arguments, mapSize, pc, loopVars>>

-----------------------------------------------------------------------------

\* Conversion to int.
ToInt(x) == ((x + IntMax + 1) % Wrap) - IntMax - 1

\* target_base
PageStart(t) == t - (t % Page)

\* A product of ints is an int: if it overflows, it wraps or is computed wider.
Products(n, w) == {ToInt(n * w), n * w}

\* Mutation: what comes before the target in its page is forgotten.
SizeFromTarget(bytes) == IF bytes > InitialMap THEN ToInt(bytes) ELSE InitialMap

\* map_size for this many bytes from target.
SizeFor(bytes) ==
  LET need == target + bytes - PageStart(target)
  IN  IF need > InitialMap THEN ToInt(need) ELSE InitialMap

\* The bytes of whole pages that hold this many.
Pages(size) == ((size + Page - 1) \div Page) * Page

\* The kernel maps pages of the resource only.
CanMap(size) == size > 0 /\ PageStart(target) + Pages(size) <= Bar

\* Are the bytes of this item mapped?
Mapped(k) == target + k * width + width <= PageStart(target) + Pages(mapSize)

Read(at) == Number([k \in 0 .. width - 1 |-> mem[at + k]], width)

-----------------------------------------------------------------------------

Init ==
  /\ mem \in Image
  /\ target \in Offset /\ width \in Width
  /\ count \in {ToInt(n) : n \in Count}
  /\ data \in {{}} \cup {{d} : d \in Data}
  /\ mapSize = 0 /\ pc = "map"
  /\ i = 0 /\ prev = 0 /\ dupped = FALSE
  /\ reads = [k \in {} |-> 0] /\ shown = {} /\ dots = {}

Map ==
  /\ pc = "map"
  /\ \E bytes \in Products(count, width) :
       IF CanMap(SizeFor(bytes))
       THEN mapSize' = SizeFor(bytes) /\ pc' = "loop"
       ELSE mapSize' = 0 /\ pc' = "error"
  /\ UNCHANGED <<mem, arguments, loopVars>>

\* Mutation: a first value that equals the initial prev_read_result is not new.
IsNewAlways(v) == v # prev

IsNew(v) == v # prev \/ i = 0

\* printf of the value, of "...", or of nothing.
PrintItem(v) ==
  IF IsNew(v)
  THEN shown' = shown \cup {i} /\ dupped' = FALSE /\ UNCHANGED dots
  ELSE /\ dots' = IF dupped THEN dots ELSE dots \cup {i}
       /\ dupped' = TRUE /\ UNCHANGED shown

ReadItem ==
  /\ pc = "loop" /\ i < count /\ Mapped(i)
  /\ LET v == Read(target + i * width)
     IN  /\ reads' = [k \in 0 .. i |-> IF k = i THEN v ELSE reads[k]]
         /\ PrintItem(v) /\ prev' = v
  /\ i' = i + 1
  /\ UNCHANGED <<mem, arguments, mapSize, pc>>

\* An item lies behind the mapping: what is there, if anything, is unknown.
LeaveMapping ==
  /\ pc = "loop" /\ i < count /\ ~Mapped(i)
  /\ pc' = "stray"
  /\ UNCHANGED <<mem, arguments, mapSize, loopVars>>

EndLoop ==
  /\ pc = "loop" /\ i >= count
  /\ pc' = IF data = {} THEN "done" ELSE "write"
  /\ UNCHANGED <<mem, arguments, mapSize, loopVars>>

\* Mutation: the address is computed from i as the loop left it.
NextItem == target + i * width

\* virt_addr: where the loop read last.
LastItem == target + (i - 1) * width

\* The write goes through virt_addr, which only the loop assigns.
Write ==
  /\ pc = "write"
  /\ IF i = 0
     THEN pc' = "stray" /\ UNCHANGED mem
     ELSE /\ pc' = "done"
          /\ \E d \in data :
               mem' = [x \in 0 .. Bar - 1 |->
                         IF x \in (LastItem .. LastItem + width - 1) \ ReadOnly
                         THEN Digit(d, x - LastItem)
                         ELSE mem[x]]
  /\ UNCHANGED <<arguments, mapSize, loopVars>>

\* The device, or another tool.
Change ==
  /\ \E x \in Volatile, b \in 0 .. Base - 1 : mem' = [mem EXCEPT ![x] = b]
  /\ UNCHANGED <<arguments, mapSize, pc, loopVars>>

Over == pc \in {"error", "stray", "done"}

Ended == Over /\ UNCHANGED vars

Program == Map \/ ReadItem \/ LeaveMapping \/ EndLoop \/ Write

Next == Program \/ Change \/ Ended

Spec == Init /\ [][Next]_vars

-----------------------------------------------------------------------------
(* Properties. *)

\* Variables have their types, and the loop stays within its count.
TypeOK ==
  /\ mem \in [0 .. Bar - 1 -> 0 .. Base - 1]
  /\ target \in Nat /\ width \in Width
  /\ count \in -IntMax - 1 .. IntMax
  /\ data \in SUBSET Data
  /\ mapSize \in 0 .. IntMax
  /\ pc \in {"map", "loop", "write"} \/ Over
  /\ i \in Nat /\ (i > 0 => i <= count)
  /\ prev \in Nat /\ dupped \in BOOLEAN
  /\ reads \in [0 .. i - 1 -> Nat]
  /\ shown \cup dots \subseteq 0 .. i - 1

\* As long as count * width is an int, and there is an item to write to, each
\* item accessed is inside the pages mapped, wherever in its page the target
\* lies and whatever map_size is cut down to (lines 87 to 89).
InsideMapping ==
  pc = "stray" => count * width > IntMax \/ (count < 1 /\ data # {})

\* Item j is printed, or follows item k, which is, and then one "...".
Tells(k, j) ==
  /\ k <= j /\ reads[k] = reads[j]
  /\ shown \cap (k + 1 .. j) = {}
  /\ dots \cap (k + 1 .. j) = IF k = j THEN {} ELSE {k + 1}

\* The output determines what was read, although repeated values are left out
\* and the memory changes while it is read: an item that is not printed has the
\* value of the last one that is, and exactly one "..." in between says so.
OutputDetermines == \A j \in 0 .. i - 1 : \E k \in shown : Tells(k, j)

\* What the program writes goes to bytes that it has displayed before, those of
\* the last item, although the address is a left-over of the loop that reads.
WritesLastRead ==
  [][Program /\ mem' # mem =>
       /\ i = count
       /\ \A x \in 0 .. Bar - 1 :
            mem'[x] # mem[x] => (x - target) \div width = count - 1]_vars

=============================================================================
