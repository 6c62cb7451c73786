---------------------------- MODULE PciMemProofs ----------------------------
(***************************************************************************)
(* Proofs about PciMem, for every size of int, page and resource.          *)
(*                                                                         *)
(* Accesses: once the memory is mapped, it reaches to the end of the last  *)
(* item, unless the product of count and width is no int.  Output: whether *)
(* the last item read was printed is what read_result_dupped says.  Types: *)
(* what is mapped is part of the resource, so each byte read is a byte.    *)
(***************************************************************************)
EXTENDS PciMem, TLAPS

Int32 == -IntMax - 1 .. IntMax

\* The types that the arguments need, and how far the loop has come.
Typed ==
  /\ target \in Nat /\ width \in Width /\ count \in Int32
  /\ mapSize \in Int
  /\ i \in Nat /\ (i > 0 => i <= count)
  /\ pc = "write" => i >= count /\ data # {}

\* What is mapped holds all items, as long as their bytes number an int.
Covered ==
  pc \in {"loop", "write"} =>
    /\ mapSize > 0
    /\ count >= 1 /\ count * width <= IntMax =>
         target + count * width <= PageStart(target) + mapSize

Accesses == Typed /\ Covered /\ InsideMapping

\* What the loop remembers of the last item.
Remembered ==
  /\ i \in Nat
  /\ DOMAIN reads = 0 .. i - 1
  /\ shown \cup dots \subseteq 0 .. i - 1
  /\ i > 0 => prev = reads[i - 1] /\ (dupped <=> i - 1 \notin shown)

Output == Remembered /\ OutputDetermines

-----------------------------------------------------------------------------
(* Arithmetic. *)

\* A remainder, below the modulus and once around it.
LEMMA Remainder ==
  ASSUME NEW a \in Nat, NEW n \in Nat \ {0}
  PROVE  /\ a % n \in 0 .. n - 1
         /\ a < n => a % n = a
         /\ n <= a /\ a < 2 * n => a % n = a - n
OBVIOUS

\* Quotient and remainder make up the number.
LEMMA Division ==
  ASSUME NEW a \in Nat, NEW n \in Nat \ {0}
  PROVE  a \div n \in Int /\ a = (a \div n) * n + (a % n)
OBVIOUS

\* A number that is an int stays as it is, and one just above becomes negative.
LEMMA ToIntValue ==
  ASSUME NEW x \in Int, x >= -IntMax - 1, x < Wrap
  PROVE  /\ ToInt(x) \in Int32
         /\ x <= IntMax => ToInt(x) = x
         /\ x > IntMax => ToInt(x) < 0
<1>. DEFINE y == x + IntMax + 1
<1>1. /\ y \in Nat /\ Wrap \in Nat \ {0} /\ y < 2 * Wrap
      /\ x <= IntMax => y < Wrap
      /\ x > IntMax => Wrap <= y
  BY SizesAssumption DEF Wrap
<1>. HIDE DEF y
<1>2. /\ y < Wrap => y % Wrap = y
      /\ Wrap <= y => y % Wrap = y - Wrap
  BY <1>1, Remainder
<1>3. QED BY <1>1, <1>2, SizesAssumption DEF ToInt, Wrap, Int32, y

\* What is converted to an int is one.
LEMMA ToIntType ==
  ASSUME NEW x \in Int
  PROVE  ToInt(x) \in Int32
<1>1. Wrap \in Nat \ {0}
  BY SizesAssumption DEF Wrap
<1>2. (x + IntMax + 1) % Wrap \in 0 .. Wrap - 1
  BY <1>1, SizesAssumption
<1>3. QED BY <1>2, SizesAssumption DEF ToInt, Wrap, Int32

\* The page of a target begins less than a page before it.
LEMMA PageStartBounds ==
  ASSUME NEW t \in Nat
  PROVE  PageStart(t) \in Nat /\ PageStart(t) <= t /\ t - PageStart(t) < Page
<1>1. t % Page \in 0 .. Page - 1 /\ t % Page <= t
  BY SizesAssumption
<1>2. QED BY <1>1, SizesAssumption DEF PageStart

\* Whole pages are no smaller than what they hold.
LEMMA PagesHold ==
  ASSUME NEW size \in Nat
  PROVE  Pages(size) \in Int /\ Pages(size) >= size
<1>. DEFINE a == size + Page - 1
<1>1. a \in Nat /\ Page \in Nat \ {0}
  BY SizesAssumption
<1>. HIDE DEF a
<1>2. a \div Page \in Int /\ a = (a \div Page) * Page + (a % Page) /\ a % Page \in 0 .. Page - 1
  BY <1>1, Division, Remainder
<1>3. QED BY <1>1, <1>2, SizesAssumption DEF Pages, a

-----------------------------------------------------------------------------
(* Accesses. *)

\* A product of int arguments within the ints is what is multiplied.
LEMMA ProductValue ==
  ASSUME Typed, count >= 1, count * width <= IntMax, NEW b \in Products(count, width)
  PROVE  b = count * width
<1>1. count * width \in Nat
  BY SizesAssumption DEF Typed, Width, Int32
<1>2. ToInt(count * width) = count * width
  BY <1>1, ToIntValue, SizesAssumption DEF Wrap
<1>3. QED BY <1>2 DEF Products

\* If map_size is accepted by the kernel, it reaches to the end of the bytes.
LEMMA SizeReaches ==
  ASSUME Typed, NEW b \in Nat, b <= IntMax, SizeFor(b) > 0
  PROVE  target + b <= PageStart(target) + SizeFor(b)
<1>. DEFINE need == target + b - PageStart(target)
<1>1. need \in Nat /\ need < Wrap /\ PageStart(target) \in Nat
  <2>1. target \in Nat /\ b \in Nat /\ IntMax \in Nat /\ Page \in Nat /\ Page <= IntMax
    BY SizesAssumption DEF Typed
  <2>2. /\ PageStart(target) \in Nat /\ PageStart(target) <= target
        /\ target - PageStart(target) < Page
    BY <2>1, PageStartBounds
  <2>3. QED BY <2>1, <2>2 DEF Wrap
<1>2. SizeFor(b) = IF need > InitialMap THEN ToInt(need) ELSE InitialMap
  BY DEF SizeFor
<1>3. ToInt(need) \in Int /\ (ToInt(need) > 0 => ToInt(need) = need)
  <2>1. need >= -IntMax - 1 /\ need \in Int
    BY <1>1, SizesAssumption
  <2>. HIDE DEF need
  <2>2. QED BY <1>1, <2>1, ToIntValue, SizesAssumption DEF Int32
<1>4. QED BY <1>1, <1>2, <1>3, SizesAssumption DEF Typed

\* map_size is an int.
LEMMA SizeType ==
  ASSUME Typed, NEW b \in Int
  PROVE  SizeFor(b) \in Int
<1>1. target + b - PageStart(target) \in Int
  BY PageStartBounds DEF Typed
<1>2. QED BY <1>1, ToIntType, SizesAssumption DEF SizeFor, Int32

\* An item that is not mapped is one of a product that is no int.
LEMMA MappedItems ==
  ASSUME Accesses, pc = "loop", i < count, count * width <= IntMax
  PROVE  Mapped(i)
<1>1. target + count * width <= PageStart(target) + mapSize /\ mapSize \in Nat
  BY DEF Accesses, Typed, Covered, Int32
<1>2. i * width + width <= count * width /\ i * width \in Nat /\ count * width \in Nat
  BY DEF Accesses, Typed, Width, Int32
<1>3. PageStart(target) \in Nat /\ Pages(mapSize) \in Int /\ Pages(mapSize) >= mapSize
  BY <1>1, PageStartBounds, PagesHold DEF Accesses, Typed
<1>4. target \in Nat /\ width \in Nat
  BY DEF Accesses, Typed, Width
<1>5. QED BY <1>1, <1>2, <1>3, <1>4 DEF Mapped

\* The first state maps nothing.
LEMMA InitAccesses == Init => Accesses
<1>. SUFFICES ASSUME Init PROVE Accesses
  OBVIOUS
<1>1. target \in Nat /\ width \in Width
  BY SizesAssumption DEF Init
<1>2. count \in Int32
  BY ToIntType, SizesAssumption DEF Init
<1>3. QED BY <1>1, <1>2 DEF Init, Accesses, Typed, Covered, InsideMapping

\* Every step of the program, and of the device, stays inside what is mapped.
LEMMA NextAccesses ==
  ASSUME Accesses, [Next]_vars
  PROVE  Accesses'
<1>. USE DEF Accesses, arguments, loopVars
<1>1. CASE Map
  <2>1. PICK b \in Products(count, width) :
          IF CanMap(SizeFor(b)) THEN mapSize' = SizeFor(b) /\ pc' = "loop"
                                ELSE mapSize' = 0 /\ pc' = "error"
    BY <1>1 DEF Map
  <2>2. UNCHANGED <<target, width, count, data, i>>
    BY <1>1 DEF Map
  <2>3. b \in Int
    <3>1. count * width \in Int
      BY SizesAssumption DEF Typed, Width, Int32
    <3>2. QED BY <3>1, ToIntType, SizesAssumption DEF Products, Int32
  <2>4. SizeFor(b) \in Int
    BY <2>3, SizeType
  <2>5. Typed'
    BY <2>1, <2>2, <2>4 DEF Typed
  <2>6. Covered'
    <3>. SUFFICES ASSUME pc' = "loop" PROVE Covered'
      BY <2>1 DEF Covered
    <3>1. mapSize' = SizeFor(b) /\ SizeFor(b) > 0
      BY <2>1 DEF CanMap
    <3>2. ASSUME count >= 1, count * width <= IntMax
          PROVE  target + count * width <= PageStart(target) + mapSize'
      <4>1. b = count * width /\ b \in Nat /\ b <= IntMax
        BY <2>3, <3>2, ProductValue DEF Typed, Width, Int32
      <4>2. QED BY <3>1, <4>1, SizeReaches
    <3>3. QED BY <2>2, <3>1, <3>2 DEF Covered, PageStart
  <2>7. InsideMapping'
    BY <2>1 DEF InsideMapping
  <2>8. QED BY <2>5, <2>6, <2>7
<1>2. CASE ReadItem
  <2>1. i' = i + 1 /\ i < count /\ pc' = "loop" /\ UNCHANGED <<target, width, count, data, mapSize, pc>>
    BY <1>2 DEF ReadItem
  <2>2. QED BY <2>1 DEF Typed, Covered, InsideMapping, PageStart, Int32
<1>3. CASE LeaveMapping
  <2>1. count * width > IntMax
    BY <1>3, MappedItems, SizesAssumption DEF LeaveMapping, Typed, Width, Int32
  <2>2. QED BY <1>3, <2>1 DEF LeaveMapping, Typed, Covered, InsideMapping
<1>4. CASE EndLoop
  BY <1>4 DEF EndLoop, Typed, Covered, InsideMapping, PageStart
<1>5. CASE Write
  <2>1. UNCHANGED <<target, width, count, data, mapSize, i>> /\ pc' \in {"stray", "done"}
    BY <1>5 DEF Write
  <2>2. pc' = "stray" => i = 0 /\ i >= count /\ data # {}
    BY <1>5 DEF Write, Typed
  <2>3. QED BY <2>1, <2>2 DEF Typed, Covered, InsideMapping, Int32
<1>6. CASE Change \/ UNCHANGED vars
  BY <1>6 DEF Change, vars, Typed, Covered, InsideMapping, PageStart
<1>7. QED
  BY <1>1, <1>2, <1>3, <1>4, <1>5, <1>6 DEF Next, Program, Ended

\* For every count, width and target: no item lies outside the pages mapped,
\* unless count * width overflows or there is no item to write to.
THEOREM AccessesMapped == Spec => []InsideMapping
<1>1. Spec => []Accesses
  BY InitAccesses, NextAccesses, PTL DEF Spec
<1>2. QED BY <1>1, PTL DEF Accesses

\* The one write of the program goes to bytes of the last item that was read.
THEOREM WritesWhereRead == Spec => WritesLastRead
<1>1. ASSUME Accesses, Program, mem' # mem
      PROVE  /\ i = count
             /\ \A x \in 0 .. Bar - 1 :
                  mem'[x] # mem[x] => (x - target) \div width = count - 1
  <2>1. Write
    BY <1>1 DEF Program, Map, ReadItem, LeaveMapping, EndLoop
  <2>2. i # 0
    BY <1>1, <2>1 DEF Write
  <2>3. i = count
    BY <1>1, <2>1, <2>2 DEF Write, Accesses, Typed, Int32
  <2>4. ASSUME NEW x \in 0 .. Bar - 1, mem'[x] # mem[x]
        PROVE  (x - target) \div width = count - 1
    <3>1. x \in LastItem .. LastItem + width - 1
      BY <2>1, <2>2, <2>4 DEF Write
    <3>2. target \in Nat /\ count \in Nat /\ width \in {1, 2, 4, 8} /\ x \in Int
      BY <1>1, <2>2, <2>3, SizesAssumption DEF Accesses, Typed, Width
    <3>3. QED BY <2>3, <3>1, <3>2 DEF LastItem
  <2>5. QED BY <2>3, <2>4
<1>2. Spec => []Accesses
  BY InitAccesses, NextAccesses, PTL DEF Spec
<1>3. QED BY <1>1, <1>2, PTL DEF Spec, WritesLastRead

-----------------------------------------------------------------------------
(* Output. *)

\* Printing the next item, or leaving it out, keeps what the output tells.
LEMMA PrintTells ==
  ASSUME Output, NEW v, PrintItem(v), i' = i + 1, prev' = v,
         reads' = [k \in 0 .. i |-> IF k = i THEN v ELSE reads[k]]
  PROVE  Output'
<1>. USE DEF Output, Remembered
<1>0. PICK n \in Nat : n = i
  OBVIOUS
<1>1. i \in Nat /\ i = n /\ i' = n + 1 /\ 0 .. i' - 1 = 0 .. n
      /\ \A j \in 0 .. n : j \in 0 .. i - 1 \/ j = n
  BY <1>0
<1>2. DOMAIN reads' = 0 .. n /\ reads'[n] = v /\ \A k \in 0 .. n - 1 : reads'[k] = reads[k]
  BY <1>1
<1>3. CASE IsNew(v)
  <2>1. shown' = shown \cup {i} /\ dupped' = FALSE /\ dots' = dots
    BY <1>3 DEF PrintItem
  <2>2. Remembered'
    BY <1>1, <1>2, <2>1
  <2>3. ASSUME NEW j \in 0 .. i - 1 PROVE \E k \in shown' : Tells(k, j)'
    <3>1. PICK k \in shown : Tells(k, j)
      BY DEF OutputDetermines
    <3>2. k \in 0 .. i - 1 /\ i \notin k + 1 .. j
      BY <1>1
    <3>3. /\ shown' \cap (k + 1 .. j) = shown \cap (k + 1 .. j)
          /\ dots' \cap (k + 1 .. j) = dots \cap (k + 1 .. j)
      BY <2>1, <3>2
    <3>4. reads'[k] = reads[k] /\ reads'[j] = reads[j] /\ k \in shown'
      BY <1>1, <1>2, <2>1, <3>2
    <3>5. Tells(k, j)'
      BY <3>1, <3>3, <3>4 DEF Tells
    <3>6. QED BY <3>4, <3>5
  <2>4. Tells(n, n)'
    BY <1>1, <1>2, <2>1 DEF Tells
  <2>5. n \in shown'
    BY <1>1, <2>1
  <2>6. \A j \in 0 .. i' - 1 : \E k \in shown' : Tells(k, j)'
    BY <1>1, <2>3, <2>4, <2>5
  <2>7. QED BY <2>2, <2>6 DEF OutputDetermines
<1>4. CASE ~IsNew(v)
  <2>1. /\ v = prev /\ i # 0 /\ dupped' = TRUE /\ shown' = shown
        /\ dots' = IF dupped THEN dots ELSE dots \cup {i}
    BY <1>4 DEF PrintItem, IsNew
  <2>2. Remembered'
    BY <1>1, <1>2, <2>1
  <2>3. ASSUME NEW j \in 0 .. i - 1 PROVE \E k \in shown' : Tells(k, j)'
    <3>1. PICK k \in shown : Tells(k, j)
      BY DEF OutputDetermines
    <3>2. k \in 0 .. i - 1 /\ i \notin k + 1 .. j
      BY <1>1
    <3>3. /\ shown' \cap (k + 1 .. j) = shown \cap (k + 1 .. j)
          /\ dots' \cap (k + 1 .. j) = dots \cap (k + 1 .. j)
      BY <2>1, <3>2
    <3>4. reads'[k] = reads[k] /\ reads'[j] = reads[j] /\ k \in shown'
      BY <1>1, <1>2, <2>1, <3>2
    <3>5. Tells(k, j)'
      BY <3>1, <3>3, <3>4 DEF Tells
    <3>6. QED BY <3>4, <3>5
  <2>4. \E k \in shown' : Tells(k, n)'
    <3>1. PICK k \in shown : Tells(k, i - 1)
      BY <1>1, <2>1 DEF OutputDetermines
    <3>2. k \in 0 .. i - 1 /\ reads[k] = v
      BY <1>1, <2>1, <3>1 DEF Tells
    <3>3. k + 1 .. n = (k + 1 .. n - 1) \cup {n}
      BY <1>1, <3>2
    <3>4. shown' \cap (k + 1 .. n) = {}
      BY <1>1, <2>1, <3>1, <3>3 DEF Tells
    <3>5. dupped <=> k # i - 1
      BY <1>1, <2>1, <3>1, <3>2 DEF Tells
    <3>6. dots' \cap (k + 1 .. n) = {k + 1}
      <4>1. CASE k = i - 1
        BY <1>1, <2>1, <3>1, <3>3, <3>5, <4>1 DEF Tells
      <4>2. CASE k # i - 1
        BY <1>1, <2>1, <3>1, <3>3, <3>5, <4>2 DEF Tells
      <4>3. QED BY <4>1, <4>2
    <3>7. QED BY <1>1, <1>2, <2>1, <3>2, <3>4, <3>6 DEF Tells
  <2>5. \A j \in 0 .. i' - 1 : \E k \in shown' : Tells(k, j)'
    BY <1>1, <2>3, <2>4
  <2>6. QED BY <2>2, <2>5 DEF OutputDetermines
<1>5. QED BY <1>3, <1>4

\* Whatever is read, by however many items and from a memory that changes, the
\* output determines it.
THEOREM OutputSuffices == Spec => []OutputDetermines
<1>1. Init => Output
  BY DEF Init, Output, Remembered, OutputDetermines
<1>2. ASSUME Output, [Next]_vars PROVE Output'
  <2>1. CASE ReadItem
    <3>1. PICK v : /\ PrintItem(v) /\ prev' = v /\ i' = i + 1
                   /\ reads' = [k \in 0 .. i |-> IF k = i THEN v ELSE reads[k]]
      BY <2>1 DEF ReadItem
    <3>2. QED BY <1>2, <3>1, PrintTells
  <2>2. CASE ~ReadItem
    <3>1. UNCHANGED loopVars
      BY <1>2, <2>2 DEF Next, Program, Map, LeaveMapping, EndLoop, Write, Change, Ended, vars
    <3>2. QED BY <1>2, <3>1 DEF loopVars, Output, Remembered, OutputDetermines, Tells
  <2>3. QED BY <2>1, <2>2
<1>3. QED BY <1>1, <1>2, PTL DEF Spec, Output

-----------------------------------------------------------------------------
(* Types. *)

\* What is mapped is part of the resource.
MappedInside == pc = "loop" => PageStart(target) + Pages(mapSize) <= Bar

Types == TypeOK /\ MappedInside

\* f says what the bytes up to byte n count.
Counts(f, n) == f = [k \in 0 .. n |-> IF k = 0 THEN 1 ELSE Base * f[k - 1]]

\* What a byte counts is a positive number.
LEMMA WeightType == \A k \in 0 .. 8 : Weight[k] \in Nat \ {0}
<1>1. Counts([k \in 0 .. 0 |-> 1], 0)
  BY DEF Counts
<1>2. ASSUME NEW n \in Nat, \E f : Counts(f, n)
      PROVE  \E f : Counts(f, n + 1)
  <2>1. PICK f : Counts(f, n)
    BY <1>2
  <2>. DEFINE g == [k \in 0 .. n + 1 |-> IF k = n + 1 THEN Base * f[n] ELSE f[k]]
  <2>2. \A k \in 0 .. n : f[k] = IF k = 0 THEN 1 ELSE Base * f[k - 1]
    BY <2>1 DEF Counts
  <2>3. \A k \in 0 .. n + 1 : g[k] = IF k = 0 THEN 1 ELSE Base * g[k - 1]
    BY <2>2
  <2>4. g = [k \in 0 .. n + 1 |-> IF k = 0 THEN 1 ELSE Base * g[k - 1]]
    BY <2>3
  <2>5. QED BY <2>4 DEF Counts
<1>3. \E f : Counts(f, 4)
  BY <1>1, <1>2
<1>4. \E f : Counts(f, 8)
  BY <1>2, <1>3
<1>5. Counts(Weight, 8)
  BY <1>4 DEF Weight, Counts
<1>6. Weight[0] = 1 /\ \A k \in 0 .. 7 : Weight[k + 1] = Base * Weight[k]
  BY <1>5 DEF Counts
<1>7. ASSUME NEW k \in 0 .. 7, Weight[k] \in Nat \ {0} PROVE Weight[k + 1] \in Nat \ {0}
  BY <1>6, <1>7, BaseAssumption
<1>8. QED BY <1>6, <1>7

\* A byte of a number is a byte.
LEMMA DigitType ==
  ASSUME NEW d \in Nat, NEW k \in 0 .. 8
  PROVE  Digit(d, k) \in 0 .. Base - 1
<1>1. PICK m \in Nat \ {0} : m = Weight[k]
  BY WeightType
<1>2. d \div m \in Nat
  OBVIOUS
<1>3. QED BY <1>1, <1>2, BaseAssumption DEF Digit

\* Bytes make up a number.
LEMMA NumberType ==
  ASSUME NEW b, NEW w \in Width, \A k \in 0 .. w - 1 : b[k] \in Nat
  PROVE  Number(b, w) \in Nat
<1>1. Base \in Nat /\ Weight[2] \in Nat /\ Weight[4] \in Nat
  BY BaseAssumption, WeightType
<1>2. ASSUME NEW x \in Nat, NEW y \in Nat, NEW m \in Nat PROVE x + m * y \in Nat
  OBVIOUS
<1>3. ASSUME w >= 2 PROVE b[0] + Base * b[0 + 1] \in Nat
  BY <1>1, <1>2, <1>3 DEF Width
<1>4. ASSUME w >= 4
      PROVE  b[0] + Base * b[0 + 1] + Weight[2] * (b[0 + 2] + Base * b[0 + 2 + 1]) \in Nat
  <2>1. b[0 + 2] + Base * b[0 + 2 + 1] \in Nat
    BY <1>1, <1>2, <1>4 DEF Width
  <2>2. QED BY <1>1, <1>2, <1>3, <1>4, <2>1 DEF Width
<1>5. ASSUME w = 8
      PROVE  b[4] + Base * b[4 + 1] + Weight[2] * (b[4 + 2] + Base * b[4 + 2 + 1]) \in Nat
  <2>1. b[4] + Base * b[4 + 1] \in Nat /\ b[4 + 2] + Base * b[4 + 2 + 1] \in Nat
    BY <1>1, <1>2, <1>5
  <2>2. QED BY <1>1, <1>2, <2>1
<1>6. CASE w = 1
  BY <1>6 DEF Number
<1>7. CASE w = 2
  BY <1>3, <1>7 DEF Number
<1>8. CASE w = 4
  BY <1>4, <1>8 DEF Number
<1>9. CASE w = 8
  <2>1. Number(b, w) =
          b[0] + Base * b[0 + 1] + Weight[2] * (b[0 + 2] + Base * b[0 + 2 + 1])
            + Weight[4] * (b[4] + Base * b[4 + 1] + Weight[2] * (b[4 + 2] + Base * b[4 + 2 + 1]))
    BY <1>9 DEF Number
  <2>2. QED BY <1>1, <1>2, <1>4, <1>5, <1>9, <2>1
<1>10. QED BY <1>6, <1>7, <1>8, <1>9 DEF Width

\* What is read of an item that is mapped is a number.
LEMMA ReadType ==
  ASSUME Types, pc = "loop", Mapped(i)
  PROVE  Read(target + i * width) \in Nat
<1>. DEFINE at == target + i * width
<1>1. /\ target \in Nat /\ width \in Width /\ i \in Nat /\ mem \in [0 .. Bar - 1 -> 0 .. Base - 1]
      /\ mapSize \in Nat
  BY DEF Types, TypeOK
<1>2. PageStart(target) + Pages(mapSize) <= Bar
  BY DEF Types, MappedInside
<1>3. PageStart(target) \in Nat /\ Pages(mapSize) \in Int
  BY <1>1, PageStartBounds, PagesHold
<1>4. at \in Nat /\ at + width <= Bar
  BY <1>1, <1>2, <1>3, SizesAssumption DEF Mapped, Width
<1>. HIDE DEF at
<1>5. \A k \in 0 .. width - 1 : mem[at + k] \in Nat
  BY <1>1, <1>4, SizesAssumption, BaseAssumption DEF Width
<1>6. Number([k \in 0 .. width - 1 |-> mem[at + k]], width) \in Nat
  BY <1>1, <1>5, NumberType
<1>7. QED BY <1>6 DEF Read, at

\* The first state has its types.
LEMMA InitTypes == Init => Types
<1>. SUFFICES ASSUME Init PROVE Types
  OBVIOUS
<1>1. mem \in [0 .. Bar - 1 -> 0 .. Base - 1] /\ target \in Nat /\ data \in SUBSET Data
  BY SizesAssumption DEF Init
<1>2. count \in -IntMax - 1 .. IntMax
  BY ToIntType, SizesAssumption DEF Init, Int32
<1>3. reads \in [0 .. i - 1 -> Nat] /\ shown \cup dots \subseteq 0 .. i - 1
  BY DEF Init
<1>4. width \in Width /\ dupped \in BOOLEAN /\ pc = "map"
  BY DEF Init
<1>5. mapSize \in 0 .. IntMax /\ i \in Nat /\ prev \in Nat /\ ~(i > 0)
  BY SizesAssumption DEF Init
<1>6. TypeOK
  BY <1>1, <1>2, <1>3, <1>4, <1>5 DEF TypeOK
<1>7. QED BY <1>4, <1>6 DEF Types, MappedInside

\* Every step keeps the types.
LEMMA NextTypes ==
  ASSUME Types, [Next]_vars
  PROVE  Types'
<1>. USE DEF Types, arguments, loopVars
<1>1. CASE Map
  <2>1. PICK b \in Products(count, width) :
          IF CanMap(SizeFor(b)) THEN mapSize' = SizeFor(b) /\ pc' = "loop"
                                ELSE mapSize' = 0 /\ pc' = "error"
    BY <1>1 DEF Map
  <2>2. UNCHANGED <<mem, target, width, count, data, i, prev, dupped, reads, shown, dots>>
    BY <1>1 DEF Map
  <2>3. b \in Int
    <3>1. count * width \in Int
      BY SizesAssumption DEF TypeOK, Width
    <3>2. QED BY <3>1, ToIntType, SizesAssumption DEF Products, Int32
  <2>4. SizeFor(b) \in Int32
    <3>1. target + b - PageStart(target) \in Int
      BY <2>3, PageStartBounds DEF TypeOK
    <3>2. ToInt(target + b - PageStart(target)) \in Int32
      BY <3>1, ToIntType
    <3>3. SizeFor(b) \in {ToInt(target + b - PageStart(target)), InitialMap}
      BY DEF SizeFor
    <3>4. QED BY <3>2, <3>3, SizesAssumption DEF Int32
  <2>5. mapSize' \in 0 .. IntMax
    BY <2>1, <2>4, SizesAssumption DEF CanMap, Int32
  <2>6. TypeOK'
    BY <2>1, <2>2, <2>5 DEF TypeOK, Over
  <2>7. MappedInside'
    BY <2>1, <2>2 DEF MappedInside, CanMap, PageStart, Pages
  <2>8. QED BY <2>6, <2>7
<1>2. CASE ReadItem
  <2>1. /\ i < count /\ i' = i + 1
        /\ UNCHANGED <<mem, target, width, count, data, mapSize, pc>>
    BY <1>2 DEF ReadItem
  <2>2. PICK v \in Nat : /\ reads' = [k \in 0 .. i |-> IF k = i THEN v ELSE reads[k]]
                         /\ PrintItem(v) /\ prev' = v
    BY <1>2, ReadType DEF ReadItem
  <2>3. reads' \in [0 .. i' - 1 -> Nat]
    BY <2>1, <2>2 DEF TypeOK
  <2>4. dupped' \in BOOLEAN /\ shown' \cup dots' \subseteq 0 .. i' - 1
    <3>1. i \in Nat /\ shown \cup dots \cup {i} \subseteq 0 .. i' - 1
      BY <2>1 DEF TypeOK
    <3>2. CASE IsNew(v)
      BY <2>2, <3>1, <3>2 DEF PrintItem
    <3>3. CASE ~IsNew(v)
      BY <2>2, <3>1, <3>3 DEF PrintItem
    <3>4. QED BY <3>2, <3>3
  <2>5. TypeOK'
    BY <2>1, <2>2, <2>3, <2>4 DEF TypeOK, Over
  <2>6. QED BY <2>1, <2>5 DEF MappedInside, PageStart, Pages
<1>3. CASE LeaveMapping
  BY <1>3 DEF LeaveMapping, TypeOK, MappedInside, Over
<1>4. CASE EndLoop
  BY <1>4 DEF EndLoop, TypeOK, MappedInside, Over
<1>5. CASE Write
  <2>1. UNCHANGED <<arguments, mapSize, loopVars>> /\ pc' \in {"stray", "done"}
    BY <1>5 DEF Write
  <2>2. mem' \in [0 .. Bar - 1 -> 0 .. Base - 1]
    <3>1. CASE i = 0
      BY <1>5, <3>1 DEF Write, TypeOK
    <3>2. CASE i # 0
      <4>1. PICK d \in data :
              mem' = [x \in 0 .. Bar - 1 |->
                        IF x \in (LastItem .. LastItem + width - 1) \ ReadOnly
                        THEN Digit(d, x - LastItem)
                        ELSE mem[x]]
        BY <1>5, <3>2 DEF Write
      <4>2. d \in Nat /\ LastItem \in Int
        BY <3>2, <4>1, SizesAssumption DEF TypeOK, Width, LastItem
      <4>3. ASSUME NEW x \in LastItem .. LastItem + width - 1
            PROVE  Digit(d, x - LastItem) \in 0 .. Base - 1
        <5>1. x - LastItem \in 0 .. 8
          BY <4>2 DEF TypeOK, Width
        <5>2. QED BY <4>2, <5>1, DigitType
      <4>4. QED BY <4>1, <4>3 DEF TypeOK
    <3>3. QED BY <3>1, <3>2
  <2>3. QED BY <2>1, <2>2 DEF TypeOK, MappedInside, Over
<1>6. CASE Change
  BY <1>6 DEF Change, TypeOK, MappedInside, PageStart, Pages, Over
<1>7. CASE UNCHANGED vars
  BY <1>7 DEF vars, TypeOK, MappedInside, PageStart, Pages, Over
<1>8. QED
  BY <1>1, <1>2, <1>3, <1>4, <1>5, <1>6, <1>7 DEF Next, Program, Ended

\* Variables have their types: map_size is an int that is not negative, whatever
\* the product overflows to, and what is read and written is made of bytes.
THEOREM TypesCorrect == Spec => []TypeOK
BY InitTypes, NextTypes, PTL DEF Spec, Types

-----------------------------------------------------------------------------
(* The end. *)

\* How many steps the program has left, at most.
Left ==
  CASE pc = "map"   -> IF count > 0 THEN count + 3 ELSE 3
    [] pc = "loop"  -> IF count > 0 THEN count - i + 2 ELSE 2
    [] pc = "write" -> 1
    [] OTHER        -> 0

\* There are at least two left in the loop, for its end and for the write.
LEMMA LeftType ==
  ASSUME TypeOK
  PROVE  Left \in Nat /\ (pc = "loop" => Left >= 2)
<1>1. count \in Int /\ i \in Nat /\ (i > 0 => i <= count)
  BY SizesAssumption DEF TypeOK
<1>2. QED BY <1>1 DEF Left

\* Each step of the program is one of those.
LEMMA ProgramCounts ==
  ASSUME TypeOK, Program
  PROVE  Left' < Left
<1>1. count \in Int /\ i \in Nat /\ (i > 0 => i <= count) /\ Left \in Nat
  BY LeftType, SizesAssumption DEF TypeOK
<1>2. CASE Map
  <2>1. count' = count /\ i' = i /\ pc = "map" /\ pc' \in {"loop", "error"}
    BY <1>2 DEF Map, arguments, loopVars
  <2>2. QED BY <1>1, <2>1 DEF Left
<1>3. CASE ReadItem
  <2>1. count' = count /\ i' = i + 1 /\ i < count /\ pc = "loop" /\ pc' = "loop"
    BY <1>3 DEF ReadItem, arguments
  <2>2. QED BY <1>1, <2>1 DEF Left
<1>4. CASE LeaveMapping \/ EndLoop \/ Write
  <2>1. \/ pc = "loop" /\ pc' \in {"stray", "done", "write"}
        \/ pc = "write" /\ pc' \in {"stray", "done"}
    BY <1>4 DEF LeaveMapping, EndLoop, Write
  <2>2. pc' = "write" => Left' = 1
    BY DEF Left
  <2>3. pc' \in {"stray", "done"} => Left' = 0
    BY DEF Left
  <2>4. pc = "write" => Left = 1
    BY DEF Left
  <2>5. QED BY <1>1, <2>1, <2>2, <2>3, <2>4, LeftType
<1>5. QED BY <1>2, <1>3, <1>4 DEF Program

\* The program ends after count + 3 steps of its own at most, whatever sizes
\* overflow; the device neither adds nor takes one.
THEOREM StepsCounted ==
  Spec => /\ Left = IF count > 0 THEN count + 3 ELSE 3
          /\ [](Left \in Nat)
          /\ [][/\ Program => Left' < Left
                /\ ~Program => Left' = Left]_vars
<1>1. Init => Left = IF count > 0 THEN count + 3 ELSE 3
  BY DEF Init, Left
<1>2. ASSUME ~Program, Next PROVE Left' = Left
  BY <1>2 DEF Next, Change, Ended, vars, arguments, loopVars, Left
<1>3. Spec => []TypeOK
  BY TypesCorrect
<1>4. QED BY <1>1, <1>2, <1>3, LeftType, ProgramCounts, PTL DEF Spec

=============================================================================
