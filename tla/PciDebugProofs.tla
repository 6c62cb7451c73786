--------------------------- MODULE PciDebugProofs ---------------------------
(***************************************************************************)
(* Proofs about PciDebug, for every BAR, number of values of a byte, and   *)
(* all addresses, lengths and values that fit into an int.  Which bytes a  *)
(* command may change follows from single steps and needs no invariant,    *)
(* for addr and len are checked afresh by each command.  That bytes stay   *)
(* bytes, and that words are read back as they were written, follows from  *)
(* an invariant that says where the bytes of the last write are.           *)
(***************************************************************************)
EXTENDS PciDebug, TLAPS

(* Numbers and their bytes. *)

\* f says what the bytes up to byte n count.
Counts(f, n) == f = [k \in 0 .. n |-> IF k = 0 THEN 1 ELSE Base * f[k - 1]]

\* The recursive definition of Weight has a value: each byte counts Base times
\* what the byte below it counts.
LEMMA WeightValues ==
  /\ Weight[0] = 1
  /\ \A k \in 0 .. 7 : Weight[k + 1] = Base * Weight[k]
<1>1. Counts([k \in 0 .. 0 |-> 1], 0)
  BY DEF Counts
<1>2. ASSUME NEW n \in Nat, \E f : Counts(f, n)
      PROVE  \E f : Counts(f, n + 1)
  <2>1. PICK f : Counts(f, n)
    BY <1>2
  <2>. DEFINE g == [k \in 0 .. n + 1 |-> IF k = n + 1 THEN Base * f[n] ELSE f[k]]
  <2>2. \A k \in 0 .. n : f[k] = IF k = 0 THEN 1 ELSE Base * f[k - 1]
    BY <2>1 DEF Counts
  <2>3. \A k \in 0 .. n + 1 : g[k] = IF k = 0 THEN 1 ELSE Base * g[k - 1]
    BY <2>2
  <2>4. g = [k \in 0 .. n + 1 |-> IF k = 0 THEN 1 ELSE Base * g[k - 1]]
    BY <2>3
  <2>5. QED BY <2>4 DEF Counts
<1>3. \E f : Counts(f, 4)
  BY <1>1, <1>2
<1>4. \E f : Counts(f, 8)
  BY <1>2, <1>3
<1>5. Counts(Weight, 8)
  BY <1>4 DEF Weight, Counts
<1>6. QED BY <1>5 DEF Counts

\* What a byte counts is a positive number.
LEMMA WeightType == \A k \in 0 .. 8 : Weight[k] \in Nat \ {0}
<1>1. ASSUME NEW k \in 0 .. 7, Weight[k] \in Nat \ {0} PROVE Weight[k + 1] \in Nat \ {0}
  BY <1>1, WeightValues, BaseAssumption
<1>2. Weight[0] \in Nat \ {0}
  BY WeightValues
<1>3. QED BY <1>1, <1>2

\* A byte of a number is a byte.
LEMMA DigitType ==
  ASSUME NEW d \in Nat, NEW k \in 0 .. 8
  PROVE  Digit(d, k) \in 0 .. Base - 1
<1>1. PICK m \in Nat \ {0} : m = Weight[k]
  BY WeightType
<1>2. d \div m \in Nat
  OBVIOUS
<1>3. QED BY <1>1, <1>2, BaseAssumption DEF Digit

\* Quotient and remainder make up the number.
LEMMA Division ==
  ASSUME NEW a \in Nat, NEW n \in Nat \ {0}
  PROVE  a \div n \in Nat /\ a % n \in 0 .. n - 1 /\ a = n * (a \div n) + (a % n)
OBVIOUS

\* A number that is made up of a quotient and a remainder has that quotient.
LEMMA Quotient ==
  ASSUME NEW a \in Nat, NEW n \in Nat \ {0}, NEW q \in Int, NEW r \in 0 .. n - 1, a = n * q + r
  PROVE  q = a \div n
<1>. DEFINE p == a \div n
            s == a % n
<1>1. p \in Nat /\ s \in 0 .. n - 1 /\ a = n * p + s
  BY Division, Zenon
<1>. HIDE DEF p, s
<1>2. CASE q < p
  <2>1. n * (q + 1) <= n * p
    BY <1>1, <1>2
  <2>2. QED BY <1>1, <2>1
<1>3. CASE p < q
  <2>1. n * (p + 1) <= n * q
    BY <1>1, <1>3
  <2>2. QED BY <1>1, <2>1
<1>4. QED BY <1>1, <1>2, <1>3 DEF p

\* Dividing by a product is dividing by its factors in turn.
LEMMA DivideTwice ==
  ASSUME NEW a \in Nat, NEW m \in Nat \ {0}, NEW n \in Nat \ {0}
  PROVE  a \div (n * m) = (a \div m) \div n
<1>. DEFINE q == a \div m
            r == a % m
            p == q \div n
            s == q % n
<1>1. q \in Nat /\ r \in 0 .. m - 1 /\ a = m * q + r
  BY Division, Zenon
<1>. HIDE DEF q, r
<1>2. p \in Nat /\ s \in 0 .. n - 1 /\ q = n * p + s
  BY <1>1, Division, Zenon
<1>. HIDE DEF p, s
<1>4. m * s + r \in 0 .. n * m - 1
  <2>1. s \in Int /\ r \in Int /\ 0 <= s /\ s <= n - 1 /\ 0 <= r /\ r <= m - 1
    BY <1>1, <1>2
  <2>2. m * s <= m * (n - 1)
    BY <2>1
  <2>3. QED BY <2>1, <2>2
<1>5. a = (n * m) * p + (m * s + r)
  BY <1>1, <1>2
<1>6. n * m \in Nat \ {0}
  OBVIOUS
<1>7. p = a \div (n * m)
  BY <1>2, <1>4, <1>5, <1>6, Quotient
<1>8. QED BY <1>7 DEF q, p

\* What is left of a number above byte k is that byte, and what is left above
\* the next.
LEMMA NextDigit ==
  ASSUME NEW d \in Nat, NEW k \in 0 .. 7
  PROVE  d \div Weight[k] = Digit(d, k) + Base * (d \div Weight[k + 1])
<1>1. PICK m \in Nat \ {0} : m = Weight[k]
  BY WeightType
<1>2. Weight[k + 1] = Base * m
  BY <1>1, WeightValues
<1>3. Base \in Nat \ {0}
  BY BaseAssumption
<1>. DEFINE a == d \div m
            p == a \div Base
            r == a % Base
<1>4. d \div Weight[k] = a /\ Digit(d, k) = r
  BY <1>1 DEF Digit
<1>5. d \div Weight[k + 1] = p
  <2>1. d \div (Base * m) = p
    BY <1>3, DivideTwice, Zenon
  <2>2. QED BY <1>2, <2>1
<1>6. a \in Nat
  BY Division, Zenon
<1>. HIDE DEF a
<1>7. p \in Nat /\ r \in 0 .. Base - 1 /\ a = Base * p + r
  BY <1>3, <1>6, Division, Zenon
<1>. HIDE DEF p, r
<1>8. QED BY <1>3, <1>4, <1>5, <1>7

\* A number that fits into a word is the number in its bytes.
LEMMA NumberOfDigits ==
  ASSUME NEW w \in {1, 2, 4}, NEW d \in 0 .. Weight[w] - 1
  PROVE  Number([k \in 0 .. w - 1 |-> Digit(d, k)], w) = d
<1>. DEFINE q(k) == d \div Weight[k]
<1>1. d \in Nat
  BY WeightType
<1>2. ASSUME NEW k \in 0 .. 4 PROVE q(k) \in Nat
  <2>1. k \in 0 .. 8
    OBVIOUS
  <2>2. PICK m \in Nat \ {0} : m = Weight[k]
    BY <2>1, WeightType
  <2>3. d \div m \in Nat
    BY <1>1, Division, Zenon
  <2>4. QED BY <2>2, <2>3
<1>3. ASSUME NEW k \in 0 .. 3
      PROVE  q(k) = Digit(d, k) + Base * q(k + 1) /\ Digit(d, k) \in Nat
  <2>0. k \in 0 .. 8
    OBVIOUS
  <2>1. Digit(d, k) \in 0 .. Base - 1
    BY <1>1, <2>0, DigitType
  <2>2. q(k) = Digit(d, k) + Base * q(k + 1)
    BY <1>1, NextDigit
  <2>3. QED BY <2>1, <2>2, BaseAssumption
<1>4. q(0) = d
  BY <1>1, WeightValues
<1>5. q(w) = 0
  BY <1>1, WeightType
<1>6. Weight[2] = Base * Base
  BY WeightValues, BaseAssumption
<1>. HIDE DEF q
<1>. DEFINE b == [k \in 0 .. w - 1 |-> Digit(d, k)]
<1>7. CASE w = 1
  BY <1>2, <1>3, <1>4, <1>5, <1>7, BaseAssumption DEF Number
<1>8. CASE w = 2
  <2>1. Number(b, w) = Digit(d, 0) + Base * Digit(d, 1)
    BY <1>8 DEF Number
  <2>2. q(0) = Digit(d, 0) + Base * q(1) /\ q(1) = Digit(d, 1) + Base * q(2) /\ q(2) = 0
    BY <1>3, <1>5, <1>8
  <2>3. QED BY <1>3, <1>4, <2>1, <2>2, BaseAssumption
<1>9. CASE w = 4
  <2>1. Number(b, w) =
          (Digit(d, 0) + Base * Digit(d, 1)) + (Base * Base) * (Digit(d, 2) + Base * Digit(d, 3))
    BY <1>6, <1>9 DEF Number
  <2>2. /\ q(0) = Digit(d, 0) + Base * q(1) /\ q(1) = Digit(d, 1) + Base * q(2)
        /\ q(2) = Digit(d, 2) + Base * q(3) /\ q(3) = Digit(d, 3) + Base * q(4) /\ q(4) = 0
    BY <1>3, <1>5, <1>9
  <2>3. q(3) = Digit(d, 3)
    BY <1>3, <2>2, BaseAssumption
  <2>4. q(1) = Digit(d, 1) + Base * (Digit(d, 2) + Base * Digit(d, 3))
    BY <2>2, <2>3
  <2>5. d = Digit(d, 0) + Base * (Digit(d, 1) + Base * (Digit(d, 2) + Base * Digit(d, 3)))
    BY <1>4, <2>2, <2>4
  <2>6. ASSUME NEW x \in Int, NEW y \in Int, NEW z \in Int, NEW u \in Int
        PROVE  x + Base * (y + Base * (z + Base * u)) = (x + Base * y) + (Base * Base) * (z + Base * u)
    BY BaseAssumption
  <2>7. QED BY <1>3, <2>1, <2>5, <2>6
<1>10. QED BY <1>7, <1>8, <1>9

-----------------------------------------------------------------------------
(* Counts and lengths. *)

\* There are some ints.
LEMMA WordType == Word \in Nat \ {0}
BY WeightType DEF Word

\* The smaller of two numbers.
LEMMA SmallerOf ==
  ASSUME NEW a \in Int, NEW b \in Int
  PROVE  Min({a, b}) \in {a, b} /\ Min({a, b}) <= a /\ Min({a, b}) <= b
<1>1. \E x \in {a, b} : \A y \in {a, b} : x <= y
  OBVIOUS
<1>2. Min({a, b}) \in {a, b} /\ \A y \in {a, b} : Min({a, b}) <= y
  BY <1>1 DEF Min
<1>3. QED BY <1>2

\* The larger of two numbers.
LEMMA LargerOf ==
  ASSUME NEW a \in Int, NEW b \in Int
  PROVE  Max({a, b}) \in {a, b} /\ Max({a, b}) >= a /\ Max({a, b}) >= b
<1>1. \E x \in {a, b} : \A y \in {a, b} : x >= y
  OBVIOUS
<1>2. Max({a, b}) \in {a, b} /\ \A y \in {a, b} : Max({a, b}) >= y
  BY <1>1 DEF Max
<1>3. QED BY <1>2

\* No more words are written than asked for, and all of them if there is room.
LEMMA ReachedBounds ==
  ASSUME NEW w \in Width, NEW addr \in Nat, NEW n \in Nat
  PROVE  /\ Reached(w, addr, n) \in Int /\ Reached(w, addr, n) <= n
         /\ Offset + addr + n * w <= Page => Reached(w, addr, n) = n
<1>. DEFINE q == (Page - Offset - addr) \div w
<1>1. q \in Int /\ (Offset + addr + n * w <= Page => n <= q)
  <2>1. PICK r \in Int : r = Page - Offset - addr
    BY RegionAssumption
  <2>2. n * w <= r => n <= r \div w
    BY <2>1 DEF Width
  <2>3. r \div w \in Int
    BY <2>1 DEF Width
  <2>4. Offset + addr + n * w <= Page => n * w <= r
    BY <2>1, RegionAssumption DEF Width
  <2>5. QED BY <2>1, <2>2, <2>3, <2>4
<1>. HIDE DEF q
<1>2. Min({n, q}) \in {n, q} /\ Min({n, q}) <= n /\ Min({n, q}) <= q
  BY <1>1, SmallerOf
<1>3. Reached(w, addr, n) = Min({n, q})
  BY DEF Reached, q
<1>4. QED BY <1>1, <1>2, <1>3

\* The loop of fill_mem goes no further than the length it is given.
LEMMA FillCountBounds ==
  ASSUME NEW w \in Width, NEW c \in Int
  PROVE  /\ FillCount(w, c) \in Nat
         /\ FillCount(w, c) * w <= IF c > 0 THEN c ELSE 0
BY DEF FillCount, Width

\* A length is cut to one that is no longer than the BAR, and is left alone if
\* the range ends inside it.
LEMMA ClipBounds ==
  ASSUME NEW addr \in 0 .. Size, NEW len \in 0 .. Word - 1
  PROVE  /\ Clip(addr, len) \in Int /\ Clip(addr, len) <= Size
         /\ addr + len <= Size => Clip(addr, len) = len
<1>1. Word \in Nat /\ Size \in Nat /\ 2 * Size < Word
  BY WordType, RegionAssumption
<1>2. Signed(len) = IF 2 * len >= Word THEN len - Word ELSE len
  BY DEF Signed
<1>3. CASE addr + len < Word
  <2>1. (addr + len) % Word = addr + len
    BY <1>1, <1>3
  <2>2. addr + len <= Size => Signed(len) = len
    BY <1>1, <1>2
  <2>3. QED BY <1>1, <2>1, <2>2 DEF Clip
<1>4. CASE addr + len >= Word
  <2>1. Signed(len) = len - Word /\ len - Word < 0
    BY <1>1, <1>2, <1>4
  <2>2. QED BY <1>1, <1>4, <2>1 DEF Clip
<1>5. QED BY <1>1, <1>3, <1>4

\* A write changes bytes of the words it reaches only, and fails only if it
\* leaves what is mapped.
LEMMA WriteBounds ==
  ASSUME NEW w \in Width, NEW addr \in Nat, NEW d, NEW inc, NEW n \in Nat, NEW len,
         Write(w, addr, d, inc, n, len)
  PROVE  /\ last'.addr = addr /\ last'.len = len /\ last'.width = w
         /\ Offset + addr + n * w <= Page => pc' = pc
         /\ \A x \in 0 .. Page - 1 :
              mem'[x] # mem[x] => x - Offset - addr \in 0 .. n * w - 1
<1>. DEFINE k == Reached(w, addr, n)
            at == Offset + addr
<1>1. k \in Int /\ k <= n /\ (Offset + addr + n * w <= Page => k = n)
  BY ReachedBounds
<1>2. pc' = IF k = n THEN pc ELSE "fault"
  BY DEF Write
<1>3. last'.addr = addr /\ last'.len = len /\ last'.width = w
  BY DEF Write
<1>4. ASSUME NEW x \in 0 .. Page - 1, mem'[x] # mem[x]
      PROVE  x >= at /\ x < at + k * w
  BY <1>4 DEF Write
<1>. HIDE DEF k
<1>5. k * w <= n * w
  BY <1>1 DEF Width
<1>6. ASSUME NEW x \in 0 .. Page - 1, mem'[x] # mem[x]
      PROVE  x - Offset - addr \in 0 .. n * w - 1
  <2>1. x >= Offset + addr /\ x < Offset + addr + k * w
    BY <1>4, <1>6
  <2>2. x \in Int /\ Offset \in Int /\ k * w \in Int /\ n * w \in Int
    BY <1>1, RegionAssumption DEF Width
  <2>3. QED BY <1>5, <2>1, <2>2
<1>7. QED BY <1>1, <1>2, <1>3, <1>6

\* Only change_mem and fill_mem change memory, at an address that was checked.
LEMMA Writers ==
  ASSUME Next, mem' # mem
  PROVE  \E w \in Width, addr \in Addr \cap (0 .. Size), d \in Val :
           \/ Change(w, addr, d)
           \/ \E len \in Len, inc \in Inc : Fill(w, addr, d, len, inc)
<1>1. PICK w \in Width, addr \in Addr, d \in Val :
        \/ Change(w, addr, d)
        \/ \E len \in Len, inc \in Inc : Fill(w, addr, d, len, inc)
  BY DEF Next, Display, ChangeEndian, FirstLine, EndFile, Quit, Ended, vars
<1>2. ~Invalid(addr)
  BY <1>1 DEF Change, Fill
<1>3. addr \in 0 .. Size
  BY <1>2, RegionAssumption DEF Invalid
<1>4. QED BY <1>1, <1>3

-----------------------------------------------------------------------------

\* Lengths are bytes: a range inside the BAR is written without a fault, and
\* no byte outside it changes, for every width.
THEOREM LengthsAreBytes == Spec => LengthInBytes
<1>1. ASSUME Next, mem' # mem, last'.addr + last'.len <= Size
      PROVE  /\ pc' # "fault"
             /\ \A x \in 0 .. Page - 1 :
                  mem'[x] # mem[x] => x - Offset \in last'.addr .. last'.addr + last'.len - 1
  <2>1. PICK w \in Width, addr \in Addr \cap (0 .. Size), d \in Val :
          \/ Change(w, addr, d)
          \/ \E len \in Len, inc \in Inc : Fill(w, addr, d, len, inc)
    BY <1>1, Writers
  <2>2. Offset \in Nat /\ Size \in Nat /\ Page \in Nat /\ Offset + Size <= Page
        /\ addr \in Nat /\ w \in Nat
    BY RegionAssumption DEF Width
  <2>3. CASE Change(w, addr, d)
    <3>1. Write(w, addr, d, 0, 1, w) /\ pc \in {"file", "prompt"}
      BY <2>3 DEF Change, Reading
    <3>2. /\ last'.addr = addr /\ last'.len = w
          /\ Offset + addr + w <= Page => pc' = pc
          /\ \A x \in 0 .. Page - 1 : mem'[x] # mem[x] => x - Offset - addr \in 0 .. w - 1
      <4>1. /\ last'.addr = addr /\ last'.len = w
            /\ Offset + addr + 1 * w <= Page => pc' = pc
            /\ \A x \in 0 .. Page - 1 : mem'[x] # mem[x] => x - Offset - addr \in 0 .. 1 * w - 1
        BY <2>2, <3>1, WriteBounds, 1 \in Nat
      <4>2. 1 * w = w
        BY <2>2
      <4>3. QED BY <4>1, <4>2
    <3>3. QED BY <1>1, <2>2, <3>1, <3>2
  <2>4. ASSUME NEW len \in Len, NEW inc \in Inc, Fill(w, addr, d, len, inc)
        PROVE  /\ pc' # "fault"
               /\ \A x \in 0 .. Page - 1 :
                    mem'[x] # mem[x] => x - Offset \in last'.addr .. last'.addr + last'.len - 1
    <3>. DEFINE n == FillCount(w, Clip(addr, len))
    <3>1. Write(w, addr, d, inc, n, len) /\ pc \in {"file", "prompt"}
      BY <2>4 DEF Fill, Reading
    <3>2. len \in 0 .. Word - 1 /\ len \in Nat
      BY RegionAssumption
    <3>3. n \in Nat /\ (addr + len <= Size => n * w <= len)
      BY <3>2, ClipBounds, FillCountBounds
    <3>. HIDE DEF n
    <3>4. /\ last'.addr = addr /\ last'.len = len
          /\ Offset + addr + n * w <= Page => pc' = pc
          /\ \A x \in 0 .. Page - 1 : mem'[x] # mem[x] => x - Offset - addr \in 0 .. n * w - 1
      BY <2>2, <3>1, <3>3, WriteBounds
    <3>5. n * w <= len /\ n * w \in Nat
      BY <1>1, <3>3, <3>4 DEF Width
    <3>6. QED BY <1>1, <2>2, <3>1, <3>2, <3>4, <3>5
  <2>5. QED BY <2>1, <2>3, <2>4
<1>2. QED BY <1>1, PTL DEF Spec, LengthInBytes

\* Whatever numbers are typed, a write begins at the end of the BAR at the
\* latest and is no longer than the BAR or one word.
THEOREM BoundedWrites == Spec => WritesBounded
<1>1. ASSUME Next, mem' # mem
      PROVE  /\ last'.addr <= Size
             /\ \A x \in 0 .. Page - 1 :
                  mem'[x] # mem[x] =>
                    x - Offset - last'.addr \in 0 .. Max({Size, last'.width}) - 1
  <2>1. PICK w \in Width, addr \in Addr \cap (0 .. Size), d \in Val :
          \/ Change(w, addr, d)
          \/ \E len \in Len, inc \in Inc : Fill(w, addr, d, len, inc)
    BY <1>1, Writers
  <2>2. Offset \in Nat /\ Size \in Nat /\ Page \in Nat /\ addr \in Nat /\ addr <= Size /\ w \in Nat
    BY RegionAssumption DEF Width
  <2>3. Max({Size, w}) \in Nat /\ Max({Size, w}) >= Size /\ Max({Size, w}) >= w
    <3>1. Size \in Int /\ w \in Int
      BY <2>2
    <3>2. Max({Size, w}) \in {Size, w} /\ Max({Size, w}) >= Size /\ Max({Size, w}) >= w
      BY <3>1, LargerOf
    <3>3. QED BY <2>2, <3>2
  <2>4. PICK n, len, inc : n \in Nat /\ Write(w, addr, d, inc, n, len) /\ n * w <= Max({Size, w})
    <3>1. CASE Change(w, addr, d)
      <4>1. 1 * w <= Max({Size, w})
        BY <2>2, <2>3
      <4>2. QED BY <3>1, <4>1 DEF Change
    <3>2. ASSUME NEW len \in Len, NEW inc \in Inc, Fill(w, addr, d, len, inc)
          PROVE  \E n, l, c : n \in Nat /\ Write(w, addr, d, c, n, l) /\ n * w <= Max({Size, w})
      <4>. DEFINE n == FillCount(w, Clip(addr, len))
      <4>1. len \in 0 .. Word - 1
        BY RegionAssumption
      <4>2. n \in Nat /\ n * w <= Size
        BY <2>2, <4>1, ClipBounds, FillCountBounds
      <4>3. Write(w, addr, d, inc, n, len)
        BY <3>2 DEF Fill
      <4>. HIDE DEF n
      <4>4. n * w <= Max({Size, w})
        BY <2>2, <2>3, <4>2 DEF Width
      <4>5. QED BY <4>2, <4>3, <4>4
    <3>3. QED BY <2>1, <3>1, <3>2
  <2>5. /\ last'.addr = addr /\ last'.width = w
        /\ \A x \in 0 .. Page - 1 : mem'[x] # mem[x] => x - Offset - addr \in 0 .. n * w - 1
    BY <2>2, <2>4, WriteBounds
  <2>6. n * w \in Nat
    BY <2>4 DEF Width
  <2>7. QED BY <2>2, <2>3, <2>4, <2>5, <2>6
<1>2. QED BY <1>1, PTL DEF Spec, WritesBounded

-----------------------------------------------------------------------------
(* What is in memory. *)

\* The words of the last write fit into their width, lie in what is mapped and
\* are there, byte by byte, as long as nothing else is written.
Stored ==
  /\ last.addr \in Nat
  /\ \A i \in DOMAIN last.words :
       /\ i \in Nat
       /\ last.words[i] \in 0 .. Weight[last.width] - 1
       /\ Offset + last.addr + i * last.width + last.width <= Page
       /\ \A k \in 0 .. last.width - 1 :
            mem[Offset + last.addr + i * last.width + k] =
              Digit(last.words[i], Place(k, last.width, last.big))

\* The words that are reached fit into what is mapped.
LEMMA ReachedRoom ==
  ASSUME NEW w \in Width, NEW addr \in 0 .. Size, NEW n \in Nat
  PROVE  Reached(w, addr, n) \in Nat /\ Offset + addr + Reached(w, addr, n) * w <= Page
<1>1. PICK r \in Nat : r = Page - Offset - addr
  BY RegionAssumption
<1>. DEFINE q == r \div w
<1>2. q \in Nat /\ q \in Int /\ q * w <= r
  BY DEF Width
<1>. HIDE DEF q
<1>3. PICK m : m = Min({n, q})
  OBVIOUS
<1>4. m \in {n, q} /\ m <= q
  <2>1. n \in Int /\ q \in Int
    BY <1>2
  <2>2. Min({n, q}) \in {n, q} /\ Min({n, q}) <= q
    BY <2>1, SmallerOf
  <2>3. QED BY <1>3, <2>2
<1>5. m \in Nat /\ Reached(w, addr, n) = m
  BY <1>1, <1>2, <1>3, <1>4 DEF q, Reached
<1>6. m * w <= q * w
  BY <1>2, <1>4, <1>5 DEF Width
<1>7. m * w <= r /\ m * w \in Nat
  BY <1>2, <1>5, <1>6 DEF Width
<1>8. QED BY <1>1, <1>5, <1>7, RegionAssumption

\* Bytes are stored in one of two orders, within their word; storing in either
\* order and reading in the same one gives each byte back, and reading in the
\* other one reverses them.
LEMMA Places ==
  ASSUME NEW w \in Width, NEW k \in 0 .. w - 1, NEW a \in BOOLEAN, NEW b \in BOOLEAN
  PROVE  /\ Place(k, w, a) \in 0 .. w - 1
         /\ Place(Place(k, w, a), w, b) = IF a = b THEN k ELSE w - 1 - k
BY DEF Place, Width

\* Which word a byte of a range belongs to, and which of its bytes it is.
LEMMA ByteOfRange ==
  ASSUME NEW w \in Width, NEW n \in Nat, NEW y \in 0 .. n * w - 1
  PROVE  y \div w \in 0 .. n - 1 /\ y % w \in 0 .. w - 1
BY DEF Width

\* Where byte k of word i lies in a range.
LEMMA ByteOfWord ==
  ASSUME NEW w \in Width, NEW n \in Nat, NEW i \in 0 .. n - 1, NEW k \in 0 .. w - 1
  PROVE  /\ i * w + k \in 0 .. n * w - 1
         /\ (i * w + k) \div w = i /\ (i * w + k) % w = k
         /\ i * w + w <= n * w
BY DEF Width

\* A write leaves bytes in memory, and its words are there.
LEMMA WriteStored ==
  ASSUME TypeOK, NEW w \in Width, NEW addr \in 0 .. Size, NEW d \in Nat, NEW inc \in Nat,
         NEW n \in Nat, NEW len, Write(w, addr, d, inc, n, len)
  PROVE  mem' \in [0 .. Page - 1 -> Byte] /\ Stored'
<1>. DEFINE r == Reached(w, addr, n)
            at == Offset + addr
            words == [i \in 0 .. r - 1 |-> (d + i * inc) % Weight[w]]
<1>1. /\ last' = [width |-> w, addr |-> addr, len |-> len, words |-> words, big |-> bigEndian]
      /\ mem' = [x \in 0 .. Page - 1 |->
                   IF x >= at /\ x < at + r * w
                   THEN Digit(words[(x - at) \div w], Place((x - at) % w, w, bigEndian))
                   ELSE mem[x]]
  BY DEF Write
<1>2. r \in Nat /\ at \in Nat /\ addr \in Nat /\ at + r * w <= Page
  BY ReachedRoom, RegionAssumption
<1>. HIDE DEF r
<1>3. ASSUME NEW i \in 0 .. r - 1 PROVE words[i] \in 0 .. Weight[w] - 1
  <2>1. PICK m \in Nat \ {0} : m = Weight[w]
    BY WeightType DEF Width
  <2>2. d + i * inc \in Nat
    BY <1>2
  <2>3. (d + i * inc) % m \in 0 .. m - 1
    BY <2>2, Division
  <2>4. QED BY <2>1, <2>3
<1>. HIDE DEF words, at
<1>4. ASSUME NEW x \in 0 .. Page - 1, x >= at, x < at + r * w
      PROVE  Digit(words[(x - at) \div w], Place((x - at) % w, w, bigEndian)) \in Byte
  <2>1. x - at \in 0 .. r * w - 1
    BY <1>2, <1>4, RegionAssumption DEF Width
  <2>2. (x - at) \div w \in 0 .. r - 1 /\ (x - at) % w \in 0 .. w - 1
    BY <1>2, <2>1, ByteOfRange
  <2>3. words[(x - at) \div w] \in Nat
    <3>1. Weight[w] \in Nat
      BY WeightType DEF Width
    <3>2. QED BY <1>3, <2>2, <3>1
  <2>4. Place((x - at) % w, w, bigEndian) \in 0 .. 8
    <3>1. PICK k \in 0 .. w - 1 : k = (x - at) % w
      BY <2>2
    <3>2. Place(k, w, bigEndian) \in 0 .. 8
      BY Places DEF TypeOK, Width
    <3>3. QED BY <3>1, <3>2
  <2>5. QED BY <2>3, <2>4, DigitType DEF Byte
<1>5. mem' \in [0 .. Page - 1 -> Byte]
  BY <1>1, <1>4 DEF TypeOK
<1>6. ASSUME NEW i \in 0 .. r - 1
      PROVE  /\ at + i * w + w <= Page
             /\ \A k \in 0 .. w - 1 : mem'[at + i * w + k] = Digit(words[i], Place(k, w, bigEndian))
  <2>1. i * w + w <= r * w /\ i * w \in Nat /\ r * w \in Nat
    BY <1>2, ByteOfWord DEF Width
  <2>2. ASSUME NEW k \in 0 .. w - 1
        PROVE  mem'[at + i * w + k] = Digit(words[i], Place(k, w, bigEndian))
    <3>. DEFINE x == at + i * w + k
    <3>1. x - at = i * w + k /\ x \in Nat
      BY <1>2, <2>1 DEF Width
    <3>. HIDE DEF x
    <3>2. i * w + k \in 0 .. r * w - 1 /\ (i * w + k) \div w = i /\ (i * w + k) % w = k
      BY <1>2, ByteOfWord
    <3>3. x \in 0 .. Page - 1 /\ x >= at /\ x < at + r * w
      BY <1>2, <2>1, <3>1, <3>2, RegionAssumption
    <3>4. mem'[x] = Digit(words[(x - at) \div w], Place((x - at) % w, w, bigEndian))
      BY <1>1, <3>3
    <3>5. QED BY <3>1, <3>2, <3>4 DEF x
  <2>3. at + i * w + w <= Page
    <3>1. PICK y \in Nat, z \in Nat : y = i * w /\ z = r * w
      BY <2>1
    <3>2. w \in Nat
      BY DEF Width
    <3>3. QED BY <1>2, <2>1, <3>1, <3>2, RegionAssumption
  <2>4. QED BY <2>2, <2>3
<1>7. DOMAIN words = 0 .. r - 1
  BY DEF words
<1>8. /\ last'.addr = addr /\ last'.width = w /\ last'.words = words /\ last'.big = bigEndian
      /\ Offset + last'.addr = at
  BY <1>1 DEF at
<1>9. QED BY <1>2, <1>3, <1>5, <1>6, <1>7, <1>8 DEF Stored

\* Types, and what the last write left behind.
Inv == TypeOK /\ Stored

\* At first all bytes are 0, and nothing has been written.
LEMMA InitInv == Init => Inv
<1>. SUFFICES ASSUME Init PROVE Inv
  OBVIOUS
<1>1. 0 \in Byte
  BY BaseAssumption DEF Byte
<1>2. TypeOK
  BY <1>1 DEF Init, TypeOK, Nothing, Width
<1>3. DOMAIN last.words = {} /\ last.addr = 0
  BY DEF Init, Nothing
<1>4. QED BY <1>2, <1>3 DEF Inv, Stored

\* Each command keeps the invariant.
LEMMA NextInv ==
  ASSUME Inv, [Next]_vars
  PROVE  Inv'
<1>. USE DEF Inv
<1>1. CASE mem' = mem /\ last' = last
  <2>1. Stored'
    BY <1>1 DEF Stored
  <2>2. TypeOK'
    <3>1. CASE UNCHANGED vars
      BY <3>1 DEF vars, TypeOK
    <3>2. CASE \E w \in Width, addr \in Addr :
                 \/ \E len \in Len : Display(w, addr, len)
                 \/ \E d \in Val : \/ Change(w, addr, d)
                                   \/ \E len \in Len, inc \in Inc : Fill(w, addr, d, len, inc)
      BY <1>1, <3>2 DEF Display, Change, Fill, Write, TypeOK
    <3>3. CASE (\E big \in BOOLEAN : ChangeEndian(big)) \/ FirstLine \/ EndFile \/ Quit
      BY <1>1, <3>3 DEF ChangeEndian, FirstLine, EndFile, Quit, TypeOK
    <3>4. QED BY <3>1, <3>2, <3>3 DEF Next, Ended
  <2>3. QED BY <2>1, <2>2
<1>2. CASE ~(mem' = mem /\ last' = last)
  <2>1. PICK w \in Width, addr \in Addr, d \in Val :
          \/ Change(w, addr, d)
          \/ \E len \in Len, inc \in Inc : Fill(w, addr, d, len, inc)
    BY <1>2 DEF Next, Display, ChangeEndian, FirstLine, EndFile, Quit, Ended, vars
  <2>2. ~Invalid(addr)
    BY <2>1 DEF Change, Fill
  <2>3. addr \in 0 .. Size /\ d \in Nat
    BY <2>2, RegionAssumption, WordType DEF Invalid
  <2>4. \E n \in Nat, inc \in Nat : \E len : Write(w, addr, d, inc, n, len)
    <3>1. CASE Change(w, addr, d)
      BY <3>1 DEF Change
    <3>2. ASSUME NEW len \in Len, NEW inc \in Inc, Fill(w, addr, d, len, inc)
          PROVE  \E n \in Nat, c \in Nat : \E l : Write(w, addr, d, c, n, l)
      <4>1. len \in 0 .. Word - 1 /\ inc \in Nat
        BY RegionAssumption, WordType
      <4>2. FillCount(w, Clip(addr, len)) \in Nat
        BY <2>3, <4>1, ClipBounds, FillCountBounds
      <4>3. QED BY <3>2, <4>1, <4>2 DEF Fill
    <3>3. QED BY <2>1, <3>1, <3>2
  <2>5. mem' \in [0 .. Page - 1 -> Byte] /\ Stored'
    BY <2>3, <2>4, WriteStored
  <2>6. /\ pc' \in {pc, "fault"} /\ bigEndian' = bigEndian /\ quit' = quit
        /\ last'.width = w /\ last'.big = bigEndian
    BY <2>4 DEF Write
  <2>7. QED BY <2>5, <2>6 DEF TypeOK
<1>3. QED BY <1>1, <1>2

\* The invariant holds in every state.
LEMMA Invariance == Spec => []Inv
BY InitInv, NextInv, PTL DEF Spec

\* Variables have their types: whatever is written, each byte stays a byte.
THEOREM TypesCorrect == Spec => []TypeOK
BY Invariance, PTL DEF Inv

\* Words that were written are read back as they were written in the same endian
\* mode, and with their bytes reversed in the other one, for every value, width,
\* address and number of words.
THEOREM WordsReadBack == Spec => []WrittenIsShown
<1>1. ASSUME Inv PROVE WrittenIsShown
  <2>. SUFFICES ASSUME NEW i \in DOMAIN last.words
                PROVE  Read(Offset + last.addr + i * last.width, last.width, bigEndian) =
                         IF bigEndian = last.big THEN last.words[i]
                                                 ELSE Swap(last.words[i], last.width)
    BY DEF WrittenIsShown
  <2>. DEFINE w == last.width
              d == last.words[i]
              at == Offset + last.addr + i * w
              bytes == [k \in 0 .. w - 1 |-> mem[at + Place(k, w, bigEndian)]]
  <2>1. /\ w \in Width /\ d \in 0 .. Weight[w] - 1 /\ bigEndian \in BOOLEAN /\ last.big \in BOOLEAN
        /\ \A k \in 0 .. w - 1 : mem[at + k] = Digit(d, Place(k, w, last.big))
    BY <1>1 DEF Inv, TypeOK, Stored
  <2>2. Read(at, w, bigEndian) = Number(bytes, w)
    BY DEF Read
  <2>. HIDE DEF w, d, at
  <2>3. \A k \in 0 .. w - 1 :
          bytes[k] = Digit(d, IF bigEndian = last.big THEN k ELSE w - 1 - k)
    BY <2>1, Places
  <2>4. CASE bigEndian = last.big
    <3>1. bytes = [k \in 0 .. w - 1 |-> Digit(d, k)]
      BY <2>3, <2>4
    <3>2. Number(bytes, w) = d
      BY <2>1, <3>1, NumberOfDigits DEF Width
    <3>3. QED BY <2>2, <2>4, <3>2 DEF w, d, at
  <2>5. CASE bigEndian # last.big
    <3>1. bytes = [k \in 0 .. w - 1 |-> Digit(d, w - 1 - k)]
      BY <2>3, <2>5
    <3>2. QED BY <2>2, <2>5, <3>1 DEF w, d, at, Swap
  <2>6. QED BY <2>4, <2>5
<1>2. QED BY <1>1, Invariance, PTL

=============================================================================
