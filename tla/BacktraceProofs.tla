--------------------------- MODULE BacktraceProofs ---------------------------
(***************************************************************************)
(* Proofs about Backtrace, for every size of the table, every stack and    *)
(* whatever libbfd says of its frames.                                     *)
(*                                                                         *)
(* Limits and resources: the lines counted for a frame fit into what is    *)
(* left of the table as long as the frame is looked at (Room), and as many *)
(* strings are allocated as lines are in the table or counted (Held).      *)
(*                                                                         *)
(* Contents: the place of a line in the unlimited listing is its rank, the *)
(* number of lines of the frames before plus its own, and at each place of *)
(* the program the table has the lines up to the rank it has come to       *)
(* (Progress). The lines printed are those of the table that are kept,     *)
(* each at the place that the number of kept lines before it says          *)
(* (Listed).                                                               *)
(*                                                                         *)
(* The end: parts, frames or lines, sections and room that are left, in    *)
(* this order, become less with every step.                                *)
(***************************************************************************)
EXTENDS Backtrace, FiniteSetTheorems, WellFoundedInduction, TLAPS

\* Types of what decides where the program goes.
Typed ==
  /\ pc \in {"create", "frame", "load", "reread", "sections", "lines", "print", "destroy",
             "done", "crashed"}
  /\ bfd \in {"closed", "open"} /\ syms \in {"none", "table", "freed"}
  /\ stack \in Seq(Frame)
  /\ size \in Nat /\ count \in Nat /\ strings \in Nat
  /\ frame \in 1 .. Total + 1

\* The room in the table, and its use.
Room ==
  /\ size <= MaxLines /\ count <= MaxLines
  /\ DOMAIN lines \subseteq 1 .. MaxLines
  /\ pc \in {"load", "reread", "sections", "lines"} => size + count <= MaxLines /\ frame <= Total
  /\ pc = "lines" => size + count < MaxLines

\* What is open or allocated at each place.
Held ==
  /\ pc \in {"create", "frame", "print", "destroy", "done"} => bfd = "closed" /\ syms # "table"
  /\ pc \in {"create", "frame", "print", "destroy", "done"} => strings = size
  /\ pc \in {"load", "reread"} => count = 0 /\ syms # "table"
  /\ pc \in {"load", "reread", "sections", "lines"} => strings = size + count
  /\ pc \in {"create", "done"} => size = 0

Inv == Typed /\ Room /\ Held /\ FreedOnce

-----------------------------------------------------------------------------

\* The frames that are looked at: no more than the table has lines.
LEMMA TotalType ==
  ASSUME stack \in Seq(Frame)
  PROVE  Total \in Nat
<1>1. Len(stack) \in Nat /\ MaxLines \in Nat
  BY MaxAssumption
<1>. DEFINE S == {Len(stack), MaxLines}
<1>2. \E x \in S : \A y \in S : x <= y
  BY <1>1
<1>3. Total \in S
  BY <1>2 DEF Total, Min
<1>4. QED BY <1>1, <1>3

\* At first nothing is open, allocated or in the table.
LEMMA InitInv == Init => Inv
<1>. SUFFICES ASSUME Init PROVE Inv
  OBVIOUS
<1>1. stack \in Seq(Frame)
  BY StacksAssumption DEF Init
<1>2. Total \in Nat
  BY <1>1, TotalType
<1>3. Typed
  BY <1>1, <1>2 DEF Init, Typed
<1>4. DOMAIN lines = {}
  BY DEF Init
<1>5. QED BY <1>3, <1>4, MaxAssumption DEF Init, Inv, Room, Held, FreedOnce

\* Each step keeps types, stays within the table, and accounts for what it holds.
LEMMA StepInv ==
  ASSUME Inv, Step
  PROVE  Inv'
<1>. USE MaxAssumption DEF Inv
<1>0. Total \in Nat /\ (UNCHANGED stack => Total' = Total)
  BY TotalType DEF Typed, Total
<1>1. CASE Create
  BY <1>0, <1>1 DEF Create, Typed, Room, Held, FreedOnce, input, file, search, table
<1>2. CASE LookUp
  <2>1. UNCHANGED <<stack, size, lines, strings>> /\ count' = 0 /\ frame <= Total /\ pc = "frame"
    BY <1>2 DEF LookUp, input, table
  <2>2. \/ pc' = "frame" /\ frame' = frame + 1 /\ bfd' = bfd /\ syms' \in {syms, "none"}
        \/ pc' = "load" /\ frame' = frame /\ bfd' = "open" /\ syms' = "none"
    BY <1>2 DEF LookUp, NextFrame, file
  <2>3. QED BY <1>0, <2>1, <2>2 DEF Typed, Room, Held, FreedOnce
<1>3. CASE Load
  <2>1. UNCHANGED <<stack, size, lines, strings, count>> /\ pc = "load"
    BY <1>3 DEF Load, input, table, search
  <2>2. \/ pc' = "sections" /\ frame' = frame /\ bfd' = bfd /\ syms' = "table"
        \/ pc' = "reread" /\ frame' = frame /\ bfd' = bfd /\ syms' \in {"none", "freed"}
        \/ pc' = "frame" /\ frame' = frame + 1 /\ bfd' = "closed" /\ syms' = syms
    BY <1>3 DEF Load, CloseFile, NextFrame, Freed
  <2>3. QED BY <1>0, <2>1, <2>2 DEF Typed, Room, Held, FreedOnce
<1>4. CASE Reread
  <2>1. UNCHANGED <<stack, size, lines, strings, count>> /\ pc = "reread"
    BY <1>4 DEF Reread, input, table, search
  <2>2. \/ /\ pc' = "sections" /\ frame' = frame /\ bfd' = bfd
           /\ syms' = "table" \/ (stack[frame].file = "empty" /\ syms' = syms)
        \/ pc' = "frame" /\ frame' = frame + 1 /\ bfd' = "closed" /\ syms' = syms
    BY <1>4 DEF Reread, CloseFile, NextFrame
  <2>3. QED BY <1>0, <2>1, <2>2 DEF Typed, Room, Held, FreedOnce
<1>5. CASE Section
  <2>1. UNCHANGED <<stack, frame, bfd, syms, size, lines, strings, count>> /\ pc = "sections"
    BY <1>5 DEF Section, input, table, file
  <2>2. \/ pc' = "sections" \/ (pc' = "crashed" /\ syms = "freed")
        \/ pc' = "lines" /\ count = 0 /\ MaxLines - size # 0
    BY <1>5 DEF Section, Useful
  <2>3. QED BY <1>0, <2>1, <2>2 DEF Typed, Room, Held, FreedOnce
<1>6. CASE Line
  <2>1. /\ UNCHANGED <<stack, frame, bfd, syms, size>> /\ pc = "lines"
        /\ DOMAIN lines' = DOMAIN lines \cup {size + count + 1}
        /\ strings' = strings + 1 /\ count' = count + 1
    BY <1>6 DEF Line, input, file
  <2>2. pc' = "sections" \/ (pc' = "lines" /\ count' < MaxLines - size)
    BY <1>6 DEF Line, More
  <2>3. Typed'
    BY <1>0, <2>1, <2>2 DEF Typed
  <2>4. Room'
    BY <1>0, <2>1, <2>2 DEF Typed, Room
  <2>5. QED BY <2>1, <2>2, <2>3, <2>4 DEF Typed, Held, FreedOnce
<1>7. CASE Unload
  <2>1. /\ UNCHANGED <<stack, count, lines, strings>> /\ size' = size + count
        /\ pc = "sections"
    BY <1>7 DEF Unload, input, search
  <2>2. \/ /\ pc' = "frame" /\ frame' = frame + 1 /\ bfd' = "closed"
           /\ syms' \in {"none", "freed"}
        \/ pc' = "crashed" /\ syms = "freed" /\ UNCHANGED <<bfd, syms, frame>>
    BY <1>7 DEF Unload, NextFrame, Freed, file
  <2>3. QED BY <1>0, <2>1, <2>2 DEF Typed, Room, Held, FreedOnce
<1>8. CASE CreateDone
  BY <1>0, <1>8 DEF CreateDone, Typed, Room, Held, FreedOnce, input, search, table, file
<1>9. CASE NextLine
  <2>1. UNCHANGED <<stack, frame, bfd, syms, size, lines, strings, count>> /\ pc = "print"
    BY <1>9 DEF NextLine, input, table, file, search
  <2>2. pc' \in {"print", "destroy"}
    BY <1>9 DEF NextLine
  <2>3. QED BY <1>0, <2>1, <2>2 DEF Typed, Room, Held, FreedOnce
<1>10. CASE Destroy
  <2>1. /\ UNCHANGED <<stack, frame, bfd, syms, count>> /\ pc = "destroy" /\ pc' = "done"
        /\ DOMAIN lines' = {} /\ size' = 0 /\ strings' = strings - size
    BY <1>10 DEF Destroy, input, file, search
  <2>2. QED BY <1>0, <2>1 DEF Typed, Room, Held, FreedOnce
<1>11. QED
  BY <1>1, <1>2, <1>3, <1>4, <1>5, <1>6, <1>7, <1>8, <1>9, <1>10 DEF Step

\* The invariant holds in every state.
LEMMA Invariance == Spec => []Inv
<1>1. ASSUME Inv, [Next]_vars PROVE Inv'
  <2>1. CASE Step
    BY <1>1, <2>1, StepInv
  <2>2. CASE UNCHANGED vars
    BY <1>1, <2>2 DEF Inv, Typed, Room, Held, FreedOnce, Total, vars, input, table, file, search
  <2>3. QED BY <1>1, <2>1, <2>2 DEF Next, Done
<1>2. QED BY InitInv, <1>1, PTL DEF Spec

-----------------------------------------------------------------------------

\* No line is written past the end of the table, however the frames, sections
\* and inlined functions share it.
THEOREM TableBounded == Spec => []TypeOK
<1>1. Inv => TypeOK
  BY MaxAssumption DEF Inv, Typed, Room, TypeOK
<1>2. QED BY <1>1, Invariance, PTL

\* On no path is a file left open, or a symbol table or a string left behind.
THEOREM AllReleased == Spec => []NothingLeaks
<1>1. Inv => NothingLeaks
  BY DEF Inv, Typed, Held, NothingLeaks
<1>2. QED BY <1>1, Invariance, PTL

\* For every stack and every size of the table, whatever libbfd allocates for no
\* symbols, a symbol table is used or freed after it was freed only if both
\* reads of its file found no symbols.
THEOREM FreedTwiceOnlyIfEmpty == Spec => []FreedOnce
BY Invariance, PTL DEF Inv

-----------------------------------------------------------------------------
(* The frames and their lines. *)

\* The smaller of two numbers.
LEMMA SmallerOf ==
  ASSUME NEW a \in Int, NEW b \in Int
  PROVE  Min({a, b}) = IF a <= b THEN a ELSE b
<1>1. \E x \in {a, b} : \A y \in {a, b} : x <= y
  OBVIOUS
<1>2. Min({a, b}) \in {a, b} /\ \A y \in {a, b} : Min({a, b}) <= y
  BY <1>1 DEF Min
<1>3. QED BY <1>2

\* A set of numbers that is not empty has a smallest one.
LEMMA SmallestNumber ==
  ASSUME NEW S \in SUBSET Nat, S # {}
  PROVE  Min(S) \in S /\ \A k \in S : Min(S) <= k
<1>. DEFINE R == OpToRel(<, Nat)
<1>1. IsWellFoundedOn(R, Nat)
  BY NatLessThanWellFounded
<1>2. \A x, y \in Nat : x < y => <<x, y>> \in R
  BY DEF OpToRel
<1>. HIDE DEF R
<1>3. PICK m \in S : \A k \in S : ~(<<k, m>> \in R)
  BY <1>1, WFMin
<1>4. ASSUME NEW k \in S PROVE m <= k
  <2>1. ~(k < m)
    BY <1>2, <1>3
  <2>2. k \in Nat /\ m \in Nat
    OBVIOUS
  <2>3. QED BY <2>1, <2>2
<1>5. \E x \in S : \A y \in S : x <= y
  BY <1>4
<1>6. QED BY <1>5 DEF Min

\* How many lines there are before those of a frame.
Rank(f) == Cardinality(Before(f))

\* Line i of a frame.
Entry(f, i) == [frame |-> f, function |-> AllLines(f)[i]]

\* What is said of the frames depends on the stack only.
LEMMA SameStack ==
  ASSUME stack' = stack
  PROVE  /\ Total' = Total
         /\ \A f : KnownBy(f)' = KnownBy(f) /\ AllLines(f)' = AllLines(f) /\ Rank(f)' = Rank(f)
<1>. SUFFICES ASSUME NEW f
              PROVE  /\ Total' = Total
                     /\ KnownBy(f)' = KnownBy(f) /\ AllLines(f)' = AllLines(f) /\ Rank(f)' = Rank(f)
  OBVIOUS
<1>1. ASSUME NEW g PROVE KnownBy(g)' = KnownBy(g)
  BY DEF KnownBy
<1>2. ASSUME NEW g PROVE AllLines(g)' = AllLines(g)
  BY <1>1 DEF AllLines
<1>3. Before(f)' = Before(f)
  BY <1>2 DEF Before
<1>4. Total' = Total
  BY DEF Total
<1>5. QED BY <1>1, <1>2, <1>3, <1>4 DEF Rank

\* The frames that are looked at are frames of the stack.
LEMMA TotalBound ==
  ASSUME stack \in Seq(Frame)
  PROVE  Total \in Nat /\ Total <= Len(stack)
<1>1. Len(stack) \in Nat /\ MaxLines \in Nat
  BY MaxAssumption
<1>2. QED BY <1>1, SmallerOf DEF Total

\* The sections that know an address are numbered, and name functions.
LEMMA SectionsOf ==
  ASSUME stack \in Seq(Frame), NEW f \in 1 .. Total
  PROVE  /\ stack[f].sections \in Seq(Seq(STRING))
         /\ KnownBy(f) \in SUBSET (1 .. Len(stack[f].sections))
         /\ KnownBy(f) \in SUBSET Nat
         /\ \A s \in 1 .. Len(stack[f].sections) :
              /\ stack[f].sections[s] \in Seq(STRING)
              /\ s \in KnownBy(f) <=> stack[f].sections[s] # <<>>
<1>1. f \in 1 .. Len(stack)
  BY TotalBound
<1>2. stack[f] \in Frame
  BY <1>1
<1>3. stack[f].sections \in Seq(Seq(STRING))
  BY <1>2 DEF Frame
<1>4. QED BY <1>3 DEF KnownBy

\* The lines of a frame are those of the first section that knows its address.
LEMMA FirstSection ==
  ASSUME stack \in Seq(Frame), NEW f \in 1 .. Total, stack[f].file \in Loaded,
         NEW s \in KnownBy(f), \A t \in KnownBy(f) : s <= t
  PROVE  AllLines(f) = stack[f].sections[s]
<1>1. KnownBy(f) \in SUBSET Nat
  BY SectionsOf
<1>2. Min(KnownBy(f)) \in KnownBy(f) /\ Min(KnownBy(f)) <= s
  BY <1>1, SmallestNumber
<1>3. Min(KnownBy(f)) = s
  BY <1>1, <1>2
<1>4. QED BY <1>3 DEF AllLines

\* There are lines exactly if a file is loaded that has such a section.
LEMMA LinesOf ==
  ASSUME stack \in Seq(Frame), NEW f \in 1 .. Total
  PROVE  /\ AllLines(f) \in Seq(STRING)
         /\ Len(AllLines(f)) \in Nat /\ DOMAIN AllLines(f) = 1 .. Len(AllLines(f))
         /\ stack[f].file \in Loaded /\ KnownBy(f) # {} <=> Len(AllLines(f)) # 0
<1>1. CASE stack[f].file \in Loaded /\ KnownBy(f) # {}
  <2>1. KnownBy(f) \in SUBSET Nat
    BY SectionsOf
  <2>2. Min(KnownBy(f)) \in KnownBy(f)
    BY <1>1, <2>1, SmallestNumber
  <2>3. stack[f].sections[Min(KnownBy(f))] \in Seq(STRING) \ {<<>>}
    BY <2>2, SectionsOf
  <2>4. AllLines(f) \in Seq(STRING) \ {<<>>}
    BY <1>1, <2>3 DEF AllLines
  <2>5. QED BY <1>1, <2>4
<1>2. CASE ~(stack[f].file \in Loaded /\ KnownBy(f) # {})
  <2>1. AllLines(f) = <<>>
    BY <1>2 DEF AllLines
  <2>2. QED BY <1>2, <2>1
<1>3. QED BY <1>1, <1>2

\* As many pairs as numbers.
LEMMA PairsWith ==
  ASSUME NEW x, NEW n \in Nat
  PROVE  IsFiniteSet({x} \X (1 .. n)) /\ Cardinality({x} \X (1 .. n)) = n
<1>1. IsFiniteSet({x}) /\ Cardinality({x}) = 1
  BY FS_Singleton
<1>2. IsFiniteSet(1 .. n) /\ Cardinality(1 .. n) = n
  <2>1. 1 \in Int /\ n \in Int
    OBVIOUS
  <2>2. IsFiniteSet(1 .. n) /\ Cardinality(1 .. n) = IF 1 > n THEN 0 ELSE n - 1 + 1
    BY <2>1, FS_Interval
  <2>3. QED BY <2>2
<1>. DEFINE S == {x}
            T == 1 .. n
<1>. HIDE DEF S, T
<1>3. IsFiniteSet(S) /\ IsFiniteSet(T) /\ Cardinality(S) = 1 /\ Cardinality(T) = n
  BY <1>1, <1>2 DEF S, T
<1>4. IsFiniteSet(S \X T) /\ Cardinality(S \X T) = Cardinality(S) * Cardinality(T)
  BY <1>3, FS_Product
<1>5. Cardinality(S \X T) = n
  BY <1>3, <1>4
<1>6. QED BY <1>4, <1>5 DEF S, T

\* There are finitely many lines before a frame.
LEMMA BeforeFinite ==
  ASSUME stack \in Seq(Frame), NEW f \in 1 .. Total + 1
  PROVE  IsFiniteSet(Before(f)) /\ Rank(f) \in Nat
<1>. DEFINE lineSets == {{g} \X DOMAIN AllLines(g) : g \in 1 .. f - 1}
            setOf == [g \in 1 .. f - 1 |-> {g} \X DOMAIN AllLines(g)]
<1>1. f \in Nat /\ \A g \in 1 .. f - 1 : g \in 1 .. Total
  BY TotalBound
<1>2. ASSUME NEW g \in 1 .. f - 1 PROVE IsFiniteSet({g} \X DOMAIN AllLines(g))
  BY <1>1, LinesOf, PairsWith
<1>3. setOf \in Surjection(1 .. f - 1, lineSets)
  BY DEF Surjection
<1>4. IsFiniteSet(1 .. f - 1)
  BY <1>1, FS_Interval
<1>5. IsFiniteSet(lineSets)
  BY <1>3, <1>4, FS_Surjection
<1>6. \A T \in lineSets : IsFiniteSet(T)
  BY <1>2
<1>. HIDE DEF lineSets
<1>7. IsFiniteSet(UNION lineSets)
  BY <1>5, <1>6, FS_UNION
<1>8. QED BY <1>7, FS_CardinalityType DEF Rank, Before, lineSets

\* Before the next frame there are the lines of this one as well.
LEMMA NextRank ==
  ASSUME stack \in Seq(Frame), NEW f \in 1 .. Total
  PROVE  Rank(f + 1) = Rank(f) + Len(AllLines(f))
<1>. DEFINE own == {f} \X DOMAIN AllLines(f)
<1>1. f \in Nat /\ f + 1 \in 1 .. Total + 1 /\ f \in 1 .. Total + 1 /\ 1 .. f + 1 - 1 = (1 .. f - 1) \cup {f}
  BY TotalBound
<1>2. Before(f + 1) = Before(f) \cup own
  BY <1>1 DEF Before
<1>3. Before(f) \cap own = {}
  BY <1>1 DEF Before
<1>4. IsFiniteSet(own) /\ Cardinality(own) = Len(AllLines(f))
  BY LinesOf, PairsWith
<1>5. IsFiniteSet(Before(f)) /\ Cardinality(Before(f)) \in Nat
  BY <1>1, BeforeFinite DEF Rank
<1>. HIDE DEF own
<1>6. Cardinality(Before(f) \cup own) =
        Cardinality(Before(f)) + Cardinality(own) - Cardinality(Before(f) \cap own)
  BY <1>4, <1>5, FS_Union
<1>7. Cardinality(Before(f) \cap own) = 0
  BY <1>3, FS_EmptySet
<1>8. Len(AllLines(f)) \in Nat
  BY LinesOf
<1>9. Cardinality(Before(f) \cup own) = Cardinality(Before(f)) + Len(AllLines(f))
  BY <1>4, <1>5, <1>6, <1>7, <1>8
<1>10. QED BY <1>2, <1>9 DEF Rank

\* The lines of earlier frames come first.
LEMMA RankBefore ==
  ASSUME stack \in Seq(Frame), NEW f \in 1 .. Total + 1, NEW g \in 1 .. f - 1
  PROVE  g \in 1 .. Total /\ Rank(g) + Len(AllLines(g)) <= Rank(f)
<1>1. f \in Nat /\ g \in 1 .. Total /\ g + 1 \in 1 .. Total + 1
  BY TotalBound
<1>2. Before(g + 1) \in SUBSET Before(f)
  BY <1>1 DEF Before
<1>3. Rank(g + 1) <= Rank(f)
  BY <1>2, BeforeFinite, FS_Subset DEF Rank
<1>4. QED BY <1>1, <1>3, NextRank

-----------------------------------------------------------------------------
(* The table. *)

\* The lines of the frames before this one are in the table, as far as it goes.
Filled(f) ==
  /\ size = Min({MaxLines, Rank(f)})
  /\ 1 .. size \subseteq DOMAIN lines
  /\ \A g \in 1 .. f - 1 : \A i \in DOMAIN AllLines(g) :
       Rank(g) + i <= MaxLines => lines[Rank(g) + i] = Entry(g, i)

\* How many lines of this frame there is room for.
Taken(f) == Min({Len(AllLines(f)), MaxLines - size})

\* The lines counted for this frame follow.
Counted(f) ==
  \A i \in 1 .. count : size + i \in DOMAIN lines /\ lines[size + i] = Entry(f, i)

\* How far each part of the program has come: the sections that have been looked
\* at gave all lines there is room for if one of them knows the address, and
\* none if not; what libbfd has still to say is the rest of the frame's lines.
Progress ==
  /\ pc = "create" => frame = 1 /\ size = 0
  /\ pc \in {"frame", "load", "reread", "sections", "lines"} => Filled(frame)
  /\ pc \in {"load", "reread"} => sect = 1
  /\ pc \in {"sections", "lines"} => stack[frame].file \in Loaded /\ Counted(frame)
  /\ pc = "sections" =>
       /\ sect \in 1 .. Len(stack[frame].sections) + 1
       /\ count = IF \E s \in KnownBy(frame) : s < sect THEN Taken(frame) ELSE 0
  /\ pc = "lines" =>
       /\ sect \in KnownBy(frame)
       /\ count < Taken(frame)
       /\ chain \in Seq(STRING) /\ Len(chain) = Len(AllLines(frame)) - count
       /\ \A j \in 1 .. Len(chain) : chain[j] = AllLines(frame)[count + j]
  /\ pc = "print" => Filled(Total + 1)

\* Room for lines is what the table has left, or all of them.
LEMMA TakenValue ==
  ASSUME Inv, NEW f \in 1 .. Total
  PROVE  /\ Taken(f) = IF Len(AllLines(f)) <= MaxLines - size THEN Len(AllLines(f)) ELSE MaxLines - size
         /\ Taken(f) \in Nat
<1>1. Len(AllLines(f)) \in Nat /\ MaxLines - size \in Nat
  BY LinesOf, MaxAssumption DEF Inv, Typed, Room
<1>2. QED BY <1>1, SmallerOf DEF Taken

\* A frame whose lines there is room for have been added to the table is one
\* of those before.
LEMMA FilledNext ==
  ASSUME Inv, NEW f \in 1 .. Total, Filled(f),
         stack' = stack, lines' = lines, size' = size + Taken(f),
         \A i \in 1 .. Taken(f) : size + i \in DOMAIN lines /\ lines[size + i] = Entry(f, i)
  PROVE  Filled(f + 1)'
<1>. DEFINE n == Len(AllLines(f))
<1>1. /\ n \in Nat /\ DOMAIN AllLines(f) = 1 .. n
      /\ f \in Nat /\ f \in 1 .. Total + 1 /\ f + 1 \in 1 .. Total + 1
      /\ size \in Nat /\ MaxLines \in Nat /\ size <= MaxLines
  BY LinesOf, TotalBound, MaxAssumption DEF Inv, Typed, Room
<1>2. Rank(f) \in Nat /\ Rank(f + 1) = Rank(f) + n
  BY <1>1, BeforeFinite, NextRank DEF Inv, Typed
<1>. HIDE DEF n
<1>3. size = IF MaxLines <= Rank(f) THEN MaxLines ELSE Rank(f)
  BY <1>1, <1>2, SmallerOf DEF Filled
<1>4. Taken(f) = IF n <= MaxLines - size THEN n ELSE MaxLines - size
  BY TakenValue DEF n
<1>5. Min({MaxLines, Rank(f) + n}) = IF MaxLines <= Rank(f) + n THEN MaxLines ELSE Rank(f) + n
  BY <1>1, <1>2, SmallerOf
<1>6. size' = Min({MaxLines, Rank(f + 1)})
  <2>1. size + Taken(f) = IF MaxLines <= Rank(f) + n THEN MaxLines ELSE Rank(f) + n
    BY <1>1, <1>2, <1>3, <1>4
  <2>2. QED BY <1>2, <1>5, <2>1
<1>7. 1 .. size' \subseteq DOMAIN lines
  <2>1. ASSUME NEW k \in 1 .. size' PROVE k \in DOMAIN lines
    <3>1. CASE k <= size
      BY <1>1, <3>1 DEF Filled
    <3>2. CASE k > size
      <4>1. k - size \in 1 .. Taken(f) /\ size + (k - size) = k
        BY <1>1, <1>4, <3>2
      <4>2. QED BY <4>1
    <3>3. QED BY <1>1, <1>4, <3>1, <3>2
  <2>2. QED BY <2>1
<1>8. ASSUME NEW g \in 1 .. f, NEW i \in DOMAIN AllLines(g), Rank(g) + i <= MaxLines
      PROVE  lines[Rank(g) + i] = Entry(g, i)
  <2>1. CASE g = f
    <3>1. i \in 1 .. n /\ Rank(f) + i <= MaxLines
      BY <1>1, <1>8, <2>1
    <3>2. size = Rank(f) /\ i \in 1 .. Taken(f)
      BY <1>1, <1>2, <1>3, <1>4, <3>1
    <3>3. QED BY <2>1, <3>2
  <2>2. CASE g # f
    <3>1. g \in 1 .. f - 1
      BY <1>1, <2>2
    <3>2. QED BY <1>8, <3>1 DEF Filled
  <2>3. QED BY <2>1, <2>2
<1>9. f + 1 - 1 = f
  BY <1>1
<1>10. QED BY <1>6, <1>7, <1>8, <1>9, SameStack DEF Filled, Entry

\* A frame without lines changes nothing.
LEMMA FilledSkip ==
  ASSUME Inv, NEW f \in 1 .. Total, Filled(f), Len(AllLines(f)) = 0,
         UNCHANGED <<stack, lines, size>>
  PROVE  Filled(f + 1)'
<1>1. size \in Nat /\ MaxLines - size \in Nat
  BY MaxAssumption DEF Inv, Typed, Room
<1>2. Taken(f) = 0
  BY <1>1, TakenValue
<1>3. size' = size + Taken(f) /\ \A i \in 1 .. Taken(f) : FALSE
  BY <1>1, <1>2
<1>4. QED BY <1>3, FilledNext

\* A line that is added behind the table leaves the lines of earlier frames.
LEMMA FilledKept ==
  ASSUME Inv, NEW f \in 1 .. Total + 1, Filled(f),
         stack' = stack, size' = size, DOMAIN lines \subseteq DOMAIN lines',
         \A k \in 1 .. size : lines'[k] = lines[k]
  PROVE  Filled(f)'
<1>1. /\ f \in Nat /\ size \in Nat /\ MaxLines \in Nat /\ Rank(f) \in Nat
  BY BeforeFinite, TotalBound, MaxAssumption DEF Inv, Typed
<1>2. size = IF MaxLines <= Rank(f) THEN MaxLines ELSE Rank(f)
  BY <1>1, SmallerOf DEF Filled
<1>3. ASSUME NEW g \in 1 .. f - 1, NEW i \in DOMAIN AllLines(g), Rank(g) + i <= MaxLines
      PROVE  lines'[Rank(g) + i] = Entry(g, i)
  <2>1. g \in 1 .. Total /\ Rank(g) + Len(AllLines(g)) <= Rank(f)
    BY RankBefore DEF Inv, Typed
  <2>2. g \in 1 .. Total + 1
    BY <2>1, TotalBound DEF Inv, Typed
  <2>3. Rank(g) \in Nat /\ Len(AllLines(g)) \in Nat /\ i \in 1 .. Len(AllLines(g))
    BY <2>1, <2>2, BeforeFinite, LinesOf DEF Inv, Typed
  <2>4. Rank(g) + i \in 1 .. size
    BY <1>1, <1>2, <1>3, <2>1, <2>3
  <2>5. QED BY <1>3, <2>4 DEF Filled
<1>4. QED BY <1>3, SameStack DEF Filled, Entry

\* What is in the table stays there as long as the table does not change.
LEMMA SameTable ==
  ASSUME UNCHANGED <<stack, size, lines>>
  PROVE  \A f : /\ Filled(f)' <=> Filled(f)
                /\ Taken(f)' = Taken(f)
                /\ count' = count => (Counted(f)' <=> Counted(f))
<1>1. \A f : Filled(f)' <=> Filled(f)
  BY SameStack DEF Filled, Entry
<1>2. \A f : Taken(f)' = Taken(f)
  BY SameStack DEF Taken
<1>3. count' = count => \A f : Counted(f)' <=> Counted(f)
  BY SameStack DEF Counted, Entry
<1>4. QED BY <1>1, <1>2, <1>3

\* A line is the last one taken if there is no other, or no room for it.
LEMMA LastTaken ==
  ASSUME NEW all \in Nat, NEW room \in Nat, NEW taken, NEW c \in Nat,
         taken = IF all <= room THEN all ELSE room,
         c < taken,
         all - (c + 1) = 0 \/ ~(c + 1 < room)
  PROVE  c + 1 = taken
OBVIOUS

\* Each step of the program comes as much farther as it should.
LEMMA StepProgress ==
  ASSUME Inv, Inv', Progress, Step
  PROVE  Progress'
<1>. USE DEF Inv
<1>0. /\ stack' = stack /\ stack \in Seq(Frame)
      /\ Total \in Nat /\ Total' = Total /\ \A f : KnownBy(f)' = KnownBy(f) /\ AllLines(f)' = AllLines(f)
  BY SameStack, TotalBound DEF Step, Typed, input, Create, LookUp, Load, Reread, Section, Line,
     Unload, CreateDone, NextLine, Destroy
<1>f. PICK f \in 1 .. Total + 1 : f = frame
  BY DEF Typed
<1>1. CASE Create
  <2>1. UNCHANGED <<frame, size, lines>> /\ pc = "create" /\ pc' \in {"frame", "done"}
    BY <1>1 DEF Create, table
  <2>2. Rank(1) = 0
    <3>1. Before(1) = {}
      BY DEF Before
    <3>2. QED BY <3>1, FS_EmptySet DEF Rank
  <2>3. Filled(1)
    BY <2>1, <2>2, SmallerOf, MaxAssumption DEF Progress, Filled
  <2>4. Filled(1)' /\ frame' = 1
    BY <1>0, <2>1, <2>3, SameTable DEF Progress
  <2>5. QED BY <2>1, <2>4 DEF Progress
<1>2. CASE LookUp
  <2>1. /\ pc = "frame" /\ f \in 1 .. Total /\ UNCHANGED <<lines, size>> /\ sect' = 1
        /\ Filled(f)
    BY <1>2, <1>f DEF LookUp, table, Typed, Progress
  <2>2. CASE stack[f].file \in {"unknown", "unopened"} /\ NextFrame
    <3>1. Len(AllLines(f)) = 0
      BY <1>0, <2>1, <2>2, LinesOf DEF Loaded
    <3>2. Filled(f + 1)'
      BY <1>0, <2>1, <3>1, FilledSkip
    <3>3. frame' = f + 1 /\ pc' = "frame"
      BY <1>f, <2>2 DEF NextFrame
    <3>4. QED BY <3>2, <3>3 DEF Progress
  <2>3. CASE pc' = "load" /\ frame' = f
    <3>1. Filled(f)'
      BY <1>0, <2>1, SameTable
    <3>2. QED BY <2>1, <2>3, <3>1 DEF Progress
  <2>4. QED BY <1>2, <1>f, <2>2, <2>3 DEF LookUp
<1>3. CASE Load \/ Reread
  <2>1. /\ pc \in {"load", "reread"} /\ f \in 1 .. Total
        /\ UNCHANGED <<lines, size, sect, count>> /\ sect = 1 /\ count = 0
        /\ Filled(f)
    BY <1>3, <1>f DEF Load, Reread, table, search, Typed, Room, Held, Progress
  <2>2. CASE stack[f].file \notin Loaded /\ NextFrame
    <3>1. Len(AllLines(f)) = 0
      BY <1>0, <2>1, <2>2, LinesOf
    <3>2. Filled(f + 1)'
      BY <1>0, <2>1, <3>1, FilledSkip
    <3>3. frame' = f + 1 /\ pc' = "frame"
      BY <1>f, <2>2 DEF NextFrame
    <3>4. QED BY <3>2, <3>3 DEF Progress
  <2>3. CASE stack[f].file \in Loaded /\ pc' = "sections" /\ frame' = f
    <3>1. Filled(f)' /\ Counted(f)'
      BY <1>0, <2>1, SameTable DEF Counted
    <3>2. ~(\E s \in KnownBy(f) : s < 1) /\ 1 \in 1 .. Len(stack[f].sections) + 1
      BY <1>0, <2>1, SectionsOf
    <3>3. (count = IF \E s \in KnownBy(f) : s < sect THEN Taken(f) ELSE 0)'
      BY <1>0, <2>1, <3>2
    <3>4. QED BY <1>0, <2>1, <2>3, <3>1, <3>2, <3>3 DEF Progress
  <2>4. CASE pc' = "reread" /\ frame' = f
    <3>1. Filled(f)'
      BY <1>0, <2>1, SameTable
    <3>2. QED BY <2>1, <2>4, <3>1 DEF Progress
  <2>5. CASE Load
    BY <2>5, <1>f, <2>2, <2>3, <2>4 DEF Load, CloseFile, Loaded
  <2>6. CASE Reread
    BY <2>6, <1>f, <2>2, <2>3 DEF Reread, CloseFile, Loaded
  <2>7. QED BY <1>3, <2>5, <2>6
<1>4. CASE Section
  <2>1. /\ pc = "sections" /\ f \in 1 .. Total /\ sect <= Len(stack[f].sections)
        /\ UNCHANGED <<lines, size, count>> /\ frame' = f
        /\ Filled(f) /\ stack[f].file \in Loaded /\ Counted(f)
        /\ sect \in 1 .. Len(stack[f].sections) + 1
        /\ count = IF \E s \in KnownBy(f) : s < sect THEN Taken(f) ELSE 0
    BY <1>4, <1>f DEF Section, table, Typed, Room, Progress
  <2>2. Filled(f)' /\ Counted(f)' /\ Taken(f)' = Taken(f)
    BY <1>0, <2>1, SameTable
  <2>3. /\ sect \in 1 .. Len(stack[f].sections) /\ Found \in Seq(STRING)
        /\ sect \in KnownBy(f) <=> Found # <<>>
        /\ KnownBy(f) \in SUBSET Nat
        /\ Found = stack[f].sections[sect]
    <3>1. /\ KnownBy(f) \in SUBSET Nat /\ stack[f].sections \in Seq(Seq(STRING))
          /\ \A s \in 1 .. Len(stack[f].sections) :
               /\ stack[f].sections[s] \in Seq(STRING)
               /\ s \in KnownBy(f) <=> stack[f].sections[s] # <<>>
      BY <1>0, <2>1, SectionsOf
    <3>2. sect \in 1 .. Len(stack[f].sections) /\ Found = stack[f].sections[sect]
      BY <1>f, <2>1, <3>1 DEF Found
    <3>3. QED BY <3>1, <3>2
  <2>4. /\ Len(AllLines(f)) \in Nat
        /\ KnownBy(f) # {} <=> Len(AllLines(f)) # 0
        /\ Taken(f) = IF Len(AllLines(f)) <= MaxLines - size THEN Len(AllLines(f))
                                                             ELSE MaxLines - size
        /\ MaxLines - size \in Nat
    BY <1>0, <2>1, LinesOf, TakenValue, MaxAssumption DEF Typed, Room
  <2>5. CASE Useful /\ chain' = Found /\ pc' = "lines" /\ UNCHANGED sect
    <3>1. count = 0 /\ MaxLines - size # 0 /\ sect \in KnownBy(f)
      BY <2>3, <2>5 DEF Useful
    <3>2. Taken(f) > 0
      BY <2>4, <3>1
    <3>3. \A s \in KnownBy(f) : sect <= s
      BY <2>1, <2>3, <3>1, <3>2
    <3>4. AllLines(f) = Found
      BY <1>0, <2>1, <2>3, <3>1, <3>3, FirstSection
    <3>5. \A j \in 1 .. Len(Found) : Found[j] = AllLines(f)[0 + j]
      BY <2>3, <3>4
    <3>6. Len(Found) = Len(AllLines(f)) - 0
      BY <2>4, <3>4
    <3>7. QED BY <1>0, <2>1, <2>2, <2>3, <2>5, <3>1, <3>2, <3>5, <3>6 DEF Progress
  <2>6. CASE ~Useful /\ sect' = sect + 1 /\ UNCHANGED <<chain, pc>>
    <3>1. count = IF \E s \in KnownBy(f) : s < sect + 1 THEN Taken(f) ELSE 0
      <4>1. CASE Found = <<>>
        <5>1. \A s \in KnownBy(f) : s < sect + 1 <=> s < sect
          BY <2>3, <4>1
        <5>2. QED BY <2>1, <5>1
      <4>2. CASE Found # <<>> /\ count # 0
        <5>1. \E s \in KnownBy(f) : s < sect + 1
          BY <2>3, <4>2
        <5>2. QED BY <2>1, <4>2, <5>1
      <4>3. CASE Found # <<>> /\ count = 0
        <5>1. MaxLines - size = 0
          BY <2>6, <4>3 DEF Useful
        <5>2. QED BY <2>4, <4>3, <5>1
      <4>4. QED BY <4>1, <4>2, <4>3
    <3>2. sect' \in 1 .. Len(stack[f].sections) + 1
      BY <2>1, <2>3, <2>6
    <3>3. (count = IF \E s \in KnownBy(f) : s < sect THEN Taken(f) ELSE 0)'
      BY <1>0, <2>1, <2>2, <2>6, <3>1
    <3>4. QED BY <1>0, <2>1, <2>2, <2>6, <3>2, <3>3 DEF Progress
  <2>7. CASE pc' = "crashed"
    BY <2>7 DEF Progress
  <2>8. QED BY <1>4, <2>5, <2>6, <2>7 DEF Section
<1>5. CASE Line
  <2>1. /\ pc = "lines" /\ f \in 1 .. Total /\ frame' = f /\ size' = size
        /\ count' = count + 1 /\ chain' = Tail(chain)
        /\ Filled(f) /\ stack[f].file \in Loaded /\ Counted(f)
        /\ sect \in KnownBy(f) /\ count < Taken(f)
        /\ chain \in Seq(STRING) /\ Len(chain) = Len(AllLines(f)) - count
        /\ \A j \in 1 .. Len(chain) : chain[j] = AllLines(f)[count + j]
    BY <1>5, <1>f DEF Line, Typed, Room, Progress
  <2>2. /\ Len(AllLines(f)) \in Nat /\ count \in Nat /\ size \in Nat
        /\ Taken(f) = IF Len(AllLines(f)) <= MaxLines - size THEN Len(AllLines(f))
                                                             ELSE MaxLines - size
        /\ MaxLines - size \in Nat
    <3>1. count \in Nat /\ size \in Nat /\ MaxLines - size \in Nat
      BY MaxAssumption DEF Typed, Room
    <3>2. QED BY <1>0, <2>1, <3>1, LinesOf, TakenValue
  <2>3. /\ Head(chain) = AllLines(f)[count + 1]
        /\ chain' \in Seq(STRING) /\ Len(chain') = Len(AllLines(f)) - count'
        /\ \A j \in 1 .. Len(chain') : chain'[j] = AllLines(f)[count' + j]
    <3>1. Len(chain) \in Nat \ {0}
      BY <2>1, <2>2
    <3>2. Head(chain) = chain[1] /\ chain' \in Seq(STRING) /\ Len(chain') = Len(chain) - 1
      BY <2>1, <3>1
    <3>3. ASSUME NEW j \in 1 .. Len(chain') PROVE chain'[j] = AllLines(f)[count' + j]
      <4>1. chain'[j] = chain[j + 1] /\ j + 1 \in 1 .. Len(chain)
        BY <2>1, <3>1, <3>2
      <4>2. count + (j + 1) = count' + j
        BY <2>1, <2>2
      <4>3. QED BY <2>1, <4>1, <4>2
    <3>4. QED BY <2>1, <2>2, <3>1, <3>2, <3>3
  <2>4. /\ DOMAIN lines' = DOMAIN lines \cup {size + count + 1}
        /\ lines'[size + count + 1] = Entry(f, count + 1)
        /\ \A k \in DOMAIN lines : k # size + count + 1 => lines'[k] = lines[k]
    BY <1>5, <1>f, <2>3 DEF Line, Entry
  <2>5. Filled(f)'
    <3>1. ASSUME NEW k \in 1 .. size PROVE lines'[k] = lines[k]
      <4>1. k \in DOMAIN lines
        BY <2>1 DEF Filled
      <4>2. k # size + count + 1
        BY <2>2
      <4>3. QED BY <2>4, <4>1, <4>2
    <3>2. QED BY <1>0, <2>1, <2>4, <3>1, FilledKept
  <2>6. Counted(f)'
    <3>1. ASSUME NEW i \in 1 .. count + 1
          PROVE  size + i \in DOMAIN lines' /\ lines'[size + i] = Entry(f, i)
      <4>1. CASE i = count + 1
        BY <2>2, <2>4, <4>1
      <4>2. CASE i # count + 1
        <5>1. i \in 1 .. count /\ size + i # size + count + 1
          BY <2>2, <4>2
        <5>2. QED BY <2>1, <2>4, <5>1 DEF Counted
      <4>3. QED BY <4>1, <4>2
    <3>2. QED BY <1>0, <2>1, <3>1 DEF Counted, Entry
  <2>7. Taken(f)' = Taken(f)
    BY <1>0, <2>1 DEF Taken
  <2>8. CASE More /\ UNCHANGED <<pc, sect>>
    <3>1. count' < Taken(f)
      <4>1. chain' # <<>> /\ count' < MaxLines - size
        BY <2>8 DEF More
      <4>2. Len(chain') # 0
        BY <2>3, <4>1
      <4>3. QED BY <2>1, <2>2, <2>3, <4>1, <4>2
    <3>2. QED BY <1>0, <2>1, <2>3, <2>5, <2>6, <2>7, <2>8, <3>1 DEF Progress
  <2>9. CASE ~More /\ pc' = "sections" /\ sect' = sect + 1
    <3>1. count' = Taken(f)
      <4>1. chain' = <<>> \/ ~(count' < MaxLines - size)
        BY <2>1, <2>9 DEF More
      <4>2. chain' = <<>> => Len(AllLines(f)) - (count + 1) = 0
        BY <2>1, <2>3
      <4>3. Len(AllLines(f)) - (count + 1) = 0 \/ ~(count + 1 < MaxLines - size)
        BY <2>1, <4>1, <4>2
      <4>4. count + 1 = Taken(f)
        BY <2>1, <2>2, <4>3, LastTaken
      <4>5. QED BY <2>1, <4>4
    <3>2. sect \in 1 .. Len(stack[f].sections) /\ stack[f].sections \in Seq(Seq(STRING))
      BY <1>0, <2>1, SectionsOf
    <3>3. (\E s \in KnownBy(f) : s < sect') /\ sect' \in 1 .. Len(stack[f].sections) + 1
      <4>1. PICK n \in Nat : n = Len(stack[f].sections)
        BY <3>2
      <4>2. sect \in 1 .. n /\ sect' = sect + 1
        BY <2>9, <3>2, <4>1
      <4>3. sect < sect' /\ sect' \in 1 .. n + 1
        BY <4>2
      <4>4. QED BY <2>1, <4>1, <4>3
    <3>4. (count = IF \E s \in KnownBy(f) : s < sect THEN Taken(f) ELSE 0)'
      BY <1>0, <2>7, <3>1, <3>3
    <3>5. QED BY <1>0, <2>1, <2>5, <2>6, <2>9, <3>3, <3>4 DEF Progress
  <2>10. QED BY <1>5, <2>8, <2>9 DEF Line
<1>6. CASE Unload
  <2>1. /\ pc = "sections" /\ f \in 1 .. Total /\ sect > Len(stack[f].sections)
        /\ size' = size + count /\ lines' = lines
        /\ (frame' = f + 1 /\ pc' = "frame") \/ pc' = "crashed"
        /\ Filled(f) /\ stack[f].file \in Loaded /\ Counted(f)
        /\ sect \in 1 .. Len(stack[f].sections) + 1
        /\ count = IF \E s \in KnownBy(f) : s < sect THEN Taken(f) ELSE 0
    BY <1>6, <1>f DEF Unload, NextFrame, Typed, Room, Progress
  <2>2. \A s \in KnownBy(f) : s < sect
    <3>1. /\ KnownBy(f) \in SUBSET (1 .. Len(stack[f].sections))
          /\ stack[f].sections \in Seq(Seq(STRING))
      BY <1>0, <2>1, SectionsOf
    <3>2. QED BY <2>1, <3>1
  <2>3. count = Taken(f)
    <3>1. CASE KnownBy(f) = {}
      <4>1. Len(AllLines(f)) = 0 /\ MaxLines - size \in Nat
        BY <1>0, <2>1, <3>1, LinesOf, MaxAssumption DEF Typed, Room
      <4>2. Taken(f) = 0
        BY <2>1, <4>1, TakenValue
      <4>3. QED BY <2>1, <3>1, <4>2
    <3>2. CASE KnownBy(f) # {}
      BY <2>1, <2>2, <3>2
    <3>3. QED BY <3>1, <3>2
  <2>4. \A i \in 1 .. Taken(f) : size + i \in DOMAIN lines /\ lines[size + i] = Entry(f, i)
    BY <2>1, <2>3 DEF Counted
  <2>5. Filled(f + 1)'
    BY <1>0, <2>1, <2>3, <2>4, FilledNext
  <2>6. QED BY <2>1, <2>5 DEF Progress
<1>7. CASE CreateDone
  <2>1. /\ pc = "frame" /\ f = Total + 1 /\ pc' = "print" /\ UNCHANGED <<lines, size>>
        /\ Filled(f)
    BY <1>0, <1>7, <1>f DEF CreateDone, table, Typed, Progress
  <2>2. Filled(f)' /\ Total' + 1 = f
    BY <1>0, <2>1, SameTable
  <2>3. QED BY <2>1, <2>2 DEF Progress
<1>8. CASE NextLine
  <2>1. pc = "print" /\ pc' \in {"print", "destroy"} /\ UNCHANGED <<lines, size>>
    BY <1>8 DEF NextLine, table
  <2>2. PICK n : n = Total + 1
    OBVIOUS
  <2>3. Filled(n)' /\ Total' + 1 = n
    BY <1>0, <2>1, <2>2, SameTable DEF Progress
  <2>4. QED BY <2>1, <2>3 DEF Progress
<1>9. CASE Destroy
  BY <1>9 DEF Destroy, Progress
<1>10. QED
  BY <1>1, <1>2, <1>3, <1>4, <1>5, <1>6, <1>7, <1>8, <1>9 DEF Step

\* How far the program has come is known in every state.
LEMMA ProgressInvariance == Spec => []Progress
<1>1. Init => Progress
  BY DEF Init, Progress
<1>2. ASSUME Inv, Inv', Progress, [Next]_vars PROVE Progress'
  <2>1. CASE Step
    BY <1>2, <2>1, StepProgress
  <2>2. CASE UNCHANGED vars
    <3>1. UNCHANGED <<stack, pc, frame, sect, count, chain, lines, size>>
      BY <2>2 DEF vars, input, search, table
    <3>2. /\ Filled(frame)' <=> Filled(frame)
          /\ Filled(Total + 1)' <=> Filled(Total + 1)
          /\ Counted(frame)' <=> Counted(frame)
          /\ Taken(frame)' = Taken(frame)
          /\ KnownBy(frame)' = KnownBy(frame) /\ AllLines(frame)' = AllLines(frame)
      BY <3>1, SameTable, SameStack
    <3>3. QED BY <1>2, <3>1, <3>2 DEF Progress
  <2>3. QED BY <1>2, <2>1, <2>2 DEF Next, Done
<1>3. QED BY <1>1, <1>2, Invariance, PTL DEF Spec

\* For every stack and every size of the table, the table is the beginning of the
\* listing without a limit.
THEOREM TableTruncates == Spec => []TableIsPrefix
<1>1. ASSUME Inv, Progress PROVE TableIsPrefix
  <2>1. PICK n \in Nat : n = Total + 1 /\ 1 .. n - 1 = 1 .. Total
    BY <1>1, TotalBound DEF Inv, Typed
  <2>2. pc = "print" => Filled(n)
    BY <1>1, <2>1 DEF Progress
  <2>3. ASSUME pc = "print", NEW f \in 1 .. Total, NEW i \in DOMAIN AllLines(f), Rank(f) + i <= MaxLines
        PROVE  lines[Rank(f) + i] = Entry(f, i)
    BY <2>1, <2>2, <2>3 DEF Filled
  <2>4. pc = "print" => size = Min({MaxLines, Rank(Total + 1)})
    BY <2>1, <2>2 DEF Filled
  <2>5. QED BY <2>3, <2>4 DEF TableIsPrefix, Rank, Entry
<1>2. QED BY <1>1, Invariance, ProgressInvariance, PTL

-----------------------------------------------------------------------------
(* The listing. *)

\* The lines that were read from the table and are not excluded are printed.
Listed ==
  /\ strip \in Nat
  /\ pc \in {"create", "frame", "load", "reread", "sections", "lines"} => printed = <<>>
  /\ pc \in {"frame", "load", "reread", "sections", "lines"} => position = strip
  /\ pc = "print" =>
       /\ position \in Nat /\ strip <= position /\ (position <= size \/ position = strip)
       /\ printed \in Seq({lines[k] : k \in 1 .. size})
       /\ Len(printed) = Cardinality(Kept(position))
       /\ \A k \in Kept(position) : printed[Cardinality(Kept(k))] = lines[k]
  /\ PrintedRest

\* What is kept depends on the table only.
LEMMA SameKept ==
  ASSUME UNCHANGED <<strip, lines>>
  PROVE  \A k : Kept(k)' = Kept(k)
BY DEF Kept

\* The lines that are kept are numbered.
LEMMA KeptFinite ==
  ASSUME strip \in Nat, NEW p \in Nat
  PROVE  /\ IsFiniteSet(Kept(p)) /\ Cardinality(Kept(p)) \in Nat
         /\ Kept(p) \in SUBSET (strip + 1 .. p)
         /\ p <= strip => Kept(p) = {}
<1>1. Kept(p) \in SUBSET (strip + 1 .. p)
  BY DEF Kept
<1>2. IsFiniteSet(strip + 1 .. p)
  BY FS_Interval
<1>3. IsFiniteSet(Kept(p))
  BY <1>1, <1>2, FS_Subset
<1>4. p <= strip => Kept(p) = {}
  BY <1>1
<1>5. QED BY <1>1, <1>3, <1>4, FS_CardinalityType

\* A line that is kept has one of the first places among those that are kept.
LEMMA KeptPlace ==
  ASSUME strip \in Nat, NEW p \in Nat, NEW k \in Kept(p)
  PROVE  k \in Nat /\ Cardinality(Kept(k)) \in 1 .. Cardinality(Kept(p))
<1>1. k \in strip + 1 .. p /\ k \in Nat
  BY DEF Kept
<1>2. Kept(k) \in SUBSET Kept(p) /\ k \in Kept(k)
  BY <1>1 DEF Kept
<1>3. Cardinality(Kept(k)) <= Cardinality(Kept(p))
  BY <1>2, KeptFinite, FS_Subset
<1>4. IsFiniteSet(Kept(k)) /\ Cardinality(Kept(k)) \in Nat
  BY <1>1, KeptFinite
<1>5. Cardinality(Kept(k)) # 0
  BY <1>2, <1>4, FS_EmptySet
<1>6. QED BY <1>1, <1>3, <1>4, <1>5, KeptFinite

\* The next line is kept, or left out.
LEMMA KeptNext ==
  ASSUME strip \in Nat, NEW p \in Nat, strip <= p
  PROVE  /\ lines[p + 1].function \in Excluded => Kept(p + 1) = Kept(p)
         /\ lines[p + 1].function \notin Excluded =>
              /\ Kept(p + 1) = Kept(p) \cup {p + 1}
              /\ Cardinality(Kept(p + 1)) = Cardinality(Kept(p)) + 1
<1>1. strip + 1 .. p + 1 = (strip + 1 .. p) \cup {p + 1} /\ p + 1 \notin strip + 1 .. p
  OBVIOUS
<1>2. lines[p + 1].function \in Excluded => Kept(p + 1) = Kept(p)
  BY <1>1 DEF Kept
<1>3. lines[p + 1].function \notin Excluded => Kept(p + 1) = Kept(p) \cup {p + 1}
  BY <1>1 DEF Kept
<1>4. p + 1 \notin Kept(p)
  BY <1>1 DEF Kept
<1>5. Cardinality(Kept(p) \cup {p + 1}) = Cardinality(Kept(p)) + 1
  BY <1>4, KeptFinite, FS_AddElement
<1>6. QED BY <1>2, <1>3, <1>5

\* Each step keeps what is said of the listing.
LEMMA StepListed ==
  ASSUME Inv, Listed, Step
  PROVE  Listed'
<1>1. strip' = strip /\ strip \in Nat
  BY DEF Listed, Step, input, Create, LookUp, Load, Reread, Section, Line, Unload,
     CreateDone, NextLine, Destroy
<1>2. CASE NextLine
  <2>1. pc = "print" /\ UNCHANGED <<lines, size>> /\ size \in Nat
    BY <1>2 DEF NextLine, table, Inv, Typed
  <2>2. PICK p \in Nat : p = position
    BY <2>1 DEF Listed
  <2>3. /\ strip <= p /\ (p <= size \/ p = strip)
        /\ printed \in Seq({lines[k] : k \in 1 .. size})
        /\ Len(printed) = Cardinality(Kept(p))
        /\ \A k \in Kept(p) : printed[Cardinality(Kept(k))] = lines[k]
    BY <2>1, <2>2 DEF Listed
  <2>4. \A k : Kept(k)' = Kept(k)
    BY <1>1, <2>1, SameKept
  <2>5. CASE p >= size /\ pc' = "destroy" /\ UNCHANGED <<position, printed>>
    <3>1. Kept(size) = Kept(p)
      <4>1. CASE p = size
        BY <4>1
      <4>2. CASE p # size
        <5>1. p <= strip /\ size <= strip
          BY <1>1, <2>1, <2>3, <2>5, <4>2
        <5>2. QED BY <1>1, <2>1, <5>1, KeptFinite
      <4>3. QED BY <4>1, <4>2
    <3>2. PrintedRest'
      BY <2>1, <2>3, <2>4, <2>5, <3>1 DEF PrintedRest
    <3>3. QED BY <1>1, <2>5, <3>2 DEF Listed
  <2>6. CASE /\ p < size /\ UNCHANGED pc /\ position' = p + 1
             /\ printed' = IF lines[p + 1].function \in Excluded THEN printed
                           ELSE Append(printed, lines[p + 1])
    <3>. DEFINE S == {lines[k] : k \in 1 .. size}
    <3>1. p + 1 \in Nat /\ strip <= p + 1 /\ p + 1 <= size /\ lines[p + 1] \in S
      BY <1>1, <2>1, <2>3, <2>6
    <3>2. /\ printed' \in Seq(S) /\ Len(printed') = Cardinality(Kept(p + 1))
          /\ \A k \in Kept(p + 1) : printed'[Cardinality(Kept(k))] = lines[k]
      <4>. HIDE DEF S
      <4>1. CASE lines[p + 1].function \in Excluded
        BY <1>1, <2>3, <2>6, <4>1, KeptNext DEF S
      <4>2. CASE lines[p + 1].function \notin Excluded
        <5>1. /\ Kept(p + 1) = Kept(p) \cup {p + 1}
              /\ Cardinality(Kept(p + 1)) = Cardinality(Kept(p)) + 1
          BY <1>1, <2>3, <4>2, KeptNext
        <5>2. printed \in Seq(S) /\ printed' = Append(printed, lines[p + 1])
          BY <2>3, <2>6, <4>2 DEF S
        <5>3. /\ printed' \in Seq(S) /\ Len(printed') = Len(printed) + 1
              /\ printed'[Len(printed) + 1] = lines[p + 1]
              /\ \A j \in 1 .. Len(printed) : printed'[j] = printed[j]
          BY <3>1, <5>2
        <5>4. ASSUME NEW k \in Kept(p + 1) PROVE printed'[Cardinality(Kept(k))] = lines[k]
          <6>1. CASE k = p + 1
            BY <2>3, <5>1, <5>3, <6>1
          <6>2. CASE k \in Kept(p)
            <7>1. Cardinality(Kept(k)) \in 1 .. Len(printed)
              BY <1>1, <2>3, <6>2, KeptPlace
            <7>2. QED BY <2>3, <5>3, <6>2, <7>1
          <6>3. QED BY <5>1, <6>1, <6>2
        <5>5. QED BY <2>3, <5>1, <5>3, <5>4
      <4>3. QED BY <4>1, <4>2
    <3>3. UNCHANGED lines /\ pc' = "print"
      BY <2>1, <2>6
    <3>4. QED BY <1>1, <2>1, <2>4, <2>6, <3>1, <3>2, <3>3 DEF Listed, PrintedRest
  <2>7. QED BY <1>2, <2>2, <2>5, <2>6 DEF NextLine
<1>3. CASE CreateDone
  <2>1. /\ pc = "frame" /\ pc' = "print" /\ UNCHANGED <<position, printed>> /\ position' = strip
        /\ printed' = <<>>
    BY <1>3 DEF CreateDone, Listed
  <2>2. Kept(strip)' = {} /\ strip' \in Nat
    BY <1>1 DEF Kept
  <2>3. Cardinality(Kept(strip)') = 0
    BY <2>2, FS_EmptySet
  <2>4. QED BY <1>1, <2>1, <2>2, <2>3 DEF Listed, PrintedRest
<1>4. CASE Create
  BY <1>1, <1>4 DEF Create, Listed, PrintedRest
<1>5. CASE LookUp \/ Load \/ Reread \/ Section \/ Line \/ Unload
  <2>1. /\ pc \in {"frame", "load", "reread", "sections", "lines"}
        /\ pc' \in {"frame", "load", "reread", "sections", "lines", "crashed"}
        /\ UNCHANGED <<position, printed>>
    BY <1>5 DEF LookUp, Load, Reread, Section, Line, Unload, NextFrame, CloseFile
  <2>2. QED BY <1>1, <2>1 DEF Listed, PrintedRest
<1>6. CASE Destroy
  BY <1>1, <1>6 DEF Destroy, Listed, PrintedRest
<1>7. QED BY <1>2, <1>3, <1>4, <1>5, <1>6 DEF Step

\* What has been printed is known in every state.
LEMMA ListedInvariance == Spec => []Listed
<1>1. Init => Listed
  BY MaxAssumption DEF Init, Listed, PrintedRest
<1>2. ASSUME Inv, Listed, [Next]_vars PROVE Listed'
  <2>1. CASE Step
    BY <1>2, <2>1, StepListed
  <2>2. CASE UNCHANGED vars
    <3>1. UNCHANGED <<strip, pc, position, printed, lines, size>>
      BY <2>2 DEF vars, input, table
    <3>2. \A k : Kept(k)' = Kept(k)
      BY <3>1, SameKept
    <3>3. QED BY <1>2, <3>1, <3>2 DEF Listed, PrintedRest
  <2>3. QED BY <1>2, <2>1, <2>2 DEF Next, Done
<1>3. QED BY <1>1, <1>2, Invariance, PTL DEF Spec

\* For every table, strip and set of excluded functions, the listing has the lines
\* that remain, each at its place.
THEOREM ListingComplete == Spec => []PrintedRest
BY ListedInvariance, PTL DEF Listed

-----------------------------------------------------------------------------
(* The end.  Part by part, frame by frame, section by section and line by  *)
(* line, what is left to do becomes less.                                  *)

\* Five numbers become fewer if the first one that changes becomes smaller.
Fewer == LexProductOrdering(OpToRel(<, Nat), Nat, 5)

\* Nothing becomes fewer without end.
LEMMA FewerEnds == IsWellFoundedOn(Fewer, [1 .. 5 -> Nat])
<1>. DEFINE R == OpToRel(<, Nat)
<1>1. IsWellFoundedOn(R, Nat)
  BY NatLessThanWellFounded
<1>. HIDE DEF R
<1>2. IsWellFoundedOn(LexProductOrdering(R, Nat, 5), [1 .. 5 -> Nat])
  BY <1>1, WFLexProductOrdering
<1>3. QED BY <1>2 DEF Fewer, R

\* The number that becomes smaller, at its place.
LEMMA FewerAt ==
  ASSUME NEW a \in [1 .. 5 -> Nat], NEW b \in [1 .. 5 -> Nat], NEW k \in 1 .. 5,
         a[k] < b[k], \A j \in 1 .. k - 1 : a[j] = b[j]
  PROVE  <<a, b>> \in Fewer
<1>. DEFINE R == OpToRel(<, Nat)
<1>1. <<a[k], b[k]>> \in R
  BY DEF OpToRel
<1>. HIDE DEF R
<1>2. <<a, b>> \in LexProductOrdering(R, Nat, 5)
  BY <1>1 DEF LexProductOrdering
<1>3. QED BY <1>2 DEF Fewer, R

\* The same with the places written out.
FirstFewer(a, b) ==
  \/ a[1] < b[1]
  \/ a[1] = b[1] /\ a[2] < b[2]
  \/ a[1] = b[1] /\ a[2] = b[2] /\ a[3] < b[3]
  \/ a[1] = b[1] /\ a[2] = b[2] /\ a[3] = b[3] /\ a[4] < b[4]
  \/ a[1] = b[1] /\ a[2] = b[2] /\ a[3] = b[3] /\ a[4] = b[4] /\ a[5] < b[5]

\* Then the numbers become fewer.
LEMMA FewerNumbers ==
  ASSUME NEW a \in [1 .. 5 -> Nat], NEW b \in [1 .. 5 -> Nat], FirstFewer(a, b)
  PROVE  <<a, b>> \in Fewer
<1>1. \E k \in 1 .. 5 : a[k] < b[k] /\ \A j \in 1 .. k - 1 : a[j] = b[j]
  <2>1. CASE a[1] < b[1]
    BY <2>1
  <2>2. CASE a[1] = b[1] /\ a[2] < b[2]
    BY <2>2
  <2>3. CASE a[1] = b[1] /\ a[2] = b[2] /\ a[3] < b[3]
    BY <2>3
  <2>4. CASE a[1] = b[1] /\ a[2] = b[2] /\ a[3] = b[3] /\ a[4] < b[4]
    BY <2>4
  <2>5. CASE a[1] = b[1] /\ a[2] = b[2] /\ a[3] = b[3] /\ a[4] = b[4] /\ a[5] < b[5]
    BY <2>5
  <2>6. QED BY <2>1, <2>2, <2>3, <2>4, <2>5 DEF FirstFewer
<1>2. QED BY <1>1, FewerAt


Creating == {"frame", "load", "reread", "sections", "lines"}

\* The parts of the program.
PartsLeft ==
  CASE pc = "create"  -> 4
    [] pc \in Creating -> 3
    [] pc = "print"   -> 2
    [] pc = "destroy" -> 1
    [] OTHER          -> 0

\* Frames to look at, then lines to print.
ItemsLeft ==
  CASE pc \in Creating -> Total + 1 - frame
    [] pc = "print"    -> IF position < size THEN size - position ELSE 0
    [] OTHER           -> 0

\* Before a frame's sections come its look-up and the reads of its file.
Openings ==
  CASE pc = "frame"  -> 3
    [] pc = "load"   -> 2
    [] pc = "reread" -> 1
    [] OTHER         -> 0

SectionsLeft ==
  IF pc \in {"sections", "lines"} THEN Len(stack[frame].sections) + 1 - sect ELSE 0

\* Room in the table while a section's lines are added, and the look at the section.
RoomLeft ==
  CASE pc = "sections" -> MaxLines + 1
    [] pc = "lines"    -> MaxLines - size - count
    [] OTHER           -> 0

Work == <<PartsLeft, ItemsLeft, Openings, SectionsLeft, RoomLeft>>

\* What is left is counted in numbers.
LEMMA WorkType ==
  ASSUME Inv, Progress, Listed
  PROVE  Work \in [1 .. 5 -> Nat]
<1>1. PartsLeft \in Nat /\ Openings \in Nat
  BY DEF PartsLeft, Openings
<1>2. Total \in Nat /\ frame \in 1 .. Total + 1 /\ size \in Nat /\ count \in Nat
  BY TotalBound DEF Inv, Typed
<1>3. ItemsLeft \in Nat
  <2>1. pc = "print" => position \in Nat
    BY DEF Listed
  <2>2. QED BY <1>2, <2>1 DEF ItemsLeft, Creating
<1>4. SectionsLeft \in Nat
  <2>. SUFFICES ASSUME pc \in {"sections", "lines"} PROVE SectionsLeft \in Nat
    BY DEF SectionsLeft
  <2>1. PICK f \in 1 .. Total : f = frame
    BY <1>2 DEF Inv, Room
  <2>2. /\ stack[f].sections \in Seq(Seq(STRING))
        /\ KnownBy(f) \in SUBSET (1 .. Len(stack[f].sections))
    BY SectionsOf DEF Inv, Typed
  <2>3. Len(stack[f].sections) \in Nat
    BY <2>2
  <2>4. sect \in 1 .. Len(stack[f].sections) + 1
    BY <2>1, <2>2, <2>3 DEF Progress
  <2>5. QED BY <2>1, <2>3, <2>4 DEF SectionsLeft
<1>5. RoomLeft \in Nat
  BY <1>2, MaxAssumption DEF RoomLeft, Inv, Room
<1>6. QED BY <1>1, <1>3, <1>4, <1>5 DEF Work

\* Each step leaves less to do.
LEMMA StepShrinks ==
  ASSUME Inv, Progress, Listed, Work \in [1 .. 5 -> Nat], Work' \in [1 .. 5 -> Nat], Step
  PROVE  <<Work', Work>> \in Fewer
<1>. DEFINE a == Work'
            b == Work
<1>1. /\ a \in [1 .. 5 -> Nat] /\ b \in [1 .. 5 -> Nat]
      /\ a[1] = PartsLeft' /\ b[1] = PartsLeft
      /\ a[2] = ItemsLeft' /\ b[2] = ItemsLeft
      /\ a[3] = Openings' /\ b[3] = Openings
      /\ a[4] = SectionsLeft' /\ b[4] = SectionsLeft
      /\ a[5] = RoomLeft' /\ b[5] = RoomLeft
  BY DEF Work
<1>. HIDE DEF a, b
<1>. SUFFICES FirstFewer(a, b)
  BY <1>1, FewerNumbers DEF a, b
<1>2. /\ Total \in Nat /\ frame \in 1 .. Total + 1 /\ size \in Nat /\ count \in Nat
      /\ UNCHANGED stack => Total' = Total
  BY TotalBound DEF Inv, Typed, Total
<1>3. CASE Create \/ CreateDone \/ Destroy
  <2>1. PartsLeft' < PartsLeft
    BY <1>3 DEF Create, CreateDone, Destroy, PartsLeft, Creating
  <2>2. QED BY <1>1, <2>1 DEF FirstFewer
<1>4. ASSUME UNCHANGED stack, pc \in Creating, NextFrame PROVE FirstFewer(a, b)
  <2>1. pc' = "frame" /\ frame' = frame + 1
    BY <1>4 DEF NextFrame
  <2>2. PartsLeft' = PartsLeft /\ ItemsLeft' < ItemsLeft
    BY <1>2, <1>4, <2>1 DEF PartsLeft, ItemsLeft, Creating
  <2>3. QED BY <1>1, <2>2 DEF FirstFewer
<1>5. ASSUME UNCHANGED <<stack, frame>>, pc \in Creating, pc' \in Creating
      PROVE  PartsLeft' = PartsLeft /\ ItemsLeft' = ItemsLeft
  BY <1>2, <1>5 DEF PartsLeft, ItemsLeft, Creating
<1>6. ASSUME UNCHANGED <<stack, frame>>,
             \/ pc = "frame" /\ pc' = "load"
             \/ pc = "load" /\ pc' \in {"reread", "sections"}
             \/ pc = "reread" /\ pc' = "sections"
      PROVE  FirstFewer(a, b)
  <2>1. pc \in Creating /\ pc' \in Creating
    BY <1>6 DEF Creating
  <2>2. Openings' < Openings
    BY <1>6 DEF Openings
  <2>3. QED BY <1>1, <1>5, <1>6, <2>1, <2>2 DEF FirstFewer
<1>c. ASSUME pc \in Creating, pc' = "crashed" PROVE FirstFewer(a, b)
  <2>1. PartsLeft' < PartsLeft
    BY <1>c DEF PartsLeft, Creating
  <2>2. QED BY <1>1, <2>1 DEF FirstFewer
<1>7. CASE LookUp \/ Load \/ Reread
  <2>1. /\ UNCHANGED stack /\ pc \in Creating
        /\ \/ NextFrame
           \/ /\ frame' = frame
              /\ \/ pc = "frame" /\ pc' = "load"
                 \/ pc = "load" /\ pc' \in {"reread", "sections"}
                 \/ pc = "reread" /\ pc' = "sections"
    BY <1>7 DEF LookUp, Load, Reread, CloseFile, input, Creating
  <2>2. QED BY <1>4, <1>6, <2>1
<1>8. CASE Unload
  BY <1>4, <1>8, <1>c DEF Unload, input, Creating
<1>9. CASE (Section \/ Line) /\ pc' # "crashed"
  <2>1. /\ UNCHANGED <<stack, frame, size>>
        /\ pc \in {"sections", "lines"} /\ pc' \in {"sections", "lines"}
        /\ \/ pc = "sections" /\ pc' = "lines" /\ sect' = sect /\ count' = count
           \/ pc' = "sections" /\ sect' = sect + 1
           \/ pc = "lines" /\ pc' = "lines" /\ sect' = sect /\ count' = count + 1
    BY <1>9 DEF Section, Line, input, table
  <2>2. PartsLeft' = PartsLeft /\ ItemsLeft' = ItemsLeft
    BY <1>5, <2>1 DEF Creating
  <2>3. Openings' = Openings
    BY <2>1 DEF Openings
  <2>4. PICK n : n = Len(stack[frame].sections)
    OBVIOUS
  <2>5. n \in Nat /\ sect \in Int
    <3>1. PICK f \in 1 .. Total : f = frame
      BY <1>2, <2>1 DEF Inv, Room
    <3>2. /\ stack[f].sections \in Seq(Seq(STRING))
          /\ KnownBy(f) \in SUBSET Nat
      BY SectionsOf DEF Inv, Typed
    <3>3. n \in Nat
      BY <2>4, <3>1, <3>2
    <3>4. QED BY <2>1, <3>1, <3>2, <3>3 DEF Progress
  <2>6. SectionsLeft = n + 1 - sect /\ SectionsLeft' = n + 1 - sect'
    BY <2>1, <2>4 DEF SectionsLeft
  <2>7. CASE pc' = "sections" /\ sect' = sect + 1
    <3>1. SectionsLeft' < SectionsLeft
      BY <2>5, <2>6, <2>7
    <3>2. QED BY <1>1, <2>2, <2>3, <3>1 DEF FirstFewer
  <2>8. CASE sect' = sect /\ RoomLeft' < RoomLeft
    BY <1>1, <2>2, <2>3, <2>6, <2>8 DEF FirstFewer
  <2>9. CASE pc = "sections" /\ pc' = "lines" /\ sect' = sect /\ count' = count
    <3>1. RoomLeft' < RoomLeft
      BY <1>2, <2>1, <2>9, MaxAssumption DEF RoomLeft
    <3>2. QED BY <2>8, <2>9, <3>1
  <2>10. CASE pc = "lines" /\ pc' = "lines" /\ sect' = sect /\ count' = count + 1
    <3>1. RoomLeft' < RoomLeft
      BY <1>2, <2>1, <2>10, MaxAssumption DEF RoomLeft
    <3>2. QED BY <2>8, <2>10, <3>1
  <2>11. QED BY <2>1, <2>7, <2>9, <2>10
<1>10. CASE NextLine
  <2>1. pc = "print" /\ position \in Nat /\ size' = size
    BY <1>10 DEF NextLine, Listed, table
  <2>2. CASE pc' = "destroy"
    <3>1. PartsLeft' < PartsLeft
      BY <2>1, <2>2 DEF PartsLeft, Creating
    <3>2. QED BY <1>1, <3>1 DEF FirstFewer
  <2>3. CASE pc' = "print" /\ position < size /\ position' = position + 1
    <3>1. PartsLeft' = PartsLeft /\ ItemsLeft' < ItemsLeft
      BY <1>2, <2>1, <2>3 DEF PartsLeft, ItemsLeft, Creating
    <3>2. QED BY <1>1, <3>1 DEF FirstFewer
  <2>4. QED BY <1>10, <2>1, <2>2, <2>3 DEF NextLine
<1>11. CASE Section /\ pc' = "crashed"
  BY <1>c, <1>11 DEF Section, Creating
<1>12. CASE Line /\ pc' = "crashed"
  BY <1>12 DEF Line
<1>13. QED
  BY <1>3, <1>7, <1>8, <1>9, <1>10, <1>11, <1>12 DEF Step

\* The program ends, for every stack and table: each step leaves less to do, and
\* nothing becomes less without end.
THEOREM WorkEnds ==
  /\ IsWellFoundedOn(Fewer, [1 .. 5 -> Nat])
  /\ Spec => /\ [](Work \in [1 .. 5 -> Nat])
             /\ [][Step => <<Work', Work>> \in Fewer]_vars
<1>1. Inv /\ Progress /\ Listed => Work \in [1 .. 5 -> Nat]
  BY WorkType
<1>2. /\ Inv /\ Progress /\ Listed
      /\ Work \in [1 .. 5 -> Nat] /\ (Work \in [1 .. 5 -> Nat])'
      /\ Step
      => <<Work', Work>> \in Fewer
  BY StepShrinks
<1>3. Spec => /\ [](Work \in [1 .. 5 -> Nat])
              /\ [][Step => <<Work', Work>> \in Fewer]_vars
  BY <1>1, <1>2, Invariance, ProgressInvariance, ListedInvariance, PTL
<1>4. QED BY <1>3, FewerEnds

=============================================================================
