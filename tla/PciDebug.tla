------------------------------ MODULE PciDebug ------------------------------
(***************************************************************************)
(* trace/tool/pci/pci_debug.c: display, change and fill the memory of a    *)
(* PCI BAR, from a command file and then from a prompt.  The BAR is mapped *)
(* in whole pages; addresses on the command line are bytes from its start. *)
(* Integers are scaled: an int has four bytes of Base values each.         *)
(***************************************************************************)
EXTENDS Bytes, FiniteSetsExt

CONSTANTS
  Page,              \* bytes that are mapped
  Offset, Size,      \* where in them the BAR starts, and its size
  Addr, Len,         \* bound: addresses and lengths typed
  Val, Inc           \* bound: values and increments typed

Word   == Weight[4]
Byte   == 0 .. Base - 1
Region == Offset .. Offset + Size - 1
Width  == {1, 2, 4}  \* 8, 16 and 32 bits

ASSUME RegionAssumption ==
  /\ Size \in Nat \ {0} /\ Offset \in Nat /\ Page \in Nat
  /\ Offset + Size <= Page /\ 2 * Size < Word
  /\ Addr \cup Len \cup Val \cup Inc \subseteq 0 .. Word - 1

VARIABLES
  mem,               \* the mapped bytes
  bigEndian,         \* big_endian
  pc,                \* "first", "file": useCmdFile; "prompt"; "exit"; "fault"
  quit,              \* -q
  last               \* history: the last write, as asked for and as done

vars == <<mem, bigEndian, pc, quit, last>>

-----------------------------------------------------------------------------
(* Conversions and low-level access. *)

Signed(x) == IF 2 * x >= Word THEN x - Word ELSE x

\* Mutation: two-byte accesses are swapped, longer ones are not.
PlaceShort(k, w, big) == IF big /\ w = 2 THEN 1 - k ELSE k

\* Where byte k of a word is stored: bswap for big-endian access.
Place(k, w, big) == IF big THEN w - 1 - k ELSE k

\* read_8, read_le16 ... read_be32
Read(at, w, big) == Number([k \in 0 .. w - 1 |-> mem[at + Place(k, w, big)]], w)

Swap(d, w) == Number([k \in 0 .. w - 1 |-> Digit(d, w - 1 - k)], w)

-----------------------------------------------------------------------------
(* Checks and loops of the commands. *)

\* Mutation: one byte more.
InvalidLate(addr) == addr > Size + 1

\* addr > dev->size, compared without sign.
Invalid(addr) == addr > Size

\* The number of bytes to go through: addr + len wraps around like an int.
Clip(addr, len) == IF (addr + len) % Word > Size THEN Size ELSE Signed(len)

\* for (i = 0; i < len; i += w)
DisplayCount(w, len) == IF len <= 0 THEN 0 ELSE (len + w - 1) \div w

\* Mutation: the loop of display_mem.
FillCountUp(w, len) == IF len <= 0 THEN 0 ELSE (len + w - 1) \div w

\* for (i = 0; i < len/w; i++)
FillCount(w, len) == IF len <= 0 THEN 0 ELSE len \div w

\* How many of n accesses of width w succeed before one leaves the page.
Reached(w, addr, n) == Min({n, (Page - Offset - addr) \div w})

\* write_8, write_le16 ... write_be32, for the words d, d + inc, ...
Write(w, addr, d, inc, n, len) ==
  LET k == Reached(w, addr, n)
      words == [i \in 0 .. k - 1 |-> (d + i * inc) % Weight[w]]
      at == Offset + addr
  IN  /\ mem' = [x \in 0 .. Page - 1 |->
                   IF x >= at /\ x < at + k * w
                   THEN Digit(words[(x - at) \div w], Place((x - at) % w, w, bigEndian))
                   ELSE mem[x]]
      /\ last' = [width |-> w, addr |-> addr, len |-> len, words |-> words, big |-> bigEndian]
      /\ pc' = IF k = n THEN pc ELSE "fault"
      /\ UNCHANGED <<bigEndian, quit>>

-----------------------------------------------------------------------------

Nothing == [width |-> 1, addr |-> 0, len |-> 0, words |-> [i \in {} |-> 0], big |-> FALSE]

Init ==
  /\ mem = [x \in 0 .. Page - 1 |-> 0]
  /\ bigEndian = FALSE
  /\ quit \in BOOLEAN
  /\ pc \in {"first", IF quit THEN "exit" ELSE "prompt"}
  /\ last = Nothing

Reading == pc \in {"file", "prompt"}

\* display_mem: reads, and prints what it reads.
Display(w, addr, len) ==
  /\ Reading /\ ~Invalid(addr)
  /\ LET n == DisplayCount(w, Clip(addr, len))
     IN  pc' = IF Reached(w, addr, n) = n THEN pc ELSE "fault"
  /\ UNCHANGED <<mem, bigEndian, quit, last>>

\* change_mem
Change(w, addr, val) ==
  /\ Reading /\ ~Invalid(addr)
  /\ Write(w, addr, val, 0, 1, w)

\* fill_mem
Fill(w, addr, val, len, inc) ==
  /\ Reading /\ ~Invalid(addr)
  /\ Write(w, addr, val, inc, FillCount(w, Clip(addr, len)), len)

\* change_endian with a mode
ChangeEndian(big) ==
  /\ Reading
  /\ bigEndian' = big
  /\ UNCHANGED <<mem, pc, quit, last>>

\* useCmdFile: the first line names the BAR the commands are for.  The program
\* ends if it cannot open the file.
FirstLine ==
  /\ pc = "first"
  /\ pc' \in {"file", "exit"}
  /\ UNCHANGED <<mem, bigEndian, quit, last>>

\* It names another, or the file ends: on to the prompt, unless there was -q.
EndFile ==
  /\ pc \in {"first", "file"}
  /\ pc' = IF quit THEN "exit" ELSE "prompt"
  /\ UNCHANGED <<mem, bigEndian, quit, last>>

\* The command q, at the prompt; in a file it only causes a warning.
Quit ==
  /\ pc = "prompt"
  /\ pc' = "exit"
  /\ UNCHANGED <<mem, bigEndian, quit, last>>

Ended == pc \in {"exit", "fault"} /\ UNCHANGED vars

Next ==
  \/ \E w \in Width, addr \in Addr :
       \/ \E len \in Len : Display(w, addr, len)
       \/ \E val \in Val :
            \/ Change(w, addr, val)
            \/ \E len \in Len, inc \in Inc : Fill(w, addr, val, len, inc)
  \/ \E big \in BOOLEAN : ChangeEndian(big)
  \/ FirstLine \/ EndFile \/ Quit \/ Ended

Spec == Init /\ [][Next]_vars

-----------------------------------------------------------------------------
(* Properties. *)

\* Variables have their types: each byte stays a byte.
TypeOK ==
  /\ mem \in [0 .. Page - 1 -> Byte]
  /\ bigEndian \in BOOLEAN /\ quit \in BOOLEAN
  /\ pc \in {"first", "file", "prompt", "exit", "fault"}
  /\ last.width \in Width /\ last.big \in BOOLEAN

\* What change_mem or fill_mem wrote is what display_mem shows for the same
\* width and address, word by word; in the other endian mode it shows the same
\* bytes in reverse order, whichever way the mode was changed in between.
WrittenIsShown ==
  \A i \in DOMAIN last.words :
    Read(Offset + last.addr + i * last.width, last.width, bigEndian) =
      IF bigEndian = last.big THEN last.words[i] ELSE Swap(last.words[i], last.width)

\* "len - length (in bytes)" (line 374): a write to a range inside the BAR
\* changes no byte outside that range, whatever its width, and does not fail.
LengthInBytes ==
  [][mem' # mem /\ last'.addr + last'.len <= Size =>
       /\ pc' # "fault"
       /\ \A x \in 0 .. Page - 1 :
            mem'[x] # mem[x] => x - Offset \in last'.addr .. last'.addr + last'.len - 1]_vars

\* However numbers wrap around, what a command writes begins at the end of the
\* BAR at the latest and is no longer than the BAR or than one word (lines 522,
\* 592 to 597): a range of bytes is cut to the size even if it begins later.
WritesBounded ==
  [][mem' # mem =>
       /\ last'.addr <= Size
       /\ \A x \in 0 .. Page - 1 :
            mem'[x] # mem[x] =>
              x - Offset - last'.addr \in 0 .. Max({Size, last'.width}) - 1]_vars

\* "Truncate" (line 594): a fill that begins inside the BAR ends there; what is
\* too long is cut off, and no byte beyond the BAR changes.
FillTruncated ==
  [][mem' # mem /\ last'.addr + last'.width <= Size =>
       \A x \in (0 .. Page - 1) \ Region : mem'[x] = mem[x]]_vars

=============================================================================
