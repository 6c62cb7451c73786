----------------------------- MODULE Backtrace -----------------------------
(***************************************************************************)
(* trace/backtrace/backtrace.c: debug_print_backtrace resolves the frames  *)
(* of the stack to source lines, several of them where functions were      *)
(* inlined, in a table of BACKTRACE_MAX lines, and prints the table from   *)
(* line strip on.  libbfd and the dynamic loader are external: what they   *)
(* know about each frame is part of the input.                             *)
(***************************************************************************)
EXTENDS Integers, SequencesExt

CONSTANTS
  MaxLines,          \* BACKTRACE_MAX
  Excluded,          \* functions that are not printed
  Stacks,            \* bound: stacks to be printed
  Strips             \* bound: values of strip

\* What becomes of the file a frame's address is in: none is found, it cannot
\* be opened, it is not an object with symbols, its symbols cannot be read, it
\* has static or only dynamic ones, no static ones while the dynamic ones
\* cannot be read ("stripped"), or none at all.
Files  == {"unknown", "unopened", "no_object", "unreadable", "static", "dynamic",
           "stripped", "empty"}
Loaded == {"static", "dynamic", "empty"}

\* A frame: its file, and the functions each section names for its address.
Frame == [file : Files, sections : Seq(Seq(STRING))]

ASSUME MaxAssumption == MaxLines \in Nat \ {0} /\ Strips \subseteq Nat
ASSUME StacksAssumption == Stacks \subseteq Seq(Frame)

VARIABLES
  stack, strip,      \* input: frames, innermost first; lines to leave out
  pc,
  frame,             \* bckt_idx
  bfd, syms,         \* is the file open? what does the symbol pointer point to?
  sect, count,       \* section to look at; lines found for this frame
  chain,             \* what libbfd has still to say about the address
  lines, size,       \* the table
  position,          \* lines read from the table
  printed,           \* output
  strings            \* lines whose strings have been allocated and not freed

input == <<stack, strip>>
table == <<lines, size, strings>>
file  == <<bfd, syms>>
search == <<sect, count, chain>>
vars  == <<input, pc, frame, file, search, table, position, printed>>

Total == Min({Len(stack), MaxLines})

\* The source lines of the frame's address that a section knows, innermost
\* function first; <<>> if the address is not in it.
Found == stack[frame].sections[sect]

Init ==
  /\ stack \in Stacks /\ strip \in Strips
  /\ pc = "create" /\ frame = 1 /\ bfd = "closed" /\ syms = "none"
  /\ sect = 1 /\ count = 0 /\ chain = <<>> /\ lines = <<>> /\ size = 0 /\ position = 0
  /\ printed = <<>> /\ strings = 0

-----------------------------------------------------------------------------
(* debug_backtrace_create *)

\* Without memory nothing is printed.
Create ==
  /\ pc = "create"
  /\ pc' \in {"frame", "done"}
  /\ position' = strip
  /\ UNCHANGED <<input, frame, file, search, table, printed>>

NextFrame == frame' = frame + 1 /\ pc' = "frame"

\* free(NULL) does nothing; what freeing a freed pointer does is undefined.
Freed(pointer) == IF pointer = "none" THEN "none" ELSE "freed"

\* dl_lookup_address, and load_file up to bfd_openr.
LookUp ==
  /\ pc = "frame" /\ frame <= Total
  /\ sect' = 1 /\ count' = 0 /\ UNCHANGED chain
  /\ \/ stack[frame].file = "unknown" /\ NextFrame /\ UNCHANGED file
     \/ stack[frame].file = "unopened" /\ NextFrame /\ syms' = "none" /\ UNCHANGED bfd
     \/ /\ stack[frame].file \notin {"unknown", "unopened"}
        /\ syms' = "none" /\ bfd' = "open" /\ pc' = "load" /\ UNCHANGED frame
  /\ UNCHANGED <<input, table, position, printed>>

\* Mutation: the file stays open if it is not loaded.
CloseOpen == NextFrame /\ UNCHANGED file

\* err_close, after which load_file says that there is no file to look at.
CloseFile == bfd' = "closed" /\ NextFrame /\ UNCHANGED syms

\* The checks, and the first read.  If it gives no symbols, libbfd may or may
\* not have allocated an empty table: it is freed, and the pointer stays.
Load ==
  /\ pc = "load"
  /\ \/ /\ stack[frame].file = "static"
        /\ syms' = "table" /\ pc' = "sections" /\ UNCHANGED <<bfd, frame>>
     \/ /\ stack[frame].file \in {"dynamic", "stripped", "empty"}
        /\ syms' \in {Freed("none"), Freed("table")}
        /\ pc' = "reread" /\ UNCHANGED <<bfd, frame>>
     \/ stack[frame].file \in {"no_object", "unreadable"} /\ CloseFile
  /\ UNCHANGED <<input, search, table, position, printed>>

\* Mutation: a failure of the second read is not noticed.
RereadUnchecked ==
  /\ pc = "reread"
  /\ syms' \in IF stack[frame].file = "dynamic" THEN {"table"} ELSE {syms}
  /\ pc' = "sections"
  /\ UNCHANGED <<bfd, frame, input, search, table, position, printed>>

\* The second read, for dynamic symbols.  If it gives none either, libbfd may
\* or may not have set the pointer.
Reread ==
  /\ pc = "reread"
  /\ \/ /\ stack[frame].file \in Loaded
        /\ syms' \in IF stack[frame].file = "empty" THEN {syms, "table"} ELSE {"table"}
        /\ pc' = "sections" /\ UNCHANGED <<bfd, frame>>
     \/ stack[frame].file = "stripped" /\ CloseFile
  /\ UNCHANGED <<input, search, table, position, printed>>

\* Mutation: every section that knows the address is used.
UsefulAlways == MaxLines - size # 0 /\ Found # <<>>

\* Is the section looked at closely?
Useful == count = 0 /\ MaxLines - size # 0 /\ Found # <<>>

\* find_address_in_section, up to its loop.  libbfd, given a table that was
\* freed, may crash, or find what it finds without one.
Section ==
  /\ pc = "sections" /\ sect <= Len(stack[frame].sections)
  /\ \/ Useful /\ chain' = Found /\ pc' = "lines" /\ UNCHANGED sect
     \/ Useful /\ syms = "freed" /\ pc' = "crashed" /\ UNCHANGED <<sect, chain>>
     \/ ~Useful /\ sect' = sect + 1 /\ UNCHANGED <<chain, pc>>
  /\ UNCHANGED <<input, frame, file, count, table, position, printed>>

\* Mutation: one line too many.
MoreOver == chain' # <<>> /\ count' <= MaxLines - size

\* found && (search->count < search->max_lines)
More == chain' # <<>> /\ count' < MaxLines - size

\* One turn of the loop: the line itself, then the functions it is inlined in.
Line ==
  /\ pc = "lines"
  /\ lines' = [i \in DOMAIN lines \cup {size + count + 1} |->
                 IF i = size + count + 1
                 THEN [frame |-> frame, function |-> Head(chain)] ELSE lines[i]]
  /\ strings' = strings + 1
  /\ count' = count + 1
  /\ chain' = Tail(chain)
  /\ \/ More /\ UNCHANGED <<pc, sect>>
     \/ ~More /\ pc' = "sections" /\ sect' = sect + 1
  /\ UNCHANGED <<input, frame, file, size, position, printed>>

\* The lines are added to the table, unload_file.  A second free may be caught
\* by the allocator, which ends the program, or go unnoticed.
Unload ==
  /\ pc = "sections" /\ sect > Len(stack[frame].sections)
  /\ size' = size + count
  /\ \/ syms' = Freed(syms) /\ bfd' = "closed" /\ NextFrame
     \/ syms = "freed" /\ pc' = "crashed" /\ UNCHANGED <<file, frame>>
  /\ UNCHANGED <<input, search, lines, strings, position, printed>>

CreateDone ==
  /\ pc = "frame" /\ frame > Total
  /\ pc' = "print"
  /\ UNCHANGED <<input, frame, file, search, table, position, printed>>

-----------------------------------------------------------------------------
(* debug_print_backtrace *)

\* Mutation: a line that is left out is not stepped over.
SkipStuck ==
  /\ pc = "print"
  /\ \/ position >= size /\ pc' = "destroy" /\ UNCHANGED <<position, printed>>
     \/ /\ position < size /\ UNCHANGED pc
        /\ \/ lines[position + 1].function \in Excluded /\ UNCHANGED <<position, printed>>
           \/ /\ lines[position + 1].function \notin Excluded
              /\ position' = position + 1
              /\ printed' = Append(printed, lines[position + 1])
  /\ UNCHANGED <<input, frame, file, search, table>>

\* Mutation: a line that is left out ends the listing.
SkipUntil ==
  /\ pc = "print"
  /\ \/ /\ position < size => lines[position + 1].function \in Excluded
        /\ pc' = "destroy" /\ UNCHANGED <<position, printed>>
     \/ /\ position < size /\ lines[position + 1].function \notin Excluded
        /\ position' = position + 1
        /\ printed' = Append(printed, lines[position + 1])
        /\ UNCHANGED pc
  /\ UNCHANGED <<input, frame, file, search, table>>

\* debug_backtrace_next, one turn of its loop.
NextLine ==
  /\ pc = "print"
  /\ \/ position >= size /\ pc' = "destroy" /\ UNCHANGED <<position, printed>>
     \/ /\ position < size /\ UNCHANGED pc
        /\ position' = position + 1
        /\ printed' = IF lines[position + 1].function \in Excluded THEN printed
                      ELSE Append(printed, lines[position + 1])
  /\ UNCHANGED <<input, frame, file, search, table>>

\* debug_backtrace_destroy frees the strings of lines 1 to size.
Destroy ==
  /\ pc = "destroy"
  /\ strings' = strings - size
  /\ size' = 0 /\ lines' = <<>>
  /\ pc' = "done"
  /\ UNCHANGED <<input, frame, file, search, position, printed>>

Done == pc \in {"done", "crashed"} /\ UNCHANGED vars

Step ==
  \/ Create \/ LookUp \/ Load \/ Reread \/ Section \/ Line \/ Unload \/ CreateDone
  \/ NextLine \/ Destroy

Next == Step \/ Done

Spec == Init /\ [][Next]_vars /\ WF_vars(Step)

-----------------------------------------------------------------------------
(* Properties. *)

\* The sections that know the address of a frame.
KnownBy(f) == {s \in DOMAIN stack[f].sections : stack[f].sections[s] # <<>>}

\* All functions of a frame, whatever room there is: those that the first of
\* these sections names, innermost first.
AllLines(f) ==
  IF stack[f].file \in Loaded /\ KnownBy(f) # {}
  THEN stack[f].sections[Min(KnownBy(f))]
  ELSE <<>>

\* The functions of the frames before this one.
Before(f) == UNION {{g} \X DOMAIN AllLines(g) : g \in 1 .. f - 1}

\* Lines of the table, from the first after strip to k, that are not excluded.
Kept(k) == {j \in strip + 1 .. k : lines[j].function \notin Excluded}

\* Variables have their types; the table is never written past its end.
TypeOK ==
  /\ pc \in {"create", "frame", "load", "reread", "sections", "lines", "print", "destroy",
             "done", "crashed"}
  /\ bfd \in {"closed", "open"} /\ syms \in {"none", "table", "freed"}
  /\ DOMAIN lines \subseteq 1 .. MaxLines
  /\ size \in 0 .. MaxLines /\ count \in 0 .. MaxLines
  /\ frame \in 1 .. Total + 1 /\ strings \in Nat

\* The limit cuts the listing off and does nothing else: what is in the table
\* is the beginning of the listing without a limit, innermost function first,
\* each frame once, although frames and sections share the room.
TableIsPrefix ==
  pc = "print" =>
    /\ size = Min({MaxLines, Cardinality(Before(Total + 1))})
    /\ \A f \in 1 .. Total : \A i \in DOMAIN AllLines(f) :
         LET place == Cardinality(Before(f)) + i
         IN  place <= MaxLines => lines[place] = [frame |-> f, function |-> AllLines(f)[i]]

\* The listing has the lines after the first strip, but for the excluded ones,
\* in the order of the table.
PrintedRest ==
  pc = "destroy" =>
    /\ Len(printed) = Cardinality(Kept(size))
    /\ \A k \in Kept(size) : printed[Cardinality(Kept(k))] = lines[k]

\* No path of the listing leaves the file open, its symbol table or a string
\* behind: not the failures of either read, nor a listing that is cut off.
NothingLeaks ==
  /\ pc \in {"frame", "print", "done"} => bfd = "closed" /\ syms # "table"
  /\ pc = "frame" => strings = size
  /\ pc = "done" => strings = 0

\* The pointer that load_file frees and does not reset (line 219) is used, and
\* freed by unload_file once more, in one case only: both reads found no
\* symbols, of a file whose first, empty table had been allocated.  A second
\* read that fails, or sets the pointer, leads to no such use.
FreedOnce ==
  /\ pc \in {"sections", "lines"} /\ syms = "freed" => stack[frame].file = "empty"
  /\ pc = "crashed" => syms = "freed" /\ stack[frame].file = "empty"

\* Every listing is finished, or breaks off at the use of a freed table.
Ends == <>(pc \in {"done", "crashed"})

=============================================================================
