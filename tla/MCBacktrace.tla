---------------------------- MODULE MCBacktrace ----------------------------
(***************************************************************************)
(* A table of three lines, and all stacks of up to three frames (and some  *)
(* of four, which backtrace() itself cuts off): frames with no, one or two *)
(* functions, in either of two sections or both, in files of every kind.   *)
(***************************************************************************)
EXTENDS Backtrace

F(kind, sections) == [file |-> kind, sections |-> sections]

MCFrames ==
  {F("unknown", <<>>), F("unopened", <<>>), F("no_object", <<>>),
   F("unreadable", <<>>), F("stripped", << <<"f">> >>), F("empty", << <<"f">> >>),
   F("static", << <<>>, <<"f">> >>), F("dynamic", << <<"f", "todo">> >>),
   F("empty", <<>>), F("static", << <<"g", "f">>, <<"h">> >>)}

MCStacks ==
  UNION {[1 .. n -> MCFrames] : n \in 0 .. 3}
    \cup {[i \in 1 .. 4 |-> f] : f \in MCFrames}

=============================================================================
