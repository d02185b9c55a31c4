------------------------------- MODULE TextLine -------------------------------
(***************************************************************************)
(* A line of a program as the interpreters have it: the number of spaces   *)
(* in front of it, and its tokens, which are strings.                      *)
(***************************************************************************)
EXTENDS Integers, SequencesExt

IndentSize == 4

Line(indent, toks) == [indent |-> indent, toks |-> toks]
IsBlank(line) == line.toks = <<>>
IsHeader(line) == ~IsBlank(line) /\ Last(line.toks) = ":"
IsAligned(line) == line.indent % IndentSize = 0
=============================================================================
