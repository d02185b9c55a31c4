----------------------------- MODULE BlockReader -----------------------------
(***************************************************************************)
(* How both interpreters come by the lines they parse: a file is read as a *)
(* whole (CollectLinesFromString), and at the prompt lines are read until  *)
(* they make a block (ReadBlockFromStdin).  The code is the same in        *)
(* apps/interpreter.cc and apps/interpreter_ast.cc.                        *)
(*                                                                         *)
(* What main does with a block is Interpreters; here it takes the block,   *)
(* and asks for the next one or ends.                                      *)
(***************************************************************************)
EXTENDS TextLine, FiniteSets

VARIABLES
  mode,       \* "script" for a file, "repl" for the prompt
  text,       \* the lines of the file, or that will have been typed
  phase,      \* a block is read, has been read, is executed; or the program has ended
  input,      \* the lines that were not read yet
  lines,      \* the lines of the block
  multiline   \* a line of the block has opened another block

reader == <<mode, text, phase, input, lines, multiline>>

AnyLine == [indent : Nat, toks : Seq(STRING)]
Texts == Seq(AnyLine)

OpenText ==
  /\ mode \in {"script", "repl"}
  /\ text \in Texts
  /\ phase = "read"
  /\ input = text
  /\ lines = <<>>
  /\ multiline = FALSE

\* CollectLinesFromString, line by line.
File ==
  /\ phase = "read" /\ mode = "script"
  /\ UNCHANGED <<mode, text, multiline>>

EndOfFile ==
  /\ File
  /\ input = <<>>
  /\ phase' = "parse"
  /\ UNCHANGED <<input, lines>>

FileLine ==
  /\ File
  /\ input # <<>>
  /\ input' = Tail(input)

\* Blank lines of a file are left out.
LeaveOut ==
  /\ FileLine
  /\ IsBlank(Head(input))
  /\ UNCHANGED <<phase, lines>>

Collect ==
  /\ FileLine
  /\ ~IsBlank(Head(input)) /\ IsAligned(Head(input))
  /\ lines' = Append(lines, Head(input))
  /\ UNCHANGED phase

\* A line whose indentation is no multiple of four throws.
Refuse ==
  /\ FileLine
  /\ ~IsBlank(Head(input)) /\ ~IsAligned(Head(input))
  /\ phase' = "quit"
  /\ lines' = <<>>

\* ReadBlockFromStdin, line by line.
Prompt ==
  /\ phase = "read" /\ mode = "repl"
  /\ UNCHANGED <<mode, text>>

\* The end of the input drops the block that has begun.
EndOfInput ==
  /\ Prompt
  /\ input = <<>>
  /\ phase' = "quit"
  /\ lines' = <<>>
  /\ multiline' = FALSE
  /\ UNCHANGED input

NextLine ==
  /\ Prompt
  /\ input # <<>>
  /\ input' = Tail(input)

SkipBlank ==
  /\ NextLine
  /\ IsBlank(Head(input)) /\ lines = <<>>
  /\ UNCHANGED <<phase, lines, multiline>>

EndBlock ==
  /\ NextLine
  /\ IsBlank(Head(input)) /\ lines # <<>> /\ multiline
  /\ phase' = "parse"
  /\ UNCHANGED <<lines, multiline>>

\* The line belongs to a block, were it for what it holds.
Content ==
  /\ NextLine
  /\ IsBlank(Head(input)) => lines # <<>> /\ ~multiline

\* Mutant of Misindented: the block is cleared and still waited for.
MisindentedWaits ==
  /\ Content
  /\ ~IsAligned(Head(input))
  /\ lines' = <<>>
  /\ UNCHANGED <<phase, multiline>>

\* A line of another indentation clears the block; the next lines begin one.
Misindented ==
  /\ Content
  /\ ~IsAligned(Head(input))
  /\ lines' = <<>>
  /\ multiline' = FALSE
  /\ UNCHANGED phase

ReadLine ==
  /\ Content
  /\ IsAligned(Head(input))
  /\ lines' = Append(lines, Head(input))
  /\ multiline' = (multiline \/ IsHeader(Head(input)))
  /\ phase' = IF multiline' THEN "read" ELSE "parse"

\* main takes the block, to execute it or to end.
TakeBlock(then) ==
  /\ phase = "parse"
  /\ phase' = then
  /\ lines' = <<>>
  /\ multiline' = FALSE
  /\ UNCHANGED <<mode, text, input>>

\* The block has been executed: the next one, unless this was a file or an
\* exception ended the program.
Executed(threw) ==
  /\ phase = "run"
  /\ phase' = IF threw \/ mode = "script" THEN "quit" ELSE "read"
  /\ UNCHANGED <<mode, text, input, lines, multiline>>

\* The program is started once more, with the same text.
Restart ==
  /\ phase = "quit"
  /\ phase' = "read"
  /\ input' = text
  /\ lines' = <<>>
  /\ multiline' = FALSE
  /\ UNCHANGED <<mode, text>>

ReaderNext ==
  \/ EndOfFile \/ LeaveOut \/ Collect \/ Refuse
  \/ EndOfInput \/ SkipBlank \/ EndBlock \/ Misindented \/ ReadLine
  \/ \E then \in {"run", "quit"} : TakeBlock(then)
  \/ \E threw \in BOOLEAN : Executed(threw)
  \/ Restart

Reading == OpenText /\ [][ReaderNext]_reader

-----------------------------------------------------------------------------
(* Properties. *)

Position == Len(text) - Len(input)

ReaderTypeOK ==
  /\ mode \in {"script", "repl"} /\ text \in Texts
  /\ phase \in {"read", "parse", "run", "quit"}
  /\ multiline \in BOOLEAN /\ (multiline => mode = "repl" /\ lines # <<>>)
  /\ Position \in 0..Len(text)
  /\ input = SubSeq(text, Position + 1, Len(text))
  /\ lines \in Texts
  /\ phase \in {"run", "quit"} => lines = <<>>
  /\ \A i \in DOMAIN lines : IsAligned(lines[i]) /\ ~IsBlank(lines[i])

\* A block is open behind line n: a header, and no blank or misindented line
\* from it on.
OpenBehind(n) ==
  \E h \in 1..n :
    /\ IsHeader(text[h])
    /\ \A k \in h..n : IsAligned(text[k]) /\ ~IsBlank(text[k])

\* The block that is read at the prompt is text[i..j].
BlockIs(i, j) ==
  /\ lines = SubSeq(text, i, j)
  /\ ~OpenBehind(i - 1)
  /\ phase = "read" => j = Position /\ OpenBehind(j)
  /\ phase = "parse" => IF OpenBehind(j) THEN j + 1 = Position /\ IsBlank(text[j + 1])
                        ELSE j = Position /\ i = j

\* The block at the prompt is of lines one after the other: a line that stands
\* for itself, or all from the first one behind which no block was open to the
\* blank line that ends the block it opens.
PromptAsTyped ==
  mode = "repl" =>
    /\ phase = "read" => (multiline <=> lines # <<>>) /\ (multiline <=> OpenBehind(Position))
    /\ phase = "parse" => lines # <<>>
    /\ lines # <<>> => \E i \in 1..Position : BlockIs(i, i + Len(lines) - 1)

\* With line n a block is complete: the blank line behind one that is open, or a
\* line that stands for itself.
Complete(n) ==
  IF OpenBehind(n - 1) THEN IsBlank(text[n])
  ELSE ~IsBlank(text[n]) /\ IsAligned(text[n]) /\ ~IsHeader(text[n])

\* At the prompt a line that is read completes a block, or does not.
HandsOver ==
  mode = "repl" /\ phase = "read" /\ input' # input =>
    (phase' = "parse" <=> Complete(Position + 1))

\* The number of lines among the first n that are not blank.
Filled(n) == Cardinality({m \in 1..n : ~IsBlank(text[m])})

\* The lines of a file are all of it that are not blank, in order.
FileAsWritten ==
  mode = "script" /\ phase \in {"read", "parse"} =>
    /\ phase = "parse" => input = <<>>
    /\ Len(lines) = Filled(Position)
    /\ \A n \in 1..Position : ~IsBlank(text[n]) => lines[Filled(n)] = text[n]

\* The lines the parser is handed are lines as they were typed, none left out and
\* none twice.  At the prompt it is handed a block with the line that completes
\* it, and with no other; no line gets into a block behind a misindented one, or
\* out of a block into the next (interpreter.cc:692-727).  Of a file it is handed
\* all, or none when a line is misindented (interpreter.cc:671-690).
LinesAsTyped ==
  /\ [](ReaderTypeOK /\ PromptAsTyped /\ FileAsWritten)
  /\ [][HandsOver]_reader
=============================================================================
