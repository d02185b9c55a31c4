----------------------------- MODULE Interpreters -----------------------------
(***************************************************************************)
(* The two interpreters given the same text, one after the other:          *)
(* apps/interpreter.cc ("old") and apps/interpreter_ast.cc ("new").  Each  *)
(* runs a file (script) or reads line by line from a prompt (repl), as     *)
(* BlockReader does.                                                       *)
(*                                                                         *)
(* A text is a program written down, as it is or with one line damaged.    *)
(***************************************************************************)
EXTENDS CppFrontend, BlockReader, LineReader, OldInterpreter, ScriptText

CONSTANTS
  Programs,   \* Programs[p]: statements without classes
  Damages     \* what may be done to a line

VARIABLES
  about,      \* the program, what was done to its text, and what it does
  process,    \* the interpreter that runs: "old", then "new", then "end"
  tables,     \* the tables of the parser of the new one
  printed,    \* what each has printed
  crashed     \* whether each was ended by an exception

vars == <<about, process, reader, tables, printed, crashed, evaluator, oldInterpreter>>

-----------------------------------------------------------------------------
(* The text. *)

Blank == Line(0, <<>>)

\* At the prompt a blank line ends a statement of several lines.
Text(ss) ==
  LET Part(st) == Written(<<st>>, 0) \o (IF Len(Written(<<st>>, 0)) > 1 THEN <<Blank>> ELSE <<>>)
  IN  FlattenSeq([i \in DOMAIN ss |-> Part(ss[i])])

\* The lines ls with line i damaged.
Damaged(ls, damage, i) ==
  CASE damage = "none" -> ls
    [] damage = "blank" -> InsertAt(ls, i, Blank)
    [] damage = "exit" -> InsertAt(ls, i, Line(0, <<"exit">>))
    [] damage = "cut" -> SubSeq(ls, 1, i)
    [] damage = "ragged" -> [ls EXCEPT ![i].indent = @ + 2]
    [] damage = "deeper" -> [ls EXCEPT ![i].indent = @ + IndentSize]
    [] damage = "shallower" -> [ls EXCEPT ![i].indent = @ - IndentSize]
    [] damage = "extra" -> [ls EXCEPT ![i].toks = Append(@, "7")]

Applies(ls, damage, i) ==
  CASE damage = "none" -> i = 1
    [] damage = "cut" -> i < Len(ls)
    [] damage = "shallower" -> ls[i].indent > 0
    [] damage = "extra" -> ~IsBlank(ls[i]) /\ ~IsHeader(ls[i])
    [] OTHER -> TRUE

\* What the program does when it is executed as it is written: at once, or one
\* statement at a time, where a return ends its own only.
Direct(ss, how) ==
  LET fresh == [env |-> <<>>, s |-> [ms |-> <<>>, heap |-> <<>>, log |-> <<>>, ok |-> TRUE]]
      Then(acc, st) == Run(<<st>>, acc.env, acc.s)
      r == IF how = "script" THEN Run(ss, fresh.env, fresh.s) ELSE FoldLeft(Then, fresh, ss)
  IN  [env |-> r.env, ok |-> r.s.ok]

-----------------------------------------------------------------------------
\* No script here has a class.
NoClass == [init |-> Method(<<>>, <<>>, Handle, <<>>)]

Init ==
  \E p \in DOMAIN Programs, damage \in Damages :
    \E i \in DOMAIN Text(Programs[p]) :
      /\ Applies(Text(Programs[p]), damage, i)
      /\ mode \in {"script", "repl"}
      /\ text = Damaged(Text(Programs[p]), damage, i)
      /\ OpenText
      /\ about = [p |-> p, damage |-> damage, direct |-> Direct(Programs[p], mode)]
      /\ process = "old"
      /\ tables = Tables(NoClass, TRUE)
      /\ printed = [old |-> <<>>, new |-> <<>>]
      /\ crashed = [old |-> FALSE, new |-> FALSE]
      /\ Begin(<<>>)
      /\ OldInit

-----------------------------------------------------------------------------
(* main: read a block, parse it, execute it, print. *)

\* main catches an exception and ends.
CrashIf(threw) == crashed' = [crashed EXCEPT ![process] = threw]

ReadFile ==
  /\ process # "end"
  /\ EndOfFile \/ LeaveOut \/ Collect \/ Refuse
  /\ CrashIf(phase' = "quit")
  /\ UNCHANGED <<about, process, tables, printed, evaluator, oldInterpreter>>

ReadPrompt ==
  /\ process # "end"
  /\ EndOfInput \/ SkipBlank \/ EndBlock \/ Misindented \/ ReadLine
  /\ UNCHANGED <<about, process, tables, printed, crashed, evaluator, oldInterpreter>>

Leaves == mode = "repl" /\ lines[1].toks \in {<<"quit">>, <<"exit">>}

Quit ==
  /\ process # "end"
  /\ TakeBlock("quit")
  /\ lines # <<>> /\ Leaves
  /\ UNCHANGED <<about, process, tables, printed, crashed, evaluator, oldInterpreter>>

\* The lines of the next block are parsed; lines that ParseBlock does not
\* reach are never looked at.
Parse(parsed) ==
  /\ lines = <<>> \/ ~Leaves
  /\ TakeBlock(IF parsed THEN "run" ELSE "quit")
  /\ CrashIf(~parsed)
  /\ UNCHANGED <<about, process, printed>>

ParseLinesOld ==
  /\ process = "old" /\ phase = "parse"
  /\ \E b \in {ParseBlock(FALSE, lines, 1, 0)} :
       /\ Parse(b.ok)
       /\ IF b.ok THEN OldExecute(b.ss) ELSE UNCHANGED oldInterpreter
  /\ UNCHANGED <<tables, evaluator>>

\* The parser of the new one keeps its tables from block to block.
ParseLinesNew ==
  /\ process = "new" /\ phase = "parse"
  /\ \E b \in {ParseBlock(TRUE, lines, 1, 0)} : \E r \in {ParseStmtBlock(tables, b.ss)} :
       /\ Parse(b.ok /\ r.ps.ok)
       /\ IF b.ok /\ r.ps.ok THEN Load(r.p) /\ tables' = r.ps ELSE UNCHANGED <<evaluator, tables>>
  /\ UNCHANGED oldInterpreter

RunOld ==
  /\ process = "old" /\ phase = "run"
  /\ OldStep
  /\ UNCHANGED <<about, process, reader, tables, printed, crashed, evaluator>>

RunNew ==
  /\ process = "new" /\ phase = "run"
  /\ Execute
  /\ UNCHANGED <<about, process, reader, tables, printed, crashed, oldInterpreter>>

\* After a block: what it printed, unless it threw.
Report(threw, value) ==
  /\ Executed(threw)
  /\ CrashIf(threw)
  /\ printed' = IF threw \/ value = Unset THEN printed
                ELSE [printed EXCEPT ![process] = Append(@, value)]
  /\ UNCHANGED <<about, process, tables, evaluator, oldInterpreter>>

\* In a file the old one prints nothing but a value that was returned.
PrintOld ==
  /\ process = "old" /\ oldOutcome # "running"
  /\ Report(oldOutcome = "threw",
            IF mode = "script" /\ oldOutcome # "returned" THEN Unset ELSE oldLast)

PrintNew ==
  /\ process = "new" /\ outcome.done
  /\ Report(outcome.v = Bad, last)

\* The other interpreter is given the same text.
NextProcess ==
  /\ process # "end"
  /\ process' = IF process = "old" THEN "new" ELSE "end"
  /\ Restart
  /\ UNCHANGED <<about, tables, printed, crashed, evaluator, oldInterpreter>>

Next ==
  \/ ReadFile \/ ReadPrompt
  \/ Quit \/ ParseLinesOld \/ ParseLinesNew \/ RunOld \/ RunNew \/ PrintOld \/ PrintNew \/ NextProcess

\* Each interpreter is one thread: it executes what it has read, waiting for
\* nobody.  The lines come from a user, who may stop typing.
Spec ==
  /\ Init /\ [][Next]_vars
  /\ WF_vars(RunOld \/ PrintOld)
  /\ WF_vars(RunNew \/ PrintNew)

-----------------------------------------------------------------------------
(* Properties. *)

Program == Programs[about.p]
Undamaged == about.damage = "none"
Clear == NotParenthesised(Program)
ReadNow == ParseBlock(process = "new", lines, 1, 0)

\* The statements that are read are those that were written: each with the
\* structure of its expressions, its blocks and its else, and none of the other
\* statements of the block (interpreter.cc:249-371, 417-497).
ReadsAsWritten ==
  phase = "parse" /\ Undamaged /\ Clear =>
    \/ mode = "script" /\ ReadNow.ss = Program
    \/ \E i \in DOMAIN Program :
         lines = Written(<<Program[i]>>, 0) /\ ReadNow.ss = <<Program[i]>>

\* The first line that is deeper than the block it stands in, or the end.
FirstTooDeep ==
  LET Room(i) == IF i = 1 THEN 0
                 ELSE lines[i - 1].indent + IF IsHeader(lines[i - 1]) THEN IndentSize ELSE 0
  IN  Min({i \in DOMAIN lines : lines[i].indent > Room(i)} \cup {Len(lines) + 1})

\* Whatever the indentation of the lines, a block that is accepted has been read
\* up to the first line that is too deep, and no line behind it is read: only
\* there, and without a word, a program is cut (interpreter.cc:419,
\* parser.cc:1299).
CutWhereTooDeep == phase = "parse" /\ ReadNow.ok => ReadNow.i = FirstTooDeep

\* What the standalone reference (docs/INTERPRETER.md:66) has in its variables
\* in the end is what the program leaves there, from a file or the prompt, and
\* it ends with an error when the program does (interpreter.cc:516-667).
ReferenceIsRight ==
  Undamaged /\ Clear /\ process # "old" =>
    /\ crashed.old = ~about.direct.ok
    /\ about.direct.ok => oldEnv = about.direct.env

\* What a program must keep to for the parser of the new one.
Portable ==
  /\ KnownNames(Program) /\ NonzeroSteps(Program)
  /\ Counters([ms |-> <<>>, main |-> Program])
  /\ FixedRanges([ms |-> <<>>, main |-> Program])

LoopNames == Targets(Program, {"for"})
OldAsNew == [x \in DOMAIN oldEnv \ LoopNames |-> oldEnv[x]]
NewAsOld == [x \in {k[1] : k \in DOMAIN env} \ LoopNames |-> env[<<x, 0>>]]

\* Both interpreters answer the same at the prompt, fail on the same programs and
\* leave the same variables, but for those of loops, also when a line is lost
\* to a second blank line or the end of the input.
SameAnswers ==
  /\ \A x \in DOMAIN oldEnv : oldEnv[x].t = "int"
  /\ \A k \in DOMAIN env : env[k].t = "int"
  /\ process = "end" /\ about.damage \in {"none", "blank", "cut"} /\ Portable =>
       /\ crashed.old = crashed.new
       /\ OldAsNew = NewAsOld
       /\ mode = "repl" => printed.old = printed.new

\* What was read of a program as it was written is executed to an end by both:
\* the rounds of a range are counted up or down to its end
\* (interpreter.cc:637-662, parser.cc:1275-1290).
BlocksEnd ==
  Undamaged /\ NonzeroSteps(Program) /\ phase = "run" ~> phase # "run"
=============================================================================
