---------------------------- MODULE ClassLowering ----------------------------
(***************************************************************************)
(* A script goes through one of the two front ends: the parser of          *)
(* src/parser.cc and then the Evaluator of apps/interpreter_ast.cc         *)
(* ("cpp"), or the parser of python/ffi_system/parser.py, the Rewriter of  *)
(* src/rewriter.h and a C++ compiler ("python"), whose program executes    *)
(* the statements it consists of like the Evaluator.  What the inlined     *)
(* program does is compared with the script executed as it is written      *)
(* (Script!Outcome).                                                       *)
(*                                                                         *)
(* Inlining does not preserve every script.  Keeps and KeepsCompiled say   *)
(* what a script must keep to.                                             *)
(* Methods that call each other in a circle are inlined without end, so no *)
(* script has them.  C++ leaves the failure of a division undefined, so of *)
(* the scripts that fail the compiled ones are not looked at.              *)
(***************************************************************************)
EXTENDS PyFrontend, CodeGen, ScriptText

CONSTANTS
  Scripts,   \* Scripts[i]: the methods and the main block of script i
  IllTyped   \* the scripts with an argument, a result or an attribute mistyped

VARIABLES
  script,    \* the script that is run
  about,     \* what is known of it from its text, see Facts
  ahead      \* the calls that the Rewriter has still to make

vars == <<script, about, ahead, evaluator, table>>

-----------------------------------------------------------------------------
\* What a script must keep to.
KeepsBoth(p) ==
  /\ Hygienic(p) /\ ResultsExist(p) /\ KnownObjects(p) /\ Counters(p)
  /\ NothingSkipped(p, {"chain"})
Keeps(p) ==
  KeepsBoth(p) /\ AssignedFirst(p) /\ InOrderOnly(p) /\ ComparedOnce(p) /\ FixedRanges(p)

\* For the names, and for the rest.
KeepsNames(p) == OneLoopEach(p) /\ Unnumbered(p) /\ CallsInlined(p)
KeepsCompiled(p) ==
  /\ KeepsBoth(p) /\ KeepsNames(p)
  /\ OperandsInOrder(p) /\ ArgumentsApart(p) /\ NothingDeclaredLate(p) /\ NothingRepeated(p)

-----------------------------------------------------------------------------
(* The run of a script. *)

\* The text of script i and what it does when executed directly.
Facts(i) ==
  [direct |-> Outcome(Scripts[i]),
   types |-> AttrTypes(Scripts[i].ms),
   kept |-> i \notin IllTyped /\ Keeps(Scripts[i]),
   skips |-> ~NothingSkipped(Scripts[i], {"and", "or"}),
   typed |-> KnownObjects(Scripts[i]) /\ OneType(Scripts[i]),
   keptNames |-> KeepsNames(Scripts[i]),
   keptCompiled |-> i \notin IllTyped /\ KeepsCompiled(Scripts[i])]

\* What became of it in a front end, and the program it is: a script that is
\* rejected does nothing.
Through(i, front, result, program) ==
  /\ script = i
  /\ about = [front |-> front, result |-> result] @@ Facts(i)
  /\ ResetState
  /\ Begin(IF result.accepted THEN program ELSE <<>>)

\* A stale class name may or may not stop the parser.
Start(i, parsed) ==
  \E throws \in IF parsed.ps.stale THEN BOOLEAN ELSE {FALSE} :
    /\ Through(i, "cpp", [accepted |-> parsed.ps.ok /\ ~throws, stale |-> parsed.ps.stale], parsed.p)
    /\ ahead = <<>>

\* simple_compile: the program is written as C++ before anything runs.
Compile(i, parsed) ==
  /\ Through(i, "python", [accepted |-> parsed.ps.ok], parsed.p)
  /\ ahead = IF parsed.ps.ok THEN InsertFunction(parsed.p) ELSE <<>>

\* A script is parsed as a whole before anything runs.
Init ==
  \E i \in DOMAIN Scripts :
    LET p == Scripts[i] IN
    \/ \E left \in BOOLEAN : \E parsed \in {ParseStmtBlock(Tables(p.ms, left), p.main)} :
         Start(i, parsed)
    \/ \E parsed \in {VisitBody(PyTables(p.ms), p.main)} : Compile(i, parsed)

\* The Rewriter goes on.
Writing(call) ==
  /\ ahead # <<>> /\ Head(ahead).do = call
  /\ ahead' = Tail(ahead)
  /\ UNCHANGED <<script, about, evaluator>>

WriteDeclaration == Writing("declare") /\ Declare(Head(ahead).v)
WriteNames == Writing("use") /\ Use(Head(ahead).vs)
OpenBraces == Writing("begin") /\ BeginScope
CloseBraces == Writing("end") /\ EndScope

\* A name that C++ does not know, or knows already, stops the compiler, and then
\* nothing runs.  Where a name refers to a variable that is not meant, the
\* program is another one, and is not followed.
Compiled == ahead = <<>> /\ ok /\ meant

RunProgram == Compiled /\ Execute /\ UNCHANGED <<script, about, ahead, table>>

Next == WriteDeclaration \/ WriteNames \/ OpenBraces \/ CloseBraces \/ RunProgram

Safe == Init /\ [][Next]_vars

\* Rewriter and Evaluator are one thread that waits for nobody.
Spec == Safe /\ WF_vars(Next)

-----------------------------------------------------------------------------
(* Properties. *)

Stored == Range(env) \cup UNION {Range(heap[o]) : o \in DOMAIN heap}

TypeOK ==
  /\ script \in DOMAIN Scripts
  /\ \A v \in Stored : v.t \in {"int", "none"} \/ (v.t = "obj" /\ v.n \in DOMAIN heap)
  /\ outcome.done \in BOOLEAN
  /\ TableTypeOK

\* What has been written so far is what the script writes first, and in the
\* end all of it, with the value the script returns, or its failure.
SoFar ==
  LET direct == about.direct IN
  /\ IsPrefix(log, direct.log)
  /\ outcome.done =>
       /\ log = direct.log
       /\ outcome.v = IF direct.ok THEN direct.v ELSE Bad

Interpreted == about.front = "cpp"

\* A script that keeps to the conditions is accepted, unless it gets a stale
\* class name, and then inlining neither loses, repeats, reorders nor adds an
\* effect of its methods, through nested calls, early returns, loops and
\* failures (parser.cc:967-1164).
FollowsScript ==
  Interpreted /\ about.kept /\ ~about.skips =>
    IF about.result.accepted THEN SoFar ELSE about.result.stale

\* The program that is compiled does what the script does too, and there calls
\* on the right of and, or are skipped with them
\* (python/ffi_system/parser.py:328-740).
CompiledFollows ==
  ~Interpreted /\ about.keptCompiled /\ about.direct.ok /\ about.result.accepted => SoFar

\* Of a script that keeps to KeepsNames and that the Python parser accepts, every
\* name of the C++ text is declared once in its block, before it is used, and refers where it stands to
\* the variable it was written for, whatever the blocks, the locals of inlined
\* methods and the names used again in other blocks
\* (python/ffi_system/parser.py:465-759, rewriter.h:291-373).
NamesMeant ==
  ~Interpreted /\ about.keptNames /\ about.result.accepted => ok /\ meant /\ NoneNumbered

\* The same with calls on the right of and, or: the documentation promises
\* their short circuit (docs/INTERPRETER_AST_SUBSET.md:17).
ShortCircuits == Interpreted /\ about.kept /\ about.result.accepted => SoFar

\* A method may call a method of its object: the test self_method_call has
\* such a script accepted (python/run_interpreter_ast_class_test.py:52-69).
NestedCallsAccepted == Interpreted /\ about.kept => about.result.accepted

\* In a script that was accepted, an attribute whose type was inferred from
\* the constructor never holds a value of another type (parser.cc:989-998,
\* 1053-1060, 1430-1437).
TypesKept ==
  Interpreted /\ about.result.accepted /\ about.typed =>
    \A o \in DOMAIN heap : \A a \in DOMAIN heap[o] \cap DOMAIN about.types :
      about.types[a] # Handle => heap[o][a].t = "int"

\* The guards and the recomputed conditions end every loop that the script
\* ends (parser.cc:1089-1097, 1335-1353; parser.py:633-749, 978-1065).
Halts == (IF Interpreted THEN about.kept ELSE about.keptCompiled) => <>outcome.done
=============================================================================
