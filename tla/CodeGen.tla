------------------------------- MODULE CodeGen -------------------------------
(***************************************************************************)
(* The Rewriter of src/rewriter.h, which writes the body of a function as  *)
(* C++: how it goes through the body, as the calls of NameTable that it    *)
(* makes on its way.                                                       *)
(*                                                                         *)
(* What is written is the statement itself, with the names of NameTable    *)
(* for its variables, and every binary operation in parentheses.  Types    *)
(* are left out: of the program it is assumed that, where its names refer  *)
(* to something, it has types that the C++ compiler accepts.               *)
(***************************************************************************)
EXTENDS Evaluator, NameTable

\* Calls of the Rewriter, in the order of the text.
Declares(v) == <<[do |-> "declare", v |-> v]>>
Uses(vs) == IF vs = {} THEN <<>> ELSE <<[do |-> "use", vs |-> vs]>>
Begins == <<[do |-> "begin"]>>
Ends == <<[do |-> "end"]>>

RECURSIVE PrintExpr(_), PrintSeq(_)

\* An attribute is the item of a container.
PrintItem(e) == PrintExpr(e.o)

\* The variables in an expression.  A method call that was not inlined counts as
\* a name nobody declares: the container classes of C++ have no such method.
PrintExpr(e) ==
  CASE e.k = "ref" -> {e.v}
    [] e.k = "item" -> PrintItem(e)
    [] e.k = "mcall" -> {Variable(e.m, -1, "method")}
    [] e.k \in {"bin", "and", "or"} -> PrintExpr(e.a) \cup PrintExpr(e.b)
    [] e.k = "not" -> PrintExpr(e.a)
    [] OTHER -> {}

Braces(ss) == Begins \o PrintSeq(ss) \o Ends

\* A name is declared in its own initialiser.
PrintAlloca(st) == Declares(st.v) \o Uses(PrintExpr(st.e))
PrintAssign(st) == Uses({st.v} \cup PrintExpr(st.e))
PrintSetItem(st) == Uses(PrintExpr(st.o) \cup PrintExpr(st.e))
PrintReturn(st) == Uses(PrintExpr(st.e))
PrintEvaluate(st) == Uses(PrintExpr(st.e))
PrintIf(st) == Uses(PrintExpr(st.c)) \o Braces(st.th) \o Braces(st.el)
PrintWhile(st) == Uses(PrintExpr(st.c)) \o Braces(st.body)

PrintStmt(st) ==
  CASE st.k = "alloca" -> PrintAlloca(st)
    [] st.k = "store" -> PrintAssign(st)
    [] st.k = "setitem" -> PrintSetItem(st)
    [] st.k = "return" -> PrintReturn(st)
    [] st.k = "eval" -> PrintEvaluate(st)
    [] st.k = "if" -> PrintIf(st)
    [] st.k = "while" -> PrintWhile(st)
    [] st.k = "seq" -> PrintSeq(st.ss)

\* A sequence has no braces.
PrintSeq(ss) == FlattenSeq([i \in DOMAIN ss |-> PrintStmt(ss[i])])

\* The body of a function.
InsertFunction(ss) == PrintSeq(ss)
=============================================================================
