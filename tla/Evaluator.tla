------------------------------ MODULE Evaluator ------------------------------
(***************************************************************************)
(* The Evaluator of apps/interpreter_ast.cc: statements without classes,   *)
(* executed over one environment env_ that outlives every block.  The      *)
(* front ends leave nothing but variables, stores, branches and loops;     *)
(* here they run one statement at a time.                                  *)
(*                                                                         *)
(* A variable has a name, a number (0 for the names of the script, a fresh *)
(* one for what a front end makes up) and the type it was declared with,   *)
(* which the Evaluator does not look at.                                   *)
(***************************************************************************)
EXTENDS Script

\* Expressions beside those of Script: a variable, an item of an object, a
\* method call that was not inlined, the empty object and None.
Variable(n, i, ty) == [n |-> n, i |-> i, t |-> ty]
Key(v) == <<v.n, v.i>>
Ref(v) == [k |-> "ref", v |-> v]
GetItem(o, a) == [k |-> "item", o |-> o, at |-> a]
MethodCall(o, m, args) == [k |-> "mcall", o |-> o, m |-> m, args |-> args]
EmptyDict == [k |-> "dict"]
NullImm == [k |-> "null"]

\* Statements beside the if and while of Script.
Alloca(v, e) == [k |-> "alloca", v |-> v, e |-> e]
Store(v, e) == [k |-> "store", v |-> v, e |-> e]
SetItem(o, a, e) == [k |-> "setitem", o |-> o, at |-> a, e |-> e]
Eval(e) == [k |-> "eval", e |-> e]
Seq1(ss) == [k |-> "seq", ss |-> ss]

VARIABLES
  todo,     \* the statements still to be executed, innermost first
  env,      \* env_: variables that have been stored
  heap,     \* the objects, as functions from attributes to values
  log,      \* the writes to attributes so far
  outcome,  \* running, returned with a value, or failed
  last      \* last_expr, then the value that was returned: what is printed

evaluator == <<todo, env, heap, log, outcome, last>>

Running == [done |-> FALSE, v |-> NoneV]
Finished(v) == [done |-> TRUE, v |-> v]
Unset == [t |-> "unset", n |-> 0]

Begin(ss) ==
  /\ todo = ss
  /\ env = <<>>
  /\ heap = <<>>
  /\ log = <<>>
  /\ outcome = Running
  /\ last = Unset

\* Another block, in the environment that the blocks before it have left.
Load(ss) ==
  /\ todo' = ss
  /\ outcome' = Running
  /\ last' = Unset
  /\ UNCHANGED <<env, heap, log>>

-----------------------------------------------------------------------------
RECURSIVE EvalExpr(_)

\* Operands of and, or and the arithmetic have no effects left, so the order
\* in which they are evaluated does not show.
EvalExpr(e) ==
  CASE e.k = "int" -> IntV(e.n)
    [] e.k = "ref" -> Lookup(env, Key(e.v))
    [] e.k = "item" -> Member(heap, EvalExpr(e.o), e.at)
    [] e.k = "null" -> NoneV
    [] e.k = "mcall" -> Bad
    [] e.k = "bin" -> Arith(e.op, EvalExpr(e.a), EvalExpr(e.b))
    [] e.k = "not" -> LET a == EvalExpr(e.a)
                      IN  IF a = Bad THEN Bad ELSE BoolV(~Truth(a))
    [] e.k \in {"and", "or"} ->
         LET a == EvalExpr(e.a)
             b == EvalExpr(e.b)
         IN  IF a = Bad THEN Bad
             ELSE IF Truth(a) = (e.k = "or") THEN BoolV(e.k = "or")
             ELSE IF b = Bad THEN Bad ELSE BoolV(Truth(b))

Subject == Head(todo)

\* The value the next statement needs before it does anything.
Operand ==
  CASE Subject.k = "seq" -> NoneV
    [] Subject.k \in {"if", "while"} -> EvalExpr(Subject.c)
    [] OTHER -> IF Subject.e = EmptyDict THEN NoneV ELSE EvalExpr(Subject.e)

Exec(kinds) ==
  /\ ~outcome.done
  /\ todo # <<>>
  /\ Subject.k \in kinds
  /\ Operand # Bad

ExecSeq ==
  /\ Exec({"seq"})
  /\ todo' = Subject.ss \o Tail(todo)
  /\ UNCHANGED <<env, heap, log, outcome, last>>

ExecStore ==
  /\ Exec({"alloca", "store"})
  /\ Subject.e # EmptyDict
  /\ env' = (Key(Subject.v) :> Operand) @@ env
  /\ todo' = Tail(todo)
  /\ UNCHANGED <<heap, log, outcome, last>>

\* Mutant of ExecNew: the object is referred to and not made.
ExecNewNothing ==
  /\ Exec({"alloca", "store"})
  /\ Subject.e = EmptyDict
  /\ env' = (Key(Subject.v) :> ObjV(Len(heap) + 1)) @@ env
  /\ todo' = Tail(todo)
  /\ UNCHANGED <<heap, log, outcome, last>>

ExecNew ==
  /\ Exec({"alloca", "store"})
  /\ Subject.e = EmptyDict
  /\ heap' = Append(heap, <<>>)
  /\ env' = (Key(Subject.v) :> ObjV(Len(heap'))) @@ env
  /\ todo' = Tail(todo)
  /\ UNCHANGED <<log, outcome, last>>

ExecSetItem ==
  /\ Exec({"setitem"})
  /\ LET o == EvalExpr(Subject.o) IN
     /\ o.t = "obj"
     /\ heap' = WithMember(heap, o, Subject.at, Operand)
     /\ log' = Append(log, <<o.n, Subject.at, Operand>>)
  /\ last' = Operand
  /\ todo' = Tail(todo)
  /\ UNCHANGED <<env, outcome>>

ExecExpr ==
  /\ Exec({"eval"})
  /\ last' = Operand
  /\ todo' = Tail(todo)
  /\ UNCHANGED <<env, heap, log, outcome>>

ExecIf ==
  /\ Exec({"if"})
  /\ todo' = (IF Truth(Operand) THEN Subject.th ELSE Subject.el) \o Tail(todo)
  /\ UNCHANGED <<env, heap, log, outcome, last>>

ExecWhile ==
  /\ Exec({"while"})
  /\ todo' = IF Truth(Operand) THEN Subject.body \o todo ELSE Tail(todo)
  /\ UNCHANGED <<env, heap, log, outcome, last>>

\* A return leaves every statement behind, and so does the end of the block.
ExecReturn ==
  /\ Exec({"return"})
  /\ outcome' = Finished(Operand)
  /\ last' = Operand
  /\ todo' = <<>>
  /\ UNCHANGED <<env, heap, log>>

EndOfBlock ==
  /\ ~outcome.done
  /\ todo = <<>>
  /\ outcome' = Finished(NoneV)
  /\ UNCHANGED <<todo, env, heap, log, last>>

\* An exception: an unknown variable, a missing item, a method nobody has, an
\* operand of the wrong kind; it ends the program.  A division by zero throws
\* nothing, it ends the process (Script!Arith); the writes before it are made,
\* and none is made behind it, as with an exception.
Throw ==
  /\ ~outcome.done
  /\ todo # <<>>
  /\ \/ Operand = Bad
     \/ Subject.k = "setitem" /\ EvalExpr(Subject.o).t # "obj"
  /\ outcome' = Finished(Bad)
  /\ todo' = <<>>
  /\ UNCHANGED <<env, heap, log, last>>

Execute ==
  \/ ExecSeq \/ ExecStore \/ ExecNew \/ ExecSetItem \/ ExecExpr
  \/ ExecIf \/ ExecWhile \/ ExecReturn \/ EndOfBlock \/ Throw
=============================================================================
