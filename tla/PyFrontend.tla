------------------------------ MODULE PyFrontend ------------------------------
(***************************************************************************)
(* The parser of python/ffi_system/parser.py: the same subset of Python,   *)
(* compiled to C++.  It inlines method calls as src/parser.cc does, but    *)
(* every block has a scope of its own and every operand a place in the     *)
(* order of the statements: and, or and a conditional become a temporary   *)
(* and an if.                                                              *)
(*                                                                         *)
(* Its tables are scopes, a stack of functions from names to variables;    *)
(* cls, the names bound to an object of the class (which are not scoped);  *)
(* tmp, which numbers the variables.  Every allocation makes a variable of *)
(* its own, whatever its name.                                             *)
(*                                                                         *)
(* Its type checks are left out: they reject scripts and change no other,  *)
(* so the model accepts the more.  The value a variable is declared with   *)
(* before its first assignment, which depends on its type, is 0.  An       *)
(* expression statement is a call here.                                    *)
(***************************************************************************)
EXTENDS CppFrontend, ScriptText

PyTables(ms) == [scopes |-> <<<<>>>>, cls |-> {}, tmp |-> 0, ms |-> ms, ok |-> TRUE]

NewScope(ps) == [ps EXCEPT !.scopes = Append(@, <<>>)]
PopScope(ps) == [ps EXCEPT !.scopes = Front(@)]

\* lookup_symbol: the innermost scope that has the name.
Symbols(ps) == FoldLeft(LAMBDA outer, inner : inner @@ outer, <<>>, ps.scopes)
Known(ps, x) == x \in DOMAIN Symbols(ps)
Symbol(ps, x) == IF Known(ps, x) THEN Symbols(ps)[x] ELSE Variable(x, 0, Handle)

\* update_symbol
UpdateSymbol(ps, x, v) ==
  [ps EXCEPT !.scopes = Append(Front(@), (x :> v) @@ Last(@))]

\* Body parsed in a scope of its own.
Scoped(Body(_), ps) ==
  With(Body(NewScope(ps)), LAMBDA r : Emit(PopScope(r.ps), r.p))

IsMethodCall(ps, e) == e.k = "call" /\ e.o \in ps.cls /\ Known(ps, e.o)

-----------------------------------------------------------------------------
RECURSIVE VisitLowered(_, _), VisitBody(_, _), LowerMethodBody(_, _, _)

\* Mutant of BoolOp: the statements of the right operand before the if.
BoolOpEager(op, l, tmp, r) ==
  LET rest == <<Store(tmp, Not(Not(r.e)))>>
  IN  Res(r.ps, l.p \o <<Alloca(tmp, Not(Not(l.e)))>> \o r.p
                  \o <<IF op = "and" THEN If(Ref(tmp), rest, <<>>) ELSE If(Ref(tmp), <<>>, rest)>>,
          Ref(tmp))

\* and, or: the value of the left operand in a temporary, and an if around all
\* that the right operand needs.
BoolOp(op, l, tmp, r) ==
  LET rest == Append(r.p, Store(tmp, Not(Not(r.e))))
  IN  Res(r.ps, l.p \o <<Alloca(tmp, Not(Not(l.e))),
                         IF op = "and" THEN If(Ref(tmp), rest, <<>>) ELSE If(Ref(tmp), <<>>, rest)>>,
          Ref(tmp))

\* c, a and b of a if c else b.
IfExp(r) ==
  LET tmp == TempVar(r.ps, Handle)
      Branch(i) == Append(r.each[i], Store(tmp, r.es[i]))
  IN  Res(TempMade(r.ps), r.each[1] \o <<Alloca(tmp, Num(0)), If(r.es[1], Branch(2), Branch(3))>>,
          Ref(tmp))

\* self and the parameters, each as soon as its argument has been visited: the
\* next argument is visited with it in scope.
BindParams(ps, method, obj, args) ==
  LET self == [UpdateSymbol(NewScope(ps), "self", obj) EXCEPT !.cls = @ \cup {"self"}]
      Bind(acc, i) ==
        With(VisitLowered(acc.ps, args[i]), LAMBDA r :
        With(TempVar(r.ps, Handle), LAMBDA arg :
          Emit(UpdateSymbol(TempMade(r.ps), method.params[i], arg),
               acc.p \o Append(r.p, Alloca(arg, r.e)))))
  IN  FoldLeft(Bind, Emit(self, <<>>), [i \in DOMAIN args |-> i])

ExpandMethod(ps, m, obj, args) ==
  LET method == ps.ms[m] IN
  IF m \notin DOMAIN ps.ms \/ Len(args) # Len(method.params)
  THEN Res(Throwing(ps), <<>>, NullImm)
  ELSE With(BindParams(ps, method, obj, args), LAMBDA bound :
       With([ret |-> TempVar(bound.ps, method.ret), has |-> TempVar(TempMade(bound.ps), Bool)],
            LAMBDA slot :
       With(LowerMethodBody(TempMade(TempMade(bound.ps)), method.body, slot), LAMBDA body :
         Res([PopScope(body.ps) EXCEPT !.cls = ps.cls],
             bound.p \o <<Alloca(slot.ret, IF method.ret = Handle THEN Ref(obj) ELSE Num(0)),
                          Alloca(slot.has, Num(0)), Seq1(body.p)>>,
             Ref(slot.ret)))))

VisitLowered(ps, e) ==
  CASE e.k = "int" -> Res(ps, <<>>, e)
    [] e.k = "var" -> Res(Require(ps, Known(ps, e.x)), <<>>, Ref(Symbol(ps, e.x)))
    [] e.k = "attr" -> Res(Require(ps, Known(ps, e.o)), <<>>, GetItem(Ref(Symbol(ps, e.o)), e.at))
    [] e.k = "par" -> VisitLowered(ps, e.a)
    [] e.k = "not" -> With(VisitLowered(ps, e.a), LAMBDA r : Res(r.ps, r.p, Not(r.e)))
    [] e.k = "bin" ->
         With(InOrder(VisitLowered, ps, <<e.a, e.b>>), LAMBDA r :
           Res(r.ps, r.p, Bin(e.op, r.es[1], r.es[2])))
    [] e.k = "chain" ->
         With(InOrder(VisitLowered, ps, <<e.a, e.b, e.c>>), LAMBDA r :
           Res(r.ps, r.p, And(Bin("<", r.es[1], r.es[2]), Bin("<", r.es[2], r.es[3]))))
    [] e.k \in {"and", "or"} ->
         With(VisitLowered(ps, e.a), LAMBDA l :
         With(VisitLowered(TempMade(l.ps), e.b), LAMBDA r :
           BoolOp(e.k, l, TempVar(l.ps, Bool), r)))
    [] e.k = "ife" -> With(InOrder(VisitLowered, ps, <<e.c, e.a, e.b>>), IfExp)
    [] e.k = "call" ->
         IF IsMethodCall(ps, e) THEN ExpandMethod(ps, e.m, Symbol(ps, e.o), e.args)
         ELSE With(InOrder(VisitLowered, Require(ps, Known(ps, e.o)), e.args), LAMBDA r :
                Res(r.ps, r.p, MethodCall(Ref(Symbol(ps, e.o)), e.m, r.es)))

-----------------------------------------------------------------------------
(* Statements, the same in a function and in a method but for the bodies   *)
(* inside them and for the condition of a loop.                            *)

LookupOrAlloca(ps, x, e) ==
  IF Known(ps, x) THEN Emit(ps, <<Store(Symbol(ps, x), e)>>)
  ELSE With(Variable(x, ps.tmp, Handle), LAMBDA v :
         Emit(UpdateSymbol(TempMade(ps), x, v), <<Alloca(v, e)>>))

Unbound(ps, x) == [ps EXCEPT !.cls = @ \ {x}]

VisitAssign(ps, st) ==
  With(VisitLowered(ps, st.e), LAMBDA r :
  With(LookupOrAlloca(r.ps, st.x, r.e), LAMBDA a : Emit(Unbound(a.ps, st.x), r.p \o a.p)))

VisitSetAttr(ps, st) ==
  With(VisitLowered(ps, st.e), LAMBDA r :
    Emit(Require(r.ps, st.o \in r.ps.cls /\ Known(r.ps, st.o)),
         Append(r.p, SetItem(Ref(Symbol(r.ps, st.o)), st.at, r.e))))

\* _lower_ctor_assign
LowerCtorAssign(ps, st) ==
  With(LookupOrAlloca(ps, st.x, EmptyDict), LAMBDA a :
  With(ExpandMethod([a.ps EXCEPT !.cls = @ \cup {st.x}], "init", Symbol(a.ps, st.x), st.args),
       LAMBDA r : Emit(r.ps, a.p \o r.p)))

VisitIf(ps, st, Th(_), El(_)) ==
  With(VisitLowered(ps, st.c), LAMBDA c :
  With(Scoped(Th, c.ps), LAMBDA th :
  With(Scoped(El, th.ps), LAMBDA el :
    Emit(el.ps, Append(c.p, If(c.e, th.p, el.p))))))

\* A condition with statements is computed into a temporary, before the loop
\* and behind each round.
Primed(prime, body, update, Cond(_)) ==
  LET cond == TempVar(update.ps, Handle)
      again == Seq1(Append(update.p, Store(cond, update.e)))
  IN  Emit(TempMade(update.ps),
           <<Alloca(cond, Num(0))>> \o prime.p
             \o <<Store(cond, prime.e), While(Cond(Ref(cond)), <<Seq1(body.p), again>>)>>)

VisitWhile(ps, st, Body(_), Cond(_)) ==
  With(VisitLowered(ps, st.c), LAMBDA prime :
  With(Scoped(Body, prime.ps), LAMBDA body :
    IF prime.p = <<>> THEN Emit(body.ps, <<While(Cond(prime.e), body.p)>>)
    ELSE Primed(prime, body, VisitLowered(body.ps, st.c), Cond)))

\* eval_once: an argument of range in a temporary.
EvalOnce(ps, e) ==
  With(VisitLowered(ps, e), LAMBDA r :
    Res(TempMade(r.ps), Append(r.p, Alloca(TempVar(r.ps, Handle), r.e)), Ref(TempVar(r.ps, Handle))))

VisitFor(ps, st, Body(_), Cond(_)) ==
  LET Loop(x, end, step, body) ==
        LET down == Bin("<", step, Num(0)) IN
        While(Cond(Or(And(down, Bin(">", Ref(x), end)), And(Not(down), Bin("<", Ref(x), end)))),
              <<Seq1(body), Store(x, Bin("+", Ref(x), step))>>)
  IN  With(InOrder(EvalOnce, ps, <<st.a, st.b, st.s>>), LAMBDA r :
      With(LookupOrAlloca(r.ps, st.x, r.es[1]), LAMBDA init :
      With(Scoped(Body, init.ps), LAMBDA body :
        Emit(body.ps, r.p \o init.p
                        \o <<Loop(Symbol(init.ps, st.x), r.es[2], r.es[3], body.p)>>))))

-----------------------------------------------------------------------------
(* A function. *)

VisitReturn(ps, st) ==
  With(VisitLowered(ps, st.e), LAMBDA r : Emit(r.ps, Append(r.p, Return(r.e))))

\* visit, which lowers nothing: names must be known, and a conditional has no
\* visitor (visit_IfExpr is not the name of one).
Visited(ps, e) == \A t \in Within(e) : t.k # "ife" /\ \A x \in Name(t) : Known(ps, x)

\* A call whose value is dropped.  One that is not of a method of the class stays
\* in the tree as it is; its arguments decide nothing later.
VisitExpr(ps, st) ==
  IF IsMethodCall(ps, st.e)
  THEN With(VisitLowered(ps, st.e), LAMBDA r : Emit(r.ps, r.p))
  ELSE Emit(Require(ps, Visited(ps, st.e)),
            <<Eval(MethodCall(Ref(Symbol(ps, st.e.o)), st.e.m, st.e.args))>>)

Visit(ps, st) ==
  LET Same(c) == c IN
  CASE st.k = "assign" -> VisitAssign(ps, st)
    [] st.k = "setattr" -> VisitSetAttr(ps, st)
    [] st.k = "new" -> LowerCtorAssign(ps, st)
    [] st.k = "if" -> VisitIf(ps, st, LAMBDA q : VisitBody(q, st.th), LAMBDA q : VisitBody(q, st.el))
    [] st.k = "while" -> VisitWhile(ps, st, LAMBDA q : VisitBody(q, st.body), Same)
    [] st.k = "for" -> VisitFor(ps, st, LAMBDA q : VisitBody(q, st.body), Same)
    [] st.k = "return" -> VisitReturn(ps, st)
    [] st.k = "do" -> VisitExpr(ps, st)

VisitBody(ps, ss) ==
  IF ss = <<>> \/ ~ps.ok THEN Emit(ps, <<>>)
  ELSE With(Visit(ps, Head(ss)), LAMBDA first :
       With(VisitBody(first.ps, Tail(ss)), LAMBDA rest :
         Emit(rest.ps, first.p \o rest.p)))

-----------------------------------------------------------------------------
(* A method that is inlined: slot holds the variables for its result and   *)
(* for whether it has returned.                                            *)

\* As one statement.
Whole(r) == Emit(r.ps, <<Seq1(r.p)>>)

LowerReturn(ps, st, slot) ==
  With(VisitLowered(ps, st.e), LAMBDA r :
    Whole(Emit(r.ps, r.p \o <<Store(slot.ret, r.e), Store(slot.has, Num(1))>>)))

\* A local is declared in front of the statement that assigns it.
LowerAssign(ps, st) ==
  With(VisitLowered(ps, st.e), LAMBDA r :
    IF Known(r.ps, st.x)
    THEN Whole(Emit(Unbound(r.ps, st.x), Append(r.p, Store(Symbol(r.ps, st.x), r.e))))
    ELSE With(Variable(st.x, r.ps.tmp, Handle), LAMBDA v :
           Emit(Unbound(UpdateSymbol(TempMade(r.ps), st.x, v), st.x),
                <<Alloca(v, Num(0)), Seq1(Append(r.p, Store(v, r.e)))>>)))

LowerMethodStmt(ps, st, slot) ==
  LET Body(q) == LowerMethodBody(q, st.body, slot)
      Goes(c) == And(Not(Ref(slot.has)), c)
  IN  CASE st.k = "return" -> LowerReturn(ps, st, slot)
        [] st.k = "assign" -> LowerAssign(ps, st)
        [] st.k = "if" -> VisitIf(ps, st, LAMBDA q : LowerMethodBody(q, st.th, slot),
                                          LAMBDA q : LowerMethodBody(q, st.el, slot))
        [] st.k = "while" -> Whole(VisitWhile(ps, st, Body, Goes))
        [] st.k = "for" -> Whole(VisitFor(ps, st, Body, Goes))
        [] st.k = "new" -> Emit(Throwing(ps), <<>>)
        [] st.k \in {"setattr", "do"} -> Whole(Visit(ps, st))

\* All but declarations ask has_ret first.
Guarded(p, slot) ==
  [i \in DOMAIN p |-> IF p[i].k = "alloca" THEN p[i] ELSE If(Not(Ref(slot.has)), <<p[i]>>, <<>>)]

LowerMethodBody(ps, ss, slot) ==
  IF ss = <<>> \/ ~ps.ok THEN Emit(ps, <<>>)
  ELSE With(LowerMethodStmt(ps, Head(ss), slot), LAMBDA first :
       With(LowerMethodBody(first.ps, Tail(ss), slot), LAMBDA rest :
         Emit(rest.ps, Guarded(first.p, slot) \o rest.p)))
=============================================================================
