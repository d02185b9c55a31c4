----------------------------- MODULE CppFrontend -----------------------------
(***************************************************************************)
(* The parser of src/parser.cc: one pass over a script that inlines every  *)
(* method call.  Its tables are flat: symbols_ from names to variables,    *)
(* symbol_types_ from names to types, current_var_class_types_ (here the   *)
(* set of names bound to an object of the class) and tmp_id_.              *)
(*                                                                         *)
(* A result holds the tables after it, the statements to run before it     *)
(* (its prelude) and the expression.  ok is FALSE once a runtime_error has  *)
(* been thrown: the statements after it are not parsed, nothing is run.     *)
(*                                                                         *)
(* ExpandClassMethod takes the name of the class by reference, from an     *)
(* entry of current_var_class_types_.  freed is the set of the names whose *)
(* entry has been destroyed since, stale is TRUE once a class name has     *)
(* been read from a destroyed entry: whether the parser then goes on or    *)
(* throws (bad_alloc, length_error) is left to the memory.                 *)
(*                                                                         *)
(* The operands of an operator are lowered in the arguments of one call    *)
(* (PrimAdd(LowerClassCalls(a), LowerClassCalls(b))): which comes first    *)
(* is up to the C++ compiler.  left is TRUE when it is the left one.       *)
(***************************************************************************)
EXTENDS Evaluator

Int64 == "int"
Bool == "bool"
Handle == "handle"

Res(ps, p, e) == [ps |-> ps, p |-> p, e |-> e]
Throwing(ps) == [ps EXCEPT !.ok = FALSE]
Require(ps, cond) == IF cond THEN ps ELSE Throwing(ps)

DefineVar(ps, x, v, ty) == [ps EXCEPT !.sym = (x :> v) @@ @, !.ty = (x :> ty) @@ @]

\* LookupVar; the result after a throw does not matter.
LookupVar(ps, x) == IF x \in DOMAIN ps.sym THEN ps.sym[x] ELSE Variable(x, 0, Handle)
Defined(ps, x) == Require(ps, x \in DOMAIN ps.sym)

\* NewTempName and the variable allocated under it.
TempVar(ps, ty) == Variable("", ps.tmp, ty)
TempMade(ps) == [ps EXCEPT !.tmp = @ + 1]

-----------------------------------------------------------------------------
(* Types. *)

\* attr_types: of the attributes that a line of __init__ assigns a parameter
\* or a literal; the last such line counts.
AttrTypes(ms) ==
  LET init == ms["init"]
      Type(e) ==
        CASE e.k = "int" -> {Int64}
          [] e.k = "var" -> {init.types[i] : i \in {j \in DOMAIN init.params : init.params[j] = e.x}}
          [] OTHER -> {}
      Note(types, st) ==
        IF st.k = "setattr" /\ st.o = "self" /\ Type(st.e) # {}
        THEN (st.at :> CHOOSE ty \in Type(st.e) : TRUE) @@ types
        ELSE types
  IN  FoldLeft(Note, <<>>, Lines(init.body))

\* The tables once the class has been read.
Tables(ms, left) ==
  [sym |-> <<>>, ty |-> <<>>, cls |-> {}, tmp |-> 0, ms |-> ms, attrs |-> AttrTypes(ms),
   ok |-> TRUE, left |-> left, freed |-> {}, stale |-> FALSE]

MergeNumeric(a, b) == IF a = Bool /\ b = Bool THEN Bool ELSE Int64
MergeValueType(a, b) ==
  IF a = b THEN a ELSE IF Handle \in {a, b} THEN Handle ELSE MergeNumeric(a, b)

RECURSIVE InferExprType(_, _)
InferExprType(ps, e) ==
  CASE e.k = "int" -> Int64
    [] e.k = "ref" -> IF e.v.n \in DOMAIN ps.ty THEN ps.ty[e.v.n] ELSE e.v.t
    [] e.k = "item" -> IF e.o.v.n \in ps.cls /\ e.at \in DOMAIN ps.attrs
                       THEN ps.attrs[e.at] ELSE Handle
    [] e.k = "bin" /\ e.op \in {"+", "-", "*", "/"} -> MergeNumeric(InferExprType(ps, e.a), InferExprType(ps, e.b))
    [] e.k \in {"bin", "and", "or", "not"} -> Bool
    [] OTHER -> Handle

DefaultInitForType(ty) == IF ty = Handle THEN NullImm ELSE Num(0)

\* An expression of type actual where expected is declared.
Fits(expected, actual) == expected = Handle \/ expected = actual

-----------------------------------------------------------------------------
(* The body of an inlined method: a return assigns ret and sets has_ret,   *)
(* and every statement asks has_ret first.                                 *)
RECURSIVE RewriteMethodReturns(_, _, _)

\* Mutant: statements after an inner return are not guarded.
RewriteUnguarded(ss, ret, has) ==
  LET One(st) ==
        CASE st.k = "return" -> Seq1(<<Store(ret, st.e), Store(has, Num(1))>>)
          [] OTHER -> st
  IN  [i \in DOMAIN ss |-> One(ss[i])]

\* Mutant: the condition of a loop does not ask has_ret.
RewriteLoopsOn(ss, ret, has) ==
  LET One(st) ==
        CASE st.k = "return" -> <<Store(ret, st.e), Store(has, Num(1))>>
          [] st.k = "seq" -> RewriteMethodReturns(st.ss, ret, has)
          [] st.k = "if" -> <<If(st.c, RewriteMethodReturns(st.th, ret, has),
                                       RewriteMethodReturns(st.el, ret, has))>>
          [] st.k = "while" -> <<While(st.c, RewriteMethodReturns(st.body, ret, has))>>
          [] OTHER -> <<st>>
  IN  [i \in DOMAIN ss |-> If(Not(Ref(has)), One(ss[i]), <<>>)]

RewriteMethodReturns(ss, ret, has) ==
  LET One(st) ==
        CASE st.k = "return" -> <<Store(ret, st.e), Store(has, Num(1))>>
          [] st.k = "seq" -> RewriteMethodReturns(st.ss, ret, has)
          [] st.k = "if" -> <<If(st.c, RewriteMethodReturns(st.th, ret, has),
                                       RewriteMethodReturns(st.el, ret, has))>>
          [] st.k = "while" -> <<While(And(Not(Ref(has)), st.c),
                                       RewriteMethodReturns(st.body, ret, has))>>
          [] OTHER -> <<st>>
  IN  [i \in DOMAIN ss |-> If(Not(Ref(has)), One(ss[i]), <<>>)]

\* The types of the returned expressions, in tables ps.
RECURSIVE ReturnsFit(_, _, _)
ReturnsFit(ps, ss, ty) ==
  \A i \in DOMAIN ss :
    LET st == ss[i] IN
    CASE st.k = "return" -> Fits(ty, InferExprType(ps, st.e))
      [] st.k = "seq" -> ReturnsFit(ps, st.ss, ty)
      [] st.k = "if" -> ReturnsFit(ps, st.th, ty) /\ ReturnsFit(ps, st.el, ty)
      [] st.k = "while" -> ReturnsFit(ps, st.body, ty)
      [] OTHER -> TRUE

-----------------------------------------------------------------------------
RECURSIVE ParseOr(_, _), ParseIfExpr(_, _), LowerClassCalls(_, _), ParseStmtBlock(_, _)

\* A result with another prelude in front.
After(p, r) == Res(r.ps, p \o r.p, r.e)

\* Several expressions one after the other by an operator of tables and
\* expression: the prelude of all and of each.
InOrder(Parse(_, _), ps, es) ==
  LET Add(acc, r) == [ps |-> r.ps, p |-> acc.p \o r.p, es |-> Append(acc.es, r.e),
                      each |-> Append(acc.each, r.p)]
      Then(acc, e) == Add(acc, Parse(acc.ps, e))
  IN  FoldLeft(Then, [ps |-> ps, p |-> <<>>, es |-> <<>>, each |-> <<>>], es)

\* ParseOr down to ParsePostfix.  Calls are left in the tree, except those in
\* parentheses and arguments, which ParseIfExpr lowers on the spot.
ParseOr(ps, e) ==
  CASE e.k = "int" -> Res(ps, <<>>, e)
    [] e.k = "var" -> Res(Defined(ps, e.x), <<>>, Ref(LookupVar(ps, e.x)))
    [] e.k = "attr" -> Res(Defined(ps, e.o), <<>>, GetItem(Ref(LookupVar(ps, e.o)), e.at))
    [] e.k = "call" ->
         With(InOrder(ParseIfExpr, Defined(ps, e.o), e.args), LAMBDA r :
           Res(r.ps, r.p, MethodCall(Ref(LookupVar(ps, e.o)), e.m, r.es)))
    [] e.k = "par" -> ParseIfExpr(ps, e.a)
    [] e.k = "not" -> With(ParseOr(ps, e.a), LAMBDA r : Res(r.ps, r.p, Not(r.e)))
    [] e.k \in {"bin", "and", "or"} ->
         With(InOrder(ParseOr, ps, <<e.a, e.b>>), LAMBDA r :
           Res(r.ps, r.p, [e EXCEPT !.a = r.es[1], !.b = r.es[2]]))
    [] e.k = "chain" ->
         With(InOrder(ParseOr, ps, <<e.a, e.b, e.c>>), LAMBDA r :
           Res(r.ps, r.p, And(Bin("<", r.es[1], r.es[2]), Bin("<", r.es[2], r.es[3]))))

\* An expression without a conditional, and the calls left in it.
Lowered(ps, e) ==
  With(ParseOr(ps, e), LAMBDA r : After(r.p, LowerClassCalls(r.ps, r.e)))

\* a if c else b: a temporary, stored in either branch.
Conditional(r) ==
  LET ty == MergeValueType(InferExprType(r.ps, r.es[1]), InferExprType(r.ps, r.es[3]))
      tmp == TempVar(r.ps, ty)
      Branch(i) == Append(r.each[i], Store(tmp, r.es[i]))
  IN  Res(TempMade(r.ps),
          r.each[2] \o <<Alloca(tmp, DefaultInitForType(ty)), If(r.es[2], Branch(1), Branch(3))>>,
          Ref(tmp))

ParseIfExpr(ps, e) ==
  IF e.k = "ife" THEN Conditional(InOrder(ParseIfExpr, ps, <<e.a, e.c, e.b>>))
  ELSE Lowered(ps, e)

\* self and the parameters are defined over the caller's tables.
Bound(ps, method, obj, args) ==
  LET fits == \A i \in DOMAIN args : Fits(method.types[i], InferExprType(ps, args[i]))
      self == [DefineVar(Require(ps, fits), "self", obj, Handle)
                 EXCEPT !.cls = @ \cup {"self"}, !.freed = {}]
      Bind(acc, i) ==
        LET ty == InferExprType(acc.ps, args[i])
            arg == TempVar(acc.ps, ty)
        IN  [ps |-> DefineVar(TempMade(acc.ps), method.params[i], arg, ty),
             p |-> Append(acc.p, Alloca(arg, args[i]))]
  IN  FoldLeft(Bind, [ps |-> self, p |-> <<>>], [i \in DOMAIN args |-> i])

\* The statements of a call: its arguments, its result, its body.
Inlined(bound, method, initial, body) ==
  LET ret == TempVar(bound.ps, method.ret)
      has == TempVar(TempMade(bound.ps), Bool)
  IN  Res(Require(body.ps, ReturnsFit(body.ps, body.p, method.ret)),
          bound.p \o <<Alloca(ret, initial), Alloca(has, Num(0)),
                       Seq1(RewriteMethodReturns(body.p, ret, has))>>,
          Ref(ret))

\* The caller's tables come back in place of the present ones; tmp_id_ does
\* not.  held is the name whose entry the class name is read from by now.
Leave(caller, ps, held) ==
  [caller EXCEPT !.tmp = ps.tmp, !.ok = ps.ok, !.freed = @ \cup caller.cls,
                 !.stale = ps.stale \/ held \cap ps.freed # {}]

ExpandClassMethod(ps, m, obj, args, held) ==
  LET method == ps.ms[m]
      initial == IF method.ret = Handle THEN Ref(obj) ELSE DefaultInitForType(method.ret)
  IN
  IF m \notin DOMAIN ps.ms \/ Len(args) # Len(method.params)
  THEN Res(Throwing(ps), <<>>, NullImm)
  ELSE With(Bound(ps, method, obj, args), LAMBDA bound :
       With(ParseStmtBlock(TempMade(TempMade(bound.ps)), method.body), LAMBDA body :
       With(Inlined(bound, method, initial, body), LAMBDA r :
         Res(Leave(ps, r.ps, held), r.p, r.e))))

LowerClassCalls(ps, e) ==
  CASE e.k = "mcall" ->
         With(InOrder(LowerClassCalls, ps, e.args), LAMBDA r :
           IF e.o.v.n \notin ps.cls THEN Res(r.ps, r.p, [e EXCEPT !.args = r.es])
           ELSE After(r.p, ExpandClassMethod(Defined(r.ps, e.o.v.n), e.m,
                                             LookupVar(r.ps, e.o.v.n), r.es, {e.o.v.n})))
    [] e.k = "not" -> With(LowerClassCalls(ps, e.a), LAMBDA r : Res(r.ps, r.p, Not(r.e)))
    [] e.k \in {"bin", "and", "or"} ->
         LET Both(es) == IF ps.left THEN es ELSE Reverse(es) IN
         With(InOrder(LowerClassCalls, ps, Both(<<e.a, e.b>>)), LAMBDA r :
           Res(r.ps, r.p, [e EXCEPT !.a = Both(r.es)[1], !.b = Both(r.es)[2]]))
    [] OTHER -> Res(ps, <<>>, e)

-----------------------------------------------------------------------------
(* Statements: the tables after them and what they become. *)
Emit(ps, p) == [ps |-> ps, p |-> p]

\* A name is allocated where it is first assigned in the text.
AssignOrAlloca(ps, x, e) ==
  IF x \in DOMAIN ps.sym THEN Emit(ps, <<Store(ps.sym[x], e)>>)
  ELSE LET ty == InferExprType(ps, e)
           v == Variable(x, 0, ty)
       IN  Emit(DefineVar(ps, x, v, ty), <<Alloca(v, e)>>)

ParseAssign(ps, st) ==
  With(ParseIfExpr(ps, st.e), LAMBDA r :
  With(AssignOrAlloca(r.ps, st.x, r.e), LAMBDA a :
    Emit([a.ps EXCEPT !.cls = @ \ {st.x}, !.freed = @ \cup {st.x}], r.p \o a.p)))

\* Mutant of ParseSetAttr: the type of the attribute is not checked.
ParseSetAttrAny(ps, st) ==
  LET o == LookupVar(ps, st.o) IN
  With(ParseIfExpr(Defined(ps, st.o), st.e), LAMBDA r :
    Emit(r.ps, Append(r.p, SetItem(Ref(o), st.at, r.e))))

ParseSetAttr(ps, st) ==
  LET o == LookupVar(ps, st.o)
      Fitting(r) == o.n \in r.ps.cls /\ st.at \in DOMAIN ps.attrs =>
                      Fits(ps.attrs[st.at], InferExprType(r.ps, r.e))
  IN  With(ParseIfExpr(Defined(ps, st.o), st.e), LAMBDA r :
        Emit(Require(r.ps, Fitting(r)), Append(r.p, SetItem(Ref(o), st.at, r.e))))

\* x = C(args): x is the new object before the arguments are looked at.
ParseNew(ps, st) ==
  LET v == Variable(st.x, 0, Handle)
      named == [DefineVar(ps, st.x, v, Handle) EXCEPT !.cls = @ \cup {st.x}]
  IN  With(InOrder(ParseIfExpr, named, st.args), LAMBDA r :
      With(ExpandClassMethod(r.ps, "init", v, r.es, {}), LAMBDA x :
        Emit(x.ps, <<Alloca(v, EmptyDict)>> \o r.p \o x.p)))

ParseIf(ps, st) ==
  With(ParseIfExpr(ps, st.c), LAMBDA c :
  With(ParseStmtBlock(c.ps, st.th), LAMBDA th :
  With(ParseStmtBlock(th.ps, st.el), LAMBDA el :
    Emit(el.ps, Append(c.p, If(c.e, th.p, el.p))))))

\* A condition with a prelude is computed before the loop and again after
\* each round, from a second parse.
Recomputed(prime, body, update) ==
  LET ty == InferExprType(update.ps, prime.e)
      cond == TempVar(update.ps, ty)
      again == Seq1(Append(update.p, Store(cond, update.e)))
  IN  Emit(TempMade(update.ps),
           <<Alloca(cond, DefaultInitForType(ty))>> \o prime.p
             \o <<Store(cond, prime.e), While(Ref(cond), <<Seq1(body.p), again>>)>>)

ParseWhile(ps, st) ==
  With(ParseIfExpr(ps, st.c), LAMBDA prime :
  With(ParseStmtBlock(prime.ps, st.body), LAMBDA body :
    IF prime.p = <<>> THEN Emit(body.ps, <<While(prime.e, body.p)>>)
    ELSE Recomputed(prime, body, ParseIfExpr(body.ps, st.c))))

\* for x in range(a, b, s): the expressions of b and s are evaluated in every
\* round, and a round ends by adding s to x.
ParseFor(ps, st) ==
  LET Loop(x, end, step, body) ==
        LET down == Bin("<", step, Num(0)) IN
        While(Or(And(down, Bin(">", Ref(x), end)), And(Not(down), Bin("<", Ref(x), end))),
              <<Seq1(body), Store(x, Bin("+", Ref(x), step))>>)
  IN  With(InOrder(ParseIfExpr, ps, <<st.a, st.b, st.s>>), LAMBDA r :
      With(AssignOrAlloca(r.ps, st.x, r.es[1]), LAMBDA init :
      With(ParseStmtBlock(init.ps, st.body), LAMBDA body :
        Emit(body.ps, r.p \o init.p
                        \o <<Loop(LookupVar(body.ps, st.x), r.es[2], r.es[3], body.p)>>))))

ParseReturn(ps, st) ==
  With(ParseIfExpr(ps, st.e), LAMBDA r : Emit(r.ps, Append(r.p, Return(r.e))))

ParseExprStmt(ps, st) ==
  With(ParseIfExpr(ps, st.e), LAMBDA r : Emit(r.ps, Append(r.p, Eval(r.e))))

ParseStmt(ps, st) ==
  CASE st.k = "assign" -> ParseAssign(ps, st)
    [] st.k = "setattr" -> ParseSetAttr(ps, st)
    [] st.k = "new" -> ParseNew(ps, st)
    [] st.k = "if" -> ParseIf(ps, st)
    [] st.k = "while" -> ParseWhile(ps, st)
    [] st.k = "for" -> ParseFor(ps, st)
    [] st.k = "return" -> ParseReturn(ps, st)
    [] st.k = "do" -> ParseExprStmt(ps, st)

ParseStmtBlock(ps, ss) ==
  IF ss = <<>> \/ ~ps.ok THEN Emit(ps, <<>>)
  ELSE With(ParseStmt(ps, Head(ss)), LAMBDA first :
       With(ParseStmtBlock(first.ps, Tail(ss)), LAMBDA rest :
         Emit(rest.ps, first.p \o rest.p)))
=============================================================================
