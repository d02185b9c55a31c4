------------------------------- MODULE Script -------------------------------
(***************************************************************************)
(* The class subset of docs/class_syntax_scope.md and docs/SYNTAX.md: the  *)
(* shape of a script and what it does when each statement is executed as   *)
(* it is written.  Both front ends inline every method call; Outcome is    *)
(* what their result is measured against.                                  *)
(*                                                                         *)
(* A script has one class, whose methods (the constructor "init" among     *)
(* them) are a function from names to records, and a main block.  Numbers  *)
(* stand for every value without identity; floats, strings and containers  *)
(* other than the attributes of an object are left out.                    *)
(***************************************************************************)
EXTENDS Integers, SequencesExt

\* Expressions.  Par is a pair of parentheses, IfE is "a if c else b", Chain is
\* a < b < c.
Num(n) == [k |-> "int", n |-> n]
Var(x) == [k |-> "var", x |-> x]
Attr(o, a) == [k |-> "attr", o |-> o, at |-> a]
Call(o, m, args) == [k |-> "call", o |-> o, m |-> m, args |-> args]
Bin(op, a, b) == [k |-> "bin", op |-> op, a |-> a, b |-> b]
And(a, b) == [k |-> "and", a |-> a, b |-> b]
Or(a, b) == [k |-> "or", a |-> a, b |-> b]
Not(a) == [k |-> "not", a |-> a]
Par(a) == [k |-> "par", a |-> a]
IfE(a, c, b) == [k |-> "ife", a |-> a, c |-> c, b |-> b]
Chain(a, b, c) == [k |-> "chain", a |-> a, b |-> b, c |-> c]

\* Statements.  New is x = C(args), For is for x in range(a, b, s).
Assign(x, e) == [k |-> "assign", x |-> x, e |-> e]
SetAttr(o, a, e) == [k |-> "setattr", o |-> o, at |-> a, e |-> e]
New(x, args) == [k |-> "new", x |-> x, args |-> args]
If(c, th, el) == [k |-> "if", c |-> c, th |-> th, el |-> el]
While(c, body) == [k |-> "while", c |-> c, body |-> body]
For(x, a, b, s, body) == [k |-> "for", x |-> x, a |-> a, b |-> b, s |-> s, body |-> body]
Return(e) == [k |-> "return", e |-> e]
Do(e) == [k |-> "do", e |-> e]

\* K of a result that is computed first: steps of a computation one after the
\* other.
With(r, K(_)) == CHOOSE k \in {K(x) : x \in {r}} : TRUE

Method(params, types, ret, body) ==
  [params |-> params, types |-> types, ret |-> ret, body |-> body]

\* The statements of ss and those inside them, as their lines follow each other.
RECURSIVE Lines(_)
Blocks(st) ==
  CASE st.k = "if" -> <<st.th, st.el>>
    [] st.k \in {"while", "for"} -> <<st.body>>
    [] OTHER -> <<>>
Lines(ss) ==
  IF ss = <<>> THEN <<>>
  ELSE <<Head(ss)>> \o Lines(FlattenSeq(Blocks(Head(ss)))) \o Lines(Tail(ss))

-----------------------------------------------------------------------------
\* Values: numbers (bool is 0 or 1), references to objects, None, and Bad for
\* a value that cannot be computed.
IntV(n) == [t |-> "int", n |-> n]
BoolV(b) == IntV(IF b THEN 1 ELSE 0)
ObjV(o) == [t |-> "obj", n |-> o]
NoneV == [t |-> "none", n |-> 0]
Bad == [t |-> "bad", n |-> 0]

Truth(v) == v \notin {IntV(0), NoneV, Bad}

\* Division of the subset truncates; its operands here are not negative.  There
\* is no check for a divisor of zero: the quotient is undefined in C++, and Bad
\* stands for what an x86-64 processor makes of it, the end of the process.
Arith(op, a, b) ==
  IF a.t # "int" \/ b.t # "int" \/ (op = "/" /\ b.n = 0) THEN Bad
  ELSE CASE op = "+" -> IntV(a.n + b.n)
         [] op = "-" -> IntV(a.n - b.n)
         [] op = "*" -> IntV(a.n * b.n)
         [] op = "/" -> IntV(a.n \div b.n)
         [] op = "<" -> BoolV(a.n < b.n)
         [] op = ">" -> BoolV(a.n > b.n)
         [] op = "==" -> BoolV(a.n = b.n)

\* The attribute of a value that must be an object with that attribute.
Member(heap, v, a) ==
  IF v.t = "obj" /\ a \in DOMAIN heap[v.n] THEN heap[v.n][a] ELSE Bad

WithMember(heap, v, a, w) == [heap EXCEPT ![v.n] = (a :> w) @@ @]

-----------------------------------------------------------------------------
(* Direct execution.  The state s holds the methods, the objects, the      *)
(* writes to attributes in the order they happen, and whether all is well  *)
(* so far; a call has an environment of its own.                           *)
Val(v, s) == [v |-> v, s |-> IF v = Bad THEN [s EXCEPT !.ok = FALSE] ELSE s]

RECURSIVE Value(_, _, _), Run(_, _, _)

Values(es, env, s) ==
  LET Then(acc, e) == LET r == Value(e, env, acc.s)
                      IN  [vs |-> Append(acc.vs, r.v), s |-> r.s]
  IN  FoldLeft(Then, [vs |-> <<>>, s |-> s], es)

Lookup(env, x) == IF x \in DOMAIN env THEN env[x] ELSE Bad

\* A call that has returned: the value, and the environment is gone.
Invoke(m, self, vals, s) ==
  IF m \notin DOMAIN s.ms \/ Len(vals) # Len(s.ms[m].params) \/ self.t # "obj"
  THEN Val(Bad, s)
  ELSE LET ps == s.ms[m].params
           env == ("self" :> self) @@
                  [x \in ToSet(ps) |-> vals[CHOOSE i \in DOMAIN ps : ps[i] = x]]
           Left(r) == Val(r.v, r.s)
       IN  Left(Run(s.ms[m].body, env, s))

\* The rest of a < b < c: c is not looked at when a < b is false.
Chained(ab, c, env) ==
  LET first == Val(Arith("<", ab.vs[1], ab.vs[2]), ab.s)
      r == Value(c, env, ab.s)
  IN  IF Truth(first.v) THEN Val(Arith("<", ab.vs[2], r.v), r.s) ELSE first

Value(e, env, s) ==
  CASE e.k = "int" -> Val(IntV(e.n), s)
    [] e.k = "var" -> Val(Lookup(env, e.x), s)
    [] e.k = "attr" -> Val(Member(s.heap, Lookup(env, e.o), e.at), s)
    [] e.k = "par" -> Value(e.a, env, s)
    [] e.k = "not" -> LET r == Value(e.a, env, s) IN Val(BoolV(~Truth(r.v)), r.s)
    [] e.k = "bin" -> LET r == Values(<<e.a, e.b>>, env, s)
                      IN  Val(Arith(e.op, r.vs[1], r.vs[2]), r.s)
    [] e.k \in {"and", "or"} ->
         LET l == Value(e.a, env, s)
         IN  IF Truth(l.v) = (e.k = "or") THEN Val(BoolV(e.k = "or"), l.s)
             ELSE LET r == Value(e.b, env, l.s) IN Val(BoolV(Truth(r.v)), r.s)
    [] e.k = "chain" -> Chained(Values(<<e.a, e.b>>, env, s), e.c, env)
    [] e.k = "ife" -> LET c == Value(e.c, env, s)
                      IN  Value(IF Truth(c.v) THEN e.a ELSE e.b, env, c.s)
    [] e.k = "call" -> LET as == Values(e.args, env, s)
                       IN  Invoke(e.m, Lookup(env, e.o), as.vs, as.s)

\* The numbers of range(a, b, s).
IsRange(vs) == vs[3] # IntV(0) /\ \A i \in 1..3 : vs[i].t = "int"
RangeSeq(a, b, s) ==
  LET Ceiling(m, n) == (m + n - 1) \div n
      rounds == IF s > 0 THEN Ceiling(b - a, s) ELSE Ceiling(a - b, -s)
  IN  [i \in 1..rounds |-> a + (i - 1) * s]

RunOne(st, env, s) ==
  LET Cont(env2, s2) == [env |-> env2, s |-> s2, done |-> FALSE, v |-> NoneV] IN
  CASE st.k = "assign" -> LET r == Value(st.e, env, s) IN Cont((st.x :> r.v) @@ env, r.s)
    [] st.k = "do" -> Cont(env, Value(st.e, env, s).s)
    [] st.k = "return" -> LET r == Value(st.e, env, s)
                          IN  [env |-> env, s |-> r.s, done |-> TRUE, v |-> r.v]
    [] st.k = "setattr" ->
         LET r == Value(st.e, env, s)
             o == Lookup(env, st.o)
         IN  IF o.t # "obj" \/ ~r.s.ok THEN Cont(env, Val(Bad, r.s).s)
             ELSE Cont(env, [r.s EXCEPT !.heap = WithMember(@, o, st.at, r.v),
                                        !.log = Append(@, <<o.n, st.at, r.v>>)])
    [] st.k = "new" ->
         LET Create(as) ==
               LET o == ObjV(Len(as.s.heap) + 1)
                   made == [as.s EXCEPT !.heap = Append(@, <<>>)]
               IN  Cont((st.x :> o) @@ env, Invoke("init", o, as.vs, made).s)
         IN  Create(Values(st.args, env, s))
    [] st.k = "if" -> LET c == Value(st.c, env, s)
                      IN  Run(IF Truth(c.v) THEN st.th ELSE st.el, env, c.s)
    [] st.k = "while" ->
         LET c == Value(st.c, env, s)
         IN  IF Truth(c.v) THEN Run(Append(st.body, st), env, c.s) ELSE Cont(env, c.s)
    [] st.k = "for" ->
         LET Round(acc, i) == IF acc.done THEN acc
                              ELSE Run(st.body, (st.x :> IntV(i)) @@ acc.env, acc.s)
             Rounds(r) == IF ~IsRange(r.vs) THEN Cont(env, Val(Bad, r.s).s)
                          ELSE FoldLeft(Round, Cont(env, r.s),
                                        RangeSeq(r.vs[1].n, r.vs[2].n, r.vs[3].n))
         IN  Rounds(Values(<<st.a, st.b, st.s>>, env, s))

Rest(first, ss) == IF first.done THEN first ELSE Run(ss, first.env, first.s)

Run(ss, env, s) ==
  IF ss = <<>> \/ ~s.ok THEN [env |-> env, s |-> s, done |-> FALSE, v |-> NoneV]
  ELSE Rest(RunOne(Head(ss), env, s), Tail(ss))

\* What the script does: whether it runs to its end, the value it returns and
\* the writes it makes.
Outcome(p) ==
  LET Report(r) == [ok |-> r.s.ok, v |-> r.v, log |-> r.s.log]
  IN  Report(Run(p.main, <<>>, [ms |-> p.ms, heap |-> <<>>, log |-> <<>>, ok |-> TRUE]))
=============================================================================
