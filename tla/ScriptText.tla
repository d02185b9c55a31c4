------------------------------ MODULE ScriptText ------------------------------
(***************************************************************************)
(* What can be said of a script from its text: the names and calls in it,  *)
(* and the conditions under which src/parser.cc and apps/interpreter_ast.cc *)
(* do with it what it says, or python/ffi_system/parser.py and             *)
(* src/rewriter.h.  Each condition names the line it is due to.            *)
(* Last, how a script without classes is written down.                     *)
(***************************************************************************)
EXTENDS Script, FiniteSets

-----------------------------------------------------------------------------
(* The text of a script. *)

RECURSIVE Within(_)

Operands(e) ==
  CASE e.k \in {"bin", "and", "or"} -> <<e.a, e.b>>
    [] e.k \in {"not", "par"} -> <<e.a>>
    [] e.k = "chain" -> <<e.a, e.b, e.c>>
    [] e.k = "ife" -> <<e.c, e.a, e.b>>
    [] e.k = "call" -> e.args
    [] OTHER -> <<>>

\* e and the expressions in it.
Within(e) == {e} \cup UNION {Within(a) : a \in ToSet(Operands(e))}

AllOf(ss) == ToSet(Lines(ss))

\* The expressions a statement itself evaluates, from left to right.
Evaluates(st) ==
  CASE st.k \in {"assign", "setattr", "return", "do"} -> <<st.e>>
    [] st.k = "new" -> st.args
    [] st.k \in {"if", "while"} -> <<st.c>>
    [] st.k = "for" -> <<st.a, st.b, st.s>>

ExprsIn(st) == UNION {Within(e) : e \in ToSet(Evaluates(st))}
Exprs(ss) == UNION {ExprsIn(st) : st \in AllOf(ss)}

Name(e) == IF e.k = "var" THEN {e.x} ELSE IF e.k \in {"attr", "call"} THEN {e.o} ELSE {}
Names(st) ==
  UNION {Name(e) : e \in ExprsIn(st)} \cup IF st.k = "setattr" THEN {st.o} ELSE {}

Targets(ss, kinds) == {st.x : st \in {s \in AllOf(ss) : s.k \in kinds}}
Assigned(ss) == Targets(ss, {"assign", "new", "for"})

Bodies(p) == {p.main} \cup {p.ms[m].body : m \in DOMAIN p.ms}
Calls(es) == {e \in es : e.k = "call"}
HasCall(e) == Calls(Within(e)) # {}

-----------------------------------------------------------------------------
(* Conditions. *)

\* The body of a method is parsed over its caller's symbols: its locals must
\* have names of their own, its parameters no name of an object (1005-1031).
Hygienic(p) ==
  \A m \in DOMAIN p.ms :
    LET own == p.ms[m].body
        locals == Assigned(own) \ (ToSet(p.ms[m].params) \ Targets(own, {"new"}))
    IN  /\ locals \cap Assigned(p.main) = {}
        /\ \A n \in DOMAIN p.ms \ {m} :
             locals \cap (Assigned(p.ms[n].body) \cup ToSet(p.ms[n].params)) = {}
        /\ \A b \in Bodies(p) : ToSet(p.ms[m].params) \cap Targets(b, {"new"}) = {}

\* What remains of e after its calls and conditionals went to the prelude and
\* may still differ or fail then, and the calls that go last.
RECURSIVE Pending(_), Late(_)
Pending(e) ==
  \/ e.k = "attr" \/ (e.k = "bin" /\ e.op = "/")
  \/ e.k \notin {"call", "ife"} /\ \E i \in DOMAIN Operands(e) : Pending(Operands(e)[i])

Late(e) ==
  \/ e.k = "call"
  \/ e.k \notin {"par", "ife"} /\ \E i \in DOMAIN Operands(e) : Late(Operands(e)[i])

Early(e) ==
  \E s \in Within(e) :
    s.k \in {"par", "call"} /\ \E a \in ToSet(Operands(s)) : \E t \in Within(a) : t.k \in {"call", "ife"}

\* A prelude runs before all of its expression (289-338, 1101-1164), and the
\* calls of two operands run in the order the C++ compiler chooses (1118-1158).
Before(l, r) == HasCall(r) => ~Pending(l)

Ordered(es) == \A i, j \in DOMAIN es : i < j => Before(es[i], es[j])

InOrderOnly(p) ==
  \A b \in Bodies(p) :
    /\ \A st \in AllOf(b) : Ordered(Evaluates(st))
    /\ \A e \in Exprs(b) :
         /\ e.k # "ife" => Ordered(Operands(e))
         /\ e.k \in {"bin", "and", "or", "chain"} =>
              \A i, j \in DOMAIN Operands(e) :
                i < j => ~(Late(Operands(e)[i]) /\ (Early(Operands(e)[j]) \/ Late(Operands(e)[j])))

\* The middle of a < b < c is lowered in both comparisons (374-377).
ComparedOnce(p) ==
  \A b \in Bodies(p) : \A e \in Exprs(b) : e.k = "chain" => ~Late(e.b)

\* Calls and conditionals on the right of and, or are taken out of them
\* (1150-1155), and so is the end of a < b < c.
NothingSkipped(p, kinds) ==
  \A b \in Bodies(p) : \A e \in Exprs(b) :
    e.k \in kinds =>
      \A s \in Within(Last(Operands(e))) : s.k \notin {"call", "ife"}

\* A method that ends without a return gives the object, or zero (1020).
RECURSIVE AlwaysReturns(_)
AlwaysReturns(ss) ==
  /\ ss # <<>>
  /\ \/ Last(ss).k = "return"
     \/ Last(ss).k = "if" /\ AlwaysReturns(Last(ss).th) /\ AlwaysReturns(Last(ss).el)

ResultsExist(p) ==
  \A b \in Bodies(p) : \A st \in AllOf(b) : \A e \in Calls(ExprsIn(st)) :
    (st.k = "do" /\ st.e = e) \/ AlwaysReturns(p.ms[e.m].body)

\* A name is an object where a New made it one, and a new object hides what
\* its name was (1108-1112, 1390-1396).
Objects(ss) == {"self"} \cup (Targets(ss, {"new"}) \ Targets(ss, {"assign", "for"}))

KnownObjects(p) ==
  \A b \in Bodies(p) :
    /\ \A st \in AllOf(b) :
         /\ st.k = "new" => st.x \notin Names(st)
         /\ st.k = "setattr" => st.o \in Objects(b)
    /\ \A e \in Calls(Exprs(b)) : e.o \in Objects(b) /\ e.m # "init"

\* The variables of a method stay in env_ after it, and a name is known from
\* its first assignment in the text on (1175-1184, interpreter_ast.cc:165-181).
AssignedFirst(p) ==
  \A b \in Bodies(p) : \A x \in Assigned(b) :
    \/ \E m \in DOMAIN p.ms : p.ms[m].body = b /\ x \in ToSet(p.ms[m].params)
    \/ \E j \in DOMAIN b :
         /\ b[j].k \in {"assign", "new", "for"} /\ b[j].x = x
         /\ x \notin UNION {Name(e) : e \in ExprsIn(b[j])}
         /\ \A i \in 1..(j - 1) : \A st \in AllOf(<<b[i]>>) : x \notin Names(st)

\* The loop variable is the counter of the loop (1278-1288).
Counters(p) ==
  \A b \in Bodies(p) : \A st \in AllOf(b) :
    st.k = "for" =>
      /\ st.x \notin Assigned(st.body)
      /\ \A s \in AllOf(b) \ AllOf(<<st>>) : st.x \notin Names(s)

\* The end and the step of a range are expressions of the loop (1278-1288).
FixedRanges(p) ==
  \A b \in Bodies(p) : \A st \in AllOf(b) :
    st.k = "for" =>
      /\ ~Pending(st.b) /\ ~Pending(st.s)
      /\ UNION {Name(e) : e \in Within(st.b) \cup Within(st.s)} \cap Assigned(st.body) = {}

\* A variable keeps the type it has at first: one that is ever an object is
\* assigned once (1175-1184).
OneType(p) ==
  \A b \in Bodies(p) : \A st \in AllOf(b) :
    st.k = "assign" /\ st.e.k = "var" /\ st.e.x \in Targets(b, {"new"}) =>
      \A other \in AllOf(b) \ {st} : other.k \in {"assign", "new"} => other.x # st.x

-----------------------------------------------------------------------------
(* Conditions of python/ffi_system/parser.py, for what it compiles. *)

MethodBodies(p) == {p.ms[m].body : m \in DOMAIN p.ms}

\* What is left of a left operand is computed behind the calls of the right one
\* (333-337, 339-354).
OperandsInOrder(p) ==
  \A b \in Bodies(p) : \A e \in Exprs(b) :
    e.k \in {"bin", "chain"} => Ordered(Operands(e))

\* An argument is visited with self and the parameters before it in scope
\* (488-510).
ArgumentsApart(p) ==
  LET Apart(m, o, args) ==
        \A i \in DOMAIN args : \A t \in Within(args[i]) :
          Name(t) \cap (({"self"} \ {o}) \cup ToSet(SubSeq(p.ms[m].params, 1, i - 1))) = {}
  IN  \A b \in Bodies(p) :
        /\ \A e \in Calls(Exprs(b)) : Apart(e.m, e.o, e.args)
        /\ \A st \in AllOf(b) : st.k = "new" => Apart("init", st.x, st.args)

\* A declaration does not ask has_ret: the arguments and the left operands in
\* the condition of an if are still computed when the method has returned
\* (542-565, 609-631).
NothingDeclaredLate(p) ==
  \A b \in MethodBodies(p) :
    LET lines == Lines(b) IN
    \A j \in DOMAIN lines :
      lines[j].k = "if" /\ (\E i \in 1..(j - 1) : lines[i].k = "return") =>
        \A e \in Within(lines[j].c) :
          e.k \in {"call", "and", "or"} => \A a \in ToSet(Operands(e)) : ~Pending(a)

\* Neither does the condition of a while that is computed behind a round
\* (653-662).
NothingRepeated(p) ==
  \A b \in MethodBodies(p) : \A st \in AllOf(b) :
    st.k = "while" /\ (\E e \in Within(st.c) : e.k \in {"call", "and", "or", "ife"}) =>
      \/ ~HasCall(st.c) /\ ~Pending(st.c)
      \/ \A s \in AllOf(st.body) : s.k # "return"

\* In a method, a loop variable is declared in the block of its loop and known
\* behind it (723-749).
OneLoopEach(p) ==
  \A b \in MethodBodies(p) : \A st \in AllOf(b) :
    st.k = "for" => \A s \in AllOf(b) \ AllOf(<<st>>) : st.x \notin Names(s) \cup Assigned(<<s>>)

\* A call of a method of anything else is not inlined but written as it stands,
\* and the classes of the C++ library have no such method (149, 420).
CallsInlined(p) == \A b \in Bodies(p) : \A e \in Calls(Exprs(b)) : e.o \in Objects(b)

\* No name is another one with a number, which src/rewriter.h:460-476 gives to
\* the second variable of a name.
Unnumbered(p) ==
  LET names == UNION {Assigned(b) : b \in Bodies(p)} IN
  \A n, o \in names : \A i \in 1..9 : o # n \o "_" \o ToString(i)

-----------------------------------------------------------------------------
(* Scripts without a class. *)

\* not takes the operand next to it: "not a < b" is read as (not a) < b, by
\* interpreter.cc:315-319 as by parser.cc:413-416.
NotParenthesised(ss) ==
  \A e \in Exprs(ss) : e.k = "not" => e.a.k \in {"int", "var", "par", "not"}

\* A name is known from the line on that assigns it, whether that line is ever
\* executed or not (parser.cc:614-620).
KnownNames(ss) ==
  LET lines == Lines(ss) IN
  \A i \in DOMAIN lines : \A x \in Names(lines[i]) :
    \E j \in 1..(i - 1) : lines[j].k \in {"assign", "for"} /\ lines[j].x = x

\* A step of zero is an error of range(); the loop of parser.cc:1278-1288 does
\* not end.
NonzeroSteps(ss) == \A st \in AllOf(ss) : st.k = "for" => st.s # Num(0)

RECURSIVE Tokens(_), Written(_, _)

\* The tokens of an expression.
Tokens(e) ==
  CASE e.k = "int" -> <<ToString(e.n)>>
    [] e.k = "var" -> <<e.x>>
    [] e.k = "par" -> <<"(">> \o Tokens(e.a) \o <<")">>
    [] e.k = "not" -> <<"not">> \o Tokens(e.a)
    [] e.k = "bin" -> IF e.op = "-" /\ e.a = Num(0) THEN <<"-">> \o Tokens(e.b)
                      ELSE Tokens(e.a) \o <<e.op>> \o Tokens(e.b)
    [] e.k \in {"and", "or"} -> Tokens(e.a) \o <<e.k>> \o Tokens(e.b)
    [] e.k = "chain" -> Tokens(e.a) \o <<"<">> \o Tokens(e.b) \o <<"<">> \o Tokens(e.c)

\* The lines of statements at some indentation.
WrittenOne(st, indent) ==
  LET At(toks) == <<[indent |-> indent, toks |-> toks]>>
      Inner(body) == Written(body, indent + 4)
  IN  CASE st.k = "assign" -> At(<<st.x, "=">> \o Tokens(st.e))
        [] st.k = "do" -> At(Tokens(st.e))
        [] st.k = "return" -> At(<<"return">> \o Tokens(st.e))
        [] st.k = "while" -> At(<<"while">> \o Tokens(st.c) \o <<":">>) \o Inner(st.body)
        [] st.k = "for" -> At(<<"for", st.x, "in", "range", "(">> \o Tokens(st.a) \o <<",">>
                                \o Tokens(st.b) \o <<",">> \o Tokens(st.s) \o <<")", ":">>)
                             \o Inner(st.body)
        [] st.k = "if" -> At(<<"if">> \o Tokens(st.c) \o <<":">>) \o Inner(st.th)
                            \o (IF st.el = <<>> THEN <<>> ELSE At(<<"else", ":">>) \o Inner(st.el))

Written(ss, indent) == FlattenSeq([i \in DOMAIN ss |-> WrittenOne(ss[i], indent)])
=============================================================================
