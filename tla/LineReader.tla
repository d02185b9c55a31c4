------------------------------ MODULE LineReader ------------------------------
(***************************************************************************)
(* How apps/interpreter.cc reads its lines, which parser.cc repeats: from  *)
(* the tokens of a line to an expression, and from lines with their        *)
(* indentation to statements.                                              *)
(*                                                                         *)
(* Of a chain of comparisons the model reads two, of the kind a < b < c.   *)
(*                                                                         *)
(* What the two read differently depends on ast: FALSE for the interpreter *)
(* of apps/interpreter.cc, TRUE for that of apps/interpreter_ast.cc.       *)
(***************************************************************************)
EXTENDS Script, TextLine, FiniteSets

Digits == [t \in {ToString(n) : n \in 0..9} |-> CHOOSE n \in 0..9 : ToString(n) = t]

\* The operators of each level of precedence, from the loosest.
Ops == <<{"or"}, {"and"}, {"<", ">", "=="}, {"+", "-"}, {"*", "/"}>>
Operators == UNION {Ops[n] : n \in DOMAIN Ops} \cup {"not"}
Punctuation == {"(", ")", ",", ":", "="}

\* The lexer of an expression throws at a character it does not know: = in both,
\* and the colon in interpreter.cc only.
Tokenize(ast, toks) == ToSet(toks) \cap (IF ast THEN {"="} ELSE {":", "="}) = {}

-----------------------------------------------------------------------------
(* Expressions.  A result holds the expression that starts at a token and  *)
(* the index of the token behind it; ok is FALSE after a throw.            *)
Got(e, i) == [e |-> e, i |-> i, ok |-> TRUE]
Thrown == [e |-> Num(0), i |-> 0, ok |-> FALSE]
Kept(r, e) == IF r.ok THEN Got(e, r.i) ELSE Thrown

\* The token at i, or the end.
Peek(toks, i) == IF i \in DOMAIN toks THEN toks[i] ELSE "end"

\* What an operator of some level makes of its operands.  The comparisons of a
\* chain hold its operands.
Join(op, a, b) ==
  CASE op = "or" -> Or(a, b)
    [] op = "and" -> And(a, b)
    [] op \in Ops[3] /\ a.k = "bin" /\ a.op \in Ops[3] -> Chain(a.a, a.b, b)
    [] OTHER -> Bin(op, a, b)

RECURSIVE ParseLevel(_, _, _), ParseMore(_, _, _), ParseUnary(_, _)

ParsePrimary(toks, i) ==
  LET t == Peek(toks, i)
  IN  CASE t \in DOMAIN Digits -> Got(Num(Digits[t]), i + 1)
        [] t = "True" -> Got(Num(1), i + 1)
        [] t = "False" -> Got(Num(0), i + 1)
        [] t = "(" ->
             With(ParseLevel(1, toks, i + 1), LAMBDA r :
               IF r.ok /\ Peek(toks, r.i) = ")" THEN Got(Par(r.e), r.i + 1) ELSE Thrown)
        [] t \in Operators \cup Punctuation \cup {"end"} -> Thrown
        [] OTHER -> Got(Var(t), i + 1)

\* -a is 0 - a.
ParseUnary(toks, i) ==
  CASE Peek(toks, i) = "not" ->
         With(ParseUnary(toks, i + 1), LAMBDA r : Kept(r, Not(r.e)))
    [] Peek(toks, i) = "-" ->
         With(ParseUnary(toks, i + 1), LAMBDA r : Kept(r, Bin("-", Num(0), r.e)))
    [] Peek(toks, i) = "+" -> ParseUnary(toks, i + 1)
    [] OTHER -> ParsePrimary(toks, i)

\* Mutant of ParseMore: operators of one level group from the right.
ParseMoreRight(n, toks, left) ==
  LET op == Peek(toks, left.i)
  IN  IF ~left.ok \/ op \notin Ops[n] THEN left
      ELSE With(ParseLevel(n, toks, left.i + 1), LAMBDA r : Kept(r, Join(op, left.e, r.e)))

\* ParseOr, ParseAnd, ParseCompare, ParseAdd, ParseMul: an operand of the next
\* level, and as many more as operators of this level follow.
ParseMore(n, toks, left) ==
  LET op == Peek(toks, left.i)
  IN  IF ~left.ok \/ op \notin Ops[n] THEN left
      ELSE With(ParseLevel(n + 1, toks, left.i + 1), LAMBDA r :
             ParseMore(n, toks, Kept(r, Join(op, left.e, r.e))))

ParseLevel(n, toks, i) ==
  IF n > Len(Ops) THEN ParseUnary(toks, i)
  ELSE ParseMore(n, toks, ParseLevel(n + 1, toks, i))

\* Tokens behind the expression are ignored by the one and refused by the other.
ParseExpr(ast, toks) ==
  With(ParseLevel(1, toks, 1), LAMBDA r :
    IF Tokenize(ast, toks) /\ r.ok /\ (ast => r.i > Len(toks)) THEN r ELSE Thrown)

\* The arguments of a range: the tokens between commas outside parentheses.
SplitArgs(toks) ==
  LET Note(acc, t) ==
        CASE t = "," /\ acc.depth = 0 -> [acc EXCEPT !.args = Append(@, <<>>)]
          [] OTHER -> [depth |-> acc.depth + (IF t = "(" THEN 1 ELSE IF t = ")" THEN -1 ELSE 0),
                       args |-> Append(Front(acc.args), Append(Last(acc.args), t))]
      split == FoldLeft(Note, [depth |-> 0, args |-> <<<<>>>>], toks).args
  IN  IF Last(split) = <<>> THEN Front(split) ELSE split

\* The first = that is an assignment; 0 if there is none.  The comparisons have
\* tokens of their own.
FindAssign(toks) ==
  IF "=" \in ToSet(toks) THEN CHOOSE i \in DOMAIN toks : toks[i] = "=" /\ "=" \notin ToSet(SubSeq(toks, 1, i - 1))
  ELSE 0

-----------------------------------------------------------------------------
(* Statements.  A result holds the statements and the index of the line    *)
(* behind them.                                                            *)
Block(ss, i) == [ss |-> ss, i |-> i, ok |-> TRUE]
BlockThrown == [ss |-> <<>>, i |-> 0, ok |-> FALSE]

\* What follows a part that was read.
IfRead(r, K(_)) == IF r.ok THEN K(r) ELSE BlockThrown

\* range(b), range(a, b), range(a, b, s).
Range3(args) ==
  CASE Len(args) = 1 -> <<<<"0">>, args[1], <<"1">>>>
    [] Len(args) = 2 -> <<args[1], args[2], <<"1">>>>
    [] OTHER -> args

\* The statement of a line that opens no block.
Simple(ast, toks) ==
  LET eq == FindAssign(toks)
      One(part, St(_)) == IfRead(ParseExpr(ast, part), LAMBDA r : Block(<<St(r.e)>>, 0))
  IN  CASE toks[1] = "return" /\ Len(toks) > 1 -> One(Tail(toks), Return)
        [] ast /\ toks = <<"pass">> -> Block(<<>>, 0)
        [] eq > 0 -> One(SubSeq(toks, eq + 1, Len(toks)), LAMBDA e : Assign(toks[1], e))
        [] OTHER -> One(toks, Do)

\* What stands between the keyword and the colon of a header.
Condition(ast, toks) == ParseExpr(ast, SubSeq(toks, 2, Len(toks) - 1))

\* for x in range(...):
IsFor(toks) ==
  /\ Len(toks) > 6 /\ toks[3] = "in" /\ toks[4] = "range" /\ toks[5] = "("
  /\ toks[Len(toks) - 1] = ")"
  /\ Len(SplitArgs(SubSeq(toks, 6, Len(toks) - 2))) \in 1..3
ForArgs(ast, toks) ==
  LET args == Range3(SplitArgs(SubSeq(toks, 6, Len(toks) - 2)))
  IN  [j \in 1..3 |-> ParseExpr(ast, args[j])]

RECURSIVE ParseBlock(_, _, _, _)

\* The body of a header, or the else at the same indentation behind a body.
Body(ast, lines, i, indent) == ParseBlock(ast, lines, i + 1, indent + IndentSize)
ElseBody(ast, lines, i, indent) ==
  IF i <= Len(lines) /\ lines[i] = Line(indent, <<"else", ":">>)
  THEN Body(ast, lines, i, indent) ELSE Block(<<>>, i)

ParseIfLines(ast, lines, i, indent) ==
  IfRead(Condition(ast, lines[i].toks), LAMBDA c :
  IfRead(Body(ast, lines, i, indent), LAMBDA th :
  IfRead(ElseBody(ast, lines, th.i, indent), LAMBDA el :
    Block(<<If(c.e, th.ss, el.ss)>>, el.i))))

ParseWhileLines(ast, lines, i, indent) ==
  IfRead(Condition(ast, lines[i].toks), LAMBDA c :
  IfRead(Body(ast, lines, i, indent), LAMBDA body :
    Block(<<While(c.e, body.ss)>>, body.i)))

ParseForLines(ast, lines, i, indent) ==
  With(lines[i].toks, LAMBDA toks :
    IF ~IsFor(toks) THEN BlockThrown
    ELSE With(ForArgs(ast, toks), LAMBDA args :
         IF \E j \in 1..3 : ~args[j].ok THEN BlockThrown
         ELSE IfRead(Body(ast, lines, i, indent), LAMBDA body :
                Block(<<For(toks[2], args[1].e, args[2].e, args[3].e, body.ss)>>, body.i))))

ParseStatement(ast, lines, i, indent) ==
  LET toks == lines[i].toks
      Opens(keyword) == toks[1] = keyword /\ IsHeader(lines[i]) /\ Len(toks) > 2
  IN  CASE Opens("if") -> ParseIfLines(ast, lines, i, indent)
        [] Opens("while") -> ParseWhileLines(ast, lines, i, indent)
        [] Opens("for") -> ParseForLines(ast, lines, i, indent)
        [] OTHER -> IfRead(Simple(ast, toks), LAMBDA st : Block(st.ss, i + 1))

\* Mutant of ParseBlock: a block goes on over lines that are deeper.
ParseBlockDeeper(ast, lines, i, indent) ==
  IF i > Len(lines) \/ lines[i].indent < indent THEN Block(<<>>, i)
  ELSE IfRead(ParseStatement(ast, lines, i, indent), LAMBDA first :
       IfRead(ParseBlock(ast, lines, first.i, indent), LAMBDA rest :
         Block(first.ss \o rest.ss, rest.i)))

\* A block ends at the first line of another indentation, a deeper one too.
ParseBlock(ast, lines, i, indent) ==
  IF i > Len(lines) \/ lines[i].indent # indent THEN Block(<<>>, i)
  ELSE IfRead(ParseStatement(ast, lines, i, indent), LAMBDA first :
       IfRead(ParseBlock(ast, lines, first.i, indent), LAMBDA rest :
         Block(first.ss \o rest.ss, rest.i)))
=============================================================================
