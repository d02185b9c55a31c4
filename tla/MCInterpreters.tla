---------------------------- MODULE MCInterpreters ----------------------------
(***************************************************************************)
(* Programs of a few statements: expressions with every operator, branches *)
(* with and without else, loops in loops, ranges up, down and empty, early *)
(* returns, unknown names.                                                 *)
(***************************************************************************)
EXTENDS Interpreters, TLC

x == Var("x")
y == Var("y")
i == Var("i")
Plus(a, b) == Bin("+", a, b)
Minus(a, b) == Bin("-", a, b)
Times(a, b) == Bin("*", a, b)
Less(a, b) == Bin("<", a, b)
Equal(a, b) == Bin("==", a, b)
Neg(a) == Minus(Num(0), a)

MCPrograms == <<
  \* the example session of docs/INTERPRETER.md
  <<Assign("x", Num(2)), Assign("y", Num(0)),
    For("i", Num(0), Num(3), Num(1), <<Assign("y", Plus(y, i))>>),
    Do(y),
    If(And(Bin(">", y, x), Less(y, Num(9))), <<Do(y)>>, <<Do(Num(0))>>)>>,
  \* operators that group from the left, and tighter than others
  <<Assign("x", Minus(Minus(Num(7), Num(2)), Num(1))),
    Assign("y", Plus(x, Times(Num(2), Par(Minus(x, Num(1)))))),
    Do(Or(And(Less(x, y), Equal(y, Num(9))), Less(Num(1), Minus(x, Num(4))))),
    Do(Plus(Minus(Num(1), Neg(x)), Bin("/", Num(7), Num(2)))),
    Do(And(Not(Par(Equal(x, y))), Chain(Num(1), x, y)))>>,
  \* branches in branches, and loops in loops
  <<Assign("x", Num(0)),
    While(Less(x, Num(3)),
      <<Assign("x", Plus(x, Num(1))),
        If(Equal(x, Num(2)), <<Do(x)>>, <<If(Less(x, Num(2)), <<Do(Num(9))>>, <<>>)>>),
        For("i", Num(3), Num(0), Neg(Num(2)), <<For("j", x, i, Num(1), <<Do(Var("j"))>>)>>)>>),
    Do(x)>>,
  \* a return from a loop
  <<Assign("x", Num(1)),
    For("i", Num(0), Num(3), Num(1),
      <<If(Equal(i, x), <<Return(Plus(i, Num(5)))>>, <<Assign("y", i)>>)>>),
    Do(x)>>,
  \* the body changes what the range is made of, and the loop variable
  <<Assign("x", Num(2)),
    For("i", Num(0), x, Num(1), <<Assign("x", Num(1)), Assign("i", Plus(i, Num(1)))>>),
    Do(i)>>,
  \* no round, a step of zero
  <<Assign("x", Num(1)),
    For("i", Num(1), Num(1), Num(1), <<Assign("x", Num(2))>>),
    For("j", Num(0), Num(2), Num(0), <<Assign("x", Num(3))>>),
    Do(x)>>,
  \* unknown names: skipped, in a branch not taken, and read
  <<If(And(Num(0), Var("u")), <<Do(Var("v"))>>, <<Do(Num(1))>>),
    Assign("x", Var("w")), Do(Num(2))>>,
  \* "not" before a comparison
  <<Assign("x", Num(0)), Do(Not(Less(x, Num(1)))), Do(Not(Not(x)))>>,
  \* a name of a branch not taken
  <<Assign("x", Num(0)),
    If(x, <<Assign("y", Num(1))>>, <<Assign("z", Num(2))>>),
    Do(Var("z")), Do(y), Do(x)>> >>

MCDamages == {"none", "blank", "exit", "cut", "ragged", "deeper", "shallower", "extra"}
=============================================================================
