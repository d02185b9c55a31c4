--------------------------- MODULE MCClassLowering ---------------------------
(***************************************************************************)
(* One class whose methods return early, loop, call each other and fail,   *)
(* and every main block of two statements taken from a list.               *)
(***************************************************************************)
EXTENDS ClassLowering, TLC

x == Var("x")
y == Var("y")
cv == Attr("c", "v")
sv == Attr("self", "v")
Inc(e) == Call("c", "inc", <<e>>)
Less(a, b) == Bin("<", a, b)
Plus(a, b) == Bin("+", a, b)
Int1 == <<Int64>>

Methods ==
  [init |-> Method(<<"a">>, Int1, Handle, <<SetAttr("self", "v", Var("a"))>>),
   inc |-> Method(<<"x">>, Int1, Int64,
             <<SetAttr("self", "v", Plus(sv, x)), Return(sv)>>),
   \* returns from a branch, and writes after it
   clamp |-> Method(<<"x">>, Int1, Int64,
             <<If(Less(sv, x), <<Return(Num(0))>>, <<SetAttr("self", "v", x)>>),
               SetAttr("self", "v", Plus(sv, Num(1))),
               Return(Num(1))>>),
   \* returns from inside two loops
   find |-> Method(<<"x">>, Int1, Int64,
             <<For("i", Num(0), x, Num(1),
                 <<While(Less(sv, Num(9)),
                     <<If(Less(x, Plus(sv, Var("i"))), <<Return(Var("i"))>>, <<>>),
                       SetAttr("self", "v", Plus(sv, Num(1)))>>)>>),
               Return(x)>>),
   \* calls another method, on the way to its result
   twice |-> Method(<<"x">>, Int1, Int64,
             <<Assign("y", Call("self", "inc", <<x>>)),
               If(Less(Call("self", "clamp", <<Num(2)>>), y), <<Return(y)>>, <<>>),
               Return(Plus(y, Call("self", "inc", <<Num(1)>>)))>>),
   \* fails when x is 0, after a write
   part |-> Method(<<"x">>, Int1, Int64,
             <<SetAttr("self", "v", Num(0)), Return(Bin("/", Num(4), x))>>),
   quiet |-> Method(<<"x">>, Int1, Handle, <<SetAttr("self", "v", x)>>),
   \* its result has the wrong type: no script may call it
   me |-> Method(<<"x">>, Int1, Int64, <<Return(Var("self"))>>)]

Statements ==
  <<Assign("x", Inc(x)),
    SetAttr("c", "v", x),
    If(Less(Inc(Num(1)), Num(3)), <<Assign("x", Call("c", "clamp", <<Num(2)>>))>>,
                                  <<Do(Call("c", "quiet", <<Num(1)>>))>>),
    While(Less(Inc(Num(1)), Num(5)), <<Assign("x", Inc(Num(1)))>>),
    For("k", Inc(Num(1)), Call("c", "find", <<Num(2)>>), Num(1), <<Assign("x", Inc(Var("k")))>>),
    Assign("x", IfE(Inc(Num(1)), Less(x, Num(2)), Call("c", "clamp", <<x>>))),
    Assign("x", Plus(Par(Inc(Inc(Num(1)))), Call("c", "clamp", <<Num(3)>>))),
    Assign("x", Call("c", "part", <<x>>)),
    If(And(Less(Inc(Num(1)), Num(4)), Less(cv, Num(3))), <<Return(Call("c", "twice", <<x>>))>>, <<>>),
    New("d", <<Inc(x)>>),
    Assign("x", Call("c", "twice", <<Plus(x, Num(1))>>)),
    If(Chain(Num(1), Par(Inc(Num(1))), Num(9)), <<Assign("x", Plus(x, Num(1)))>>, <<>>),
    Return(Plus(Call("c", "find", <<Num(3)>>), cv))>>

\* Calls that may have to be skipped.
Skipping ==
  <<If(And(Less(x, Num(0)), Less(Inc(Num(1)), Num(9))), <<Assign("x", Num(7))>>, <<>>),
    Assign("x", Or(Less(x, Num(1)), Inc(Num(1))))>>

\* Calls in both operands: the C++ compiler chooses which runs first.  A call
\* in the middle of a chain: it runs twice.
Unordered ==
  <<Assign("x", Plus(Inc(Num(1)), Call("c", "clamp", <<Num(3)>>))),
    If(Chain(Num(1), Inc(Num(1)), Num(9)), <<Assign("x", Num(5))>>, <<>>)>>

\* A wrong type for an argument, for an attribute and for a result.
Mistyped ==
  <<Assign("x", Inc(Var("c"))),
    SetAttr("c", "v", Var("c")),
    Assign("x", Call("c", "me", <<Num(1)>>))>>

Menu == Statements \o Skipping \o Unordered \o Mistyped
From(n, len) == (n + 1)..(n + len)

Main(ss) == <<New("c", <<Num(1)>>), Assign("x", Num(0))>> \o ss \o <<Return(Plus(x, cv))>>

\* A method m that takes a number, called twice.
Calls2(m) == Main(<<Assign("x", Call("c", m, <<Num(3)>>)),
                    Assign("x", Plus(x, Par(Call("c", m, <<x>>))))>>)

\* A script with one method of its own, and one without.
Own(method, main) == [ms |-> method @@ Methods, main |-> main]
Plain(ss) == Own(<<>>, Main(ss))

\* Scripts at the edge of what either front end inlines.
Special == <<
  \* a return from a loop whose condition calls a method
  Own([wait |-> Method(<<"x">>, Int1, Int64,
         <<While(Less(Call("self", "inc", <<Num(1)>>), Num(9)),
             <<If(Less(x, sv), <<Return(sv)>>, <<>>)>>),
           Return(x)>>)],
      Calls2("wait")),
  \* a call in a condition behind a return that guards its argument
  Own([safe |-> Method(<<"x">>, Int1, Int64,
         <<If(Less(x, Num(1)), <<Return(Num(0))>>, <<>>),
           If(Less(Call("self", "inc", <<Bin("/", Num(6), x)>>), Num(4)), <<Return(Num(2))>>, <<>>),
           Return(Num(0))>>)],
      Main(<<Assign("x", Call("c", "safe", <<x>>))>>)),
  \* an argument with the name of the parameter before it
  Own([pair |-> Method(<<"a", "b">>, <<Int64, Int64>>, Int64,
         <<SetAttr("self", "v", Var("b")), Return(Var("a"))>>)],
      Main(<<Assign("a", Num(5)), Assign("x", Call("c", "pair", <<Num(2), Var("a")>>))>>)),
  \* two loops of one name in a method, and one with locals in branches
  Own([loops |-> Method(<<"x">>, Int1, Int64,
         <<For("l", Num(0), x, Num(1), <<SetAttr("self", "v", Plus(sv, Var("l")))>>),
           For("l", x, Num(0), Num(-1), <<SetAttr("self", "v", Plus(sv, Var("l")))>>),
           Return(sv)>>)],
      Calls2("loops")),
  Own([steps |-> Method(<<"x">>, Int1, Int64,
         <<Assign("z", Num(1)),
           For("j", x, Num(0), Num(-2),
             <<If(Or(Less(Var("j"), Num(2)), Less(Call("self", "inc", <<Var("z")>>), Num(9))),
                  <<Assign("z", Plus(Var("z"), Num(1)))>>, <<Return(Var("z"))>>)>>),
           Return(Plus(Var("z"), sv))>>)],
      Calls2("steps")),
  \* a name in two branches, and a name of its own that C++ gives to the second
  Plain(<<If(Less(x, Num(1)), <<Assign("z", Inc(Num(1)))>>, <<Assign("z", Num(5))>>),
          If(Less(cv, Num(5)), <<Assign("z", Num(7)), Assign("x", Var("z"))>>, <<>>)>>),
  Plain(<<Assign("z_1", Num(5)),
          If(Less(x, Num(1)), <<Assign("z", Num(1)), SetAttr("c", "v", Var("z"))>>, <<>>),
          If(Less(x, Num(2)), <<Assign("z", Num(7)), Assign("x", Plus(Var("z_1"), Var("z")))>>, <<>>)>>),
  \* conditions computed again, with calls in both operands
  Plain(<<While(And(Less(Inc(Num(1)), Num(6)), Less(Call("c", "find", <<x>>), Num(9))),
            <<Assign("x", Plus(x, Num(1)))>>),
          Do(Call("c", "quiet", <<Or(Less(x, Num(9)), Less(Inc(Num(1)), Num(2)))>>))>>),
  \* a local of a method with a name of its caller
  Plain(<<Assign("y", Num(5)), Assign("x", Call("c", "twice", <<Num(1)>>)), Assign("x", Plus(x, y))>>),
  \* methods of a number, of which one drops its result
  Plain(<<Do(Call("x", "quiet", <<Plus(x, cv)>>))>>),
  Plain(<<SetAttr("c", "v", Num(2)), Assign("x", Call("x", "inc", <<x>>))>>),
  \* one name for the locals of three calls
  Plain([i \in 1..3 |-> Assign("x", Call("c", "twice", <<x>>))]),
  \* a result that is not there, and a local that stays from call to call
  Own([maybe |-> Method(<<"x">>, Int1, Int64, <<If(Less(x, sv), <<Return(x)>>, <<>>)>>)],
      <<New("c", <<Num(1)>>), Assign("x", Call("c", "maybe", <<Num(2)>>)), SetAttr("c", "v", x)>>),
  Own([stays |-> Method(<<"x">>, Int1, Int64,
         <<If(Less(x, Num(1)), <<Assign("z", Num(3))>>, <<>>), Return(Var("z"))>>)],
      Main(<<Assign("x", Call("c", "stays", <<x>>)), Assign("x", Call("c", "stays", <<x>>))>>)),
  \* an object made of the one it replaces
  Plain(<<New("c", <<Inc(Num(2))>>)>>),
  \* a counter that is changed, and an end that changes
  Plain(<<For("k", Num(0), Num(4), Num(1), <<Assign("k", Plus(Var("k"), Num(1))), SetAttr("c", "v", Var("k"))>>)>>),
  Plain(<<SetAttr("c", "v", Num(4)),
          For("k", Num(0), cv, Num(1), <<SetAttr("c", "v", Bin("-", cv, Num(1)))>>)>>),
  \* a call behind what it changes, and one that may have to be skipped
  Plain(<<Assign("x", Plus(cv, Inc(Num(2))))>>),
  Plain(<<If(Chain(Num(1), x, Inc(Num(3))), <<Assign("x", Num(7))>>, <<>>)>>),
  \* a variable that is a number, and then the object
  Plain(<<Assign("z", Num(1)), Assign("z", Var("c")), SetAttr("c", "v", Var("z"))>>) >>

\* Any statement, and then any other; and the special scripts.
MCScripts ==
  [i \in (1..Len(Statements)) \X (1..Len(Menu)) |->
     [ms |-> Methods, main |-> Main(<<Menu[i[1]], Menu[i[2]]>>)]]
  @@ [i \in {0} \X (1..Len(Special)) |-> Special[i[2]]]

MCIllTyped ==
  (1..Len(Statements)) \X From(Len(Statements \o Skipping \o Unordered), Len(Mistyped))

\* The names of the scripts, and those of variables that the parser makes up.
MCVarNames ==
  {"self", "c", "d", "x", "y", "a", "b", "i", "j", "k", "l", "z", "z_1"}
  \cup {"__" \o ToString(n) : n \in 0..199}
=============================================================================
