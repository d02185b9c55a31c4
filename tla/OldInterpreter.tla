---------------------------- MODULE OldInterpreter ----------------------------
(***************************************************************************)
(* The Interpreter of apps/interpreter.cc, which docs/INTERPRETER.md calls *)
(* the standalone reference: the statements of a block executed over one   *)
(* environment of integers, one statement at a time.                       *)
(***************************************************************************)
EXTENDS Script

VARIABLES
  oldTodo,     \* the statements still to be executed, innermost first
  oldEnv,      \* env_
  oldOutcome,  \* "running", "ended", "returned" or "threw"
  oldLast      \* last_expr, then the value that was returned

oldInterpreter == <<oldTodo, oldEnv, oldOutcome, oldLast>>

Nothing == [t |-> "unset", n |-> 0]

OldInit ==
  /\ oldTodo = <<>>
  /\ oldEnv = <<>>
  /\ oldOutcome = "ended"
  /\ oldLast = Nothing

\* Execute: another block, in the environment the blocks before it have left.
OldExecute(ss) ==
  /\ oldTodo' = ss
  /\ oldOutcome' = "running"
  /\ oldLast' = Nothing
  /\ UNCHANGED oldEnv

-----------------------------------------------------------------------------
RECURSIVE OldEval(_)

\* and, or and chains look at what is right of them only when they must; Bad
\* is an exception.
OldEval(e) ==
  CASE e.k = "int" -> IntV(e.n)
    [] e.k = "var" -> Lookup(oldEnv, e.x)
    [] e.k = "par" -> OldEval(e.a)
    [] e.k = "not" -> IF OldEval(e.a) = Bad THEN Bad ELSE BoolV(~Truth(OldEval(e.a)))
    [] e.k = "bin" -> Arith(e.op, OldEval(e.a), OldEval(e.b))
    [] e.k \in {"and", "or"} ->
         LET l == OldEval(e.a)
             r == OldEval(e.b)
         IN  IF l = Bad THEN Bad
             ELSE IF Truth(l) = (e.k = "or") THEN BoolV(e.k = "or")
             ELSE IF r = Bad THEN Bad ELSE BoolV(Truth(r))
    [] e.k = "chain" ->
         LET ab == Arith("<", OldEval(e.a), OldEval(e.b))
         IN  IF Truth(ab) THEN Arith("<", OldEval(e.b), OldEval(e.c)) ELSE ab

\* A for loop under way: the number of the next round is the loop's own.
Rounds(x, i, end, step, body) ==
  [k |-> "rounds", x |-> x, i |-> i, end |-> end, step |-> step, body |-> body]

OldSubject == Head(oldTodo)

OldExec(kind) ==
  /\ oldOutcome = "running"
  /\ oldTodo # <<>>
  /\ OldSubject.k = kind

OldAssign ==
  /\ OldExec("assign")
  /\ OldEval(OldSubject.e) # Bad
  /\ oldEnv' = (OldSubject.x :> OldEval(OldSubject.e)) @@ oldEnv
  /\ oldTodo' = Tail(oldTodo)
  /\ UNCHANGED <<oldOutcome, oldLast>>

\* Mutant of OldExprStmt: the first value is kept.
OldExprStmtFirst ==
  /\ OldExec("do")
  /\ OldEval(OldSubject.e) # Bad
  /\ oldLast' = IF oldLast = Nothing THEN OldEval(OldSubject.e) ELSE oldLast
  /\ oldTodo' = Tail(oldTodo)
  /\ UNCHANGED <<oldEnv, oldOutcome>>

OldExprStmt ==
  /\ OldExec("do")
  /\ OldEval(OldSubject.e) # Bad
  /\ oldLast' = OldEval(OldSubject.e)
  /\ oldTodo' = Tail(oldTodo)
  /\ UNCHANGED <<oldEnv, oldOutcome>>

\* Mutant of OldReturn: the statements behind it are still executed.
OldReturnHere ==
  /\ OldExec("return")
  /\ OldEval(OldSubject.e) # Bad
  /\ oldLast' = OldEval(OldSubject.e)
  /\ oldTodo' = Tail(oldTodo)
  /\ UNCHANGED <<oldEnv, oldOutcome>>

OldReturn ==
  /\ OldExec("return")
  /\ OldEval(OldSubject.e) # Bad
  /\ oldLast' = OldEval(OldSubject.e)
  /\ oldOutcome' = "returned"
  /\ oldTodo' = <<>>
  /\ UNCHANGED oldEnv

OldIf ==
  /\ OldExec("if")
  /\ OldEval(OldSubject.c) # Bad
  /\ oldTodo' = (IF Truth(OldEval(OldSubject.c)) THEN OldSubject.th ELSE OldSubject.el)
                  \o Tail(oldTodo)
  /\ UNCHANGED <<oldEnv, oldOutcome, oldLast>>

OldWhile ==
  /\ OldExec("while")
  /\ OldEval(OldSubject.c) # Bad
  /\ oldTodo' = IF Truth(OldEval(OldSubject.c)) THEN OldSubject.body \o oldTodo ELSE Tail(oldTodo)
  /\ UNCHANGED <<oldEnv, oldOutcome, oldLast>>

\* The bounds are evaluated once, and a step of zero is refused.
OldBounds == <<OldEval(OldSubject.a), OldEval(OldSubject.b), OldEval(OldSubject.s)>>
OldBoundsGood == (\A i \in 1..3 : OldBounds[i] # Bad) /\ OldBounds[3] # IntV(0)

OldFor ==
  /\ OldExec("for")
  /\ OldBoundsGood
  /\ oldTodo' = <<Rounds(OldSubject.x, OldBounds[1].n, OldBounds[2].n, OldBounds[3].n,
                         OldSubject.body)>> \o Tail(oldTodo)
  /\ UNCHANGED <<oldEnv, oldOutcome, oldLast>>

\* Mutant of OldRound: a number that has to go down stays.
OldRoundStays ==
  /\ OldExec("rounds")
  /\ LET r == OldSubject
         more == IF r.step > 0 THEN r.i < r.end ELSE r.i > r.end
     IN  /\ oldEnv' = IF more THEN (r.x :> IntV(r.i)) @@ oldEnv ELSE oldEnv
         /\ oldTodo' = (IF more THEN Append(r.body, [r EXCEPT !.i = @ + Max({r.step, 0})]) ELSE <<>>)
                         \o Tail(oldTodo)
  /\ UNCHANGED <<oldOutcome, oldLast>>

OldRound ==
  /\ OldExec("rounds")
  /\ LET r == OldSubject
         more == IF r.step > 0 THEN r.i < r.end ELSE r.i > r.end
     IN  /\ oldEnv' = IF more THEN (r.x :> IntV(r.i)) @@ oldEnv ELSE oldEnv
         /\ oldTodo' = (IF more THEN Append(r.body, [r EXCEPT !.i = @ + r.step]) ELSE <<>>)
                         \o Tail(oldTodo)
  /\ UNCHANGED <<oldOutcome, oldLast>>

OldEndOfBlock ==
  /\ oldOutcome = "running"
  /\ oldTodo = <<>>
  /\ oldOutcome' = "ended"
  /\ UNCHANGED <<oldTodo, oldEnv, oldLast>>

\* An exception ends the program.
OldThrow ==
  /\ oldOutcome = "running"
  /\ oldTodo # <<>>
  /\ \/ OldSubject.k \in {"assign", "do", "return"} /\ OldEval(OldSubject.e) = Bad
     \/ OldSubject.k \in {"if", "while"} /\ OldEval(OldSubject.c) = Bad
     \/ OldSubject.k = "for" /\ ~OldBoundsGood
  /\ oldOutcome' = "threw"
  /\ oldTodo' = <<>>
  /\ UNCHANGED <<oldEnv, oldLast>>

OldStep ==
  \/ OldAssign \/ OldExprStmt \/ OldReturn \/ OldIf \/ OldWhile
  \/ OldFor \/ OldRound \/ OldEndOfBlock \/ OldThrow
=============================================================================
