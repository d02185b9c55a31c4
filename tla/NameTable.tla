------------------------------ MODULE NameTable ------------------------------
(***************************************************************************)
(* The names that the Rewriter of src/rewriter.h gives to variables while  *)
(* it visits a function, and what a C++ compiler makes of them.            *)
(*                                                                         *)
(* The Rewriter keeps names unique over a whole function (name_dict_,      *)
(* var_dict_).  In C++ a name belongs to the block that declares it, and   *)
(* hides one of a block around.  The scope that a variable has by its      *)
(* place in the function, whatever its name, is kept beside both.          *)
(***************************************************************************)
EXTENDS Integers, Sequences, TLC

CONSTANTS
  VarNames,   \* the names that variables have
  MaxNumber   \* how many variables, at most, are named after one other

\* map[x] = y
Put(map, x, y) == [z \in DOMAIN map \cup {x} |-> IF z = x THEN y ELSE map[z]]

\* The name of another variable of name p.
Numbered(p, n) == p \o "_" \o ToString(n)

\* A number has no underscore, so it can be told from the name before it.
ASSUME NumberAssumption ==
  /\ MaxNumber \in Nat
  /\ \A p, q \in VarNames : \A m, n \in 1..MaxNumber :
       Numbered(p, m) = Numbered(q, n) => p = q /\ m = n

VARIABLES
  names,    \* name_dict_: names that were given, and the last number behind each
  ids,      \* var_dict_: the name of each variable
  seen,     \* C++: the variable that each name refers to
  own,      \* C++: the names declared in the present block
  scope,    \* the variables whose place is in the present block or one around
  outer,    \* seen, own and scope of the blocks around
  ok,       \* C++: every name so far was known, none declared twice in a block
  meant,    \* every name so far referred to the variable it was written for
  scoped    \* every variable so far was declared once, and used in its scope

table == <<names, ids, seen, own, scope, outer, ok, meant, scoped>>

ResetState ==
  /\ names = <<>>
  /\ ids = <<>>
  /\ seen = <<>>
  /\ own = {}
  /\ scope = {}
  /\ outer = <<>>
  /\ ok = TRUE /\ meant = TRUE /\ scoped = TRUE

\* var_name: a variable that a front end makes up has a name nothing else has.
VarName(v) == IF v.n = "" THEN "__" \o ToString(v.i) ELSE v.n

\* The front ends make no other variables.
Variables == {v \in [n : STRING, i : Int, t : STRING] : VarName(v) \in VarNames}

\* Mutant of NextNumber: the counter does not go on.
NextNumberAgain(p) == IF p \in DOMAIN names THEN 1 ELSE 0

\* GetUniqueName: the first variable of a name has it, the others have it with
\* a number.
NextNumber(p) == IF p \in DOMAIN names THEN names[p] + 1 ELSE 0

\* Mutant of GetUniqueName: every variable has its name itself.
GetNameItself(p) == p

GetUniqueName(p) == IF NextNumber(p) = 0 THEN p ELSE Numbered(p, NextNumber(p))

\* A declaration: a name can be declared once in a block.  A variable that has
\* a name gets no other one: there is nothing behind the type then.
Declare(v) ==
  /\ NextNumber(VarName(v)) <= MaxNumber
  /\ IF v \in DOMAIN ids
     THEN /\ ok' = FALSE
          /\ scoped' = FALSE
          /\ UNCHANGED <<names, ids, seen, own, scope>>
     ELSE /\ names' = Put(names, VarName(v), NextNumber(VarName(v)))
          /\ ids' = Put(ids, v, GetUniqueName(VarName(v)))
          /\ ok' = (ok /\ ids'[v] \notin own)
          /\ own' = own \cup {ids'[v]}
          /\ seen' = Put(seen, ids'[v], v)
          /\ scope' = scope \cup {v}
          /\ UNCHANGED scoped
  /\ UNCHANGED <<outer, meant>>

\* GetVarID, and whether the compiler knows that name.
Seen(v) == v \in DOMAIN ids /\ ids[v] \in DOMAIN seen

\* Variables vs are written.
Use(vs) ==
  /\ ok' = (ok /\ \A v \in vs : Seen(v))
  /\ meant' = (meant /\ \A v \in vs : Seen(v) => seen[ids[v]] = v)
  /\ scoped' = (scoped /\ vs \subseteq scope)
  /\ UNCHANGED <<names, ids, seen, own, scope, outer>>

BeginScope ==
  /\ outer' = Append(outer, [seen |-> seen, own |-> own, scope |-> scope])
  /\ own' = {}
  /\ UNCHANGED <<names, ids, seen, scope, ok, meant, scoped>>

\* What a block declares ends with it; the counters go on.
EndScope ==
  /\ outer # <<>>
  /\ LET around == outer[Len(outer)] IN
     /\ seen' = around.seen
     /\ own' = around.own
     /\ scope' = around.scope
  /\ outer' = SubSeq(outer, 1, Len(outer) - 1)
  /\ UNCHANGED <<names, ids, ok, meant, scoped>>

VisitorCall ==
  \/ \E v \in Variables : Declare(v)
  \/ \E vs \in SUBSET Variables : Use(vs)
  \/ BeginScope
  \/ EndScope

\* The Rewriter, whatever it visits.
Naming == ResetState /\ [][VisitorCall]_table

-----------------------------------------------------------------------------
(* Properties. *)

TableTypeOK ==
  /\ DOMAIN names \subseteq VarNames
  /\ \A p \in DOMAIN names : names[p] \in 0..MaxNumber
  /\ DOMAIN ids \subseteq [n : STRING, i : Int, t : STRING]
  /\ \A name \in DOMAIN seen : seen[name] \in DOMAIN ids
  /\ scope \subseteq DOMAIN ids
  /\ {ok, meant, scoped} \subseteq BOOLEAN

\* No variable has a name that is another's with a number.
NoneNumbered == \A p \in DOMAIN names : \A n \in 1..MaxNumber : Numbered(p, n) \notin DOMAIN names

\* Where no variable has a name that is another's with a number, the C++
\* compiler takes the text, with every name for the variable it was written for,
\* exactly where each variable is declared once and used in its scope: no name
\* clashes with, hides or outlives another, however often it is used again
\* (rewriter.h:89-121, 291-319, 460-476).
NamesFollowScopes == NoneNumbered => (ok /\ meant <=> scoped)
=============================================================================
